--------------------------- MODULE ProgramsProofs ---------------------------
(***************************************************************************)
(* Proofs about the fish program: the list of blinkers is the heap, every  *)
(* blinker is on time, the screen follows the blinkers, and the clock's    *)
(* descriptor stays open.                                                  *)
(*                                                                         *)
(* BlinkList is computed by following pointers, so the proofs never unfold *)
(* it in a step: they name the chain of slots that the pointers form after *)
(* the step, and ChainGivesList, an induction over the hops carried out on *)
(* a least counterexample, says that the list is that chain.               *)
(***************************************************************************)
EXTENDS Programs, FiniteSetTheorems, TLAPS

----------------------------------------------------------------------------
(* Numbers *)

\* A set of natural numbers that is not empty has a least element: what an
\* induction over a length or a number of hops rests on.
LEMMA LeastElement ==
  ASSUME NEW T, T \subseteq Nat, T # {}
  PROVE  \E m \in T : \A k \in T : m <= k
<1>. DEFINE R == OpToRel(<, Nat)
<1>1. IsWellFoundedOn(R, Nat)
  BY NatLessThanWellFounded
<1>2. \A x, y \in Nat : y < x => <<y, x>> \in R
  BY DEF OpToRel
<1>. HIDE DEF R
<1>3. PICK m \in T : \A k \in T : ~ (<<k, m>> \in R)
  BY <1>1, WFMin
<1>4. \A k \in T : m <= k
  <2>1. TAKE k \in T
  <2>2. k \in Nat /\ m \in Nat /\ ~ (k < m)
    BY <1>2, <1>3
  <2>. QED BY <2>2
<1>. QED BY <1>4

\* The least element is what Min gives.
LEMMA MinFacts ==
  ASSUME NEW T, T \subseteq Nat, T # {}
  PROVE  Min(T) \in T /\ \A k \in T : Min(T) <= k
  BY LeastElement, Zenon DEF Min

\* The size of the screen.
LEMMA CellsNat == CELLS \in Nat \ {0} /\ CELLS >= 1
<1>1. COLS \in Nat /\ ROWS \in Nat /\ COLS >= 1 /\ ROWS >= 1
  BY BlinkAssumption
<1>2. \A x, y \in Nat : x >= 1 /\ y >= 1 => x * y \in Nat /\ x * y >= 1
  <2>1. TAKE x \in Nat, y \in Nat
  <2>2. HAVE x >= 1 /\ y >= 1
  <2>3. x * y = (x - 1) * (y - 1) + (x - 1) + (y - 1) + 1
    OBVIOUS
  <2>4. x - 1 \in Nat /\ y - 1 \in Nat
    BY <2>2
  <2>5. \A a, b \in Nat : a * b \in Nat
    OBVIOUS
  <2>6. (x - 1) * (y - 1) \in Nat
    BY <2>4, <2>5
  <2>. DEFINE z == (x - 1) * (y - 1)
  <2>7. x * y = z + (x - 1) + (y - 1) + 1 /\ z \in Nat
    BY <2>3, <2>6
  <2>. HIDE DEF z
  <2>. QED BY <2>2, <2>7
<1>. QED BY <1>1, <1>2 DEF CELLS

\* A sequence without repetitions of numbers up to m has at most m of them.
LEMMA Pigeonhole ==
  ASSUME NEW n \in Nat, NEW m \in Nat, NEW L \in [1 .. n -> 1 .. m],
         \A j, k \in 1 .. n : L[j] = L[k] => j = k
  PROVE  n <= m
<1>1. /\ IsFiniteSet(1 .. n) /\ Cardinality(1 .. n) = n
      /\ IsFiniteSet(1 .. m) /\ Cardinality(1 .. m) = m
  BY FS_Interval
<1>. SUFFICES ASSUME ~ (n <= m) PROVE FALSE
  OBVIOUS
<1>2. Cardinality(1 .. m) < Cardinality(1 .. n)
  BY <1>1
<1>3. \E x, y \in 1 .. n : x # y /\ L[x] = L[y]
  BY <1>1, <1>2, FS_PigeonHole
<1>. QED BY <1>3

----------------------------------------------------------------------------
(* The list *)

\* The slots of the list from its head: L is what following the NEXT
\* pointers gives, and holds the structures in use.
Chain(n, L) ==
  /\ \A j, k \in 1 .. n : L[j] = L[k] => j = k
  /\ mp1_list_head = IF n = 0 THEN NULL ELSE L[1]
  /\ \A k \in 1 .. n : blink_array[L[k]].next = IF k = n THEN NULL ELSE L[k + 1]
  /\ \A z \in Slots : blink_array[z].location # 0 <=> \E k \in 1 .. n : L[k] = z

\* f is the slot reached after each of up to m hops.
HopTo(f, m) ==
  f = [k \in 0 .. m |-> IF k = 0 THEN mp1_list_head
                        ELSE IF f[k - 1] = NULL THEN NULL
                        ELSE blink_array[f[k - 1]].next]

\* Following the pointers for any number of hops is well defined.
LEMMA HopsExist == ASSUME NEW m \in Nat PROVE \E f : HopTo(f, m)
<1>. DEFINE Bad == {n \in Nat : ~ \E f : HopTo(f, n)}
<1>. SUFFICES ASSUME Bad # {} PROVE FALSE
  OBVIOUS
<1>1. PICK n \in Bad : \A k \in Bad : n <= k
  BY LeastElement
<1>2. CASE n = 0
  <2>1. HopTo([k \in 0 .. 0 |-> mp1_list_head], 0)
    BY DEF HopTo
  <2>. QED BY <1>1, <1>2, <2>1
<1>3. CASE n # 0
  <2>1. n - 1 \in Nat /\ n - 1 \notin Bad
    BY <1>1, <1>3
  <2>2. PICK f : HopTo(f, n - 1)
    BY <2>1
  <2>. DEFINE At(k) == IF k = 0 THEN mp1_list_head
                       ELSE IF f[k - 1] = NULL THEN NULL
                       ELSE blink_array[f[k - 1]].next
              g == [k \in 0 .. n |-> At(k)]
  <2>3. f = [k \in 0 .. n - 1 |-> At(k)]
    BY <2>2 DEF HopTo
  <2>. HIDE DEF At
  <2>4. \A k \in 0 .. n - 1 : g[k] = f[k]
    BY <2>1, <2>3
  <2>5. \A k \in 0 .. n : k # 0 => g[k - 1] = f[k - 1]
    BY <2>1, <2>4
  <2>6. \A k \in 0 .. n : At(k) = IF k = 0 THEN mp1_list_head
                                  ELSE IF g[k - 1] = NULL THEN NULL
                                  ELSE blink_array[g[k - 1]].next
    BY <2>5, Zenon DEF At
  <2>7. g = [k \in 0 .. n |-> IF k = 0 THEN mp1_list_head
                              ELSE IF g[k - 1] = NULL THEN NULL
                              ELSE blink_array[g[k - 1]].next]
    <3>1. g = [k \in 0 .. n |-> At(k)]
      OBVIOUS
    <3>. HIDE DEF g
    <3>. QED BY <2>6, <3>1
  <2>8. HopTo(g, n)
    BY <2>7, Zenon DEF HopTo
  <2>. QED BY <1>1, <2>8
<1>. QED BY <1>2, <1>3

\* What Visited computes.
LEMMA VisitedHops == HopTo(Visited, CELLS)
<1>1. Visited = CHOOSE f : HopTo(f, CELLS)
  BY DEF Visited, HopTo
<1>2. \E f : HopTo(f, CELLS)
  BY CellsNat, HopsExist
<1>. QED BY <1>1, <1>2

\* The slots of a list are the ones that Visited passes, and no more.
LEMMA VisitedChain ==
  ASSUME NEW n \in 0 .. CELLS, NEW L \in [1 .. n -> Slots], Chain(n, L),
         NEW k \in 0 .. CELLS
  PROVE  Visited[k] = IF k < n THEN L[k + 1] ELSE NULL
<1>. DEFINE Right(m) == Visited[m] = IF m < n THEN L[m + 1] ELSE NULL
            Bad == {m \in 0 .. CELLS : ~ Right(m)}
<1>0. CELLS \in Nat /\ n \in Nat /\ n <= CELLS /\ NULL \notin Slots
  BY CellsNat DEF Slots, NULL
<1>1. \A m \in 0 .. CELLS :
        Visited[m] = IF m = 0 THEN mp1_list_head
                     ELSE IF Visited[m - 1] = NULL THEN NULL
                     ELSE blink_array[Visited[m - 1]].next
  BY VisitedHops DEF HopTo
<1>2. Bad = {}
  <2>. SUFFICES ASSUME Bad # {} PROVE FALSE
    OBVIOUS
  <2>0. Bad \subseteq Nat
    BY <1>0
  <2>1. PICK m \in Bad : \A j \in Bad : m <= j
    BY <2>0, LeastElement, Zenon
  <2>2. CASE m = 0
    <3>0. 0 \in 0 .. CELLS
      BY <1>0
    <3>1. Visited[0] = mp1_list_head
      BY <1>1, <3>0, Zenon
    <3>. QED BY <1>0, <2>1, <2>2, <3>1 DEF Chain
  <2>3. CASE m # 0
    <3>1. m - 1 \in 0 .. CELLS /\ m - 1 \notin Bad /\ m \in 0 .. CELLS
      BY <1>0, <2>1, <2>3
    <3>2. Visited[m - 1] = IF m - 1 < n THEN L[m] ELSE NULL
      BY <1>0, <3>1, <2>3
    <3>3. CASE m - 1 < n
      <4>1. m \in 1 .. n /\ L[m] \in Slots
        BY <1>0, <2>3, <3>1, <3>3
      <4>2. Visited[m] = blink_array[L[m]].next
        BY <1>0, <1>1, <2>3, <3>1, <3>2, <3>3, <4>1
      <4>3. Visited[m] = IF m = n THEN NULL ELSE L[m + 1]
        BY <4>1, <4>2 DEF Chain
      <4>. QED BY <1>0, <2>1, <3>1, <4>1, <4>3
    <3>4. CASE ~ (m - 1 < n)
      <4>1. Visited[m] = NULL /\ ~ (m < n)
        BY <1>0, <1>1, <2>3, <3>1, <3>2, <3>4
      <4>. QED BY <2>1, <4>1
    <3>. QED BY <3>3, <3>4
  <2>. QED BY <2>2, <2>3
<1>3. k \notin Bad
  BY <1>2
<1>. QED BY <1>3

\* The list of a chain, and where the pointers end.
ChainIsList ==
  \A n \in 0 .. CELLS : \A L \in [1 .. n -> Slots] :
    Chain(n, L) => BlinkList = L /\ Visited[CELLS] = NULL

\* If the slots of L are linked in this order, following the pointers from the
\* head gives L, and NULL after it.
LEMMA ChainGivesList == ChainIsList
<1>. SUFFICES ASSUME NEW n \in 0 .. CELLS, NEW L \in [1 .. n -> Slots], Chain(n, L)
              PROVE  BlinkList = L /\ Visited[CELLS] = NULL
  BY Zenon DEF ChainIsList
<1>0. CELLS \in Nat /\ n \in Nat /\ n <= CELLS /\ NULL \notin Slots
  BY CellsNat DEF Slots, NULL
<1>1. \A k \in 0 .. CELLS : Visited[k] = IF k < n THEN L[k + 1] ELSE NULL
  BY VisitedChain
<1>2. Visited[CELLS] = NULL
  BY <1>0, <1>1
<1>3. ASSUME NEW j \in Slots
      PROVE  /\ Visited[j - 1] # NULL <=> j \in 1 .. n
             /\ j \in 1 .. n => Visited[j - 1] = L[j]
  <2>1. j - 1 \in 0 .. CELLS /\ j - 1 + 1 = j /\ (j - 1 < n <=> j \in 1 .. n)
    BY <1>0 DEF Slots
  <2>2. j \in 1 .. n => L[j] \in Slots
    OBVIOUS
  <2>. QED BY <1>0, <1>1, <2>1, <2>2
<1>4. {j \in Slots : Visited[j - 1] # NULL} = 1 .. n
  <2>1. 1 .. n \subseteq Slots
    BY <1>0 DEF Slots
  <2>. QED BY <1>3, <2>1
<1>5. BlinkList = [k \in 1 .. n |-> Visited[k - 1]]
  BY <1>4, Zenon DEF BlinkList
<1>6. \A k \in 1 .. n : k \in Slots
  BY <1>0 DEF Slots
<1>. QED BY <1>2, <1>3, <1>5, <1>6

\* The invariant of the list.
ListInv ==
  \E n \in 0 .. CELLS : BlinkList \in [1 .. n -> Slots] /\ Chain(n, BlinkList)

\* A chain makes the invariant true.
ListMakes ==
  \A n \in 0 .. CELLS : \A L \in [1 .. n -> Slots] : Chain(n, L) => ListInv

\* Any chain will do.
LEMMA ChainMakes == ListMakes
<1>. SUFFICES ASSUME NEW n \in 0 .. CELLS, NEW L \in [1 .. n -> Slots], Chain(n, L)
              PROVE  ListInv
  BY Zenon DEF ListMakes
<1>1. BlinkList = L
  BY ChainGivesList, Zenon DEF ChainIsList
<1>. QED BY <1>1, Zenon DEF ListInv

\* A chain after a step is the list after it.
LEMMA ChainNext ==
  ASSUME NEW n \in 0 .. CELLS, NEW L \in [1 .. n -> Slots], Chain(n, L)'
  PROVE  ListInv' /\ BlinkList' = L
<1>1. ChainIsList' /\ ListMakes'
  BY ChainGivesList, ChainMakes, PTL
<1>2. CELLS' = CELLS /\ Slots' = Slots
  BY DEF CELLS, Slots
<1>. QED BY <1>1, <1>2, Zenon DEF ChainIsList, ListMakes

\* The invariant is the property.
LEMMA ListIsListInv == ListInv => ListIsHeap
<1>. SUFFICES ASSUME ListInv PROVE ListIsHeap
  OBVIOUS
<1>1. PICK n \in 0 .. CELLS : BlinkList \in [1 .. n -> Slots] /\ Chain(n, BlinkList)
  BY Zenon DEF ListInv
<1>2. Visited[CELLS] = NULL
  BY <1>1, ChainGivesList, Zenon DEF ChainIsList
<1>. DEFINE L == BlinkList
<1>. HIDE DEF L
<1>3. /\ L \in [1 .. n -> Slots] /\ DOMAIN L = 1 .. n
      /\ \A j, k \in 1 .. n : L[j] = L[k] => j = k
      /\ \A z \in Slots : blink_array[z].location # 0 <=> \E k \in 1 .. n : L[k] = z
  BY <1>1 DEF Chain, L
<1>4. IsInjective(L)
  BY <1>3 DEF IsInjective
<1>5. Range(L) = {z \in Slots : blink_array[z].location # 0}
  BY <1>3 DEF Range
<1>. QED BY <1>2, <1>4, <1>5, Zenon DEF ListIsHeap, L

\* A step that keeps the head, the pointers and the locations keeps the list.
LEMMA ListKept ==
  ASSUME ListInv, mp1_list_head' = mp1_list_head,
         \A z \in Slots : /\ blink_array'[z].next = blink_array[z].next
                          /\ blink_array'[z].location = blink_array[z].location
  PROVE  ListInv' /\ BlinkList' = BlinkList
<1>1. PICK n \in 0 .. CELLS : BlinkList \in [1 .. n -> Slots] /\ Chain(n, BlinkList)
  BY Zenon DEF ListInv
<1>. DEFINE L == BlinkList
<1>2. PICK M : M = L
  OBVIOUS
<1>. HIDE DEF L
<1>3. M \in [1 .. n -> Slots] /\ Chain(n, M)
  BY <1>1, <1>2 DEF L
<1>4. Chain(n, M)'
  BY <1>3 DEF Chain
<1>5. ListInv' /\ BlinkList' = M
  BY <1>3, <1>4, ChainNext
<1>. QED BY <1>2, <1>5 DEF L

\* After a step the list has z before all the slots it had.
Pushed(z) ==
  \E n \in 0 .. CELLS :
    /\ DOMAIN BlinkList = 1 .. n /\ DOMAIN BlinkList' = 1 .. n + 1
    /\ BlinkList'[1] = z
    /\ \A k \in 1 .. n : /\ BlinkList'[k + 1] = BlinkList[k]
                         /\ BlinkList[k] \in Slots /\ BlinkList[k] # z

\* mp1_ioctl_add: a free structure becomes the first of the list.
LEMMA ListAdd ==
  ASSUME ListInv, NEW z \in Slots, NEW r, blink_array[z].location = 0,
         DOMAIN blink_array = Slots,
         r.location # 0, r.next = mp1_list_head,
         blink_array' = [blink_array EXCEPT ![z] = r], mp1_list_head' = z
  PROVE  ListInv' /\ Pushed(z)
<1>1. PICK n \in 0 .. CELLS : BlinkList \in [1 .. n -> Slots] /\ Chain(n, BlinkList)
  BY Zenon DEF ListInv
<1>2. PICK L : L = BlinkList
  OBVIOUS
<1>3. /\ L \in [1 .. n -> Slots] /\ Chain(n, L)
      /\ n \in Nat /\ CELLS \in Nat
  BY <1>1, <1>2, CellsNat
<1>. DEFINE M == [k \in 1 .. n + 1 |-> IF k = 1 THEN z ELSE L[k - 1]]
<1>4. \A k \in 1 .. n : L[k] \in Slots /\ L[k] # z
  BY <1>3 DEF Chain
<1>5. M[1] = z /\ \A k \in 1 .. n : M[k + 1] = L[k]
  BY <1>3
<1>6. M \in [1 .. n + 1 -> Slots]
  BY <1>3, <1>4
<1>6a. \A k \in 1 .. n + 1 : k = 1 \/ (k - 1 \in 1 .. n /\ M[k] = L[k - 1])
  BY <1>3
<1>. HIDE DEF M
<1>7. \A j, k \in 1 .. n + 1 : M[j] = M[k] => j = k
  <2>1. \A j, k \in 1 .. n : L[j] = L[k] => j = k
    BY <1>3 DEF Chain
  <2>2. TAKE j \in 1 .. n + 1, k \in 1 .. n + 1
  <2>. QED BY <1>3, <1>4, <1>5, <1>6a, <2>1
<1>8. n + 1 \in 0 .. CELLS
  <2>1. M \in [1 .. n + 1 -> 1 .. CELLS] /\ n + 1 \in Nat
    BY <1>3, <1>6 DEF Slots
  <2>2. n + 1 <= CELLS
    BY <1>3, <1>7, <2>1, Pigeonhole
  <2>. QED BY <1>3, <2>1, <2>2
<1>9. \A y \in Slots : blink_array'[y] = IF y = z THEN r ELSE blink_array[y]
  OBVIOUS
<1>10. mp1_list_head' = IF n + 1 = 0 THEN NULL ELSE M[1]
  BY <1>3, <1>5
<1>11. ASSUME NEW k \in 1 .. n + 1
       PROVE  blink_array'[M[k]].next = IF k = n + 1 THEN NULL ELSE M[k + 1]
  <2>1. CASE k = 1
    <3>1. blink_array'[M[k]].next = IF n = 0 THEN NULL ELSE L[1]
      BY <1>3, <1>5, <1>9, <2>1 DEF Chain
    <3>. QED BY <1>3, <1>5, <2>1, <3>1
  <2>2. CASE k # 1
    <3>1. k - 1 \in 1 .. n /\ M[k] = L[k - 1] /\ k - 1 + 1 = k
      BY <1>3, <1>6a, <2>2
    <3>2. blink_array'[M[k]] = blink_array[L[k - 1]]
      BY <1>4, <1>9, <3>1
    <3>3. blink_array[L[k - 1]].next = IF k - 1 = n THEN NULL ELSE L[k]
      BY <1>3, <3>1 DEF Chain
    <3>4. k # n + 1 => k \in 1 .. n
      BY <1>3
    <3>. QED BY <1>3, <1>5, <3>1, <3>2, <3>3, <3>4
  <2>. QED BY <2>1, <2>2
<1>12. ASSUME NEW y \in Slots
       PROVE  blink_array'[y].location # 0 <=> \E k \in 1 .. n + 1 : M[k] = y
  <2>1. CASE y = z
    BY <1>3, <1>5, <1>9, <2>1
  <2>2. CASE y # z
    <3>1. blink_array'[y].location # 0 <=> \E k \in 1 .. n : L[k] = y
      BY <1>3, <1>9, <2>2 DEF Chain
    <3>2. (\E k \in 1 .. n : L[k] = y) => \E k \in 1 .. n + 1 : M[k] = y
      <4>1. \A k \in 1 .. n : k + 1 \in 1 .. n + 1 /\ M[k + 1] = L[k]
        BY <1>3, <1>5
      <4>. QED BY <4>1
    <3>3. (\E k \in 1 .. n + 1 : M[k] = y) => \E k \in 1 .. n : L[k] = y
      BY <1>5, <1>6a, <2>2
    <3>. QED BY <3>1, <3>2, <3>3
  <2>. QED BY <2>1, <2>2
<1>13. Chain(n + 1, M)'
  BY <1>7, <1>10, <1>11, <1>12 DEF Chain
<1>14. ListInv' /\ BlinkList' = M
  BY <1>6, <1>8, <1>13, ChainNext
<1>15. DOMAIN M = 1 .. n + 1 /\ DOMAIN BlinkList = 1 .. n
  BY <1>1 DEF M
<1>16. \A k \in 1 .. n : M[k + 1] = L[k] /\ L[k] \in Slots /\ L[k] # z
  BY <1>2, <1>4, <1>5
<1>17. M[1] = z
  BY <1>2, <1>5
<1>. QED BY <1>2, <1>14, <1>15, <1>16, <1>17, Zenon DEF Pushed

\* mp1_ioctl_remove: one structure is cleared and the pointer to it skips it.
LEMMA ListRemove ==
  ASSUME ListInv, NEW f \in Slots, blink_array[f].location # 0,
         mp1_list_head' = SkipTo(mp1_list_head, f),
         \A z \in Slots :
           IF z = f THEN blink_array'[z] = Zeroed
           ELSE /\ blink_array'[z].location = blink_array[z].location
                /\ blink_array'[z].next = SkipTo(blink_array[z].next, f)
  PROVE  /\ ListInv'
         /\ \E n \in 1 .. CELLS : \E p \in 1 .. n :
              /\ BlinkList \in [1 .. n -> Slots] /\ BlinkList[p] = f
              /\ BlinkList' = [k \in 1 .. n - 1 |-> IF k < p THEN BlinkList[k]
                                                    ELSE BlinkList[k + 1]]
              /\ \A k \in 1 .. n : BlinkList[k] = f => k = p
<1>1. PICK n \in 0 .. CELLS : BlinkList \in [1 .. n -> Slots] /\ Chain(n, BlinkList)
  BY Zenon DEF ListInv
<1>2. PICK L : L = BlinkList
  OBVIOUS
<1>3. /\ L \in [1 .. n -> Slots] /\ Chain(n, L)
      /\ n \in Nat /\ CELLS \in Nat /\ n <= CELLS
  BY <1>1, <1>2, CellsNat
<1>4. /\ \A j, k \in 1 .. n : L[j] = L[k] => j = k
      /\ mp1_list_head = IF n = 0 THEN NULL ELSE L[1]
      /\ \A k \in 1 .. n : blink_array[L[k]].next = IF k = n THEN NULL ELSE L[k + 1]
      /\ \A z \in Slots : blink_array[z].location # 0 <=> \E k \in 1 .. n : L[k] = z
      /\ \A k \in 1 .. n : L[k] \in Slots
  BY <1>3 DEF Chain
<1>5. PICK p \in 1 .. n : L[p] = f
  BY <1>4
<1>6. p \in Nat /\ p >= 1 /\ p <= n /\ n >= 1 /\ n - 1 \in Nat /\ NULL \notin Slots
  BY <1>3, <1>5 DEF NULL, Slots
<1>. DEFINE From(k) == IF k < p THEN k ELSE k + 1
            M == [k \in 1 .. n - 1 |-> IF k < p THEN L[k] ELSE L[k + 1]]
<1>7. \A k \in 1 .. n - 1 : /\ From(k) \in 1 .. n /\ From(k) # p
                            /\ M[k] = L[From(k)]
  BY <1>3, <1>6
<1>8. \A k \in 1 .. n : k # p => \E j \in 1 .. n - 1 : From(j) = k
  <2>1. TAKE k \in 1 .. n
  <2>2. HAVE k # p
  <2>3. CASE k < p
    <3>1. k \in 1 .. n - 1 /\ From(k) = k
      BY <1>6, <2>3
    <3>. QED BY <3>1
  <2>4. CASE k > p
    <3>1. k - 1 \in 1 .. n - 1 /\ From(k - 1) = k
      BY <1>6, <2>4
    <3>. QED BY <3>1
  <2>. QED BY <1>6, <2>2, <2>3, <2>4
<1>9. \A j, k \in 1 .. n - 1 : From(j) = From(k) => j = k
  BY <1>6
<1>10. SkipTo(NULL, f) = NULL /\ \A y : y # f => SkipTo(y, f) = y
  BY <1>6 DEF SkipTo
<1>10a. SkipTo(f, f) = IF p = n THEN NULL ELSE L[p + 1]
  BY <1>4, <1>5 DEF SkipTo
<1>10b. \A k \in 1 .. n : L[k] = f <=> k = p
  BY <1>4, <1>5
<1>11. ASSUME NEW k \in 1 .. n - 1
       PROVE  blink_array'[L[From(k)]].next = IF k = n - 1 THEN NULL ELSE L[From(k + 1)]
  <2>1. blink_array'[L[From(k)]].next = SkipTo(blink_array[L[From(k)]].next, f)
    BY <1>4, <1>7, <1>10b
  <2>2. blink_array[L[From(k)]].next
          = IF From(k) = n THEN NULL ELSE L[From(k) + 1]
    BY <1>4, <1>7
  <2>3. CASE k + 1 < p
    <3>1. /\ From(k) = k /\ From(k + 1) = k + 1 /\ k # n - 1 /\ From(k) # n
          /\ k + 1 \in 1 .. n /\ k + 1 # p
      BY <1>6, <2>3
    <3>. HIDE DEF From
    <3>. QED BY <1>10, <1>10b, <2>1, <2>2, <3>1
  <2>4. CASE k + 1 = p
    <3>1. /\ From(k) = k /\ From(k + 1) = p + 1 /\ From(k) # n
          /\ k = n - 1 <=> p = n
      BY <1>6, <2>4
    <3>. HIDE DEF From
    <3>2. blink_array'[L[From(k)]].next = SkipTo(f, f)
      BY <1>5, <2>1, <2>2, <2>4, <3>1
    <3>. QED BY <1>10a, <3>1, <3>2
  <2>5. CASE k + 1 > p
    <3>1. /\ From(k) = k + 1 /\ From(k + 1) = k + 2 /\ From(k) + 1 = k + 2
          /\ From(k) = n <=> k = n - 1
          /\ k # n - 1 => k + 2 \in 1 .. n /\ k + 2 # p
      BY <1>6, <2>5
    <3>. HIDE DEF From
    <3>2. CASE k = n - 1
      BY <1>10, <2>1, <2>2, <3>1, <3>2
    <3>3. CASE k # n - 1
      <4>1. L[k + 2] # f
        BY <1>10b, <3>1, <3>3
      <4>. QED BY <1>10, <2>1, <2>2, <3>1, <3>3, <4>1
    <3>. QED BY <3>2, <3>3
  <2>. QED BY <1>6, <2>3, <2>4, <2>5
<1>12. mp1_list_head' = IF n - 1 = 0 THEN NULL ELSE L[From(1)]
  <2>1. CASE p = 1
    <3>1. From(1) = 2 /\ (n - 1 = 0 <=> p = n) /\ p + 1 = 2
      BY <1>6, <2>1
    <3>. HIDE DEF From
    <3>. QED BY <1>4, <1>5, <1>6, <1>10a, <2>1, <3>1
  <2>2. CASE p # 1
    <3>1. From(1) = 1 /\ n - 1 # 0 /\ n # 0 /\ 1 \in 1 .. n /\ 1 # p
      BY <1>6, <2>2
    <3>. HIDE DEF From
    <3>. QED BY <1>4, <1>10, <1>10b, <3>1
  <2>. QED BY <2>1, <2>2
<1>13. \A k \in 1 .. n - 1 : k # n - 1 => k + 1 \in 1 .. n - 1 /\ M[k + 1] = L[From(k + 1)]
  <2>1. \A k \in 1 .. n - 1 : k # n - 1 => k + 1 \in 1 .. n - 1
    BY <1>6
  <2>. HIDE DEF M, From
  <2>. QED BY <1>7, <2>1
<1>14. n - 1 # 0 => 1 \in 1 .. n - 1
  BY <1>6
<1>15. DOMAIN M = 1 .. n - 1 /\ M = [k \in 1 .. n - 1 |-> M[k]]
  OBVIOUS
<1>. HIDE DEF M, From
<1>16. M \in [1 .. n - 1 -> Slots]
  BY <1>4, <1>7, <1>15
<1>17. \A j, k \in 1 .. n - 1 : M[j] = M[k] => j = k
  BY <1>4, <1>7, <1>9
<1>18. ASSUME NEW y \in Slots
       PROVE  blink_array'[y].location # 0 <=> \E k \in 1 .. n - 1 : M[k] = y
  <2>1. CASE y = f
    <3>1. blink_array'[y].location = 0
      BY <2>1 DEF Zeroed
    <3>2. \A k \in 1 .. n - 1 : M[k] # y
      BY <1>7, <1>10b, <2>1
    <3>. QED BY <3>1, <3>2
  <2>2. CASE y # f
    <3>1. blink_array'[y].location # 0 <=> \E k \in 1 .. n : L[k] = y
      BY <1>4, <2>2
    <3>2. (\E k \in 1 .. n : L[k] = y) => \E k \in 1 .. n - 1 : M[k] = y
      BY <1>5, <1>7, <1>8, <2>2
    <3>3. (\E k \in 1 .. n - 1 : M[k] = y) => \E k \in 1 .. n : L[k] = y
      BY <1>7
    <3>. QED BY <3>1, <3>2, <3>3
  <2>. QED BY <2>1, <2>2
<1>19. /\ \A k \in 1 .. n - 1 :
            blink_array'[M[k]].next = IF k = n - 1 THEN NULL ELSE M[k + 1]
       /\ mp1_list_head' = IF n - 1 = 0 THEN NULL ELSE M[1]
  BY <1>7, <1>11, <1>12, <1>13, <1>14
<1>20. Chain(n - 1, M)'
  BY <1>17, <1>18, <1>19 DEF Chain
<1>21. ListInv' /\ BlinkList' = M
  <2>1. n - 1 \in 0 .. CELLS
    BY <1>3, <1>6
  <2>. QED BY <1>16, <1>20, <2>1, ChainNext
<1>22. n \in 1 .. CELLS
  BY <1>3, <1>6
<1>. QED BY <1>1, <1>2, <1>5, <1>10b, <1>21, <1>22 DEF M

\* Which numbers are whose: what is open is open under one number, the clock
\* and the two files have different ones, and without one for the clock there
\* is none for a file.
OwnNumbers ==
  /\ pc = "opened" =>
       /\ \A n \in Numbers : ops[n] \notin File /\ (ops[n] = "rtc" => n = fd["rtc"])
       /\ \/ fd["rtc"] \in Numbers /\ ops[fd["rtc"]] = "rtc"
          \/ \A n \in Numbers : ops[n] # "free"
  /\ pc \in {"frames", "read", "tasklet"} =>
       /\ fd["rtc"] \in Numbers
       /\ \A n \in Numbers : ops[n] = "rtc" => n = fd["rtc"]
  /\ pc = "frames" =>
       /\ \A f \in File : fd[f] \in Numbers /\ fd[f] # fd["rtc"]
       /\ fd["frame0"] # fd["frame1"]
       /\ \A n \in Numbers, f \in File : ops[n] = f => n = fd[f]

\* What the program's reading of the frames and its loops keep.
ReadShape ==
  /\ row \in Nat /\ col \in Nat
  /\ pc \in {"open", "opened", "frames"} => stage = 1 /\ i = 0
  /\ \A f \in File : /\ pos[f] \in Nat
                     /\ pc \in {"open", "opened"} => pos[f] = 0
                     /\ pc = "frames" => /\ frame[f] \in Frames
                                         /\ pos[f] <= Len(frame[f])
  /\ pc = "tasklet" => i < Ticks(stage)
  /\ OwnNumbers
  /\ ClockStaysOpen

\* The lengths that a blinker can have.
Pairs == {<<FRAME_LENGTH, FRAME_LENGTH>>, <<ADD_ON, ADD_OFF>>}

\* A blinker b is on time when e ticks have passed.
Timed(b, e) ==
  LET t == IF b.on_length = FRAME_LENGTH THEN e ELSE e - WAIT
  IN  /\ <<b.on_length, b.off_length>> \in Pairs
      /\ t \in Nat
      /\ <<b.status, b.countdown>> = Phase(b.on_length, b.off_length, t)

\* Each blinker is on time; the ones that the tasklet has passed, those before
\* the position j, have this tick behind them.
TimeInv ==
  /\ pc # "tasklet" =>
       \A k \in DOMAIN BlinkList : Timed(blink_array[BlinkList[k]], Elapsed)
  /\ pc = "tasklet" => \E j \in 1 .. CELLS + 1 :
       /\ ebx = IF j \in DOMAIN BlinkList THEN BlinkList[j] ELSE NULL
       /\ \A k \in DOMAIN BlinkList :
            Timed(blink_array[BlinkList[k]], IF k < j THEN Elapsed + 1 ELSE Elapsed)

\* The invariant that the list, the types and the descriptors need together.
FishInv == TypeOK /\ ReadShape /\ ListInv

\* The structures, and the part of the type invariant about them.
Blinkers ==
  [location : 0 .. CELLS - 1, on_char : Chars, off_char : Chars,
   on_length : Nat, off_length : Nat, countdown : Nat,
   status : {0, 1}, next : Slots \cup {NULL}]

BlinkOK ==
  /\ blink_array \in [Slots -> Blinkers]
  /\ mp1_list_head \in Slots \cup {NULL}
  /\ video \in [0 .. CELLS - 1 -> Chars]

\* mp1_malloc gives a free structure or none.
LEMMA MallocFacts ==
  \/ mp1_malloc = NULL
  \/ mp1_malloc \in Slots /\ blink_array[mp1_malloc].location = 0
<1>. DEFINE free == {z \in Slots : blink_array[z].location = 0}
<1>1. mp1_malloc = IF free = {} THEN NULL
                   ELSE CHOOSE z \in free : \A t \in free : z <= t
  BY Zenon DEF mp1_malloc
<1>2. free \subseteq Nat
  BY CellsNat DEF Slots
<1>3. free # {} => \E z \in free : \A t \in free : z <= t
  BY <1>2, LeastElement, Zenon
<1>4. free # {} => mp1_malloc \in free
  BY <1>1, <1>3, Zenon
<1>. QED BY <1>1, <1>4

\* mp1_find_helper gives a structure of the list at the location or none.
LEMMA FindFacts ==
  ASSUME ListInv, NEW location, mp1_find_helper(location) # NULL
  PROVE  LET f == mp1_find_helper(location)
         IN  /\ f \in Slots /\ blink_array[f].location = location
             /\ blink_array[f].location # 0
             /\ \E p \in DOMAIN BlinkList :
                  /\ BlinkList[p] = f
                  /\ \A k \in DOMAIN BlinkList :
                       blink_array[BlinkList[k]].location = location => p <= k
<1>1. PICK n \in 0 .. CELLS : BlinkList \in [1 .. n -> Slots] /\ Chain(n, BlinkList)
  BY Zenon DEF ListInv
<1>2. PICK L : L = BlinkList
  OBVIOUS
<1>. DEFINE hits == {k \in DOMAIN L : blink_array[L[k]].location = location}
<1>3. hits # {} /\ mp1_find_helper(location) = L[Min(hits)]
  BY <1>2, Zenon DEF mp1_find_helper
<1>4. hits \subseteq Nat
  BY <1>1, <1>2
<1>5. Min(hits) \in hits /\ \A k \in hits : Min(hits) <= k
  BY <1>3, <1>4, MinFacts, Zenon
<1>6. L \in [1 .. n -> Slots] /\ Chain(n, L) /\ DOMAIN L = 1 .. n
  BY <1>1, <1>2
<1>7. PICK m \in hits : /\ mp1_find_helper(location) = L[m]
                        /\ \A k \in hits : m <= k
  BY <1>3, <1>5, Zenon
<1>8. /\ m \in 1 .. n /\ L[m] \in Slots /\ blink_array[L[m]].location = location
      /\ blink_array[L[m]].location # 0
  BY <1>6, <1>7 DEF Chain
<1>. QED BY <1>2, <1>6, <1>7, <1>8

\* The part of a blinker that tells the time.
Clock(b) == <<b.on_length, b.off_length, b.status, b.countdown>>

\* Every blinker after a step has the clock x or that of one before.
ClocksFrom(x) ==
  \A k \in DOMAIN BlinkList' :
    \/ Clock(blink_array'[BlinkList'[k]]) = x
    \/ \E j \in DOMAIN BlinkList :
         Clock(blink_array'[BlinkList'[k]]) = Clock(blink_array[BlinkList[j]])

ClocksKept ==
  \A k \in DOMAIN BlinkList' : \E j \in DOMAIN BlinkList :
    Clock(blink_array'[BlinkList'[k]]) = Clock(blink_array[BlinkList[j]])

\* The blinker at a position of the list, and all of it but its pointer.
Nth(k)  == blink_array[BlinkList[k]]
Seen(b) == <<b.location, b.on_char, b.off_char, b.on_length, b.off_length,
             b.status, b.countdown>>

\* What the ioctls do to the list: a new first blinker r,
Added(r) ==
  /\ r.location \in 0 .. CELLS - 1
  /\ video' = [video EXCEPT ![r.location] = r.on_char]
  /\ \E n \in 0 .. CELLS :
       /\ DOMAIN BlinkList = 1 .. n /\ DOMAIN BlinkList' = 1 .. n + 1
       /\ Nth(1)' = r
       /\ \A k \in 1 .. n : Nth(k + 1)' = Nth(k)

\* one with these fields,
AddedWith(location, on_length, off_length) ==
  \E r : /\ r.location = location /\ r.status = 1 /\ r.on_length = on_length
         /\ r.off_length = off_length /\ Added(r)

\* the first blinker at a location taken out,
Removed(location) ==
  /\ video' = video
  /\ \E n \in 1 .. CELLS : \E p \in 1 .. n :
       /\ DOMAIN BlinkList = 1 .. n /\ DOMAIN BlinkList' = 1 .. n - 1
       /\ Nth(p).location = location
       /\ \A k \in 1 .. n : Nth(k).location = location => p <= k
       /\ \A k \in 1 .. n - 1 : Seen(Nth(k)') = Seen(Nth(IF k < p THEN k ELSE k + 1))

\* or one blinker at a location adjusted.
Synced(location) ==
  /\ BlinkList' = BlinkList
  /\ \E p \in DOMAIN BlinkList :
       /\ Nth(p).location = location /\ location \in 0 .. CELLS - 1
       /\ Nth(p)'.location = location /\ Nth(p)'.off_char = Nth(p).off_char
       /\ video' = [video EXCEPT ![location] = Nth(p).off_char]
       /\ \A k \in DOMAIN BlinkList : k # p => Nth(k)' = Nth(k)

\* A step that leaves the blinkers alone.
LEMMA NothingStep ==
  ASSUME BlinkOK, ListInv, UNCHANGED blinkVars
  PROVE  BlinkOK' /\ ListInv' /\ BlinkList' = BlinkList /\ ClocksKept
<1>0. blink_array' = blink_array /\ mp1_list_head' = mp1_list_head /\ video' = video
  BY DEF blinkVars
<1>1. BlinkOK'
  BY <1>0 DEF BlinkOK
<1>2. ListInv' /\ BlinkList' = BlinkList
  BY <1>0, ListKept, Zenon
<1>3. ClocksKept
  BY <1>0, <1>2, Zenon DEF ClocksKept
<1>. QED BY <1>1, <1>2, <1>3

\* RTC_ADD: nothing, or a new first blinker with the fields asked for.
LEMMA AddStep ==
  ASSUME BlinkOK, ListInv, NEW location \in Nat \ {0},
         NEW on_char \in Chars, NEW off_char \in Chars,
         NEW on_length \in Nat, NEW off_length \in Nat,
         mp1_ioctl_add(location, on_char, off_char, on_length, off_length)
  PROVE  /\ BlinkOK' /\ ListInv'
         /\ ClocksFrom(<<on_length, off_length, 1, on_length>>)
         /\ UNCHANGED blinkVars \/ AddedWith(location, on_length, off_length)
<1>. DEFINE z == mp1_malloc
            r == [location |-> location, on_char |-> on_char,
                 off_char |-> off_char, on_length |-> on_length,
                 off_length |-> off_length, countdown |-> on_length,
                 status |-> 1, next |-> mp1_list_head]
<1>1. CASE UNCHANGED blinkVars
  BY <1>1, NothingStep, Zenon DEF ClocksKept, ClocksFrom
<1>2. CASE ~ (InvalidLocation(location) \/ z = NULL)
  <2>1. /\ blink_array' = [blink_array EXCEPT ![z] = r]
        /\ mp1_list_head' = z /\ video' = [video EXCEPT ![location] = on_char]
    BY <1>2, Zenon DEF mp1_ioctl_add, mp1_poke
  <2>2. z \in Slots /\ blink_array[z].location = 0
    BY <1>2, MallocFacts, Zenon
  <2>. HIDE DEF z
  <2>3. location \in 0 .. CELLS - 1
    BY <1>2, CellsNat DEF InvalidLocation
  <2>4. r \in Blinkers /\ r.location # 0 /\ r.next = mp1_list_head
        /\ r.location = location /\ r.on_char = on_char /\ r.status = 1
        /\ r.on_length = on_length /\ r.off_length = off_length
        /\ Clock(r) = <<on_length, off_length, 1, on_length>>
    BY <2>3 DEF Blinkers, BlinkOK, Clock
  <2>. HIDE DEF r
  <2>5. BlinkOK'
    BY <2>1, <2>2, <2>3, <2>4 DEF BlinkOK
  <2>6. DOMAIN blink_array = Slots
    BY DEF BlinkOK
  <2>7. ListInv' /\ Pushed(z)
    BY <2>1, <2>2, <2>4, <2>6, ListAdd
  <2>8. PICK n \in 0 .. CELLS :
              /\ DOMAIN BlinkList = 1 .. n /\ DOMAIN BlinkList' = 1 .. n + 1
              /\ BlinkList'[1] = z
              /\ \A k \in 1 .. n : BlinkList'[k + 1] = BlinkList[k]
                                   /\ BlinkList[k] \in Slots /\ BlinkList[k] # z
    BY <2>7, Zenon DEF Pushed
  <2>9. ASSUME NEW k \in DOMAIN BlinkList', k # 1
        PROVE  \E j \in DOMAIN BlinkList :
                  blink_array'[BlinkList'[k]] = blink_array[BlinkList[j]]
    <3>1. k - 1 \in 1 .. n /\ k - 1 + 1 = k
      BY <2>8, <2>9, CellsNat
    <3>2. /\ BlinkList'[k] = BlinkList[k - 1] /\ BlinkList[k - 1] \in Slots
          /\ BlinkList[k - 1] # z /\ k - 1 \in DOMAIN BlinkList
      BY <2>8, <3>1
    <3>3. blink_array'[BlinkList'[k]] = blink_array[BlinkList[k - 1]]
      BY <2>1, <2>2, <2>6, <3>2
    <3>. QED BY <3>2, <3>3
  <2>10. blink_array'[BlinkList'[1]] = r
    BY <2>1, <2>2, <2>6, <2>8
  <2>11. ClocksFrom(<<on_length, off_length, 1, on_length>>)
    BY <2>4, <2>9, <2>10, Zenon DEF ClocksFrom
  <2>12. Added(r)
    <3>1. Nth(1)' = r
      BY <2>10, Zenon DEF Nth
    <3>2. \A k \in 1 .. n : Nth(k + 1)' = Nth(k)
      BY <2>1, <2>2, <2>6, <2>8 DEF Nth
    <3>3. r.location \in 0 .. CELLS - 1
          /\ video' = [video EXCEPT ![r.location] = r.on_char]
      BY <2>1, <2>3, <2>4
    <3>. QED BY <2>8, <3>1, <3>2, <3>3, Zenon DEF Added
  <2>13. AddedWith(location, on_length, off_length)
    BY <2>4, <2>12, Zenon DEF AddedWith
  <2>. QED BY <2>5, <2>7, <2>11, <2>13, Zenon
<1>. QED BY <1>1, <1>2, Zenon DEF mp1_ioctl_add

\* RTC_REMOVE: nothing, or the first blinker at the location is taken out and
\* all others are kept with their clocks.
LEMMA RemoveStep ==
  ASSUME BlinkOK, ListInv, NEW location, mp1_ioctl_remove(location)
  PROVE  /\ BlinkOK' /\ ListInv' /\ ClocksKept
         /\ UNCHANGED blinkVars \/ Removed(location)
<1>. DEFINE f == mp1_find_helper(location)
<1>1. CASE f = NULL
  BY <1>1, NothingStep, Zenon DEF mp1_ioctl_remove
<1>2. CASE f # NULL
  <2>1. /\ mp1_list_head' = SkipTo(mp1_list_head, f)
        /\ blink_array' = [z \in Slots |->
                IF z = f THEN Zeroed
                ELSE [blink_array[z] EXCEPT !.next = SkipTo(@, f)]]
        /\ video' = video
    BY <1>2, Zenon DEF mp1_ioctl_remove
  <2>2. /\ f \in Slots /\ blink_array[f].location # 0
        /\ blink_array[f].location = location
        /\ \E p \in DOMAIN BlinkList :
             /\ BlinkList[p] = f
             /\ \A k \in DOMAIN BlinkList :
                  blink_array[BlinkList[k]].location = location => p <= k
    BY <1>2, FindFacts, Zenon
  <2>. HIDE DEF f
  <2>3. \A y \in Slots \cup {NULL} : SkipTo(y, f) \in Slots \cup {NULL}
    BY <2>2 DEF SkipTo, BlinkOK, Blinkers
  <2>4. Zeroed \in Blinkers
    BY CellsNat DEF Zeroed, Blinkers, Chars, NULL
  <2>5. \A z \in Slots :
           IF z = f THEN blink_array'[z] = Zeroed
           ELSE /\ blink_array'[z] \in Blinkers
                /\ blink_array'[z].location = blink_array[z].location
                /\ blink_array'[z].next = SkipTo(blink_array[z].next, f)
                /\ Clock(blink_array'[z]) = Clock(blink_array[z])
                /\ Seen(blink_array'[z]) = Seen(blink_array[z])
    <3>1. TAKE z \in Slots
    <3>2. CASE z = f
      BY <2>1, <3>2
    <3>3. CASE z # f
      <4>1. PICK b \in Blinkers : b = blink_array[z]
        BY DEF BlinkOK
      <4>2. blink_array'[z] = [b EXCEPT !.next = SkipTo(b.next, f)]
        BY <2>1, <3>3, <4>1
      <4>3. SkipTo(b.next, f) \in Slots \cup {NULL}
        BY <2>3, <4>1 DEF Blinkers
      <4>. QED BY <3>3, <4>1, <4>2, <4>3 DEF Blinkers, Clock, Seen
    <3>. QED BY <3>2, <3>3
  <2>6. BlinkOK'
    <3>1. mp1_list_head' \in Slots \cup {NULL}
      BY <2>1, <2>3 DEF BlinkOK
    <3>2. blink_array' = [z \in Slots |-> blink_array'[z]]
      BY <2>1
    <3>3. \A z \in Slots : blink_array'[z] \in Blinkers
      BY <2>4, <2>5
    <3>. QED BY <2>1, <3>1, <3>2, <3>3 DEF BlinkOK
  <2>7. /\ ListInv'
        /\ \E n \in 1 .. CELLS : \E p \in 1 .. n :
              /\ BlinkList \in [1 .. n -> Slots] /\ BlinkList[p] = f
              /\ BlinkList' = [k \in 1 .. n - 1 |-> IF k < p THEN BlinkList[k]
                                                    ELSE BlinkList[k + 1]]
              /\ \A k \in 1 .. n : BlinkList[k] = f => k = p
    BY <2>1, <2>2, <2>5, ListRemove
  <2>8. PICK n \in 1 .. CELLS, p \in 1 .. CELLS :
              /\ p \in 1 .. n
              /\ BlinkList \in [1 .. n -> Slots] /\ BlinkList[p] = f
              /\ BlinkList' = [k \in 1 .. n - 1 |-> IF k < p THEN BlinkList[k]
                                                    ELSE BlinkList[k + 1]]
              /\ \A k \in 1 .. n : BlinkList[k] = f => k = p
    <3>1. \A n \in 1 .. CELLS : \A p \in 1 .. n : p \in 1 .. CELLS
      BY CellsNat
    <3>. QED BY <2>7, <3>1, Zenon
  <2>9. ASSUME NEW k \in DOMAIN BlinkList'
        PROVE  \E j \in DOMAIN BlinkList :
                  /\ BlinkList'[k] = BlinkList[j] /\ BlinkList[j] \in Slots
                  /\ BlinkList[j] # f
    <3>. DEFINE j == IF k < p THEN k ELSE k + 1
    <3>0. DOMAIN BlinkList = 1 .. n /\ DOMAIN BlinkList' = 1 .. n - 1
      BY <2>8
    <3>1. j \in 1 .. n /\ j # p
      BY <2>8, <3>0, CellsNat
    <3>2. BlinkList'[k] = BlinkList[j]
      BY <2>8, <3>0
    <3>. HIDE DEF j
    <3>. QED BY <2>8, <3>0, <3>1, <3>2
  <2>10. ClocksKept
    BY <2>5, <2>9 DEF ClocksKept
  <2>11. Removed(location)
    <3>0. DOMAIN BlinkList = 1 .. n /\ DOMAIN BlinkList' = 1 .. n - 1
      BY <2>8
    <3>1. Nth(p).location = location /\ video' = video
      BY <2>1, <2>2, <2>8 DEF Nth
    <3>2. \A k \in 1 .. n : Nth(k).location = location => p <= k
      <4>1. PICK q \in 1 .. n :
             /\ BlinkList[q] = f
             /\ \A k \in 1 .. n :
                  blink_array[BlinkList[k]].location = location => q <= k
        BY <2>2, <3>0, Zenon
      <4>2. q = p
        BY <2>8, <4>1
      <4>. QED BY <4>1, <4>2, Zenon DEF Nth
    <3>3. ASSUME NEW k \in 1 .. n - 1
          PROVE  Seen(Nth(k)') = Seen(Nth(IF k < p THEN k ELSE k + 1))
      <4>. DEFINE j == IF k < p THEN k ELSE k + 1
      <4>1. j \in 1 .. n /\ j # p
        BY <2>8, CellsNat
      <4>2. BlinkList'[k] = BlinkList[j]
        BY <2>8
      <4>. HIDE DEF j
      <4>3. BlinkList[j] \in Slots /\ BlinkList[j] # f
        BY <2>8, <4>1
      <4>4. Seen(blink_array'[BlinkList'[k]]) = Seen(blink_array[BlinkList[j]])
        BY <2>5, <4>2, <4>3
      <4>. QED BY <4>4, Zenon DEF Nth, j
    <3>. QED BY <2>8, <3>0, <3>1, <3>2, <3>3, Zenon DEF Removed
  <2>. QED BY <2>6, <2>7, <2>10, <2>11
<1>. QED BY <1>1, <1>2

\* RTC_SYNC: nothing, or a blinker of the list takes the clock of another.
LEMMA SyncStep ==
  ASSUME BlinkOK, ListInv, NEW from, NEW to, mp1_ioctl_sync(from, to)
  PROVE  /\ BlinkOK' /\ ListInv' /\ BlinkList' = BlinkList /\ ClocksKept
         /\ UNCHANGED blinkVars \/ Synced(to)
<1>. DEFINE x == mp1_find_helper(from)
            y == mp1_find_helper(to)
<1>1. CASE x = NULL \/ y = NULL
  BY <1>1, NothingStep, Zenon DEF mp1_ioctl_sync
<1>2. CASE ~ (x = NULL \/ y = NULL)
  <2>1. /\ blink_array' = [blink_array EXCEPT ![y] =
                [@ EXCEPT !.on_length  = blink_array[x].on_length,
                          !.off_length = blink_array[x].off_length,
                          !.countdown  = blink_array[x].countdown,
                          !.status     = blink_array[x].status]]
        /\ video' = [video EXCEPT ![blink_array[y].location] = blink_array[y].off_char]
        /\ mp1_list_head' = mp1_list_head
    BY <1>2, Zenon DEF mp1_ioctl_sync, mp1_poke
  <2>2. /\ x \in Slots /\ y \in Slots
        /\ \E k \in DOMAIN BlinkList : BlinkList[k] = x
        /\ \E k \in DOMAIN BlinkList : BlinkList[k] = y
        /\ blink_array[y].location = to
    BY <1>2, FindFacts, Zenon
  <2>. HIDE DEF x, y
  <2>3. PICK a \in Blinkers, b \in Blinkers : a = blink_array[x] /\ b = blink_array[y]
    BY <2>2 DEF BlinkOK
  <2>. DEFINE r == [b EXCEPT !.on_length = a.on_length, !.off_length = a.off_length,
                             !.countdown = a.countdown, !.status = a.status]
  <2>4. /\ blink_array' = [blink_array EXCEPT ![y] = r]
        /\ video' = [video EXCEPT ![b.location] = b.off_char]
    BY <2>1, <2>2, <2>3 DEF BlinkOK
  <2>5. /\ r \in Blinkers /\ r.next = b.next /\ r.location = b.location
        /\ r.off_char = b.off_char
        /\ Clock(r) = Clock(a) /\ b.location \in 0 .. CELLS - 1 /\ b.off_char \in Chars
    BY DEF Blinkers, Clock
  <2>. HIDE DEF r
  <2>6. BlinkOK'
    BY <2>1, <2>2, <2>4, <2>5 DEF BlinkOK
  <2>7. \A z \in Slots : blink_array'[z] = IF z = y THEN r ELSE blink_array[z]
    BY <2>2, <2>4 DEF BlinkOK
  <2>8. ListInv' /\ BlinkList' = BlinkList
    <3>1. \A z \in Slots : /\ blink_array'[z].next = blink_array[z].next
                           /\ blink_array'[z].location = blink_array[z].location
      BY <2>3, <2>5, <2>7
    <3>. QED BY <2>1, <3>1, ListKept
  <2>9. ClocksKept
    <3>1. ASSUME NEW k \in DOMAIN BlinkList
          PROVE  \E j \in DOMAIN BlinkList :
                   Clock(blink_array'[BlinkList[k]]) = Clock(blink_array[BlinkList[j]])
      <4>1. BlinkList[k] \in Slots
        BY DEF ListInv
      <4>. QED BY <2>2, <2>3, <2>5, <2>7, <4>1
    <3>. QED BY <2>8, <3>1, Zenon DEF ClocksKept
  <2>10. Synced(to)
    <3>1. PICK p \in DOMAIN BlinkList : BlinkList[p] = y
      BY <2>2
    <3>2. \A k \in DOMAIN BlinkList :
            BlinkList[k] \in Slots /\ (BlinkList[k] = y => k = p)
      <4>1. PICK n \in 0 .. CELLS : BlinkList \in [1 .. n -> Slots] /\ Chain(n, BlinkList)
        BY Zenon DEF ListInv
      <4>2. DOMAIN BlinkList = 1 .. n
        BY <4>1
      <4>3. \A j, k \in 1 .. n : BlinkList[j] = BlinkList[k] => j = k
        BY <4>1, Zenon DEF Chain
      <4>. QED BY <3>1, <4>1, <4>2, <4>3
    <3>3. /\ Nth(p) = b /\ Nth(p)' = r /\ b.location = to
      BY <2>2, <2>3, <2>7, <2>8, <3>1, Zenon DEF Nth
    <3>4. \A k \in DOMAIN BlinkList : k # p => Nth(k)' = Nth(k)
      BY <2>7, <2>8, <3>2, Zenon DEF Nth
    <3>. QED BY <2>4, <2>5, <2>8, <3>1, <3>3, <3>4, Zenon DEF Synced
  <2>. QED BY <2>6, <2>8, <2>9, <2>10
<1>. QED BY <1>1, <1>2

----------------------------------------------------------------------------
(* Time *)

\* The remainder of the next number.
LEMMA ModNext ==
  ASSUME NEW t \in Nat, NEW m \in Nat \ {0}
  PROVE  /\ t % m \in Nat /\ t % m < m
         /\ (t + 1) % m = IF (t % m) + 1 = m THEN 0 ELSE (t % m) + 1
<1>. DEFINE q == t \div m
            r == t % m
            q2 == (t + 1) \div m
            r2 == (t + 1) % m
<1>1. /\ q \in Int /\ r \in Nat /\ r < m /\ t = m * q + r
  OBVIOUS
<1>2. /\ q2 \in Int /\ r2 \in Nat /\ r2 < m /\ t + 1 = m * q2 + r2
  OBVIOUS
<1>. DEFINE d == q2 - q
<1>3. d \in Int /\ m * d = r + 1 - r2
  <2>1. m * q2 = t + 1 - r2 /\ m * q = t - r /\ m * d = m * q2 - m * q
    BY <1>1, <1>2
  <2>2. m * q2 \in Int /\ m * q \in Int
    BY <1>1, <1>2
  <2>. QED BY <1>1, <1>2, <2>1, <2>2
<1>. HIDE DEF q, r, q2, r2, d
<1>4. CASE d >= 2
  <2>1. m * d >= m * 2
    BY <1>3, <1>4
  <2>. QED BY <1>1, <1>2, <1>3, <2>1
<1>5. CASE d = 1
  <2>1. m * d = m
    BY <1>5
  <2>. QED BY <1>1, <1>2, <1>3, <2>1 DEF r, r2
<1>6. CASE d = 0
  <2>1. m * d = 0
    BY <1>6
  <2>. QED BY <1>1, <1>2, <1>3, <2>1 DEF r, r2
<1>7. CASE d <= -1
  <2>1. m * d <= m * (-1)
    BY <1>3, <1>7
  <2>. QED BY <1>1, <1>2, <1>3, <2>1
<1>. QED BY <1>3, <1>4, <1>5, <1>6, <1>7

\* Zero ticks.
LEMMA PhaseZero ==
  ASSUME NEW on \in Nat \ {0}, NEW off \in Nat
  PROVE  Phase(on, off, 0) = <<1, on>>
<1>1. 0 % (on + off) = 0
  BY ModNext
<1>. QED BY <1>1 DEF Phase

\* One tick more.
LEMMA PhaseNext ==
  ASSUME NEW on \in Nat \ {0}, NEW off \in Nat \ {0}, NEW t \in Nat,
         NEW st, NEW cd, <<st, cd>> = Phase(on, off, t)
  PROVE  /\ cd \in Nat \ {0} /\ st \in {0, 1}
         /\ Phase(on, off, t + 1) =
              IF cd - 1 <= 0 THEN <<1 - st, IF st = 1 THEN off ELSE on>>
                             ELSE <<st, cd - 1>>
<1>. DEFINE m == on + off
            r == t % m
            r2 == (t + 1) % m
<1>1. m \in Nat \ {0}
  OBVIOUS
<1>2. r \in Nat /\ r < m /\ r2 = IF r + 1 = m THEN 0 ELSE r + 1
  BY <1>1, ModNext
<1>3. <<st, cd>> = IF r < on THEN <<1, on - r>> ELSE <<0, on + off - r>>
  BY Zenon DEF Phase
<1>4. Phase(on, off, t + 1)
        = IF r2 < on THEN <<1, on - r2>> ELSE <<0, on + off - r2>>
  BY Zenon DEF Phase
<1>5. m = on + off
  OBVIOUS
<1>. HIDE DEF m, r, r2
<1>6. CASE r < on
  BY <1>2, <1>3, <1>4, <1>5, <1>6
<1>7. CASE ~ (r < on)
  BY <1>2, <1>3, <1>4, <1>5, <1>7
<1>. QED BY <1>6, <1>7

\* The type invariant, with its part about the blinkers named.
Rest ==
  /\ pc \in {"open", "opened", "frames", "read", "tasklet", "done", "halted"}
  /\ ops \in [Numbers -> {"free", "leftover", "rtc"} \cup File]
  /\ fd \in [File \cup {"rtc"} -> Numbers \cup {-1}]
  /\ \A f \in File : c[f] \in Chars /\ eof[f] \in BOOLEAN
  /\ stage \in 1 .. 4 /\ i \in 0 .. Ticks(stage) /\ ebx \in Slots \cup {NULL}

TypeParts == TypeOK <=> BlinkOK /\ Rest

\* The two parts are the type invariant.
LEMMA TypeIsParts == TypeParts
  BY Zenon DEF TypeParts, TypeOK, BlinkOK, Rest, Blinkers

\* The characters that the program knows.
LEMMA CharsFacts == {" ", "\n", "0", "I", "M"} \subseteq Chars
  BY DEF Chars

\* The lengths of the loops.
LEMMA TicksNat == \A z \in 1 .. 4 : Ticks(z) \in Nat
  BY CellsNat, FishAssumption DEF Ticks

\* The next character of a frame.
LEMMA NextCharFacts ==
  ASSUME TypeOK, ReadShape, pc = "frames", NEW f \in File
  PROVE  /\ NextChar(f) \in Chars
         /\ pos[f] \in Nat /\ pos[f] <= Len(frame[f])
         /\ ~ (LineDone(f) \/ AtEnd(f)) => pos[f] + 1 <= Len(frame[f])
<1>1. frame[f] \in Frames /\ frame[f] \in Seq(STRING) /\ pos[f] \in Nat
      /\ pos[f] <= Len(frame[f])
  BY FishAssumption DEF ReadShape
<1>2. CASE LineDone(f) \/ AtEnd(f)
  BY <1>1, <1>2, CharsFacts DEF NextChar
<1>3. CASE ~ (LineDone(f) \/ AtEnd(f))
  <2>1. pos[f] # Len(frame[f])
    BY <1>3 DEF AtEnd
  <2>2. pos[f] + 1 \in 1 .. Len(frame[f]) /\ pos[f] + 1 \in DOMAIN frame[f]
    BY <1>1, <2>1
  <2>3. frame[f][pos[f] + 1] \in Range(frame[f])
    BY <2>2 DEF Range
  <2>4. frame[f][pos[f] + 1] \in Chars
    BY <1>1, <2>3 DEF Chars
  <2>. QED BY <1>1, <1>3, <2>2, <2>4 DEF NextChar
<1>. QED BY <1>2, <1>3

\* A read of a byte of each file.
LEMMA FramesRead ==
  ASSUME TypeOK, ReadShape, pc = "frames", ReadChars, frame' = frame, NEW f \in File
  PROVE  /\ pos'[f] \in Nat /\ pos'[f] <= Len(frame'[f])
         /\ eof'[f] \in BOOLEAN /\ frame'[f] \in Frames
<1>1. eof'[f] = (eof[f] \/ AtEnd(f))
  BY Zenon DEF ReadChars
<1>2. eof'[f] \in BOOLEAN
  BY <1>1, Zenon
<1>3. pos'[f] = IF LineDone(f) \/ AtEnd(f) THEN pos[f] ELSE pos[f] + 1
  BY Zenon DEF ReadChars
<1>4. pos'[f] \in Nat /\ pos'[f] <= Len(frame[f])
  BY <1>3, NextCharFacts
<1>5. frame'[f] \in Frames
  BY Zenon DEF ReadShape
<1>. QED BY <1>2, <1>4, <1>5

\* A location that FrameCell asks for.
LEMMA LocationNat ==
  ASSUME NEW r \in Nat, NEW k \in Nat PROVE Location(r, k) \in Nat \ {0}
<1>1. OFFSET \in Nat \ {0} /\ COLS \in Nat
  BY FishAssumption, BlinkAssumption, CellsNat
<1>2. r * COLS \in Nat
  BY <1>1
<1>. DEFINE z == r * COLS
<1>3. z \in Nat
  BY <1>2
<1>. HIDE DEF z
<1>4. z + k + OFFSET \in Nat \ {0}
  BY <1>1, <1>3
<1>. QED BY <1>4 DEF Location, z

\* What a blinker should show.
Shown(b) == IF b.status = 1 THEN b.on_char ELSE b.off_char

\* tasklet_loop advances one blinker of the list by a tick.
LEMMA LoopStep ==
  ASSUME BlinkOK, ListInv, NEW z \in Slots, tasklet_loop(z)
  PROVE  /\ BlinkOK' /\ ListInv' /\ BlinkList' = BlinkList
         /\ \A y \in Slots : y # z => blink_array'[y] = blink_array[y]
         /\ blink_array'[z].on_length = blink_array[z].on_length
         /\ blink_array'[z].off_length = blink_array[z].off_length
         /\ blink_array'[z].next = blink_array[z].next
         /\ blink_array'[z].location = blink_array[z].location
         /\ blink_array'[z].on_char = blink_array[z].on_char
         /\ blink_array'[z].off_char = blink_array[z].off_char
         /\ blink_array[z].location \in 0 .. CELLS - 1
         /\ video' = IF blink_array[z].countdown - 1 <= 0
                     THEN [video EXCEPT ![blink_array[z].location]
                             = Shown(blink_array'[z])]
                     ELSE video
         /\ LET b == blink_array[z]
            IN  <<blink_array'[z].status, blink_array'[z].countdown>> =
                  IF b.countdown - 1 <= 0
                  THEN <<1 - b.status, IF b.status = 1 THEN b.off_length
                                       ELSE b.on_length>>
                  ELSE <<b.status, b.countdown - 1>>
<1>1. PICK b \in Blinkers : b = blink_array[z]
  BY DEF BlinkOK
<1>. DEFINE r == IF b.countdown - 1 <= 0
                 THEN [b EXCEPT !.countdown = IF b.status = 1 THEN b.off_length
                                              ELSE b.on_length,
                                !.status = 1 - b.status]
                 ELSE [b EXCEPT !.countdown = b.countdown - 1]
<1>2. /\ blink_array' = [blink_array EXCEPT ![z] = r]
      /\ mp1_list_head' = mp1_list_head
      /\ video' = IF b.countdown - 1 <= 0
                  THEN [video EXCEPT ![b.location] = ToggledChar(b)] ELSE video
  <2>1. CASE b.countdown - 1 <= 0
    <3>1. /\ blink_array' = [blink_array EXCEPT
                   ![z].countdown = IF b.status = 1 THEN b.off_length
                                    ELSE b.on_length,
                   ![z].status = 1 - @]
          /\ video' = [video EXCEPT ![b.location] = ToggledChar(b)]
          /\ mp1_list_head' = mp1_list_head
      BY <1>1, <2>1, Zenon DEF tasklet_loop, Expired, mp1_poke
    <3>. QED BY <1>1, <2>1, <3>1 DEF BlinkOK, Blinkers
  <2>2. CASE ~ (b.countdown - 1 <= 0)
    <3>1. /\ blink_array' = [blink_array EXCEPT ![z].countdown = @ - 1]
          /\ video' = video
          /\ mp1_list_head' = mp1_list_head
      BY <1>1, <2>2, Zenon DEF tasklet_loop, Expired
    <3>. QED BY <1>1, <2>2, <3>1 DEF BlinkOK
  <2>. QED BY <2>1, <2>2
<1>3. /\ r \in Blinkers /\ r.next = b.next /\ r.location = b.location
      /\ r.on_length = b.on_length /\ r.off_length = b.off_length
      /\ r.on_char = b.on_char /\ r.off_char = b.off_char
      /\ <<r.status, r.countdown>> =
                  IF b.countdown - 1 <= 0
                  THEN <<1 - b.status, IF b.status = 1 THEN b.off_length
                                       ELSE b.on_length>>
                  ELSE <<b.status, b.countdown - 1>>
  <2>1. CASE b.countdown - 1 <= 0
    <3>1. 1 - b.status \in {0, 1}
      BY DEF Blinkers
    <3>. DEFINE cd == IF b.status = 1 THEN b.off_length ELSE b.on_length
    <3>2. cd \in Nat
      BY DEF Blinkers
    <3>3. r = [b EXCEPT !.countdown = cd, !.status = 1 - b.status]
      BY <2>1
    <3>. HIDE DEF cd, r
    <3>4. /\ r \in Blinkers /\ r.next = b.next /\ r.location = b.location
          /\ r.on_length = b.on_length /\ r.off_length = b.off_length
          /\ r.on_char = b.on_char /\ r.off_char = b.off_char
          /\ r.status = 1 - b.status /\ r.countdown = cd
      BY <3>1, <3>2, <3>3 DEF Blinkers
    <3>. QED BY <2>1, <3>4 DEF cd
  <2>2. CASE ~ (b.countdown - 1 <= 0)
    <3>1. b.countdown - 1 \in Nat
      BY <2>2 DEF Blinkers
    <3>. QED BY <2>2, <3>1 DEF Blinkers
  <2>. QED BY <2>1, <2>2
<1>4. b.location \in 0 .. CELLS - 1 /\ ToggledChar(b) \in Chars
  BY DEF Blinkers, ToggledChar
<1>. HIDE DEF r
<1>5. \A y \in Slots : blink_array'[y] = IF y = z THEN r ELSE blink_array[y]
  BY <1>2 DEF BlinkOK
<1>6. BlinkOK'
  BY <1>2, <1>3, <1>4 DEF BlinkOK
<1>8. b.countdown - 1 <= 0 => ToggledChar(b) = Shown(r)
  <2>. SUFFICES ASSUME b.countdown - 1 <= 0 PROVE ToggledChar(b) = Shown(r)
    OBVIOUS
  <2>1. r.status = 1 - b.status /\ b.status \in {0, 1}
    BY <1>3 DEF Blinkers
  <2>. QED BY <1>3, <2>1 DEF ToggledChar, Shown
<1>9. video' = IF b.countdown - 1 <= 0
               THEN [video EXCEPT ![b.location] = Shown(r)] ELSE video
  BY <1>2, <1>8
<1>7. ListInv' /\ BlinkList' = BlinkList
  <2>1. \A y \in Slots : /\ blink_array'[y].next = blink_array[y].next
                         /\ blink_array'[y].location = blink_array[y].location
    BY <1>1, <1>3, <1>5
  <2>. QED BY <1>2, <2>1, ListKept
<1>. QED BY <1>1, <1>3, <1>4, <1>5, <1>6, <1>7, <1>9

(* What each action does to the blinkers. *)
LEMMA BlinkStep ==
  ASSUME TypeOK, ReadShape, ListInv, Next
  PROVE  BlinkOK' /\ ListInv'
<1>0. BlinkOK /\ Rest
  BY TypeIsParts DEF TypeParts
<1>1. CASE UNCHANGED blinkVars
  BY <1>0, <1>1, NothingStep, Zenon
<1>2. CASE FrameCell
  <2>. DEFINE char == [f \in File |-> NextChar(f)]
              Drawn(f) == IF char[f] = "\n" THEN " " ELSE char[f]
  <2>1. \/ UNCHANGED blinkVars
        \/ mp1_ioctl_add(Location(row, col), Drawn("frame0"),
                            Drawn("frame1"), FRAME_LENGTH, FRAME_LENGTH)
    BY <1>2, Zenon DEF FrameCell
  <2>2. Drawn("frame0") \in Chars /\ Drawn("frame1") \in Chars
    <3>1. pc = "frames"
      BY <1>2, Zenon DEF FrameCell
    <3>2. \A f \in File : NextChar(f) \in Chars
      BY <3>1, NextCharFacts, Zenon
    <3>. QED BY <3>2, CharsFacts DEF File
  <2>3. Location(row, col) \in Nat \ {0} /\ FRAME_LENGTH \in Nat
    BY LocationNat, FishAssumption DEF ReadShape
  <2>. HIDE DEF Drawn
  <2>. QED BY <1>0, <1>1, <2>1, <2>2, <2>3, AddStep
<1>3. CASE mp1_rtc_tasklet
  <2>1. ebx \in Slots /\ tasklet_loop(ebx)
    BY <1>0, <1>3, Zenon DEF mp1_rtc_tasklet, Rest
  <2>. QED BY <1>0, <2>1, LoopStep
<1>4. CASE Between
  <2>1. \/ UNCHANGED blinkVars
        \/ mp1_ioctl_add(ADD_LOCATION, "I", "M", ADD_ON, ADD_OFF)
        \/ mp1_ioctl_sync(OFFSET, ADD_LOCATION)
        \/ mp1_ioctl_remove(i)
    <3>1. stage \in {1, 2, 3, 4}
      BY <1>0 DEF Rest
    <3>. QED BY <1>4, <3>1, Zenon DEF Between
  <2>2. /\ ADD_LOCATION \in Nat \ {0} /\ ADD_ON \in Nat /\ ADD_OFF \in Nat
        /\ "I" \in Chars /\ "M" \in Chars
    <3>1. ADD_LOCATION \in 1 .. CELLS - 1 /\ CELLS \in Nat
      BY FishAssumption, CellsNat
    <3>2. ADD_ON \in Nat /\ ADD_OFF \in Nat
      BY FishAssumption
    <3>3. "I" \in Chars /\ "M" \in Chars
      BY CharsFacts
    <3>4. ADD_LOCATION \in Nat \ {0}
      BY <3>1
    <3>. QED BY <3>2, <3>3, <3>4
  <2>. QED BY <1>0, <1>1, <2>1, <2>2, AddStep, SyncStep, RemoveStep
<1>. QED BY <1>1, <1>2, <1>3, <1>4, Zenon
     DEF Next, OpenClock, OpenFrames, FrameRow, ReadClock, TaskletEnd

\* What a descriptor can be open for.
Entries == {"free", "leftover", "rtc"} \cup File

\* An open takes the lowest free number and no other.
LEMMA OpenedFacts ==
  ASSUME NEW t \in [Numbers -> Entries], NEW x \in Entries
  PROVE  /\ LowestFree(t) \in Numbers \cup {-1}
         /\ LowestFree(t) # -1 => LowestFree(t) \in Numbers /\ t[LowestFree(t)] = "free"
         /\ LowestFree(t) = -1 => \A n \in Numbers : t[n] # "free"
         /\ Opened(t, x) \in [Numbers -> Entries]
         /\ \A n \in Numbers : Opened(t, x)[n] = IF n = LowestFree(t) THEN x ELSE t[n]
<1>1. Opened(t, x) = [n \in Numbers |-> IF n = LowestFree(t) THEN x ELSE t[n]]
  BY Zenon DEF Opened
<1>2. /\ Opened(t, x) \in [Numbers -> Entries]
      /\ \A n \in Numbers : Opened(t, x)[n] = IF n = LowestFree(t) THEN x ELSE t[n]
  BY <1>1
<1>3. CASE FreeNumbers(t) = {}
  <2>1. LowestFree(t) = -1
    BY <1>3 DEF LowestFree
  <2>2. \A n \in Numbers : t[n] # "free"
    BY <1>3 DEF FreeNumbers
  <2>. QED BY <1>2, <2>1, <2>2
<1>4. CASE FreeNumbers(t) # {}
  <2>1. FreeNumbers(t) \subseteq Numbers /\ Numbers \subseteq Nat /\ -1 \notin Numbers
    BY FishAssumption DEF FreeNumbers, Numbers
  <2>2. LowestFree(t) \in FreeNumbers(t)
    BY <1>4, <2>1, MinFacts DEF LowestFree
  <2>3. LowestFree(t) \in Numbers /\ t[LowestFree(t)] = "free" /\ LowestFree(t) # -1
    BY <2>1, <2>2 DEF FreeNumbers
  <2>. QED BY <1>2, <2>3
<1>. QED BY <1>3, <1>4

\* The clock is opened, or the table is full.
LEMMA OpenClockStep ==
  ASSUME Rest, ReadShape, OpenClock
  PROVE  Rest' /\ ReadShape'
<1>1. PICK used \in LeftoverSets :
        LET given == [n \in Numbers |-> IF n \in used THEN "leftover" ELSE "free"]
        IN  /\ ops' = Opened(given, "rtc")
            /\ fd' = [fd EXCEPT !["rtc"] = LowestFree(given)]
  BY Zenon DEF OpenClock
<1>. DEFINE given == [n \in Numbers |-> IF n \in used THEN "leftover" ELSE "free"]
            k == LowestFree(given)
<1>2. /\ pc = "open" /\ pc' = "opened" /\ ops' = Opened(given, "rtc")
      /\ fd' = [fd EXCEPT !["rtc"] = k]
      /\ UNCHANGED <<frame, pos, c, eof, row, col, stage, i, ebx>>
  BY <1>1, Zenon DEF OpenClock, loopVars
<1>3. /\ given \in [Numbers -> Entries] /\ "rtc" \in Entries
      /\ \A n \in Numbers : given[n] \in {"leftover", "free"}
  BY DEF Entries
<1>. HIDE DEF given
<1>4. /\ k \in Numbers \cup {-1}
      /\ k # -1 => k \in Numbers
      /\ k = -1 => \A n \in Numbers : given[n] # "free"
      /\ ops' \in [Numbers -> Entries]
      /\ \A n \in Numbers : ops'[n] = IF n = k THEN "rtc" ELSE given[n]
  BY <1>2, <1>3, OpenedFacts
<1>. HIDE DEF k
<1>5. fd' \in [File \cup {"rtc"} -> Numbers \cup {-1}] /\ fd'["rtc"] = k
  BY <1>2, <1>4 DEF Rest
<1>6. Rest'
  BY <1>2, <1>4, <1>5 DEF Rest, Entries
<1>7. OwnNumbers'
  <2>1. \A n \in Numbers : ops'[n] \notin File /\ (ops'[n] = "rtc" => n = k)
    BY <1>3, <1>4 DEF File
  <2>2. \/ k \in Numbers /\ ops'[k] = "rtc"
        \/ \A n \in Numbers : ops'[n] # "free"
    <3>1. CASE k = -1
      BY <1>3, <1>4, <3>1
    <3>2. CASE k # -1
      BY <1>4, <3>2
    <3>. QED BY <3>1, <3>2
  <2>. QED BY <1>2, <1>5, <2>1, <2>2 DEF OwnNumbers
<1>8. ClockStaysOpen'
  BY <1>2 DEF ClockStaysOpen
<1>. QED BY <1>2, <1>6, <1>7, <1>8 DEF ReadShape

\* The two files are opened, each under a number of its own.
LEMMA OpenFramesStep ==
  ASSUME Rest, ReadShape, OpenFrames
  PROVE  Rest' /\ ReadShape'
<1>. DEFINE fd0 == LowestFree(ops)
            ops0 == Opened(ops, "frame0")
            fd1 == LowestFree(ops0)
            ops1 == Opened(ops0, "frame1")
<1>1. /\ pc = "opened" /\ UNCHANGED <<pos, c, eof, row, col, stage, i, ebx>>
      /\ frame' \in [File -> Frames \cup {NoFile}]
      /\ \/ pc' = "halted" /\ ops' = ops /\ fd' = fd
         \/ /\ pc' = "frames" /\ fd0 # -1 /\ fd1 # -1 /\ ops' = ops1
            /\ fd' = [fd EXCEPT !["frame0"] = fd0, !["frame1"] = fd1]
            /\ \A f \in File : frame'[f] \in Frames
  <2>1. /\ pc = "opened" /\ UNCHANGED <<pos, c, eof, row, col, stage, i, ebx>>
        /\ frame' \in [File -> Frames \cup {NoFile}]
        /\ IF fd0 = -1 \/ fd1 = -1 \/ \E f \in File : frame'[f] = NoFile
           THEN pc' = "halted" /\ ops' = ops /\ fd' = fd
           ELSE /\ pc' = "frames" /\ ops' = ops1
                /\ fd' = [fd EXCEPT !["frame0"] = fd0, !["frame1"] = fd1]
    BY Zenon DEF OpenFrames, loopVars
  <2>. HIDE DEF fd0, fd1, ops1
  <2>. QED BY <2>1
<1>2. CASE pc' = "halted" /\ ops' = ops /\ fd' = fd
  BY <1>1, <1>2 DEF Rest, ReadShape, OwnNumbers, ClockStaysOpen
<1>3. CASE /\ pc' = "frames" /\ fd0 # -1 /\ fd1 # -1 /\ ops' = ops1
           /\ fd' = [fd EXCEPT !["frame0"] = fd0, !["frame1"] = fd1]
           /\ \A f \in File : frame'[f] \in Frames
  <2>1. ops \in [Numbers -> Entries] /\ "frame0" \in Entries /\ "frame1" \in Entries
    BY DEF Rest, Entries, File
  <2>2. /\ fd0 \in Numbers /\ ops[fd0] = "free" /\ ops0 \in [Numbers -> Entries]
        /\ \A n \in Numbers : ops0[n] = IF n = fd0 THEN "frame0" ELSE ops[n]
    BY <1>3, <2>1, OpenedFacts
  <2>. HIDE DEF fd0, ops0
  <2>3. /\ fd1 \in Numbers /\ ops0[fd1] = "free" /\ ops1 \in [Numbers -> Entries]
        /\ \A n \in Numbers : ops1[n] = IF n = fd1 THEN "frame1" ELSE ops0[n]
    BY <1>3, <2>1, <2>2, OpenedFacts
  <2>. HIDE DEF fd1, ops1
  <2>4. /\ fd' \in [File \cup {"rtc"} -> Numbers \cup {-1}]
        /\ fd'["rtc"] = fd["rtc"] /\ fd'["frame0"] = fd0 /\ fd'["frame1"] = fd1
    BY <1>3, <2>2, <2>3 DEF Rest, File
  <2>5. /\ fd["rtc"] \in Numbers /\ ops[fd["rtc"]] = "rtc"
        /\ \A n \in Numbers : ops[n] \notin File /\ (ops[n] = "rtc" => n = fd["rtc"])
    <3>1. /\ \A n \in Numbers : ops[n] \notin File /\ (ops[n] = "rtc" => n = fd["rtc"])
          /\ \/ fd["rtc"] \in Numbers /\ ops[fd["rtc"]] = "rtc"
             \/ \A n \in Numbers : ops[n] # "free"
      BY <1>1, Zenon DEF ReadShape, OwnNumbers
    <3>2. fd0 \in Numbers /\ ops[fd0] = "free"
      BY <2>2
    <3>3. fd["rtc"] \in Numbers /\ ops[fd["rtc"]] = "rtc"
      BY <3>1, <3>2, Zenon
    <3>. QED BY <3>1, <3>3, Zenon
  <2>6. fd0 # fd1 /\ fd0 # fd["rtc"] /\ fd1 # fd["rtc"]
    BY <2>2, <2>3, <2>5
  <2>7. Rest'
    BY <1>1, <1>3, <2>3, <2>4 DEF Rest, Entries
  <2>8. OwnNumbers'
    BY <1>3, <2>2, <2>3, <2>4, <2>5, <2>6 DEF OwnNumbers, File
  <2>9. ClockStaysOpen'
    BY <1>3, <2>2, <2>3, <2>4, <2>5, <2>6 DEF ClockStaysOpen, File
  <2>10. ASSUME NEW f \in File
         PROVE  pos'[f] = 0 /\ pos'[f] <= Len(frame'[f])
    <3>1. frame'[f] \in Seq(STRING)
      BY <1>3, FishAssumption
    <3>2. pos'[f] = 0
      BY <1>1 DEF ReadShape
    <3>. QED BY <3>1, <3>2
  <2>. QED BY <1>1, <1>3, <2>7, <2>8, <2>9, <2>10 DEF ReadShape
<1>. QED BY <1>1, <1>2, <1>3

\* The closes at the end of a line take the numbers of the files at their end.
LEMMA CloseEndedStep ==
  ASSUME Rest, ReadShape, pc = "frames", fd' = fd,
         NEW ended \in SUBSET File,
         \A f \in File : eof'[f] \in BOOLEAN,
         ended = {f \in File : eof'[f]},
         \A f \in File : eof[f] => eof'[f],
         ops' = CloseEnded(ended),
         pc' = IF \A f \in File : eof'[f] THEN "read" ELSE "frames"
  PROVE  ops' \in [Numbers -> Entries] /\ OwnNumbers' /\ ClockStaysOpen'
<1>1. /\ ops \in [Numbers -> Entries]
      /\ ops' = [n \in Numbers |-> IF n \in {fd[f] : f \in ended} THEN "free" ELSE ops[n]]
  BY DEF CloseEnded, Closed, Rest, Entries
<1>2. /\ ops' \in [Numbers -> Entries]
      /\ \A n \in Numbers : ops'[n] \in {"free", ops[n]}
      /\ \A n \in Numbers : n \in {fd[f] : f \in ended} => ops'[n] = "free"
      /\ \A n \in Numbers : n \notin {fd[f] : f \in ended} => ops'[n] = ops[n]
  BY <1>1 DEF Entries
<1>3. /\ fd["rtc"] \in Numbers /\ ops[fd["rtc"]] = "rtc"
      /\ \A n \in Numbers : ops[n] = "rtc" => n = fd["rtc"]
      /\ \A f \in File : fd[f] \in Numbers /\ fd[f] # fd["rtc"]
      /\ fd["frame0"] # fd["frame1"]
      /\ \A n \in Numbers, f \in File : ops[n] = f => n = fd[f]
      /\ \A f \in File : eof[f] \/ ops[fd[f]] = f
  BY DEF ReadShape, OwnNumbers, ClockStaysOpen
<1>4. ops'[fd["rtc"]] = "rtc"
  BY <1>2, <1>3
<1>5. \A n \in Numbers : ops'[n] = "rtc" => n = fd["rtc"]
  BY <1>2, <1>3
<1>6. \A n \in Numbers, f \in File : ops'[n] = f => n = fd[f]
  BY <1>2, <1>3 DEF File
<1>7. \A f \in File : eof'[f] \/ ops'[fd[f]] = f
  <2>1. TAKE f \in File
  <2>2. SUFFICES ASSUME ~ eof'[f] PROVE ops'[fd[f]] = f
    OBVIOUS
  <2>3. f \notin ended /\ ops[fd[f]] = f
    BY <1>3, <2>2
  <2>4. fd[f] \notin {fd[g] : g \in ended}
    BY <1>3, <2>3 DEF File
  <2>. QED BY <1>2, <1>3, <2>3, <2>4
<1>8. (\A f \in File : eof'[f]) => \A n \in Numbers : ops'[n] \notin File
  <2>. SUFFICES ASSUME \A f \in File : eof'[f], NEW n \in Numbers, ops'[n] \in File
                PROVE  FALSE
    OBVIOUS
  <2>1. n = fd[ops'[n]] /\ ops'[n] \in ended
    BY <1>6
  <2>2. ops'[n] = "free"
    BY <1>2, <2>1
  <2>. QED BY <2>2 DEF File
<1>9. OwnNumbers'
  BY <1>3, <1>5, <1>6 DEF OwnNumbers
<1>10. ClockStaysOpen'
  BY <1>4, <1>7, <1>8 DEF ClockStaysOpen
<1>. QED BY <1>2, <1>9, <1>10

(* What each action does to the rest. *)
LEMMA RestStep ==
  ASSUME TypeOK, ReadShape, ListInv, Next
  PROVE  Rest' /\ ReadShape'
<1>0. BlinkOK /\ Rest /\ ReadShape /\ ClockStaysOpen
  BY TypeIsParts DEF TypeParts, ReadShape
<1>1. CASE OpenClock
  BY <1>0, <1>1, OpenClockStep
<1>1a. CASE OpenFrames
  BY <1>0, <1>1a, OpenFramesStep
<1>2. CASE FrameCell
  <2>1. /\ pc = "frames" /\ UNCHANGED <<pc, frame, ops, fd, row, stage, i, ebx>>
        /\ c' = [f \in File |-> NextChar(f)] /\ col' = col + 1 /\ ReadChars
    BY <1>2, Zenon DEF FrameCell, loopVars
  <2>2. ASSUME NEW f \in File
        PROVE  /\ pos'[f] \in Nat /\ pos'[f] <= Len(frame'[f])
               /\ eof'[f] \in BOOLEAN /\ frame'[f] \in Frames
    BY <1>0, <2>1, FramesRead, Zenon DEF ReadShape
  <2>3. \A f \in File : c'[f] \in Chars
    BY <2>1, NextCharFacts
  <2>4. Rest'
    BY <1>0, <2>1, <2>2, <2>3 DEF Rest
  <2>5. \A f \in File : eof[f] => eof'[f]
    BY <2>1 DEF ReadChars
  <2>6. OwnNumbers' /\ ClockStaysOpen'
    BY <1>0, <2>1, <2>5 DEF ReadShape, OwnNumbers, ClockStaysOpen
  <2>7. ReadShape'
    BY <1>0, <2>1, <2>2, <2>6 DEF ReadShape
  <2>. QED BY <2>4, <2>7
<1>3. CASE FrameRow
  <2>1. /\ pc = "frames" /\ UNCHANGED <<frame, fd, stage, i, ebx>>
        /\ c' = [f \in File |-> IF eof'[f] THEN "\n" ELSE "0"]
        /\ col' = 0 /\ row' = row + 1 /\ ReadChars
        /\ ops' = CloseEnded({f \in File : eof'[f]})
        /\ pc' = IF \A f \in File : eof'[f] THEN "read" ELSE "frames"
    BY <1>3, Zenon DEF FrameRow, loopVars
  <2>2. ASSUME NEW f \in File
        PROVE  /\ pos'[f] \in Nat /\ pos'[f] <= Len(frame'[f])
               /\ eof'[f] \in BOOLEAN /\ frame'[f] \in Frames
    BY <1>0, <2>1, FramesRead, Zenon DEF ReadShape
  <2>3. \A f \in File : c'[f] \in Chars
    BY <2>1, CharsFacts
  <2>4. \A f \in File : eof[f] => eof'[f]
    BY <2>1 DEF ReadChars
  <2>5. ops' \in [Numbers -> Entries] /\ OwnNumbers' /\ ClockStaysOpen'
    <3>. DEFINE ended == {f \in File : eof'[f]}
    <3>1. ended \in SUBSET File /\ \A f \in File : eof'[f] \in BOOLEAN
      BY <2>2
    <3>2. ops' = CloseEnded(ended)
      BY <2>1
    <3>. HIDE DEF ended
    <3>3. ended = {f \in File : eof'[f]}
      BY DEF ended
    <3>. QED BY <1>0, <2>1, <2>4, <3>1, <3>2, <3>3, CloseEndedStep
  <2>6. Rest'
    BY <1>0, <2>1, <2>2, <2>3, <2>5 DEF Rest, Entries
  <2>7. ReadShape'
    BY <1>0, <2>1, <2>2, <2>5 DEF ReadShape
  <2>. QED BY <2>6, <2>7
<1>4. CASE ReadClock
  <2>1. /\ pc = "read" /\ pc' = "tasklet" /\ i < Ticks(stage)
        /\ ebx' = mp1_list_head
        /\ UNCHANGED <<frame, ops, fd, pos, c, eof, row, col, stage, i>>
    BY <1>4, Zenon DEF ReadClock, framesVars
  <2>. QED BY <1>0, <2>1 DEF BlinkOK, Rest, ReadShape, OwnNumbers, ClockStaysOpen
<1>5. CASE mp1_rtc_tasklet
  <2>1. /\ pc = "tasklet" /\ ebx # NULL /\ ebx' = blink_array[ebx].next
        /\ UNCHANGED <<pc, frame, ops, fd, pos, c, eof, row, col, stage, i>>
    BY <1>5, Zenon DEF mp1_rtc_tasklet, framesVars
  <2>2. ebx' \in Slots \cup {NULL}
    BY <1>0, <2>1 DEF BlinkOK, Blinkers, Rest
  <2>. QED BY <1>0, <2>1, <2>2 DEF Rest, ReadShape, OwnNumbers, ClockStaysOpen
<1>6. CASE TaskletEnd
  <2>1. /\ pc = "tasklet" /\ pc' = "read" /\ i' = i + 1
        /\ UNCHANGED <<frame, ops, fd, pos, c, eof, row, col, stage, ebx>>
    BY <1>6, Zenon DEF TaskletEnd, framesVars
  <2>2. i' \in 0 .. Ticks(stage')
    <3>1. /\ stage' = stage /\ i \in 0 .. Ticks(stage) /\ i < Ticks(stage)
          /\ Ticks(stage) \in Nat
      BY <1>0, <2>1, TicksNat DEF Rest, ReadShape
    <3>. QED BY <2>1, <3>1
  <2>. QED BY <1>0, <2>1, <2>2 DEF Rest, ReadShape, OwnNumbers, ClockStaysOpen
<1>7. CASE Between
  <2>1. /\ pc = "read" /\ UNCHANGED <<frame, fd, pos, c, eof, row, col, ebx>>
        /\ \/ /\ stage = 4 /\ pc' = "done" /\ ops' = Closed({fd["rtc"]})
              /\ UNCHANGED <<stage, i>>
           \/ /\ stage # 4 /\ stage' = stage + 1 /\ i' = 0 /\ pc' = pc /\ ops' = ops
    BY <1>7, Zenon DEF Between
  <2>2. stage' \in 1 .. 4
    BY <1>0, <2>1 DEF Rest
  <2>3. i' \in 0 .. Ticks(stage')
    <3>1. CASE stage = 4
      BY <1>0, <2>1, <3>1, Zenon DEF Rest
    <3>2. CASE stage # 4
      <4>1. i' = 0 /\ Ticks(stage') \in Nat
        BY <2>1, <2>2, <3>2, TicksNat
      <4>. QED BY <4>1
    <3>. QED BY <3>1, <3>2
  <2>4. /\ fd["rtc"] \in Numbers /\ ops \in [Numbers -> Entries]
        /\ \A n \in Numbers : ops[n] \notin File /\ (ops[n] = "rtc" => n = fd["rtc"])
    BY <1>0, <2>1 DEF Rest, Entries, ReadShape, OwnNumbers, ClockStaysOpen
  <2>5. CASE stage = 4
    <3>1. ops' = [n \in Numbers |-> IF n \in {fd["rtc"]} THEN "free" ELSE ops[n]]
      BY <2>1, <2>5 DEF Closed
    <3>2. /\ ops' \in [Numbers -> Entries]
          /\ \A n \in Numbers : ops'[n] \in {"free", "leftover"}
      BY <2>4, <3>1 DEF Entries
    <3>. QED BY <1>0, <2>1, <2>2, <2>3, <2>5, <3>2
         DEF Rest, Entries, ReadShape, OwnNumbers, ClockStaysOpen
  <2>6. CASE stage # 4
    BY <1>0, <2>1, <2>2, <2>3, <2>6 DEF Rest, ReadShape, OwnNumbers, ClockStaysOpen
  <2>. QED BY <2>5, <2>6
<1>. QED BY <1>1, <1>1a, <1>2, <1>3, <1>4, <1>5, <1>6, <1>7 DEF Next

\* A step of the two programs is a step of fish or leaves it alone.
LEMMA FishAlone == [ProgramsNext]_<<vars, grepVars>> => [Next]_vars
  BY Zenon DEF ProgramsNext, vars, grepVars

\* The invariants hold at the start, with an empty list.
LEMMA FishInit == Init => FishInv /\ TimeInv
<1>. SUFFICES ASSUME Init PROVE FishInv /\ TimeInv
  OBVIOUS
<1>1. /\ blink_array = [z \in Slots |-> Zeroed] /\ mp1_list_head = NULL
      /\ video = [p \in 0 .. CELLS - 1 |-> " "]
  BY Zenon DEF Init, BlinkInit
<1>2. /\ pc = "open" /\ ops = [n \in Numbers |-> "free"]
      /\ fd = [x \in File \cup {"rtc"} |-> -1] /\ pos = [f \in File |-> 0]
      /\ c = [f \in File |-> "0"] /\ eof = [f \in File |-> FALSE]
      /\ row = 0 /\ col = 0 /\ stage = 1 /\ i = 0 /\ ebx = NULL
  BY Zenon DEF Init
<1>3. BlinkOK
  <2>1. Zeroed \in Blinkers
    <3>1. "0" \in Chars
      BY CharsFacts
    <3>2. 0 \in 0 .. CELLS - 1
      BY CellsNat
    <3>. QED BY <3>1, <3>2 DEF Zeroed, Blinkers, NULL
  <2>2. " " \in Chars
    BY CharsFacts
  <2>. QED BY <1>1, <2>1, <2>2 DEF BlinkOK
<1>4. Rest
  <2>1. i \in 0 .. Ticks(stage) /\ stage \in 1 .. 4
    BY <1>2, TicksNat
  <2>2. \A f \in File : c[f] \in Chars /\ eof[f] \in BOOLEAN
    BY <1>2, CharsFacts
  <2>. QED BY <1>2, <2>1, <2>2 DEF Rest
<1>5. ReadShape
  BY <1>2 DEF ReadShape, OwnNumbers, ClockStaysOpen
<1>. DEFINE L == [k \in 1 .. 0 |-> NULL]
<1>6. 0 \in 0 .. CELLS /\ L \in [1 .. 0 -> Slots] /\ 1 .. 0 = {}
  BY CellsNat
<1>7. Chain(0, L)
  BY <1>1, <1>6 DEF Chain, Zeroed
<1>8. ListInv /\ BlinkList = L
  BY <1>6, <1>7, ChainMakes, ChainGivesList, Zenon DEF ListMakes, ChainIsList
<1>9. DOMAIN BlinkList = {}
  BY <1>6, <1>8
<1>10. TimeInv
  BY <1>2, <1>9 DEF TimeInv
<1>. QED BY <1>3, <1>4, <1>5, <1>8, <1>10, TypeIsParts DEF FishInv, TypeParts

\* Every action keeps the first invariant.
LEMMA FishStep == FishInv /\ [Next]_vars => FishInv'
<1>. SUFFICES ASSUME FishInv, [Next]_vars PROVE FishInv'
  OBVIOUS
<1>0. TypeOK /\ ReadShape /\ ListInv /\ TypeParts'
  <2>1. TypeParts'
    BY TypeIsParts, PTL
  <2>. QED BY <2>1 DEF FishInv
<1>1. CASE Next
  BY <1>0, <1>1, BlinkStep, RestStep DEF FishInv, TypeParts
<1>2. CASE UNCHANGED vars
  <2>1. UNCHANGED <<blinkVars, pc, frame, ops, fd, pos, c, eof, row, col, stage, i, ebx>>
    BY <1>2, Zenon DEF vars, framesVars, loopVars
  <2>2. ListInv' /\ BlinkOK'
    BY <1>0, <2>1, NothingStep, TypeIsParts DEF TypeParts
  <2>3. Rest'
    BY <1>0, <2>1, TypeIsParts, Zenon DEF TypeParts, Rest
  <2>4. ReadShape'
    <3>1. OwnNumbers'
      BY <1>0, <2>1, Zenon DEF ReadShape, OwnNumbers
    <3>2. ClockStaysOpen'
      BY <1>0, <2>1, Zenon DEF ReadShape, ClockStaysOpen
    <3>. QED BY <1>0, <2>1, <3>1, <3>2, Zenon DEF ReadShape
  <2>. QED BY <1>0, <2>2, <2>3, <2>4, Zenon DEF FishInv, TypeParts
<1>. QED BY <1>1, <1>2

\* The first invariant: types, the shape of the reading, and the list.
LEMMA FishInvariant == ProgramsSpec => []FishInv
<1>1. ProgramsInit => FishInv
  BY FishInit DEF ProgramsInit
<1>2. FishInv /\ [ProgramsNext]_<<vars, grepVars>> => FishInv'
  BY FishStep, FishAlone
<1>. QED BY <1>1, <1>2, PTL DEF ProgramsSpec

\* The fish program keeps its types, whatever the frames are: no location
\* outside the screen, the pointers in the array, the counters in their loops.
THEOREM FishTypeTheorem == ProgramsSpec => []TypeOK
<1>1. FishInv => TypeOK
  BY DEF FishInv
<1>. QED BY <1>1, FishInvariant, PTL

\* However the program adds and removes blinkers, following the pointers from
\* mp1_list_head visits every structure in use exactly once, no free one, and
\* ends: mp1_malloc never hands out a structure of the list.
THEOREM ListTheorem == ProgramsSpec => []ListIsHeap
<1>1. FishInv => ListIsHeap
  BY ListIsListInv DEF FishInv
<1>. QED BY <1>1, FishInvariant, PTL

\* Whichever numbers were in use when the program started, the numbers that
\* add_frames closes, once and again, are never the clock's nor that of a file
\* still to be read, and none of the three is left open at the end.
THEOREM ClockTheorem == ProgramsSpec => []ClockStaysOpen
<1>1. FishInv => ClockStaysOpen
  BY DEF FishInv, ReadShape
<1>. QED BY <1>1, FishInvariant, PTL

----------------------------------------------------------------------------
\* Whether a blinker is on time is a matter of its clock.
LEMMA TimedSame ==
  ASSUME NEW a, NEW b, NEW e, Timed(a, e), Clock(a) = Clock(b)
  PROVE  Timed(b, e)
<1>1. /\ a.on_length = b.on_length /\ a.off_length = b.off_length
      /\ a.status = b.status /\ a.countdown = b.countdown
  BY DEF Clock
<1>. QED BY <1>1, Zenon DEF Timed

\* The lengths of the blinkers.
LEMMA LengthFacts ==
  /\ FRAME_LENGTH \in Nat \ {0} /\ ADD_ON \in Nat \ {0} /\ ADD_OFF \in Nat \ {0}
  /\ WAIT \in Nat \ {0} /\ ADD_ON # FRAME_LENGTH
<1>1. {WAIT, FRAME_LENGTH, ADD_ON, ADD_OFF} \subseteq Nat \ {0} /\ ADD_ON # FRAME_LENGTH
  BY FishAssumption
<1>. QED BY <1>1

\* A new blinker is on time.
LEMMA TimedNew ==
  ASSUME NEW b, NEW e,
         \/ Clock(b) = <<FRAME_LENGTH, FRAME_LENGTH, 1, FRAME_LENGTH>> /\ e = 0
         \/ Clock(b) = <<ADD_ON, ADD_OFF, 1, ADD_ON>> /\ e = WAIT
  PROVE  Timed(b, e)
<1>1. CASE Clock(b) = <<FRAME_LENGTH, FRAME_LENGTH, 1, FRAME_LENGTH>> /\ e = 0
  <2>1. /\ b.on_length = FRAME_LENGTH /\ b.off_length = FRAME_LENGTH
        /\ b.status = 1 /\ b.countdown = FRAME_LENGTH
    BY <1>1 DEF Clock
  <2>2. Phase(FRAME_LENGTH, FRAME_LENGTH, 0) = <<1, FRAME_LENGTH>>
    BY LengthFacts, PhaseZero
  <2>3. 0 \in Nat
    OBVIOUS
  <2>. QED BY <1>1, <2>1, <2>2, <2>3, Zenon DEF Timed, Pairs
<1>2. CASE Clock(b) = <<ADD_ON, ADD_OFF, 1, ADD_ON>> /\ e = WAIT
  <2>1. /\ b.on_length = ADD_ON /\ b.off_length = ADD_OFF
        /\ b.status = 1 /\ b.countdown = ADD_ON
    BY <1>2 DEF Clock
  <2>2. Phase(ADD_ON, ADD_OFF, 0) = <<1, ADD_ON>>
    BY LengthFacts, PhaseZero
  <2>3. e - WAIT = 0 /\ 0 \in Nat /\ ADD_ON # FRAME_LENGTH
    BY <1>2, LengthFacts
  <2>. QED BY <2>1, <2>2, <2>3, Zenon DEF Timed, Pairs
<1>. QED BY <1>1, <1>2

\* A tick of the tasklet.
LEMMA TimedNext ==
  ASSUME NEW b, NEW a, NEW e \in Nat, Timed(b, e),
         a.on_length = b.on_length, a.off_length = b.off_length,
         <<a.status, a.countdown>> =
            IF b.countdown - 1 <= 0
            THEN <<1 - b.status, IF b.status = 1 THEN b.off_length
                                 ELSE b.on_length>>
            ELSE <<b.status, b.countdown - 1>>
  PROVE  Timed(a, e + 1)
<1>. DEFINE t == IF b.on_length = FRAME_LENGTH THEN e ELSE e - WAIT
            t2 == IF a.on_length = FRAME_LENGTH THEN e + 1 ELSE (e + 1) - WAIT
<1>1. /\ <<b.on_length, b.off_length>> \in Pairs /\ t \in Nat
      /\ <<b.status, b.countdown>> = Phase(b.on_length, b.off_length, t)
  BY Zenon DEF Timed
<1>2. b.on_length \in Nat \ {0} /\ b.off_length \in Nat \ {0}
  BY <1>1, LengthFacts DEF Pairs
<1>3. t2 = t + 1 /\ t2 \in Nat
  BY <1>1, LengthFacts
<1>. HIDE DEF t, t2
<1>4. Phase(b.on_length, b.off_length, t + 1) =
              IF b.countdown - 1 <= 0
              THEN <<1 - b.status, IF b.status = 1 THEN b.off_length ELSE b.on_length>>
              ELSE <<b.status, b.countdown - 1>>
  BY <1>1, <1>2, PhaseNext
<1>5. <<a.status, a.countdown>> = Phase(a.on_length, a.off_length, t2)
  BY <1>3, <1>4
<1>6. <<a.on_length, a.off_length>> \in Pairs
  BY <1>1, Zenon
<1>7. CASE a.on_length = FRAME_LENGTH
  <2>1. t2 = e + 1
    BY <1>7, Zenon DEF t2
  <2>. QED BY <1>3, <1>5, <1>6, <1>7, <2>1, Zenon DEF Timed
<1>8. CASE a.on_length # FRAME_LENGTH
  <2>1. t2 = (e + 1) - WAIT
    BY <1>8, Zenon DEF t2
  <2>2. /\ (e + 1) - WAIT \in Nat
        /\ <<a.status, a.countdown>> = Phase(a.on_length, a.off_length, (e + 1) - WAIT)
    BY <1>3, <1>5, <2>1
  <2>. QED BY <1>6, <1>8, <2>2 DEF Timed
<1>. QED BY <1>7, <1>8

\* The ticks.
LEMMA ElapsedNat == TypeOK => Elapsed \in Nat
<1>. SUFFICES ASSUME TypeOK PROVE Elapsed \in Nat
  OBVIOUS
<1>1. stage \in {1, 2, 3, 4} /\ i \in Nat /\ WAIT \in Nat
  <2>1. stage \in 1 .. 4 /\ i \in 0 .. Ticks(stage)
    BY DEF TypeOK
  <2>. QED BY <2>1, TicksNat, LengthFacts
<1>2. (stage - 1) * WAIT \in Nat
  BY <1>1
<1>. QED BY <1>1, <1>2 DEF Elapsed

\* Every action keeps the blinkers on time.
LEMMA TimeStep == FishInv /\ TimeInv /\ [Next]_vars => TimeInv'
<1>. SUFFICES ASSUME FishInv, TimeInv, [Next]_vars PROVE TimeInv'
  OBVIOUS
<1>0. /\ BlinkOK /\ Rest /\ ReadShape /\ ListInv /\ TypeOK /\ Elapsed \in Nat
      /\ stage \in {1, 2, 3, 4} /\ CELLS \in Nat
  <2>1. BlinkOK /\ Rest /\ ReadShape /\ ListInv /\ TypeOK
    BY TypeIsParts DEF TypeParts, FishInv
  <2>. QED BY <2>1, ElapsedNat, CellsNat DEF Rest
\* The blinkers are left alone.
<1>1. ASSUME ClocksKept, pc # "tasklet", pc' # "tasklet", Elapsed' = Elapsed
      PROVE  TimeInv'
  <2>1. ASSUME NEW k \in DOMAIN BlinkList'
        PROVE  Timed(blink_array'[BlinkList'[k]], Elapsed')
    <3>1. PICK j \in DOMAIN BlinkList :
            Clock(blink_array'[BlinkList'[k]]) = Clock(blink_array[BlinkList[j]])
      BY <1>1, Zenon DEF ClocksKept
    <3>2. Timed(blink_array[BlinkList[j]], Elapsed)
      BY <1>1, Zenon DEF TimeInv
    <3>. QED BY <1>1, <3>1, <3>2, TimedSame
  <2>. QED BY <1>1, <2>1, Zenon DEF TimeInv, Timed
<1>2. ASSUME NEW x, ClocksFrom(x), pc # "tasklet", pc' # "tasklet",
             Elapsed' = Elapsed,
             \/ x = <<FRAME_LENGTH, FRAME_LENGTH, 1, FRAME_LENGTH>> /\ Elapsed = 0
             \/ x = <<ADD_ON, ADD_OFF, 1, ADD_ON>> /\ Elapsed = WAIT
      PROVE  TimeInv'
  <2>1. ASSUME NEW k \in DOMAIN BlinkList'
        PROVE  Timed(blink_array'[BlinkList'[k]], Elapsed')
    <3>1. CASE Clock(blink_array'[BlinkList'[k]]) = x
      BY <1>2, <3>1, TimedNew
    <3>2. ASSUME NEW j \in DOMAIN BlinkList,
                 Clock(blink_array'[BlinkList'[k]]) = Clock(blink_array[BlinkList[j]])
          PROVE  Timed(blink_array'[BlinkList'[k]], Elapsed')
      <4>1. Timed(blink_array[BlinkList[j]], Elapsed)
        BY <1>2, Zenon DEF TimeInv
      <4>. QED BY <1>2, <3>2, <4>1, TimedSame
    <3>. QED BY <1>2, <3>1, <3>2, Zenon DEF ClocksFrom
  <2>. QED BY <1>2, <2>1, Zenon DEF TimeInv, Timed
<1>3. CASE UNCHANGED vars
  <2>1. UNCHANGED <<blinkVars, pc, stage, i, ebx>> /\ blink_array' = blink_array
    BY <1>3, Zenon DEF vars, loopVars, blinkVars
  <2>2. BlinkList' = BlinkList /\ Elapsed' = Elapsed
    BY <1>0, <2>1, NothingStep, Zenon DEF Elapsed
  <2>. QED BY <2>1, <2>2, Zenon DEF TimeInv, Timed
<1>4. CASE OpenClock \/ OpenFrames \/ FrameRow
  <2>1. UNCHANGED <<blinkVars, stage, i>> /\ pc # "tasklet" /\ pc' # "tasklet"
    BY <1>4 DEF OpenClock, OpenFrames, FrameRow, loopVars
  <2>. QED BY <1>0, <1>1, <2>1, NothingStep, Zenon DEF Elapsed
<1>5. CASE FrameCell
  <2>. DEFINE char == [f \in File |-> NextChar(f)]
              Drawn(f) == IF char[f] = "\n" THEN " " ELSE char[f]
  <2>1. /\ pc = "frames" /\ pc' = pc /\ UNCHANGED <<stage, i>>
        /\ \/ UNCHANGED blinkVars
           \/ mp1_ioctl_add(Location(row, col), Drawn("frame0"),
                            Drawn("frame1"), FRAME_LENGTH, FRAME_LENGTH)
    BY <1>5, Zenon DEF FrameCell, loopVars
  <2>2. Drawn("frame0") \in Chars /\ Drawn("frame1") \in Chars
    <3>2. \A f \in File : NextChar(f) \in Chars
      BY <1>0, <2>1, NextCharFacts, Zenon
    <3>. QED BY <3>2, CharsFacts DEF File
  <2>3. Location(row, col) \in Nat \ {0} /\ FRAME_LENGTH \in Nat
    BY <1>0, LocationNat, LengthFacts DEF ReadShape
  <2>. HIDE DEF Drawn
  <2>4. pc # "tasklet" /\ pc' # "tasklet" /\ Elapsed' = Elapsed
    BY <2>1 DEF Elapsed
  <2>5. Elapsed = 0
    <3>1. stage = 1 /\ i = 0
      BY <1>0, <2>1 DEF ReadShape
    <3>. QED BY <3>1, LengthFacts DEF Elapsed
  <2>6. CASE UNCHANGED blinkVars
    BY <1>0, <1>1, <2>4, <2>6, NothingStep
  <2>7. CASE ~ UNCHANGED blinkVars
    <3>1. ClocksFrom(<<FRAME_LENGTH, FRAME_LENGTH, 1, FRAME_LENGTH>>)
      BY <1>0, <2>1, <2>2, <2>3, <2>7, AddStep
    <3>. QED BY <1>2, <2>4, <2>5, <3>1
  <2>. QED BY <2>6, <2>7
<1>6. CASE ReadClock
  <2>1. /\ pc = "read" /\ pc' = "tasklet" /\ ebx' = mp1_list_head
        /\ UNCHANGED <<blinkVars, stage, i>> /\ blink_array' = blink_array
    BY <1>6, Zenon DEF ReadClock, blinkVars
  <2>2. BlinkList' = BlinkList /\ Elapsed' = Elapsed
    BY <1>0, <2>1, NothingStep, Zenon DEF Elapsed
  <2>3. PICK n \in 0 .. CELLS : BlinkList \in [1 .. n -> Slots] /\ Chain(n, BlinkList)
    BY <1>0, Zenon DEF ListInv
  <2>4. DOMAIN BlinkList = 1 .. n /\ (1 \in 1 .. n <=> n # 0) /\ 1 \in 1 .. CELLS + 1
    BY <1>0, <2>3
  <2>5. ebx' = IF 1 \in DOMAIN BlinkList THEN BlinkList[1] ELSE NULL
    BY <2>1, <2>3, <2>4, Zenon DEF Chain
  <2>6. \A k \in DOMAIN BlinkList : Timed(blink_array[BlinkList[k]], Elapsed) /\ ~ (k < 1)
    <3>1. \A k \in DOMAIN BlinkList : Timed(blink_array[BlinkList[k]], Elapsed)
      BY <2>1, Zenon DEF TimeInv
    <3>2. \A k \in DOMAIN BlinkList : ~ (k < 1)
      BY <2>4, <1>0
    <3>. QED BY <3>1, <3>2
  <2>. QED BY <2>1, <2>2, <2>4, <2>5, <2>6, Zenon DEF TimeInv, Timed
<1>7. CASE mp1_rtc_tasklet
  <2>1. /\ pc = "tasklet" /\ pc' = pc /\ ebx # NULL /\ ebx \in Slots
        /\ ebx' = blink_array[ebx].next /\ tasklet_loop(ebx) /\ UNCHANGED <<stage, i>>
    BY <1>0, <1>7, Zenon DEF mp1_rtc_tasklet, Rest
  <2>2. /\ BlinkList' = BlinkList /\ Elapsed' = Elapsed
        /\ \A y \in Slots : y # ebx => blink_array'[y] = blink_array[y]
    BY <1>0, <2>1, LoopStep DEF Elapsed
  <2>3. PICK n \in 0 .. CELLS : BlinkList \in [1 .. n -> Slots] /\ Chain(n, BlinkList)
    BY <1>0, Zenon DEF ListInv
  <2>4. PICK j \in 1 .. CELLS + 1 :
       /\ ebx = IF j \in DOMAIN BlinkList THEN BlinkList[j] ELSE NULL
       /\ \A k \in DOMAIN BlinkList :
            Timed(blink_array[BlinkList[k]], IF k < j THEN Elapsed + 1 ELSE Elapsed)
    BY <2>1, Zenon DEF TimeInv
  <2>5. PICK L : L = BlinkList
    OBVIOUS
  <2>6. /\ L \in [1 .. n -> Slots] /\ DOMAIN L = 1 .. n /\ n \in Nat /\ n <= CELLS
        /\ \A x, y \in 1 .. n : L[x] = L[y] => x = y
        /\ \A k \in 1 .. n : blink_array[L[k]].next = IF k = n THEN NULL ELSE L[k + 1]
    BY <1>0, <2>3, <2>5 DEF Chain
  <2>7. j \in 1 .. n /\ ebx = L[j]
    BY <2>1, <2>4, <2>5, <2>6
  <2>8. j + 1 \in 1 .. CELLS + 1 /\ ebx' = IF j + 1 \in DOMAIN L THEN L[j + 1] ELSE NULL
    <3>1. j + 1 \in 1 .. CELLS + 1 /\ (j + 1 \in 1 .. n <=> j # n)
      BY <1>0, <2>6, <2>7
    <3>. QED BY <2>1, <2>6, <2>7, <3>1
  <2>9. ASSUME NEW k \in DOMAIN L
        PROVE  Timed(blink_array'[L[k]], IF k < j + 1 THEN Elapsed + 1 ELSE Elapsed)
    <3>0. k \in 1 .. n /\ L[k] \in Slots
      BY <2>6
    <3>1. Timed(blink_array[L[k]], IF k < j THEN Elapsed + 1 ELSE Elapsed)
      BY <2>4, <2>5
    <3>2. CASE k = j
      <4>1. Timed(blink_array[ebx], Elapsed) /\ k < j + 1
        <5>1. ~ (k < j) /\ k < j + 1
          BY <2>6, <2>7, <3>0, <3>2
        <5>. QED BY <2>7, <3>1, <3>2, <5>1, Zenon
      <4>2. Timed(blink_array'[ebx], Elapsed + 1)
        <5>1. /\ blink_array'[ebx].on_length = blink_array[ebx].on_length
              /\ blink_array'[ebx].off_length = blink_array[ebx].off_length
              /\ LET b == blink_array[ebx]
                 IN  <<blink_array'[ebx].status, blink_array'[ebx].countdown>> =
                  IF b.countdown - 1 <= 0
                  THEN <<1 - b.status, IF b.status = 1 THEN b.off_length
                                       ELSE b.on_length>>
                  ELSE <<b.status, b.countdown - 1>>
          BY <1>0, <2>1, LoopStep, Zenon
        <5>. QED BY <1>0, <4>1, <5>1, TimedNext, Zenon
      <4>. QED BY <2>7, <3>2, <4>1, <4>2, Zenon
    <3>3. CASE k # j
      <4>1. L[k] # ebx /\ (k < j + 1 <=> k < j)
        BY <2>6, <2>7, <3>0, <3>3
      <4>2. blink_array'[L[k]] = blink_array[L[k]]
        BY <2>2, <3>0, <4>1
      <4>. QED BY <3>1, <4>1, <4>2, Zenon
    <3>. QED BY <3>2, <3>3
  <2>. QED BY <2>1, <2>2, <2>5, <2>8, <2>9, Zenon DEF TimeInv, Timed
<1>8. CASE TaskletEnd
  <2>1. /\ pc = "tasklet" /\ pc' = "read" /\ ebx = NULL /\ i' = i + 1
        /\ UNCHANGED <<blinkVars, stage>> /\ blink_array' = blink_array
    BY <1>8, Zenon DEF TaskletEnd, blinkVars
  <2>2. BlinkList' = BlinkList
    BY <1>0, <2>1, NothingStep, Zenon
  <2>3. Elapsed' = Elapsed + 1
    <3>1. (stage - 1) * WAIT \in Int /\ i \in Int
      BY <1>0, LengthFacts, TicksNat DEF Rest
    <3>. QED BY <2>1, <3>1 DEF Elapsed
  <2>4. PICK n \in 0 .. CELLS : BlinkList \in [1 .. n -> Slots]
    BY <1>0, Zenon DEF ListInv
  <2>5. PICK j \in 1 .. CELLS + 1 :
       /\ ebx = IF j \in DOMAIN BlinkList THEN BlinkList[j] ELSE NULL
       /\ \A k \in DOMAIN BlinkList :
            Timed(blink_array[BlinkList[k]], IF k < j THEN Elapsed + 1 ELSE Elapsed)
    BY <2>1, Zenon DEF TimeInv
  <2>6. DOMAIN BlinkList = 1 .. n /\ NULL \notin Slots
    BY <2>4 DEF Slots, NULL
  <2>7. j \notin 1 .. n
    BY <2>1, <2>4, <2>5, <2>6
  <2>8. \A k \in DOMAIN BlinkList : k < j
    BY <1>0, <2>5, <2>6, <2>7
  <2>9. \A k \in DOMAIN BlinkList : Timed(blink_array[BlinkList[k]], Elapsed + 1)
    BY <2>5, <2>8, Zenon
  <2>10. pc' # "tasklet"
    BY <2>1
  <2>. QED BY <2>1, <2>2, <2>3, <2>9, <2>10, Zenon DEF TimeInv, Timed
<1>9. CASE Between
  <2>1. /\ pc = "read" /\ i = Ticks(stage)
        /\ \/ /\ stage = 4 /\ pc' = "done" /\ UNCHANGED <<stage, i>>
              /\ UNCHANGED blinkVars
           \/ /\ stage # 4 /\ stage' = stage + 1 /\ i' = 0 /\ pc' = pc
              /\ \/ stage = 1 /\ mp1_ioctl_add(ADD_LOCATION, "I", "M", ADD_ON, ADD_OFF)
                 \/ stage = 2 /\ mp1_ioctl_sync(OFFSET, ADD_LOCATION)
                 \/ stage = 3 /\ mp1_ioctl_remove(i)
    <3>1. \/ stage = 1 /\ mp1_ioctl_add(ADD_LOCATION, "I", "M", ADD_ON, ADD_OFF)
          \/ stage = 2 /\ mp1_ioctl_sync(OFFSET, ADD_LOCATION)
          \/ stage = 3 /\ mp1_ioctl_remove(i)
          \/ stage = 4 /\ UNCHANGED blinkVars
      BY <1>0, <1>9, Zenon DEF Between
    <3>2. /\ pc = "read" /\ i = Ticks(stage)
          /\ \/ stage = 4 /\ pc' = "done" /\ UNCHANGED <<stage, i>>
             \/ stage # 4 /\ stage' = stage + 1 /\ i' = 0 /\ pc' = pc
      BY <1>9, Zenon DEF Between
    <3>3. 1 # 4 /\ 2 # 4 /\ 3 # 4
      OBVIOUS
    <3>. QED BY <3>1, <3>2, <3>3, Zenon
  <2>2. pc # "tasklet" /\ pc' # "tasklet"
    BY <2>1
  <2>3. Elapsed' = Elapsed /\ (stage = 1 => Elapsed = WAIT)
    <3>1. CASE stage = 4
      BY <2>1, <3>1 DEF Elapsed
    <3>2. CASE stage \in {1, 2, 3}
      <4>1. i = WAIT /\ i' = 0 /\ stage' = stage + 1 /\ WAIT \in Nat
        BY <2>1, <3>2, LengthFacts DEF Ticks
      <4>. QED BY <3>2, <4>1 DEF Elapsed
    <3>. QED BY <1>0, <3>1, <3>2
  <2>4. CASE UNCHANGED blinkVars
    BY <1>0, <1>1, <2>2, <2>3, <2>4, NothingStep
  <2>5. CASE stage = 1 /\ mp1_ioctl_add(ADD_LOCATION, "I", "M", ADD_ON, ADD_OFF)
    <3>1. ADD_ON \in Nat /\ ADD_OFF \in Nat /\ ADD_LOCATION \in Nat \ {0}
      <4>1. ADD_LOCATION \in 1 .. CELLS - 1
        BY FishAssumption
      <4>. QED BY <1>0, <4>1, LengthFacts
    <3>2. "I" \in Chars /\ "M" \in Chars
      BY CharsFacts
    <3>3. ClocksFrom(<<ADD_ON, ADD_OFF, 1, ADD_ON>>)
      BY <1>0, <2>5, <3>1, <3>2, AddStep
    <3>. QED BY <1>2, <2>2, <2>3, <2>5, <3>3
  <2>6. CASE stage = 2 /\ mp1_ioctl_sync(OFFSET, ADD_LOCATION)
    BY <1>0, <1>1, <2>2, <2>3, <2>6, SyncStep
  <2>7. CASE stage = 3 /\ mp1_ioctl_remove(i)
    BY <1>0, <1>1, <2>2, <2>3, <2>7, RemoveStep
  <2>. QED BY <2>1, <2>4, <2>5, <2>6, <2>7
<1>. QED BY <1>3, <1>4, <1>5, <1>6, <1>7, <1>8, <1>9 DEF Next

\* Between two runs of mp1_rtc_tasklet every blinker is as far in its period
\* as the ticks since it was added say, through RTC_ADD, RTC_SYNC and
\* RTC_REMOVE, for frames and lengths of any size.
THEOREM BlinkTimeTheorem == ProgramsSpec => []BlinksOnTime
<1>1. ProgramsInit => FishInv /\ TimeInv
  BY FishInit DEF ProgramsInit
<1>2. FishInv /\ TimeInv /\ [ProgramsNext]_<<vars, grepVars>> => (FishInv /\ TimeInv)'
  BY FishStep, TimeStep, FishAlone
<1>3. FishInv /\ TimeInv => BlinksOnTime
  <2>. SUFFICES ASSUME TimeInv, pc # "tasklet", NEW z \in Range(BlinkList)
                PROVE  LET b == blink_array[z]
                           t == IF b.on_length = FRAME_LENGTH THEN Elapsed
                                ELSE Elapsed - WAIT
                       IN  <<b.status, b.countdown>>
                             = Phase(b.on_length, b.off_length, t)
    BY DEF BlinksOnTime
  <2>1. PICK k \in DOMAIN BlinkList : z = BlinkList[k]
    BY DEF Range
  <2>2. Timed(blink_array[z], Elapsed)
    BY <2>1, Zenon DEF TimeInv
  <2>. QED BY <2>2, Zenon DEF Timed
<1>. QED BY <1>1, <1>2, <1>3, PTL DEF ProgramsSpec

\* The last blinker before position j at the location that is removed.
LastAt(p, j) ==
  /\ p \in DOMAIN BlinkList /\ p < j /\ Nth(p).location = WAIT
  /\ \A k \in DOMAIN BlinkList : k < j /\ Nth(k).location = WAIT => k <= p

\* The frames change at the tick after e.
Toggles(e) == Phase(FRAME_LENGTH, FRAME_LENGTH, e)[1]
              # Phase(FRAME_LENGTH, FRAME_LENGTH, e + 1)[1]

\* Away from ADD_LOCATION all blinkers have the lengths of the frames.
FrameLengths ==
  \A k \in DOMAIN BlinkList :
    Nth(k).location # ADD_LOCATION =>
      Nth(k).on_length = FRAME_LENGTH /\ Nth(k).off_length = FRAME_LENGTH

\* Until RTC_REMOVE, the last of several blinkers at its location is the one
\* seen, from the first time they change; while the tasklet changes them, the
\* last that it has passed.
LastIsSeen ==
  stage <= 3 =>
    /\ pc # "tasklet" /\ Elapsed >= FRAME_LENGTH =>
         \A p \in Slots : LastAt(p, CELLS + 1) => video[WAIT] = Shown(Nth(p))
    /\ pc = "tasklet" =>
         \A j \in 1 .. CELLS + 1 :
           ebx = (IF j \in DOMAIN BlinkList THEN BlinkList[j] ELSE NULL) =>
             /\ Toggles(Elapsed) =>
                  \A p \in Slots : LastAt(p, j) => video[WAIT] = Shown(Nth(p))
             /\ /\ Elapsed >= FRAME_LENGTH
                /\ ~ Toggles(Elapsed) \/ \A p \in Slots : ~ LastAt(p, j)
                => \A p \in Slots : LastAt(p, CELLS + 1) => video[WAIT] = Shown(Nth(p))

\* A blinker that is alone at its location is seen; the one that RTC_SYNC
\* adjusted may show its OFF_CHAR.
Alone(k) ==
  \A m \in DOMAIN BlinkList : m # k => Nth(m).location # Nth(k).location

\* The screen shows the blinker at position k.
Follows(k) ==
  \/ video[Nth(k).location] = Shown(Nth(k))
  \/ /\ stage >= 3 /\ Nth(k).location = ADD_LOCATION
     /\ video[Nth(k).location] = Nth(k).off_char

AloneIsSeen == \A k \in DOMAIN BlinkList : Alone(k) => Follows(k)

\* The invariant of the screen.
ScreenInv == FrameLengths /\ LastIsSeen /\ AloneIsSeen

\* The invariant gives the property.
LEMMA SeenGives == ListInv /\ AloneIsSeen => ScreenFollows
<1>. SUFFICES ASSUME ListInv, AloneIsSeen, NEW z \in Range(BlinkList),
                     \A t \in Range(BlinkList) \ {z} :
                        blink_array[t].location # blink_array[z].location
              PROVE  LET b == blink_array[z]
                     IN  \/ video[b.location] = IF b.status = 1 THEN b.on_char
                                                ELSE b.off_char
                         \/ /\ stage >= 3 /\ b.location = ADD_LOCATION
                            /\ video[b.location] = b.off_char
  BY Zenon DEF ScreenFollows
<1>1. PICK k \in DOMAIN BlinkList : BlinkList[k] = z
  BY DEF Range
<1>2. \A j, m \in DOMAIN BlinkList : BlinkList[j] = BlinkList[m] => j = m
  BY Zenon, ListIsListInv DEF ListIsHeap, IsInjective
<1>3. Alone(k)
  <2>1. ASSUME NEW m \in DOMAIN BlinkList, m # k
        PROVE  Nth(m).location # Nth(k).location
    <3>1. BlinkList[m] # z
      BY <1>1, <1>2, <2>1
    <3>2. BlinkList[m] \in Range(BlinkList)
      BY DEF Range
    <3>. QED BY <1>1, <3>1, <3>2, Zenon DEF Nth
  <2>. QED BY <2>1, Zenon DEF Alone
<1>4. Follows(k)
  BY <1>3, Zenon DEF AloneIsSeen
<1>. QED BY <1>1, <1>4, Zenon DEF Follows, Shown, Nth

\* The positions of the list.
LEMMA NthFacts ==
  ASSUME BlinkOK, ListInv
  PROVE  \E n \in 0 .. CELLS :
           /\ DOMAIN BlinkList = 1 .. n
           /\ \A k \in 1 .. n :
                /\ k \in Slots /\ k \in Nat /\ k < CELLS + 1
                /\ BlinkList[k] \in Slots
                /\ Nth(k) \in Blinkers /\ Nth(k).location \in 0 .. CELLS - 1
                /\ \A m \in 1 .. n : BlinkList[k] = BlinkList[m] => k = m
<1>1. PICK n \in 0 .. CELLS : BlinkList \in [1 .. n -> Slots] /\ Chain(n, BlinkList)
  BY Zenon DEF ListInv
<1>2. DOMAIN BlinkList = 1 .. n
  BY <1>1
<1>3. \A j, k \in 1 .. n : BlinkList[j] = BlinkList[k] => j = k
  BY <1>1, Zenon DEF Chain
<1>4. ASSUME NEW k \in 1 .. n
      PROVE  /\ k \in Slots /\ k \in Nat /\ k < CELLS + 1 /\ BlinkList[k] \in Slots
  BY <1>1, CellsNat DEF Slots
<1>5. ASSUME NEW k \in 1 .. n
      PROVE  Nth(k) \in Blinkers /\ Nth(k).location \in 0 .. CELLS - 1
  <2>1. Nth(k) \in Blinkers
    BY <1>4 DEF Nth, BlinkOK
  <2>. QED BY <2>1 DEF Blinkers
<1>. QED BY <1>2, <1>3, <1>4, <1>5, Zenon

\* The remainder of a number below the divisor.
LEMMA ModSmall ==
  ASSUME NEW m \in Nat \ {0}, NEW t \in Nat, t < m PROVE t % m = t
<1>. DEFINE q == t \div m
            r == t % m
<1>1. q \in Int /\ r \in Nat /\ r < m /\ t = m * q + r
  OBVIOUS
<1>. HIDE DEF q, r
<1>2. CASE q >= 1
  <2>1. m * q >= m
    BY <1>1, <1>2
  <2>2. m * q \in Int
    BY <1>1
  <2>. QED BY <1>1, <2>1, <2>2
<1>3. CASE q = 0
  <2>1. m * q = 0
    BY <1>3
  <2>. QED BY <1>1, <2>1 DEF r
<1>4. CASE q <= -1
  <2>1. m * q <= -m
    BY <1>1, <1>4
  <2>2. m * q \in Int
    BY <1>1
  <2>. QED BY <1>1, <2>1, <2>2
<1>. QED BY <1>1, <1>2, <1>3, <1>4

\* The frames change for the first time at the tick FRAME_LENGTH.
LEMMA FirstToggle ==
  ASSUME NEW e \in Nat, e + 1 >= FRAME_LENGTH, ~ (e >= FRAME_LENGTH)
  PROVE  Toggles(e)
<1>. DEFINE m == FRAME_LENGTH + FRAME_LENGTH
<1>1. FRAME_LENGTH \in Nat \ {0} /\ e + 1 = FRAME_LENGTH /\ e < FRAME_LENGTH
  BY LengthFacts
<1>2. m \in Nat \ {0} /\ e < m /\ e + 1 < m /\ e + 1 \in Nat
  BY <1>1
<1>3. e % m = e /\ (e + 1) % m = e + 1
  BY <1>2, ModSmall
<1>4. Phase(FRAME_LENGTH, FRAME_LENGTH, e) = <<1, FRAME_LENGTH - e>>
  BY <1>1, <1>3 DEF Phase
<1>5. Phase(FRAME_LENGTH, FRAME_LENGTH, e + 1)
        = <<0, FRAME_LENGTH + FRAME_LENGTH - (e + 1)>>
  BY <1>1, <1>3 DEF Phase
<1>. QED BY <1>4, <1>5 DEF Toggles

\* A blinker of the frames changes when the frames do.
LEMMA TogglesIs ==
  ASSUME NEW b, NEW e \in Nat, Timed(b, e), b.on_length = FRAME_LENGTH,
         b.off_length = FRAME_LENGTH
  PROVE  Toggles(e) <=> b.countdown - 1 <= 0
<1>1. <<b.status, b.countdown>> = Phase(FRAME_LENGTH, FRAME_LENGTH, e)
  BY Zenon DEF Timed
<1>2. /\ b.countdown \in Nat \ {0} /\ b.status \in {0, 1}
      /\ Phase(FRAME_LENGTH, FRAME_LENGTH, e + 1) =
              IF b.countdown - 1 <= 0
              THEN <<1 - b.status, IF b.status = 1 THEN FRAME_LENGTH ELSE FRAME_LENGTH>>
              ELSE <<b.status, b.countdown - 1>>
  BY <1>1, LengthFacts, PhaseNext
<1>3. Phase(FRAME_LENGTH, FRAME_LENGTH, e)[1] = b.status
  BY <1>1
<1>4. Phase(FRAME_LENGTH, FRAME_LENGTH, e + 1)[1]
        = IF b.countdown - 1 <= 0 THEN 1 - b.status ELSE b.status
  BY <1>2
<1>. QED BY <1>2, <1>3, <1>4 DEF Toggles

\* The list, the blinkers and the screen are left alone.
LEMMA ScreenSame ==
  ASSUME ScreenInv, UNCHANGED <<blink_array, video>>, BlinkList' = BlinkList,
         stage \in {1, 2, 3, 4}, stage' \in {1, 2, 3, 4}, stage' >= stage
  PROVE  /\ FrameLengths' /\ AloneIsSeen'
         /\ \A p, j : LastAt(p, j)' <=> LastAt(p, j)
         /\ \A p : Nth(p)' = Nth(p)
<1>1. \A p : Nth(p)' = Nth(p)
  BY Zenon DEF Nth
<1>2. \A p, j : LastAt(p, j)' <=> LastAt(p, j)
  BY <1>1, Zenon DEF LastAt
<1>3. FrameLengths'
  BY <1>1, Zenon DEF FrameLengths, ScreenInv
<1>4. \A k : Alone(k)' <=> Alone(k)
  BY <1>1, Zenon DEF Alone
<1>5. \A k : Follows(k) => Follows(k)'
  <2>1. stage >= 3 => stage' >= 3
    OBVIOUS
  <2>. QED BY <1>1, <2>1, Zenon DEF Follows, Shown
<1>6. AloneIsSeen'
  BY <1>4, <1>5, Zenon DEF AloneIsSeen, ScreenInv
<1>. QED BY <1>1, <1>2, <1>3, <1>6

\* A new blinker.
LEMMA ScreenAdd ==
  ASSUME FishInv, ScreenInv, NEW r, Added(r), r.status = 1,
         stage \in {1, 2, 3, 4}, stage' \in {1, 2, 3, 4}, stage' >= stage,
         r.location # ADD_LOCATION =>
            r.on_length = FRAME_LENGTH /\ r.off_length = FRAME_LENGTH
  PROVE  FrameLengths' /\ AloneIsSeen'
<1>0. BlinkOK /\ ListInv
  BY TypeIsParts DEF TypeParts, FishInv
<1>1. PICK n \in 0 .. CELLS :
       /\ DOMAIN BlinkList = 1 .. n /\ DOMAIN BlinkList' = 1 .. n + 1
       /\ Nth(1)' = r
       /\ \A k \in 1 .. n : Nth(k + 1)' = Nth(k)
  BY Zenon DEF Added
<1>2. /\ r.location \in 0 .. CELLS - 1 /\ n \in Nat /\ 1 \in 1 .. n + 1
      /\ video' = [video EXCEPT ![r.location] = r.on_char]
      /\ DOMAIN video = 0 .. CELLS - 1
  BY <1>0, <1>1, CellsNat DEF Added, BlinkOK
<1>3. ASSUME NEW k \in 1 .. n + 1, k # 1
      PROVE  /\ k - 1 \in 1 .. n /\ Nth(k)' = Nth(k - 1)
             /\ Nth(k - 1).location \in 0 .. CELLS - 1
  <2>1. k - 1 \in 1 .. n /\ k - 1 + 1 = k
    BY <1>2, <1>3
  <2>2. Nth(k - 1).location \in 0 .. CELLS - 1
    BY <1>0, <1>1, <2>1, NthFacts
  <2>3. Nth(k - 1 + 1)' = Nth(k - 1)
    BY <1>1, <2>1
  <2>. QED BY <2>1, <2>2, <2>3
<1>4. FrameLengths'
  <2>1. ASSUME NEW k \in 1 .. n + 1, Nth(k)'.location # ADD_LOCATION
        PROVE  Nth(k)'.on_length = FRAME_LENGTH /\ Nth(k)'.off_length = FRAME_LENGTH
    <3>1. CASE k = 1
      BY <1>1, <2>1, <3>1
    <3>2. CASE k # 1
      BY <1>1, <1>3, <2>1, <3>2 DEF ScreenInv, FrameLengths
    <3>. QED BY <3>1, <3>2
  <2>. QED BY <1>1, <2>1, Zenon DEF FrameLengths
<1>5. ASSUME NEW k \in 1 .. n + 1, Alone(k)' PROVE Follows(k)'
  <2>1. CASE k = 1
    <3>1. video'[r.location] = r.on_char
      BY <1>2
    <3>. QED BY <1>1, <2>1, <3>1, Zenon DEF Follows, Shown
  <2>2. CASE k # 1
    <3>1. /\ k - 1 \in 1 .. n /\ Nth(k)' = Nth(k - 1)
          /\ Nth(k - 1).location \in 0 .. CELLS - 1
      BY <1>3, <2>2
    <3>2. Nth(k - 1).location # r.location
      BY <1>1, <1>2, <1>5, <2>2, <3>1, Zenon DEF Alone
    <3>3. Alone(k - 1)
      <4>1. ASSUME NEW m \in 1 .. n, m # k - 1
            PROVE  Nth(m).location # Nth(k - 1).location
        <5>1. m + 1 \in 1 .. n + 1 /\ m + 1 # k /\ Nth(m + 1)' = Nth(m)
          BY <1>1, <1>2, <3>1, <4>1
        <5>. QED BY <1>1, <1>5, <3>1, <5>1, Zenon DEF Alone
      <4>. QED BY <1>1, <4>1, Zenon DEF Alone
    <3>4. Follows(k - 1)
      BY <1>1, <3>1, <3>3, Zenon DEF ScreenInv, AloneIsSeen
    <3>5. video'[Nth(k - 1).location] = video[Nth(k - 1).location]
      BY <1>2, <3>1, <3>2
    <3>6. stage >= 3 => stage' >= 3
      OBVIOUS
    <3>. QED BY <3>1, <3>4, <3>5, <3>6, Zenon DEF Follows, Shown
  <2>. QED BY <2>1, <2>2
<1>. QED BY <1>1, <1>4, <1>5, Zenon DEF AloneIsSeen

\* 'I' and 'M', away from the location that is removed.
LEMMA LastAdd ==
  ASSUME FishInv, ListInv', NEW r, Added(r), r.location # WAIT, NEW p \in Slots,
         LastAt(p, CELLS + 1)'
  PROVE  \E q \in Slots : /\ LastAt(q, CELLS + 1) /\ Nth(p)' = Nth(q)
                          /\ video'[WAIT] = video[WAIT]
<1>0. BlinkOK /\ ListInv
  BY TypeIsParts DEF TypeParts, FishInv
<1>1. PICK n \in 0 .. CELLS :
       /\ DOMAIN BlinkList = 1 .. n /\ DOMAIN BlinkList' = 1 .. n + 1
       /\ Nth(1)' = r
       /\ \A k \in 1 .. n : Nth(k + 1)' = Nth(k)
  BY Zenon DEF Added
<1>2. /\ r.location \in 0 .. CELLS - 1 /\ n \in Nat /\ CELLS \in Nat /\ n <= CELLS
      /\ video' = [video EXCEPT ![r.location] = r.on_char]
      /\ DOMAIN video = 0 .. CELLS - 1
  BY <1>0, <1>1, CellsNat DEF Added, BlinkOK
<1>3. /\ p \in 1 .. n + 1 /\ Nth(p)'.location = WAIT
      /\ \A k \in 1 .. n + 1 : k < CELLS + 1 /\ Nth(k)'.location = WAIT => k <= p
  BY <1>1, Zenon DEF LastAt
<1>4. p # 1
  BY <1>1, <1>3
<1>5. /\ p - 1 \in 1 .. n /\ p - 1 + 1 = p /\ p - 1 \in Slots /\ p - 1 < CELLS + 1
  BY <1>2, <1>3, <1>4 DEF Slots
<1>6. Nth(p)' = Nth(p - 1) /\ Nth(p - 1).location = WAIT
  <2>1. Nth(p - 1 + 1)' = Nth(p - 1)
    BY <1>1, <1>5, Zenon
  <2>. QED BY <1>3, <1>5, <2>1
<1>7. ASSUME NEW k \in 1 .. n, k < CELLS + 1, Nth(k).location = WAIT
      PROVE  k <= p - 1
  <2>1. k + 1 \in 1 .. n + 1 /\ Nth(k + 1)' = Nth(k)
    BY <1>1, <1>2
  <2>2. CASE k + 1 < CELLS + 1
    BY <1>2, <1>3, <1>7, <2>1, <2>2
  <2>3. CASE ~ (k + 1 < CELLS + 1)
    <3>1. k = CELLS /\ n = CELLS
      BY <1>2, <2>3
    <3>2. n + 1 \in 0 .. CELLS
      <4>1. PICK m \in 0 .. CELLS : BlinkList' \in [1 .. m -> Slots]
        BY Zenon DEF ListInv
      <4>2. 1 .. m = 1 .. n + 1
        BY <1>1, <4>1
      <4>. QED BY <1>2, <4>1, <4>2
    <3>. QED BY <1>2, <3>1, <3>2
  <2>. QED BY <2>2, <2>3
<1>8. LastAt(p - 1, CELLS + 1)
  BY <1>1, <1>5, <1>6, <1>7, Zenon DEF LastAt
<1>9. video'[WAIT] = video[WAIT]
  <2>1. Nth(p - 1).location \in 0 .. CELLS - 1
    BY <1>0, <1>1, <1>5, NthFacts
  <2>. QED BY <1>2, <1>6, <2>1
<1>. QED BY <1>5, <1>6, <1>8, <1>9

\* Where the tasklet is in the list, and what it does to the screen there.
LEMMA LoopSeen ==
  ASSUME FishInv, TimeInv, mp1_rtc_tasklet
  PROVE  \E n \in 0 .. CELLS : \E j \in 1 .. n :
    /\ DOMAIN BlinkList = 1 .. n /\ BlinkList' = BlinkList
    /\ ebx = BlinkList[j] /\ Timed(Nth(j), Elapsed)
    /\ \A k \in 1 .. n : k # j => Nth(k)' = Nth(k)
    /\ Nth(j)'.location = Nth(j).location /\ Nth(j)'.off_char = Nth(j).off_char
    /\ Nth(j)'.on_length = Nth(j).on_length
    /\ Nth(j)'.off_length = Nth(j).off_length
    /\ video' = IF Nth(j).countdown - 1 <= 0
                THEN [video EXCEPT ![Nth(j).location] = Shown(Nth(j)')]
                ELSE video
    /\ ~ (Nth(j).countdown - 1 <= 0) => Shown(Nth(j)') = Shown(Nth(j))
    /\ \A m \in 1 .. CELLS + 1 :
         ebx' = (IF m \in 1 .. n THEN BlinkList[m] ELSE NULL) =>
           \A k \in 1 .. n : k < m <=> k <= j
<1>0. BlinkOK /\ Rest /\ ReadShape /\ ListInv
  BY TypeIsParts DEF TypeParts, FishInv
<1>1. /\ pc = "tasklet" /\ ebx # NULL /\ ebx \in Slots
      /\ ebx' = blink_array[ebx].next /\ tasklet_loop(ebx)
  BY <1>0, Zenon DEF mp1_rtc_tasklet, Rest
<1>2. PICK n \in 0 .. CELLS : BlinkList \in [1 .. n -> Slots] /\ Chain(n, BlinkList)
  BY <1>0, Zenon DEF ListInv
<1>3. PICK j \in 1 .. CELLS + 1 :
       /\ ebx = IF j \in DOMAIN BlinkList THEN BlinkList[j] ELSE NULL
       /\ \A k \in DOMAIN BlinkList :
            Timed(blink_array[BlinkList[k]], IF k < j THEN Elapsed + 1 ELSE Elapsed)
  BY <1>1, Zenon DEF TimeInv
<1>4. PICK L : L = BlinkList
  OBVIOUS
<1>5. /\ L \in [1 .. n -> Slots] /\ DOMAIN L = 1 .. n /\ n \in Nat /\ n <= CELLS
      /\ \A x, y \in 1 .. n : L[x] = L[y] => x = y
      /\ \A k \in 1 .. n : blink_array[L[k]].next = IF k = n THEN NULL ELSE L[k + 1]
  BY <1>2, <1>4, CellsNat DEF Chain
<1>6. j \in 1 .. n /\ ebx = L[j]
  BY <1>1, <1>3, <1>4, <1>5
<1>7. Timed(Nth(j), Elapsed)
  <2>1. ~ (j < j)
    BY <1>5, <1>6
  <2>. QED BY <1>3, <1>4, <1>5, <1>6, <2>1, Zenon DEF Nth
<1>8. /\ BlinkList' = BlinkList
      /\ \A y \in Slots : y # ebx => blink_array'[y] = blink_array[y]
      /\ blink_array'[ebx].on_length = blink_array[ebx].on_length
      /\ blink_array'[ebx].off_length = blink_array[ebx].off_length
      /\ blink_array'[ebx].location = blink_array[ebx].location
      /\ blink_array'[ebx].on_char = blink_array[ebx].on_char
      /\ blink_array'[ebx].off_char = blink_array[ebx].off_char
      /\ video' = IF blink_array[ebx].countdown - 1 <= 0
                     THEN [video EXCEPT ![blink_array[ebx].location]
                             = Shown(blink_array'[ebx])]
                     ELSE video
      /\ LET b == blink_array[ebx]
         IN  <<blink_array'[ebx].status, blink_array'[ebx].countdown>> =
                  IF b.countdown - 1 <= 0
                  THEN <<1 - b.status, IF b.status = 1 THEN b.off_length
                                       ELSE b.on_length>>
                  ELSE <<b.status, b.countdown - 1>>
  BY <1>0, <1>1, LoopStep, Zenon
<1>9. Nth(j) = blink_array[ebx] /\ Nth(j)' = blink_array'[ebx]
  BY <1>4, <1>6, <1>8, Zenon DEF Nth
<1>10. ASSUME NEW k \in 1 .. n, k # j PROVE Nth(k)' = Nth(k)
  <2>1. L[k] # ebx /\ L[k] \in Slots
    BY <1>5, <1>6, <1>10
  <2>. QED BY <1>4, <1>8, <2>1, Zenon DEF Nth
<1>11. ~ (Nth(j).countdown - 1 <= 0) => Shown(Nth(j)') = Shown(Nth(j))
  <2>. SUFFICES ASSUME ~ (Nth(j).countdown - 1 <= 0)
                PROVE  Shown(Nth(j)') = Shown(Nth(j))
    OBVIOUS
  <2>1. blink_array'[ebx].status = blink_array[ebx].status
    BY <1>8, <1>9
  <2>. QED BY <1>8, <1>9, <2>1, Zenon DEF Shown
<1>12. ASSUME NEW m \in 1 .. CELLS + 1,
              ebx' = (IF m \in 1 .. n THEN L[m] ELSE NULL), NEW k \in 1 .. n
       PROVE  k < m <=> k <= j
  <2>1. ebx' = IF j = n THEN NULL ELSE L[j + 1]
    BY <1>1, <1>5, <1>6
  <2>2. NULL \notin Slots
    BY DEF Slots, NULL
  <2>3. CASE j = n
    <3>1. m \notin 1 .. n
      BY <1>5, <1>12, <2>1, <2>2, <2>3
    <3>. QED BY <1>5, <1>12, <2>3, <3>1, CellsNat
  <2>4. CASE j # n
    <3>1. j + 1 \in 1 .. n
      BY <1>5, <1>6, <2>4
    <3>2. m \in 1 .. n /\ L[m] = L[j + 1]
      BY <1>5, <1>12, <2>1, <2>2, <2>4, <3>1
    <3>3. m = j + 1
      BY <1>5, <3>1, <3>2
    <3>. QED BY <1>5, <1>6, <3>3
  <2>. QED BY <2>3, <2>4
<1>13. DOMAIN BlinkList = 1 .. n
  BY <1>4, <1>5
<1>14. /\ Nth(j)'.location = Nth(j).location /\ Nth(j)'.off_char = Nth(j).off_char
       /\ Nth(j)'.on_length = Nth(j).on_length
       /\ Nth(j)'.off_length = Nth(j).off_length
       /\ video' = IF Nth(j).countdown - 1 <= 0
                THEN [video EXCEPT ![Nth(j).location] = Shown(Nth(j)')]
                ELSE video
  BY <1>8, <1>9, Zenon
<1>. QED BY <1>4, <1>6, <1>7, <1>8, <1>10, <1>11, <1>12, <1>13, <1>14, Zenon

\* The tasklet at one blinker.
LEMMA ScreenLoop ==
  ASSUME FishInv, TimeInv, ScreenInv, mp1_rtc_tasklet
  PROVE  ScreenInv'
<1>0. /\ BlinkOK /\ ListInv /\ Elapsed \in Nat /\ CELLS \in Nat
      /\ UNCHANGED <<pc, stage, i>> /\ pc = "tasklet"
  <2>1. BlinkOK /\ ListInv /\ TypeOK
    BY TypeIsParts DEF TypeParts, FishInv
  <2>2. UNCHANGED <<pc, stage, i>> /\ pc = "tasklet"
    BY Zenon DEF mp1_rtc_tasklet
  <2>. QED BY <2>1, <2>2, ElapsedNat, CellsNat
<1>1. PICK n \in 0 .. CELLS : \E j \in 1 .. n :
    /\ DOMAIN BlinkList = 1 .. n /\ BlinkList' = BlinkList
    /\ ebx = BlinkList[j] /\ Timed(Nth(j), Elapsed)
    /\ \A k \in 1 .. n : k # j => Nth(k)' = Nth(k)
    /\ Nth(j)'.location = Nth(j).location /\ Nth(j)'.off_char = Nth(j).off_char
    /\ Nth(j)'.on_length = Nth(j).on_length
    /\ Nth(j)'.off_length = Nth(j).off_length
    /\ video' = IF Nth(j).countdown - 1 <= 0
                THEN [video EXCEPT ![Nth(j).location] = Shown(Nth(j)')]
                ELSE video
    /\ ~ (Nth(j).countdown - 1 <= 0) => Shown(Nth(j)') = Shown(Nth(j))
    /\ \A m \in 1 .. CELLS + 1 :
         ebx' = (IF m \in 1 .. n THEN BlinkList[m] ELSE NULL) =>
           \A k \in 1 .. n : k < m <=> k <= j
  BY LoopSeen, Zenon
<1>2. PICK j \in 1 .. n :
    /\ DOMAIN BlinkList = 1 .. n /\ BlinkList' = BlinkList
    /\ ebx = BlinkList[j] /\ Timed(Nth(j), Elapsed)
    /\ \A k \in 1 .. n : k # j => Nth(k)' = Nth(k)
    /\ Nth(j)'.location = Nth(j).location /\ Nth(j)'.off_char = Nth(j).off_char
    /\ Nth(j)'.on_length = Nth(j).on_length
    /\ Nth(j)'.off_length = Nth(j).off_length
    /\ video' = IF Nth(j).countdown - 1 <= 0
                THEN [video EXCEPT ![Nth(j).location] = Shown(Nth(j)')]
                ELSE video
    /\ ~ (Nth(j).countdown - 1 <= 0) => Shown(Nth(j)') = Shown(Nth(j))
    /\ \A m \in 1 .. CELLS + 1 :
         ebx' = (IF m \in 1 .. n THEN BlinkList[m] ELSE NULL) =>
           \A k \in 1 .. n : k < m <=> k <= j
  BY <1>1, Zenon
<1>3. \A k \in 1 .. n : /\ Nth(k)'.location = Nth(k).location
                        /\ Nth(k)'.off_char = Nth(k).off_char
                        /\ Nth(k)'.on_length = Nth(k).on_length
                        /\ Nth(k)'.off_length = Nth(k).off_length
  BY <1>2, Zenon
<1>4. \A k \in 1 .. n : Nth(k).location \in 0 .. CELLS - 1
  BY <1>0, <1>2, NthFacts
<1>5. DOMAIN video = 0 .. CELLS - 1
  BY <1>0 DEF BlinkOK
<1>6. ASSUME NEW y \in 0 .. CELLS - 1, Nth(j).location # y
      PROVE  video'[y] = video[y]
  BY <1>2, <1>5, <1>6
<1>7. Nth(j).countdown - 1 <= 0 => video'[Nth(j).location] = Shown(Nth(j)')
  BY <1>2, <1>4, <1>5
<1>8. ~ (Nth(j).countdown - 1 <= 0) => /\ video' = video
                                      /\ Shown(Nth(j)') = Shown(Nth(j))
  BY <1>2, Zenon
<1>9. FrameLengths'
  BY <1>2, <1>3, Zenon DEF FrameLengths, ScreenInv
<1>10. AloneIsSeen'
  <2>1. ASSUME NEW k \in 1 .. n, Alone(k)' PROVE Follows(k)'
    <3>1. Alone(k)
      BY <1>2, <1>3, <2>1, Zenon DEF Alone
    <3>2. Follows(k)
      BY <1>2, <3>1, Zenon DEF ScreenInv, AloneIsSeen
    <3>3. CASE k = j
      BY <1>0, <1>3, <1>7, <1>8, <3>2, <3>3, Zenon DEF Follows
    <3>4. CASE k # j
      <4>1. Nth(j).location # Nth(k).location
        BY <1>2, <3>1, <3>4, Zenon DEF Alone
      <4>2. video'[Nth(k).location] = video[Nth(k).location]
        BY <1>4, <1>6, <4>1
      <4>3. Nth(k)' = Nth(k)
        BY <1>2, <3>4
      <4>. QED BY <1>0, <3>2, <4>2, <4>3, Zenon DEF Follows
    <3>. QED BY <3>3, <3>4
  <2>. QED BY <1>2, <2>1, Zenon DEF AloneIsSeen
<1>11. LastIsSeen'
  <2>. SUFFICES ASSUME stage <= 3, NEW m \in 1 .. CELLS + 1,
                       ebx' = (IF m \in 1 .. n THEN BlinkList[m] ELSE NULL)
                PROVE
             /\ Toggles(Elapsed) =>
                  \A p \in Slots : LastAt(p, m)' => video'[WAIT] = Shown(Nth(p)')
             /\ /\ Elapsed >= FRAME_LENGTH
                /\ ~ Toggles(Elapsed) \/ \A p \in Slots : ~ LastAt(p, m)'
                => \A p \in Slots : LastAt(p, CELLS + 1)' => video'[WAIT] = Shown(Nth(p)')
    <3>1. Elapsed' = Elapsed
      BY <1>0, Zenon DEF Elapsed
    <3>2. pc' = "tasklet" /\ stage' = stage /\ BlinkList' = BlinkList
      BY <1>0, <1>2
    <3>. QED BY <1>2, <3>1, <3>2, Zenon DEF LastIsSeen, Toggles, Phase
  <2>1. \A k \in 1 .. n : k < m <=> k <= j
    BY <1>2, Zenon
  <2>2. /\ ebx = (IF j \in DOMAIN BlinkList THEN BlinkList[j] ELSE NULL)
        /\ j \in 1 .. CELLS + 1
    BY <1>0, <1>2
  <2>3. /\ Toggles(Elapsed) =>
             \A p \in Slots : LastAt(p, j) => video[WAIT] = Shown(Nth(p))
        /\ /\ Elapsed >= FRAME_LENGTH
           /\ ~ Toggles(Elapsed) \/ \A p \in Slots : ~ LastAt(p, j)
           => \A p \in Slots : LastAt(p, CELLS + 1) => video[WAIT] = Shown(Nth(p))
    BY <1>0, <2>2, Zenon DEF ScreenInv, LastIsSeen
  <2>4. \A p : LastAt(p, CELLS + 1)' <=> LastAt(p, CELLS + 1)
    BY <1>2, <1>3, Zenon DEF LastAt
  <2>5. \A p : LastAt(p, m)' <=> /\ p \in 1 .. n /\ p <= j /\ Nth(p).location = WAIT
                                 /\ \A k \in 1 .. n :
                                      k <= j /\ Nth(k).location = WAIT => k <= p
    <3>1. \A p : LastAt(p, m)' <=>
                   /\ p \in 1 .. n /\ p < m /\ Nth(p).location = WAIT
                   /\ \A k \in 1 .. n : k < m /\ Nth(k).location = WAIT => k <= p
      BY <1>2, <1>3, Zenon DEF LastAt
    <3>. QED BY <2>1, <3>1, Zenon
  <2>6. CASE Nth(j).location = WAIT
    <3>1. Toggles(Elapsed) <=> Nth(j).countdown - 1 <= 0
      <4>1. Nth(j).on_length = FRAME_LENGTH /\ Nth(j).off_length = FRAME_LENGTH
        BY <1>2, <2>6, ScreenAssumption, Zenon DEF ScreenInv, FrameLengths
      <4>. QED BY <1>0, <1>2, <4>1, TogglesIs
    <3>2. \A p : LastAt(p, m)' <=> p = j
      <4>1. j <= j /\ \A p \in 1 .. n : p <= j /\ j <= p => p = j
        BY <1>0
      <4>. QED BY <2>5, <2>6, <4>1, Zenon
    <3>3. j \in Slots
      BY <1>0 DEF Slots
    <3>4. ~ Toggles(Elapsed) =>
            /\ video' = video
            /\ \A p \in 1 .. n : Shown(Nth(p)') = Shown(Nth(p))
      BY <1>2, <1>8, <3>1, Zenon
    <3>5. \A p : LastAt(p, CELLS + 1) => p \in 1 .. n
      BY <1>2, Zenon DEF LastAt
    <3>. QED BY <1>7, <2>3, <2>4, <2>6, <3>1, <3>2, <3>3, <3>4, <3>5, Zenon
  <2>7. CASE Nth(j).location # WAIT
    <3>1. \A p : LastAt(p, m)' <=> LastAt(p, j)
      <4>1. \A k \in 1 .. n : k # j => (k <= j <=> k < j)
        BY <1>0
      <4>2. \A k \in 1 .. n : Nth(k).location = WAIT => (k <= j <=> k < j)
        BY <2>7, <4>1
      <4>. QED BY <1>2, <2>5, <4>2, Zenon DEF LastAt
    <3>2. \A p, k : LastAt(p, k) => /\ video'[WAIT] = video[WAIT]
                                   /\ Nth(p)' = Nth(p)
      <4>1. ASSUME NEW p, NEW k, LastAt(p, k)
            PROVE  video'[WAIT] = video[WAIT] /\ Nth(p)' = Nth(p)
        <5>1. p \in 1 .. n /\ p # j /\ Nth(p).location = WAIT
          BY <1>2, <2>7, <4>1, Zenon DEF LastAt
        <5>2. WAIT \in 0 .. CELLS - 1
          BY <1>4, <5>1
        <5>. QED BY <1>2, <1>6, <2>7, <5>1, <5>2
      <4>. QED BY <4>1
    <3>. QED BY <2>3, <2>4, <3>1, <3>2, Zenon
  <2>. QED BY <2>6, <2>7
<1>. QED BY <1>9, <1>10, <1>11 DEF ScreenInv

\* The tasklet begins: it has passed no blinker.
LEMMA ScreenBegins ==
  ASSUME FishInv, ScreenInv, ReadClock
  PROVE  ScreenInv'
<1>0. /\ BlinkOK /\ ListInv /\ CELLS \in Nat /\ stage \in {1, 2, 3, 4}
      /\ pc = "read" /\ pc' = "tasklet" /\ ebx' = mp1_list_head
      /\ UNCHANGED <<blinkVars, stage, i>> /\ UNCHANGED <<blink_array, video>>
  <2>1. BlinkOK /\ ListInv /\ Rest
    BY TypeIsParts DEF TypeParts, FishInv
  <2>2. /\ pc = "read" /\ pc' = "tasklet" /\ ebx' = mp1_list_head
        /\ UNCHANGED <<blinkVars, stage, i>> /\ UNCHANGED <<blink_array, video>>
    BY Zenon DEF ReadClock, blinkVars
  <2>. QED BY <2>1, <2>2, CellsNat DEF Rest
<1>1. BlinkList' = BlinkList /\ Elapsed' = Elapsed
  BY <1>0, NothingStep, Zenon DEF Elapsed
<1>2. PICK n \in 0 .. CELLS : BlinkList \in [1 .. n -> Slots] /\ Chain(n, BlinkList)
  BY <1>0, Zenon DEF ListInv
<1>3. PICK L : L = BlinkList
  OBVIOUS
<1>4. /\ L \in [1 .. n -> Slots] /\ DOMAIN L = 1 .. n /\ n \in Nat
      /\ \A x, y \in 1 .. n : L[x] = L[y] => x = y
      /\ mp1_list_head = IF n = 0 THEN NULL ELSE L[1]
  <2>1. L \in [1 .. n -> Slots] /\ Chain(n, L)
    BY <1>2, <1>3, Zenon
  <2>2. DOMAIN L = 1 .. n /\ n \in Nat
    BY <1>0, <2>1
  <2>. QED BY <2>1, <2>2, Zenon DEF Chain
<1>5. stage' >= stage /\ stage' \in {1, 2, 3, 4}
  BY <1>0
<1>6. /\ FrameLengths' /\ AloneIsSeen'
      /\ \A p, j : LastAt(p, j)' <=> LastAt(p, j)
      /\ \A p : Nth(p)' = Nth(p)
  BY <1>0, <1>1, <1>5, ScreenSame, Zenon
<1>7. ASSUME NEW m \in 1 .. CELLS + 1,
             ebx' = (IF m \in DOMAIN BlinkList THEN BlinkList[m] ELSE NULL)
      PROVE  \A p \in Slots : ~ LastAt(p, m)
  <2>1. ASSUME NEW k \in 1 .. n PROVE ~ (k < m)
    <3>1. NULL \notin Slots /\ 1 \in 1 .. n
      BY <1>4 DEF NULL, Slots
    <3>2. L[1] = (IF m \in 1 .. n THEN L[m] ELSE NULL) /\ L[1] \in Slots
      BY <1>0, <1>3, <1>4, <1>7, <3>1
    <3>3. m = 1
      BY <1>4, <3>1, <3>2
    <3>. QED BY <3>3
  <2>. QED BY <1>3, <1>4, <2>1, Zenon DEF LastAt
<1>8. LastIsSeen'
  <2>1. pc # "tasklet"
    BY <1>0
  <2>. QED BY <1>0, <1>1, <1>6, <1>7, <2>1, Zenon
       DEF ScreenInv, LastIsSeen, Toggles, Phase
<1>. QED BY <1>6, <1>8 DEF ScreenInv

\* The tasklet ends: it has passed all of them.
LEMMA ScreenEnds ==
  ASSUME FishInv, ScreenInv, TaskletEnd
  PROVE  ScreenInv'
<1>0. /\ BlinkOK /\ ListInv /\ CELLS \in Nat /\ stage \in {1, 2, 3, 4}
      /\ pc = "tasklet" /\ pc' = "read" /\ ebx = NULL /\ i' = i + 1
      /\ stage' = stage /\ UNCHANGED blinkVars /\ UNCHANGED <<blink_array, video>>
      /\ Elapsed \in Nat /\ i \in Nat
  <2>1. BlinkOK /\ ListInv /\ Rest /\ TypeOK
    BY TypeIsParts DEF TypeParts, FishInv
  <2>2. /\ pc = "tasklet" /\ pc' = "read" /\ ebx = NULL /\ i' = i + 1
        /\ stage' = stage /\ UNCHANGED blinkVars /\ UNCHANGED <<blink_array, video>>
    BY Zenon DEF TaskletEnd, blinkVars
  <2>. QED BY <2>1, <2>2, CellsNat, ElapsedNat, TicksNat DEF Rest
<1>1. BlinkList' = BlinkList
  BY <1>0, NothingStep, Zenon
<1>2. Elapsed' = Elapsed + 1
  <2>1. (stage - 1) * WAIT \in Int
    BY <1>0, LengthFacts
  <2>. QED BY <1>0, <2>1 DEF Elapsed
<1>3. /\ FrameLengths' /\ AloneIsSeen'
      /\ \A p, j : LastAt(p, j)' <=> LastAt(p, j)
      /\ \A p : Nth(p)' = Nth(p)
  <2>1. stage' >= stage /\ stage' \in {1, 2, 3, 4}
    BY <1>0
  <2>. QED BY <1>0, <1>1, <2>1, ScreenSame, Zenon
<1>4. ebx = (IF CELLS + 1 \in DOMAIN BlinkList THEN BlinkList[CELLS + 1] ELSE NULL)
  <2>1. PICK n \in 0 .. CELLS : BlinkList \in [1 .. n -> Slots]
    BY <1>0, Zenon DEF ListInv
  <2>2. CELLS + 1 \notin 1 .. n
    BY <1>0
  <2>. QED BY <1>0, <2>1, <2>2
<1>5. ASSUME stage <= 3, Elapsed + 1 >= FRAME_LENGTH, NEW p \in Slots,
             LastAt(p, CELLS + 1)
      PROVE  video[WAIT] = Shown(Nth(p))
  <2>0. CELLS + 1 \in 1 .. CELLS + 1
    BY <1>0
  <2>1. CASE Toggles(Elapsed)
    BY <1>0, <1>4, <1>5, <2>0, <2>1, Zenon DEF ScreenInv, LastIsSeen
  <2>2. CASE ~ Toggles(Elapsed)
    <3>1. Elapsed >= FRAME_LENGTH
      BY <1>0, <1>5, <2>2, FirstToggle
    <3>. QED BY <1>0, <1>4, <1>5, <2>0, <2>2, <3>1, Zenon DEF ScreenInv, LastIsSeen
  <2>. QED BY <2>1, <2>2
<1>6. LastIsSeen'
  <2>1. pc' # "tasklet"
    BY <1>0
  <2>2. \A p : Shown(Nth(p))' = Shown(Nth(p))
    BY <1>3, Zenon DEF Shown
  <2>. QED BY <1>0, <1>2, <1>3, <1>5, <2>1, <2>2, Zenon DEF LastIsSeen
<1>. QED BY <1>3, <1>6 DEF ScreenInv

\* RTC_SYNC, away from the location that is removed.
LEMMA ScreenSync ==
  ASSUME FishInv, ScreenInv, Synced(ADD_LOCATION),
         stage = 2, stage' = 3, pc = "read", pc' = pc, Elapsed' = Elapsed
  PROVE  ScreenInv'
<1>0. BlinkOK /\ ListInv
  BY TypeIsParts DEF TypeParts, FishInv
<1>1. PICK n \in 0 .. CELLS :
        /\ DOMAIN BlinkList = 1 .. n
        /\ \A k \in 1 .. n : Nth(k).location \in 0 .. CELLS - 1
  BY <1>0, NthFacts
<1>2. PICK q \in 1 .. n :
       /\ Nth(q).location = ADD_LOCATION /\ ADD_LOCATION \in 0 .. CELLS - 1
       /\ Nth(q)'.location = ADD_LOCATION /\ Nth(q)'.off_char = Nth(q).off_char
       /\ video' = [video EXCEPT ![ADD_LOCATION] = Nth(q).off_char]
       /\ \A k \in 1 .. n : k # q => Nth(k)' = Nth(k)
  BY <1>1, Zenon DEF Synced
<1>3. BlinkList' = BlinkList
  BY DEF Synced
<1>4. \A k \in 1 .. n : Nth(k)'.location = Nth(k).location
  BY <1>2, Zenon
<1>5. DOMAIN video = 0 .. CELLS - 1
  BY <1>0 DEF BlinkOK
<1>6. /\ video'[ADD_LOCATION] = Nth(q).off_char
      /\ \A y \in 0 .. CELLS - 1 : y # ADD_LOCATION => video'[y] = video[y]
  BY <1>2, <1>5
<1>7. FrameLengths'
  BY <1>1, <1>2, <1>3, Zenon DEF ScreenInv, FrameLengths
<1>8. AloneIsSeen'
  <2>1. ASSUME NEW k \in 1 .. n, Alone(k)' PROVE Follows(k)'
    <3>0. stage' >= 3 /\ ~ (stage >= 3)
      OBVIOUS
    <3>1. Alone(k)
      BY <1>1, <1>3, <1>4, <2>1, Zenon DEF Alone
    <3>2. Follows(k)
      BY <1>1, <3>1, Zenon DEF ScreenInv, AloneIsSeen
    <3>3. CASE k = q
      BY <1>2, <1>6, <3>0, <3>3, Zenon DEF Follows
    <3>4. CASE k # q
      <4>1. Nth(k).location # ADD_LOCATION
        BY <1>1, <1>2, <3>1, <3>4, Zenon DEF Alone
      <4>. QED BY <1>1, <1>2, <1>6, <3>0, <3>2, <3>4, <4>1, Zenon DEF Follows
    <3>. QED BY <3>3, <3>4
  <2>. QED BY <1>1, <1>3, <2>1, Zenon DEF AloneIsSeen
<1>9. LastIsSeen'
  <2>0. pc' # "tasklet" /\ pc # "tasklet" /\ stage <= 3
    OBVIOUS
  <2>1. ASSUME Elapsed >= FRAME_LENGTH, NEW p \in Slots, LastAt(p, CELLS + 1)'
        PROVE  video'[WAIT] = Shown(Nth(p)')
    <3>1. LastAt(p, CELLS + 1)
      BY <1>1, <1>3, <1>4, <2>1, Zenon DEF LastAt
    <3>2. p \in 1 .. n /\ Nth(p).location = WAIT /\ p # q
      BY <1>1, <1>2, <3>1, ScreenAssumption, Zenon DEF LastAt
    <3>3. video[WAIT] = Shown(Nth(p))
      BY <2>0, <2>1, <3>1, Zenon DEF ScreenInv, LastIsSeen
    <3>4. WAIT \in 0 .. CELLS - 1
      BY <1>1, <3>2
    <3>. QED BY <1>2, <1>6, <3>2, <3>3, <3>4, ScreenAssumption, Zenon
  <2>. QED BY <2>0, <2>1, Zenon DEF LastIsSeen, Shown
<1>. QED BY <1>7, <1>8, <1>9 DEF ScreenInv

\* RTC_REMOVE: what is left alone at the location was the last there.
LEMMA ScreenRemove ==
  ASSUME FishInv, ScreenInv, Removed(WAIT), stage = 3, stage' = 4, pc = "read",
         Elapsed >= FRAME_LENGTH
  PROVE  ScreenInv'
<1>0. BlinkOK /\ ListInv /\ CELLS \in Nat
  BY TypeIsParts, CellsNat DEF TypeParts, FishInv
<1>1. PICK n \in 1 .. CELLS : \E q \in 1 .. n :
       /\ DOMAIN BlinkList = 1 .. n /\ DOMAIN BlinkList' = 1 .. n - 1
       /\ Nth(q).location = WAIT
       /\ \A k \in 1 .. n : Nth(k).location = WAIT => q <= k
       /\ \A k \in 1 .. n - 1 : Seen(Nth(k)') = Seen(Nth(IF k < q THEN k ELSE k + 1))
  BY Zenon DEF Removed
<1>2. PICK q \in 1 .. n :
       /\ DOMAIN BlinkList = 1 .. n /\ DOMAIN BlinkList' = 1 .. n - 1
       /\ Nth(q).location = WAIT
       /\ \A k \in 1 .. n : Nth(k).location = WAIT => q <= k
       /\ \A k \in 1 .. n - 1 : Seen(Nth(k)') = Seen(Nth(IF k < q THEN k ELSE k + 1))
  BY <1>1, Zenon
<1>. DEFINE old(k) == IF k < q THEN k ELSE k + 1
<1>3. ASSUME NEW k \in 1 .. n - 1
      PROVE  /\ old(k) \in 1 .. n /\ old(k) # q
             /\ Nth(k)'.location = Nth(old(k)).location
             /\ Nth(k)'.off_char = Nth(old(k)).off_char
             /\ Nth(k)'.on_length = Nth(old(k)).on_length
             /\ Nth(k)'.off_length = Nth(old(k)).off_length
             /\ Shown(Nth(k)') = Shown(Nth(old(k)))
  <2>1. old(k) \in 1 .. n /\ old(k) # q
    BY <1>0
  <2>2. Seen(Nth(k)') = Seen(Nth(old(k)))
    BY <1>2, Zenon
  <2>. HIDE DEF old
  <2>3. /\ Nth(k)'.location = Nth(old(k)).location
        /\ Nth(k)'.on_char = Nth(old(k)).on_char
        /\ Nth(k)'.off_char = Nth(old(k)).off_char
        /\ Nth(k)'.on_length = Nth(old(k)).on_length
        /\ Nth(k)'.off_length = Nth(old(k)).off_length
        /\ Nth(k)'.status = Nth(old(k)).status
    BY <2>2 DEF Seen
  <2>. QED BY <2>1, <2>3, Zenon DEF Shown
<1>4. ASSUME NEW m \in 1 .. n, m # q
      PROVE  \E k \in 1 .. n - 1 : old(k) = m
  <2>1. CASE m < q
    <3>1. m \in 1 .. n - 1 /\ old(m) = m
      BY <1>0, <2>1
    <3>. QED BY <3>1
  <2>2. CASE ~ (m < q)
    <3>1. m - 1 \in 1 .. n - 1 /\ old(m - 1) = m
      BY <1>0, <1>4, <2>2
    <3>. QED BY <3>1
  <2>. QED BY <2>1, <2>2
<1>. HIDE DEF old
<1>5. FrameLengths'
  BY <1>2, <1>3, Zenon DEF ScreenInv, FrameLengths
<1>6. ASSUME NEW k \in 1 .. n - 1, Alone(k)' PROVE Follows(k)'
  <2>1. ASSUME NEW m \in 1 .. n, m # q, m # old(k)
        PROVE  Nth(m).location # Nth(old(k)).location
    <3>1. PICK x \in 1 .. n - 1 : old(x) = m
      BY <1>4, <2>1
    <3>. QED BY <1>2, <1>3, <1>6, <2>1, <3>1, Zenon DEF Alone
  <2>2. stage' >= 3 /\ stage <= 3 /\ pc # "tasklet"
    OBVIOUS
  <2>3. video' = video
    BY DEF Removed
  <2>4. CASE Nth(old(k)).location = WAIT
    <3>1. LastAt(old(k), CELLS + 1)
      <4>1. old(k) < CELLS + 1 /\ old(k) <= old(k)
        BY <1>0, <1>3
      <4>. QED BY <1>2, <1>3, <2>1, <2>4, <4>1, Zenon DEF LastAt
    <3>2. old(k) \in Slots
      BY <1>0, <1>3 DEF Slots
    <3>3. video[WAIT] = Shown(Nth(old(k)))
      BY <2>2, <3>1, <3>2, Zenon DEF ScreenInv, LastIsSeen
    <3>. QED BY <1>3, <2>3, <2>4, <3>3, Zenon DEF Follows
  <2>5. CASE Nth(old(k)).location # WAIT
    <3>1. Alone(old(k))
      BY <1>2, <2>1, <2>5, Zenon DEF Alone
    <3>2. Follows(old(k))
      BY <1>2, <1>3, <3>1, Zenon DEF ScreenInv, AloneIsSeen
    <3>. QED BY <1>3, <2>2, <2>3, <3>2, Zenon DEF Follows
  <2>. QED BY <2>4, <2>5
<1>7. AloneIsSeen'
  BY <1>2, <1>6, Zenon DEF AloneIsSeen
<1>8. LastIsSeen'
  BY DEF LastIsSeen
<1>. QED BY <1>5, <1>7, <1>8 DEF ScreenInv

\* At the start there is no blinker.
LEMMA ScreenInit == Init => ScreenInv
<1>. SUFFICES ASSUME Init PROVE ScreenInv
  OBVIOUS
<1>1. mp1_list_head = NULL /\ pc = "open"
  BY Zenon DEF Init, BlinkInit
<1>2. ListInv
  BY FishInit DEF FishInv
<1>3. PICK n \in 0 .. CELLS : BlinkList \in [1 .. n -> Slots] /\ Chain(n, BlinkList)
  BY <1>2, Zenon DEF ListInv
<1>4. n = 0
  <2>1. mp1_list_head = IF n = 0 THEN NULL ELSE BlinkList[1]
    BY <1>3, Zenon DEF Chain
  <2>2. n # 0 => BlinkList[1] \in Slots
    <3>1. n # 0 => 1 \in 1 .. n
      BY CellsNat
    <3>. QED BY <1>3, <3>1
  <2>. QED BY <1>1, <2>1, <2>2 DEF NULL, Slots
<1>5. DOMAIN BlinkList = {}
  BY <1>3, <1>4
<1>6. \A p, j : ~ LastAt(p, j)
  BY <1>5, Zenon DEF LastAt
<1>. QED BY <1>1, <1>5, <1>6 DEF ScreenInv, FrameLengths, LastIsSeen, AloneIsSeen

\* While the frames are read no blinker has changed yet.
LEMMA ScreenFrames ==
  ASSUME FishInv, ScreenInv, OpenClock \/ OpenFrames \/ FrameCell \/ FrameRow
  PROVE  ScreenInv'
<1>0. /\ BlinkOK /\ ListInv /\ ReadShape /\ stage \in {1, 2, 3, 4}
  BY TypeIsParts DEF TypeParts, FishInv, Rest
<1>1. /\ pc \in {"open", "opened", "frames"} /\ pc' # "tasklet" /\ UNCHANGED <<stage, i>>
      /\ \/ UNCHANGED blinkVars
         \/ FrameCell
  BY DEF OpenClock, OpenFrames, FrameRow, FrameCell, loopVars
<1>2. LastIsSeen'
  <2>1. stage = 1 /\ i = 0
    BY <1>0, <1>1 DEF ReadShape
  <2>2. Elapsed' = 0 /\ ~ (Elapsed' >= FRAME_LENGTH)
    BY <1>1, <2>1, LengthFacts DEF Elapsed
  <2>. QED BY <1>1, <2>2, Zenon DEF LastIsSeen
<1>3. stage' >= stage /\ stage' \in {1, 2, 3, 4}
  BY <1>0, <1>1
<1>4. CASE UNCHANGED blinkVars
  <2>1. BlinkList' = BlinkList /\ UNCHANGED <<blink_array, video>>
    BY <1>0, <1>4, NothingStep, Zenon DEF blinkVars
  <2>. QED BY <1>0, <1>2, <1>3, <2>1, ScreenSame, Zenon DEF ScreenInv
<1>5. CASE FrameCell /\ ~ UNCHANGED blinkVars
  <2>. DEFINE char == [f \in File |-> NextChar(f)]
              Drawn(f) == IF char[f] = "\n" THEN " " ELSE char[f]
  <2>1. /\ pc = "frames"
        /\ mp1_ioctl_add(Location(row, col), Drawn("frame0"),
                         Drawn("frame1"), FRAME_LENGTH, FRAME_LENGTH)
    BY <1>5, Zenon DEF FrameCell
  <2>2. Drawn("frame0") \in Chars /\ Drawn("frame1") \in Chars
    <3>1. \A f \in File : NextChar(f) \in Chars
      BY <2>1, NextCharFacts, Zenon DEF FishInv
    <3>. QED BY <3>1, CharsFacts DEF File
  <2>3. Location(row, col) \in Nat \ {0} /\ FRAME_LENGTH \in Nat
    BY <1>0, LocationNat, LengthFacts DEF ReadShape
  <2>. HIDE DEF Drawn
  <2>4. PICK r : /\ r.status = 1 /\ r.on_length = FRAME_LENGTH
                 /\ r.off_length = FRAME_LENGTH /\ Added(r)
    <3>1. \/ UNCHANGED blinkVars
          \/ AddedWith(Location(row, col), FRAME_LENGTH, FRAME_LENGTH)
      BY <1>0, <2>1, <2>2, <2>3, AddStep
    <3>. QED BY <1>5, <3>1, Zenon DEF AddedWith
  <2>. QED BY <1>0, <1>2, <1>3, <2>4, ScreenAdd, Zenon DEF ScreenInv
<1>. QED BY <1>1, <1>4, <1>5

\* What main does between its loops.
LEMMA ScreenBetween ==
  ASSUME FishInv, ScreenInv, Between
  PROVE  ScreenInv'
<1>0. BlinkOK /\ ListInv /\ stage \in {1, 2, 3, 4} /\ CELLS \in Nat
  BY TypeIsParts, CellsNat DEF TypeParts, FishInv, Rest
<1>1. /\ pc = "read" /\ i = Ticks(stage)
      /\ \/ /\ stage = 4 /\ pc' = "done" /\ UNCHANGED <<stage, i>>
            /\ UNCHANGED blinkVars
         \/ /\ stage # 4 /\ stage' = stage + 1 /\ i' = 0 /\ pc' = pc
            /\ \/ stage = 1 /\ mp1_ioctl_add(ADD_LOCATION, "I", "M", ADD_ON, ADD_OFF)
               \/ stage = 2 /\ mp1_ioctl_sync(OFFSET, ADD_LOCATION)
               \/ stage = 3 /\ mp1_ioctl_remove(i)
  <2>1. \/ stage = 1 /\ mp1_ioctl_add(ADD_LOCATION, "I", "M", ADD_ON, ADD_OFF)
        \/ stage = 2 /\ mp1_ioctl_sync(OFFSET, ADD_LOCATION)
        \/ stage = 3 /\ mp1_ioctl_remove(i)
        \/ stage = 4 /\ UNCHANGED blinkVars
    BY <1>0, Zenon DEF Between
  <2>2. /\ pc = "read" /\ i = Ticks(stage)
        /\ \/ stage = 4 /\ pc' = "done" /\ UNCHANGED <<stage, i>>
           \/ stage # 4 /\ stage' = stage + 1 /\ i' = 0 /\ pc' = pc
    BY Zenon DEF Between
  <2>3. 1 # 4 /\ 2 # 4 /\ 3 # 4
    OBVIOUS
  <2>. QED BY <2>1, <2>2, <2>3, Zenon
<1>2. pc # "tasklet" /\ pc' # "tasklet"
  BY <1>1
<1>3. stage' >= stage /\ stage' \in {1, 2, 3, 4}
  BY <1>0, <1>1
<1>4. stage # 4 => Elapsed' = Elapsed /\ i = WAIT
  <2>. SUFFICES ASSUME stage # 4 PROVE Elapsed' = Elapsed /\ i = WAIT
    OBVIOUS
  <2>1. i = WAIT /\ i' = 0 /\ stage' = stage + 1 /\ WAIT \in Nat
    BY <1>0, <1>1, LengthFacts DEF Ticks
  <2>. QED BY <1>0, <2>1 DEF Elapsed
<1>5. CASE UNCHANGED blinkVars
  <2>1. BlinkList' = BlinkList /\ UNCHANGED <<blink_array, video>>
    BY <1>0, <1>5, NothingStep, Zenon DEF blinkVars
  <2>2. /\ FrameLengths' /\ AloneIsSeen'
        /\ \A p, j : LastAt(p, j)' <=> LastAt(p, j)
        /\ \A p : Nth(p)' = Nth(p)
    BY <1>0, <1>3, <2>1, ScreenSame, Zenon
  <2>3. LastIsSeen'
    <3>1. CASE stage = 4
      <4>1. ~ (stage' <= 3)
        BY <1>1, <3>1
      <4>. QED BY <4>1, Zenon DEF LastIsSeen
    <3>2. CASE stage # 4
      <4>1. stage <= 3 /\ Elapsed' = Elapsed
        BY <1>0, <1>4, <3>2
      <4>2. \A p : Shown(Nth(p))' = Shown(Nth(p))
        BY <2>2, Zenon DEF Shown
      <4>. QED BY <1>2, <2>1, <2>2, <4>1, <4>2, Zenon DEF ScreenInv, LastIsSeen
    <3>. QED BY <3>1, <3>2
  <2>. QED BY <2>2, <2>3 DEF ScreenInv
<1>6. CASE stage = 1 /\ ~ UNCHANGED blinkVars
  <2>0. mp1_ioctl_add(ADD_LOCATION, "I", "M", ADD_ON, ADD_OFF)
    BY <1>1, <1>6
  <2>1. ADD_ON \in Nat /\ ADD_OFF \in Nat /\ ADD_LOCATION \in Nat \ {0}
    <3>1. ADD_LOCATION \in 1 .. CELLS - 1
      BY FishAssumption
    <3>. QED BY <1>0, <3>1, LengthFacts
  <2>2. "I" \in Chars /\ "M" \in Chars
    BY CharsFacts
  <2>3. ListInv' /\ \E r : r.location = ADD_LOCATION /\ r.status = 1 /\ Added(r)
    <3>1. /\ ListInv'
          /\ UNCHANGED blinkVars \/ AddedWith(ADD_LOCATION, ADD_ON, ADD_OFF)
      BY <1>0, <2>0, <2>1, <2>2, AddStep
    <3>. QED BY <1>6, <3>1, Zenon DEF AddedWith
  <2>4. PICK r : r.location = ADD_LOCATION /\ r.status = 1 /\ Added(r)
    BY <2>3
  <2>5. FrameLengths' /\ AloneIsSeen'
    BY <1>0, <1>3, <2>4, ScreenAdd, Zenon
  <2>6. LastIsSeen'
    <3>1. ASSUME Elapsed' >= FRAME_LENGTH, NEW p \in Slots, LastAt(p, CELLS + 1)'
          PROVE  video'[WAIT] = Shown(Nth(p)')
      <4>1. PICK q \in Slots : /\ LastAt(q, CELLS + 1) /\ Nth(p)' = Nth(q)
                               /\ video'[WAIT] = video[WAIT]
        BY <2>3, <2>4, <3>1, LastAdd, ScreenAssumption, Zenon
      <4>2. stage <= 3 /\ Elapsed >= FRAME_LENGTH
        BY <1>4, <1>6, <3>1
      <4>. QED BY <1>2, <4>1, <4>2, Zenon DEF ScreenInv, LastIsSeen
    <3>. QED BY <1>2, <3>1, Zenon DEF LastIsSeen, Shown
  <2>. QED BY <2>5, <2>6 DEF ScreenInv
<1>7. CASE stage = 2 /\ ~ UNCHANGED blinkVars
  <2>1. Synced(ADD_LOCATION)
    BY <1>0, <1>1, <1>7, SyncStep
  <2>2. stage' = 3 /\ pc' = pc /\ Elapsed' = Elapsed
    BY <1>1, <1>4, <1>7
  <2>. QED BY <1>1, <1>7, <2>1, <2>2, ScreenSync
<1>8. CASE stage = 3 /\ ~ UNCHANGED blinkVars
  <2>1. i = WAIT /\ mp1_ioctl_remove(i) /\ stage' = 4
    BY <1>1, <1>4, <1>8
  <2>2. Removed(WAIT)
    BY <1>0, <1>8, <2>1, RemoveStep
  <2>3. Elapsed >= FRAME_LENGTH
    BY <1>8, <2>1, LengthFacts, ScreenAssumption DEF Elapsed
  <2>. QED BY <1>1, <1>8, <2>1, <2>2, <2>3, ScreenRemove
<1>. QED BY <1>0, <1>1, <1>5, <1>6, <1>7, <1>8

\* Every action keeps the invariant of the screen.
LEMMA ScreenStep ==
  ASSUME FishInv, TimeInv, ScreenInv, [Next]_vars
  PROVE  ScreenInv'
<1>1. CASE UNCHANGED vars
  <2>1. /\ UNCHANGED <<blinkVars, pc, stage, i, ebx>>
        /\ UNCHANGED <<blink_array, video>>
    BY <1>1, Zenon DEF vars, loopVars, blinkVars
  <2>2. BlinkOK /\ ListInv /\ stage \in {1, 2, 3, 4}
    BY TypeIsParts DEF TypeParts, FishInv, Rest
  <2>3. BlinkList' = BlinkList /\ Elapsed' = Elapsed
    BY <2>1, <2>2, NothingStep, Zenon DEF Elapsed
  <2>4. stage' >= stage /\ stage' \in {1, 2, 3, 4}
    BY <2>1, <2>2
  <2>5. /\ FrameLengths' /\ AloneIsSeen'
        /\ \A p, j : LastAt(p, j)' <=> LastAt(p, j)
        /\ \A p : Nth(p)' = Nth(p)
    BY <2>1, <2>2, <2>3, <2>4, ScreenSame, Zenon
  <2>6. LastIsSeen'
    BY <2>1, <2>3, <2>5, Zenon DEF ScreenInv, LastIsSeen, Toggles, Phase, Shown
  <2>. QED BY <2>5, <2>6 DEF ScreenInv
<1>. QED BY <1>1, ScreenFrames, ScreenBegins, ScreenLoop, ScreenEnds, ScreenBetween
     DEF Next

\* At every step of mp1_rtc_tasklet and of the ioctls the screen shows, at a
\* location with one blinker, the character for its status; after RTC_REMOVE
\* took one of two there the other is the one that is seen.
THEOREM ScreenTheorem == ProgramsSpec => []ScreenFollows
<1>. DEFINE Inv == FishInv /\ TimeInv /\ ScreenInv
<1>1. ProgramsInit => Inv
  BY FishInit, ScreenInit DEF ProgramsInit
<1>2. Inv /\ [ProgramsNext]_<<vars, grepVars>> => Inv'
  BY FishStep, TimeStep, ScreenStep, FishAlone
<1>3. Inv => ScreenFollows
  BY SeenGives DEF ScreenInv, FishInv
<1>. QED BY <1>1, <1>2, <1>3, PTL DEF ProgramsSpec
=============================================================================
