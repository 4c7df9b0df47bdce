------------------------------- MODULE Blink -------------------------------
(***************************************************************************)
(* The blinking characters of the fish program (src/fish/blink.S, with its *)
(* allocator in src/fish/fish.c): an array of structures that is at once   *)
(* the heap, where a structure is free while its location is 0, and a      *)
(* singly linked list from mp1_list_head, which the ioctls edit and        *)
(* mp1_rtc_tasklet walks at every tick of the real-time clock.             *)
(*                                                                         *)
(* Pointers are slots of blink_array, with 0 for NULL.  Lengths stay below *)
(* 2^15, where the signed comparison of the tasklet is the unsigned one.   *)
(* RTC_FIND is not modelled: no program issues it.                         *)
(***************************************************************************)
EXTENDS Integers, Sequences, SequencesExt, FiniteSetsExt

CONSTANTS COLS,      \* 80 characters in a line of the screen
          ROWS       \* 25 lines

ASSUME BlinkAssumption == COLS \in Nat \ {0} /\ ROWS \in Nat \ {0}

VARIABLES
  blink_array,       \* the structures
  mp1_list_head,     \* the slot at the head of the list
  video              \* the character in each cell of the mapped screen

blinkVars == <<blink_array, mp1_list_head, video>>

CELLS == COLS * ROWS
Slots == 1 .. CELLS
NULL  == 0

\* What mp1_free, and main before anything else, leave in a slot.
Zeroed == [location |-> 0, on_char |-> "0", off_char |-> "0", on_length |-> 0,
           off_length |-> 0, countdown |-> 0, status |-> 0, next |-> NULL]

BlinkInit ==
  /\ blink_array = [s \in Slots |-> Zeroed]
  /\ mp1_list_head = NULL
  /\ video = [p \in 0 .. CELLS - 1 |-> " "]

(***************************************************************************)
(* Following the NEXT pointers: the slot reached after each number of hops.*)
(***************************************************************************)
Visited ==
  LET hop[k \in 0 .. CELLS] ==
        IF k = 0 THEN mp1_list_head
        ELSE IF hop[k - 1] = NULL THEN NULL ELSE blink_array[hop[k - 1]].next
  IN  hop

\* The list as a sequence of slots.
BlinkList == [k \in {j \in Slots : Visited[j - 1] # NULL} |-> Visited[k - 1]]

\* The first structure of the list at a location.
mp1_find_helper(location) ==
  LET hits == {k \in DOMAIN BlinkList :
                 blink_array[BlinkList[k]].location = location}
  IN  IF hits = {} THEN NULL ELSE BlinkList[Min(hits)]

mp1_malloc_NoTest == 1

mp1_malloc ==
  LET free == {s \in Slots : blink_array[s].location = 0}
  IN  IF free = {} THEN NULL ELSE CHOOSE s \in free : \A t \in free : s <= t

mp1_poke(char, location) == video' = [video EXCEPT ![location] = char]

(***************************************************************************)
(* The ioctls.  A failing one returns -1 and changes nothing; the program  *)
(* looks at no result.                                                     *)
(***************************************************************************)
InvalidLocation_OffByOne(location) == location > CELLS

InvalidLocation(location) == location >= CELLS

mp1_ioctl_add(location, on_char, off_char, on_length, off_length) ==
  LET new == mp1_malloc
  IN  IF InvalidLocation(location) \/ new = NULL
      THEN UNCHANGED blinkVars
      ELSE /\ blink_array' = [blink_array EXCEPT ![new] =
                [location |-> location, on_char |-> on_char,
                 off_char |-> off_char, on_length |-> on_length,
                 off_length |-> off_length, countdown |-> on_length,
                 status |-> 1, next |-> mp1_list_head]]
           /\ mp1_list_head' = new
           /\ mp1_poke(on_char, location)

SkipTo_Stay(p, found) == p

\* The pointer to the found structure, the head's or another structure's, is
\* made to skip it before the structure is cleared.
SkipTo(p, found) == IF p = found THEN blink_array[found].next ELSE p

mp1_ioctl_remove(location) ==
  LET found == mp1_find_helper(location)
  IN  IF found = NULL
      THEN UNCHANGED blinkVars
      ELSE /\ mp1_list_head' = SkipTo(mp1_list_head, found)
           /\ blink_array' = [s \in Slots |->
                IF s = found THEN Zeroed
                ELSE [blink_array[s] EXCEPT !.next = SkipTo(@, found)]]
           /\ UNCHANGED video

\* The second structure takes over the lengths and the phase of the first.
\* What is displayed is OFF_CHAR whatever the status: after testb the
\* condition of cmovl is always false.
mp1_ioctl_sync(from, to) ==
  LET esi == mp1_find_helper(from)
      edi == mp1_find_helper(to)
  IN  IF esi = NULL \/ edi = NULL
      THEN UNCHANGED blinkVars
      ELSE /\ blink_array' = [blink_array EXCEPT ![edi] =
                [@ EXCEPT !.on_length  = blink_array[esi].on_length,
                          !.off_length = blink_array[esi].off_length,
                          !.countdown  = blink_array[esi].countdown,
                          !.status     = blink_array[esi].status]]
           /\ mp1_poke(blink_array[edi].off_char, blink_array[edi].location)
           /\ UNCHANGED mp1_list_head

Expired_Late(b) == b.countdown - 1 < 0

\* decw and cmpw: the phase of the blinker is over.
Expired(b) == b.countdown - 1 <= 0

ToggledChar_Same(b) == IF b.status = 1 THEN b.on_char ELSE b.off_char

ToggledChar(b) == IF b.status = 1 THEN b.off_char ELSE b.on_char

\* The body of tasklet_loop for one structure.
tasklet_loop(s) ==
  LET b == blink_array[s]
  IN  /\ IF Expired(b)
         THEN /\ blink_array' = [blink_array EXCEPT
                   ![s].countdown = IF b.status = 1 THEN b.off_length
                                    ELSE b.on_length,
                   ![s].status = 1 - @]
              /\ mp1_poke(ToggledChar(b), b.location)
         ELSE /\ blink_array' = [blink_array EXCEPT ![s].countdown = @ - 1]
              /\ UNCHANGED video
      /\ UNCHANGED mp1_list_head

(***************************************************************************)
(* The list is the heap: following the pointers from mp1_list_head visits  *)
(* every structure in use exactly once, no free one, and ends.  mp1_malloc *)
(* decides by the location alone, the ioctls edit the pointers alone: a    *)
(* structure on the list that looks free is handed out again and makes the *)
(* list a cycle, one in use off the list is never freed and never blinks.  *)
(***************************************************************************)
ListIsHeap ==
  /\ IsInjective(BlinkList)
  /\ Range(BlinkList) = {s \in Slots : blink_array[s].location # 0}
  /\ Visited[CELLS] = NULL
=============================================================================
