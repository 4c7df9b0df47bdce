----------------------------- MODULE LibProofs -----------------------------
(***************************************************************************)
(* Proof that the memory routines of lib.c store what they promise, for    *)
(* every size of the memory, length, destination and source.  MemoryRight  *)
(* speaks of the end of a call; Running says how far a routine has come:   *)
(* the registers by the bytes that are left, and memory by the bytes the   *)
(* destination pointer has passed, upwards or, for a memmove to a higher   *)
(* address, downwards.                                                     *)
(*                                                                         *)
(* The string routines end at a byte of memory and not at a count: StrInv  *)
(* says that what i has passed is the string that was asked for, so that   *)
(* the byte that stops the loop is its end.                                *)
(***************************************************************************)
EXTENDS Library, TLAPS

MemPc == {"top", "rep", "bottom"}

\* A memory routine runs for a part of the kernel other than read_data.
Direct == pc \in MemPc /\ back = "returned"

Bytes == call.n * UnitOf(call.fn)

\* memmove from the last byte down.
Turned == call.fn = "memmove" /\ call.src < call.dest

\* The bytes that are still to be stored.
Left == IF pc = "top" THEN ecx
        ELSE IF pc = "rep" THEN unit * ecx + edx ELSE edx

Overlap == call.fn = "memcpy"
           /\ call.dest \in call.src + 1 .. call.src + call.n - 1

\* The pointers by the bytes that are left; the direction flag is right when
\* the string instruction runs.
Registers ==
  /\ edi \in Int /\ esi \in Int /\ ecx \in Nat /\ edx \in Nat
  /\ unit = IF call.fn = "memset_word" THEN 2
            ELSE IF call.fn = "memmove" THEN 1 ELSE 4
  /\ call.fn \notin {"memcpy", "memset"} => pc # "top" /\ edx = 0
  /\ pc = "rep" => df = Turned
  /\ Left <= Bytes
  /\ edi = IF Turned THEN call.dest + Left - 1 ELSE call.dest + Bytes - Left
  /\ Copies => esi = IF Turned THEN call.src + Left - 1
                     ELSE call.src + Bytes - Left

\* The call and its bounds.
MemCall ==
  /\ call.fn \in MemRoutines
  /\ call.dest \in 0 .. MAX_ADDRESS /\ call.src \in 0 .. MAX_ADDRESS
  /\ call.n \in Nat
  /\ Bytes \in Nat /\ Bytes <= MAX_N

\* The byte with number k, from 0, of what is to be stored.
ByteOf(k) == IF Copies THEN Old(call.src + k)
             ELSE IF call.fn = "memset" THEN 101
             ELSE Arg[(k % UnitOf(call.fn)) + 1]

\* Where pointers have been, the new bytes; elsewhere, the old ones.
SoFar(passed) ==
  memory = [a \in Addresses |-> IF a \in passed THEN ByteOf(a - call.dest)
                                                ELSE Old(a)]

\* From the first byte up, and from the last one down.
StoredUp   == SoFar(call.dest .. edi - 1)
StoredDown == SoFar(edi + 1 .. call.dest + Bytes - 1)

\* The u bytes of eax a stos stores next.
EaxRight(u) == ~ Copies => \A b \in 0 .. u - 1 :
                             eax[b + 1] = ByteOf(edi - call.dest + b)

\* What a routine has stored so far; memcpy promises nothing for a destination
\* inside its source.
Stored == ~ Overlap => IF Turned THEN StoredDown ELSE StoredUp

Running == Direct /\ MemCall /\ Registers /\ Stored

OldMemory == memory = [a \in Addresses |-> Old(a)]

\* The inductive invariant for the memory routines.
MemInv ==
  /\ Direct => Running
  /\ pc = "idle" => OldMemory
  /\ pc \in StrRoutines \cup {"strncpy_pad"} => call.fn \in StrRoutines
  /\ back \in {"none", "copy", "returned"}
  /\ MemoryRight

----------------------------------------------------------------------------
\* The units of the routines.
LEMMA Units ==
  /\ UnitOf("memset_word") = 2 /\ UnitOf("memset_dword") = 4
  /\ \A fn : fn \notin {"memset_word", "memset_dword"} => UnitOf(fn) = 1
  BY Zenon DEF UnitOf

\* A memory routine is not called with strings.
LEMMA LaidMem ==
  ASSUME NEW k, k.fn \notin StrRoutines
  PROVE  Laid(k) = [a \in Addresses |-> Old(a)]
  BY Zenon DEF Laid, StrRoutines

\* NoCall is no routine.
LEMMA LaidNone == Laid(NoCall) = [a \in Addresses |-> Old(a)]
<1>1. NoCall.fn \notin StrRoutines
  BY DEF NoCall, StrRoutines
<1>. QED BY <1>1, LaidMem

\* The arithmetic of a call and of the memory.
LEMMA CallFacts ==
  ASSUME MemCall
  PROVE  /\ TOP \in Nat /\ MAX_N \in Nat /\ MAX_ADDRESS \in Nat
         /\ MAX_ADDRESS + MAX_N < TOP
         /\ call.dest \in Nat /\ call.src \in Nat /\ call.n \in Nat
         /\ call.dest <= MAX_ADDRESS /\ call.src <= MAX_ADDRESS
         /\ Bytes \in Nat /\ Bytes <= MAX_N
<1>1. MAX_ADDRESS \in Nat
  BY LibAssumption
<1>2. call.dest \in 0 .. MAX_ADDRESS /\ call.src \in 0 .. MAX_ADDRESS
  BY DEF MemCall
<1>3. /\ call.dest \in Nat /\ call.src \in Nat
      /\ call.dest <= MAX_ADDRESS /\ call.src <= MAX_ADDRESS
  BY <1>1, <1>2
<1>. QED BY <1>3, LibAssumption, Zenon DEF MemCall

\* What MemoryRight wants, byte by byte.
LEMMA WantedBytes ==
  ASSUME MemCall, NEW a \in Addresses
  PROVE  MemWanted(a) = IF a \in call.dest .. call.dest + Bytes - 1
                        THEN ByteOf(a - call.dest) ELSE Old(a)
<1>1. Before = [b \in Addresses |-> Old(b)]
  BY LaidMem DEF Before, MemCall, MemRoutines, StrRoutines
<1>2. CASE a \notin call.dest .. call.dest + Bytes - 1
  BY <1>1, <1>2, Zenon DEF MemWanted, Bytes
<1>3. CASE a \in call.dest .. call.dest + Bytes - 1
  <2>1. CASE Copies
    <3>1. call.src + a - call.dest \in Addresses
      <4>1. /\ TOP \in Nat /\ MAX_N \in Nat /\ MAX_ADDRESS \in Nat
            /\ MAX_ADDRESS + MAX_N < TOP
            /\ call.dest \in Nat /\ call.src \in Nat
            /\ call.src <= MAX_ADDRESS /\ Bytes \in Nat /\ Bytes <= MAX_N
        BY CallFacts, Zenon
      <4>. QED BY <1>3, <4>1 DEF Addresses
    <3>2. MemWanted(a) = Before[call.src + a - call.dest]
      BY <1>3, <2>1, Zenon DEF MemWanted, Bytes, Copies
    <3>3. call.src + a - call.dest = call.src + (a - call.dest)
      BY <1>3 DEF MemCall, Addresses
    <3>4. ByteOf(a - call.dest) = Old(call.src + (a - call.dest))
      BY <2>1, Zenon DEF ByteOf
    <3>. QED BY <1>1, <1>3, <3>1, <3>2, <3>3, <3>4, Zenon
  <2>2. CASE ~ Copies /\ call.fn = "memset"
    <3>1. MemWanted(a) = Arg[1]
      BY <1>3, <2>2, Zenon DEF MemWanted, Bytes, Copies
    <3>2. Arg[1] = 101
      BY DEF Arg
    <3>. QED BY <1>3, <2>2, <3>1, <3>2, Zenon DEF ByteOf
  <2>3. CASE ~ Copies /\ call.fn # "memset"
    BY <1>3, <2>3, Zenon DEF MemWanted, Bytes, Copies, ByteOf
  <2>. QED BY <2>1, <2>2, <2>3
<1>. QED BY <1>2, <1>3

\* A transfer of u bytes upwards stores the right bytes, if the sources it
\* loads from have not been stored to.
LEMMA Forward ==
  ASSUME MemCall, Registers, ~ Turned, ~ Overlap, StoredUp,
         NEW u \in Nat, 1 <= u, u <= Left, Left \in Nat, Transfer(u, FALSE),
         EaxRight(u), call' = call
  PROVE  StoredUp'
<1>f. /\ TOP \in Nat /\ MAX_N \in Nat /\ MAX_ADDRESS \in Nat
      /\ MAX_ADDRESS + MAX_N < TOP
      /\ call.dest \in Nat /\ call.src \in Nat /\ call.n \in Nat
      /\ call.dest <= MAX_ADDRESS /\ call.src <= MAX_ADDRESS
      /\ Bytes \in Nat /\ Bytes <= MAX_N
  BY CallFacts, Zenon
<1>1. /\ edi \in Int /\ edi' = edi + u
      /\ edi = call.dest + Bytes - Left
      /\ Copies => esi = call.src + Bytes - Left
      /\ Left <= Bytes
  BY DEF Registers, Transfer
<1>2. memory = [a \in Addresses |-> IF a \in call.dest .. edi - 1
                                    THEN ByteOf(a - call.dest) ELSE Old(a)]
  BY DEF StoredUp, SoFar
<1>3. memory' = [a \in Addresses |->
                  IF a \notin edi .. edi + u - 1 THEN memory[a]
                  ELSE IF Copies THEN Load(esi + a - edi) ELSE eax[a - edi + 1]]
  BY DEF Transfer
<1>4. ASSUME NEW a \in Addresses, a \in edi .. edi + u - 1, Copies
      PROVE  memory'[a] = ByteOf(a - call.dest)
  <2>1. esi + a - edi = call.src + (a - call.dest)
    BY <1>1, <1>4, <1>f
  <2>2. esi + a - edi \in Addresses /\ esi + a - edi \notin call.dest .. edi - 1
    <3>1. CASE call.src >= call.dest
      BY <1>1, <1>4, <3>1, <1>f DEF Addresses
    <3>2. CASE call.src < call.dest
      <4>1. call.fn = "memcpy" /\ Bytes = call.n /\ call.src + call.n <= call.dest
        <5>1. call.fn = "memcpy"
          BY <1>4, <3>2 DEF Turned, Copies
        <5>2. Bytes = call.n
          BY <5>1, Units, <1>f DEF Bytes
        <5>. QED BY <5>1, <5>2, <3>2, <1>f DEF Overlap
      <4>. QED BY <1>1, <1>4, <4>1, <1>f DEF Addresses
    <3>. QED BY <3>1, <3>2, <1>f
  <2>3. Load(esi + a - edi) = Old(call.src + (a - call.dest))
    BY <1>2, <2>1, <2>2 DEF Load
  <2>. QED BY <1>3, <1>4, <2>3 DEF ByteOf
<1>5. ASSUME NEW a \in Addresses, a \in edi .. edi + u - 1, ~ Copies
      PROVE  memory'[a] = ByteOf(a - call.dest)
  <2>1. /\ a - edi \in 0 .. u - 1 /\ a - edi + 1 = (a - edi) + 1
        /\ edi - call.dest + (a - edi) = a - call.dest
    BY <1>1, <1>5, <1>f DEF Addresses
  <2>2. eax[(a - edi) + 1] = ByteOf(edi - call.dest + (a - edi))
    BY <1>5, <2>1 DEF EaxRight
  <2>. QED BY <1>3, <1>5, <2>1, <2>2
<1>6. ASSUME NEW a \in Addresses
      PROVE  memory'[a] = IF a \in call.dest .. edi' - 1
                          THEN ByteOf(a - call.dest) ELSE Old(a)
  <2>1. CASE a \in edi .. edi + u - 1
    <3>1. a \in call.dest .. edi' - 1
      BY <1>1, <2>1, <1>f DEF Addresses
    <3>. QED BY <1>4, <1>5, <2>1, <3>1
  <2>2. CASE a \notin edi .. edi + u - 1
    <3>1. a \in call.dest .. edi' - 1 <=> a \in call.dest .. edi - 1
      BY <1>1, <2>2, <1>f DEF Addresses
    <3>. QED BY <1>2, <1>3, <2>2, <3>1
  <2>. QED BY <2>1, <2>2
<1>7. \A k : ByteOf(k)' = ByteOf(k)
  BY DEF ByteOf, Copies
<1>8. memory' = [a \in Addresses |-> IF a \in call.dest .. edi' - 1
                                     THEN ByteOf(a - call.dest) ELSE Old(a)]
  BY <1>3, <1>6
<1>. QED BY <1>7, <1>8 DEF StoredUp, SoFar

\* memmove from the end: a byte is loaded before its address is stored to.
LEMMA Backward ==
  ASSUME MemCall, Registers, Turned, StoredDown,
         1 <= Left, Left \in Nat, Transfer(1, TRUE), call' = call
  PROVE  StoredDown'
<1>f. /\ TOP \in Nat /\ MAX_N \in Nat /\ MAX_ADDRESS \in Nat
      /\ MAX_ADDRESS + MAX_N < TOP
      /\ call.dest \in Nat /\ call.src \in Nat /\ call.n \in Nat
      /\ call.dest <= MAX_ADDRESS /\ call.src <= MAX_ADDRESS
      /\ Bytes \in Nat /\ Bytes <= MAX_N
  BY CallFacts, Zenon
<1>0. Copies /\ call.src < call.dest /\ Bytes' = Bytes
  BY DEF Turned, Copies, Bytes
<1>1. /\ edi \in Int /\ edi' = edi - 1
      /\ edi = call.dest + Left - 1 /\ esi = call.src + Left - 1
      /\ Left <= Bytes
  BY <1>0, <1>f DEF Registers, Transfer
<1>2. memory = [a \in Addresses |-> IF a \in edi + 1 .. call.dest + Bytes - 1
                                    THEN ByteOf(a - call.dest) ELSE Old(a)]
  BY DEF StoredDown, SoFar
<1>3. memory' = [a \in Addresses |-> IF a # edi THEN memory[a] ELSE Load(esi)]
  <2>1. memory' = [a \in Addresses |->
                  IF a \notin edi .. edi + 1 - 1 THEN memory[a]
                  ELSE IF Copies THEN Load(esi + a - edi) ELSE eax[a - edi + 1]]
    BY DEF Transfer
  <2>2. ASSUME NEW a \in Addresses
        PROVE  (a \notin edi .. edi + 1 - 1 <=> a # edi)
               /\ (a = edi => esi + a - edi = esi)
    <3>1. a \in Int /\ edi + 1 - 1 = edi /\ esi \in Int
      BY <1>1, <1>f DEF Addresses
    <3>2. a \in edi .. edi => a = edi
      BY <1>1, <3>1
    <3>3. a = edi => a \in edi .. edi /\ esi + a - edi = esi
      BY <1>1, <3>1
    <3>. QED BY <3>1, <3>2, <3>3
  <2>. QED BY <1>0, <2>1, <2>2
<1>4. Load(esi) = ByteOf(edi - call.dest)
  <2>1. /\ esi \in Addresses /\ esi \notin edi + 1 .. call.dest + Bytes - 1
        /\ esi = call.src + (edi - call.dest)
    BY <1>0, <1>1, <1>f DEF Addresses
  <2>. QED BY <1>0, <1>2, <2>1 DEF Load, ByteOf
<1>5. ASSUME NEW a \in Addresses
      PROVE  memory'[a] = IF a \in edi' + 1 .. call.dest + Bytes - 1
                          THEN ByteOf(a - call.dest) ELSE Old(a)
  <2>1. CASE a = edi
    <3>1. a \in edi' + 1 .. call.dest + Bytes - 1
      BY <1>1, <2>1, <1>f DEF Addresses
    <3>. QED BY <1>3, <1>4, <2>1, <3>1
  <2>2. CASE a # edi
    <3>1. a \in edi' + 1 .. call.dest + Bytes - 1
            <=> a \in edi + 1 .. call.dest + Bytes - 1
      BY <1>1, <2>2, <1>f DEF Addresses
    <3>. QED BY <1>2, <1>3, <2>2, <3>1
  <2>. QED BY <2>1, <2>2
<1>6. \A k : ByteOf(k)' = ByteOf(k)
  BY DEF ByteOf, Copies
<1>7. memory' = [a \in Addresses |->
                   IF a \in edi' + 1 .. call.dest + Bytes - 1
                   THEN ByteOf(a - call.dest) ELSE Old(a)]
  BY <1>3, <1>5
<1>. QED BY <1>0, <1>6, <1>7 DEF StoredDown, SoFar

----------------------------------------------------------------------------
\* The same call goes on.
SameCall == UNCHANGED <<call, back>>

\* The definitions over the call keep their values.
LEMMA SameCallFacts ==
  ASSUME SameCall
  PROVE  /\ MemCall' <=> MemCall
         /\ Turned' <=> Turned
         /\ Overlap' <=> Overlap
         /\ Copies' <=> Copies
         /\ Bytes' = Bytes
  BY Zenon DEF SameCall, MemCall, Turned, Overlap, Copies, Bytes

\* A step of a routine that moves u bytes upwards.
StepUp(u) ==
  /\ pc' = pc /\ pc \in MemPc /\ SameCall /\ unit' = unit /\ df' = df
  /\ Transfer(u, FALSE) /\ EaxRight(u)
  /\ u \in Nat /\ 1 <= u /\ u <= Left /\ Left \in Nat /\ Left' = Left - u
  /\ ecx' \in Nat /\ edx' \in Nat /\ (edx = 0 => edx' = 0)

\* Such a step keeps what Running says.
LEMMA UpRunning ==
  ASSUME Running, ~ Turned, NEW u, StepUp(u) PROVE Running'
<1>1. /\ Direct /\ MemCall /\ Registers /\ pc' = pc
      /\ unit' = unit /\ df' = df /\ Transfer(u, FALSE) /\ EaxRight(u)
      /\ u \in Nat /\ 1 <= u /\ u <= Left /\ Left \in Nat /\ Left' = Left - u
      /\ ecx' \in Nat /\ edx' \in Nat /\ (edx = 0 => edx' = 0)
      /\ call' = call /\ back' = back /\ SameCall
  BY Zenon DEF Running, StepUp, SameCall
<1>2. Direct'
  BY <1>1 DEF Direct
<1>3. MemCall' /\ ~ Turned' /\ Bytes' = Bytes
  BY <1>1, SameCallFacts, Zenon
<1>4. Registers'
  <2>1. edi' = edi + u /\ (Copies => esi' = esi + u) /\ (~ Copies => esi' = esi)
    BY <1>1 DEF Transfer
  <2>2. /\ edi \in Int /\ esi \in Int /\ Left <= Bytes
        /\ edi = call.dest + Bytes - Left
        /\ Copies => esi = call.src + Bytes - Left
    BY <1>1 DEF Registers
  <2>3. /\ call.dest \in Nat /\ call.src \in Nat /\ Bytes \in Nat
    BY <1>1, CallFacts, Zenon
  <2>4. /\ edi' \in Int /\ esi' \in Int /\ Left' <= Bytes'
    <3>1. CASE Copies
      BY <1>1, <1>3, <2>1, <2>2, <2>3, <3>1
    <3>2. CASE ~ Copies
      BY <1>1, <1>3, <2>1, <2>2, <2>3, <3>2
    <3>. QED BY <3>1, <3>2
  <2>5. /\ edi' = call'.dest + Bytes' - Left'
        /\ Copies => esi' = call'.src + Bytes' - Left'
    BY <1>1, <1>3, <2>1, <2>2, <2>3
  <2>6. /\ unit' = IF call'.fn = "memset_word" THEN 2
                   ELSE IF call'.fn = "memmove" THEN 1 ELSE 4
        /\ call'.fn \notin {"memcpy", "memset"} => pc' # "top" /\ edx' = 0
        /\ pc' = "rep" => df' = Turned
    BY <1>1 DEF Registers
  <2>7. (Turned' <=> Turned) /\ (Copies' <=> Copies)
    BY <1>1, SameCallFacts, Zenon
  <2>8. pc' = "rep" => df' = Turned'
    BY <2>6, <1>1, Zenon DEF Turned
  <2>. QED BY <1>1, <1>3, <2>4, <2>5, <2>6, <2>7, <2>8, Zenon DEF Registers
<1>5. Stored'
  <2>1. (Overlap' <=> Overlap) /\ (Turned' <=> Turned)
    BY <1>1, SameCallFacts, Zenon
  <2>2. CASE ~ Overlap
    <3>1. StoredUp
      BY <2>2, Zenon DEF Running, Stored
    <3>2. StoredUp'
      BY <1>1, <2>2, <3>1, Forward, Zenon
    <3>. QED BY <2>1, <3>2, Zenon DEF Stored
  <2>3. CASE Overlap
    BY <2>1, <2>3, Zenon DEF Stored
  <2>. QED BY <2>2, <2>3
<1>. QED BY <1>2, <1>3, <1>4, <1>5 DEF Running

\* memset fills eax with its byte; memcpy does not use eax.
LEMMA EaxBytes ==
  ASSUME call.fn \in {"memcpy", "memset"}, NEW u \in 1 .. 4 PROVE EaxRight(u)
<1>1. ~ Copies => call.fn = "memset"
  BY DEF Copies
<1>2. ~ Copies => /\ \A b \in 1 .. 4 : eax[b] = 101
                  /\ \A k : ByteOf(k) = 101
  BY <1>1 DEF eax, Arg, ByteOf
<1>. QED BY <1>2 DEF EaxRight

\* .memcpy_top, .memset_top
LEMMA TopRunning == ASSUME Running, TopByte PROVE Running'
<1>1. /\ pc = "top" /\ pc' = "top" /\ ecx # 0 /\ ecx' = ecx - 1
      /\ Transfer(1, FALSE) /\ SameCall /\ unit' = unit /\ edx' = edx
      /\ Direct /\ MemCall /\ Registers /\ df' = df
  BY Zenon DEF TopByte, Running, SameCall
<1>2. /\ call.fn \in {"memcpy", "memset"} /\ ~ Turned
      /\ ecx \in Nat /\ Left = ecx /\ Left' = ecx - 1 /\ edx \in Nat
  BY <1>1 DEF Registers, Turned, Left
<1>3. EaxRight(1)
  BY <1>2, EaxBytes
<1>4. /\ 1 \in Nat /\ 1 <= 1 /\ 1 <= Left /\ Left \in Nat /\ Left' = Left - 1
      /\ ecx' \in Nat /\ edx' \in Nat /\ (edx = 0 => edx' = 0) /\ pc \in MemPc
  BY <1>1, <1>2 DEF MemPc
<1>5. StepUp(1)
  BY <1>1, <1>3, <1>4, Zenon DEF StepUp
<1>. QED BY <1>2, <1>5, UpRunning

\* A step that moves nothing.
LEMMA StayRunning ==
  ASSUME Running, SameCall, UNCHANGED <<edi, esi, unit, memory>>,
         pc' \in MemPc, Left' = Left, ecx' \in Nat, edx' \in Nat,
         pc' # "top", edx = 0 \/ call.fn \in {"memcpy", "memset"},
         call.fn \notin {"memcpy", "memset"} => edx' = 0,
         pc' = "rep" => df' = Turned
  PROVE  Running'
<1>1. /\ Direct /\ MemCall /\ Registers /\ Stored
      /\ call' = call /\ back' = back /\ back = "returned"
      /\ edi' = edi /\ esi' = esi /\ unit' = unit /\ memory' = memory
  BY Zenon DEF Running, SameCall, Direct
<1>2. /\ MemCall' /\ (Turned' <=> Turned) /\ (Overlap' <=> Overlap)
      /\ (Copies' <=> Copies) /\ Bytes' = Bytes
  BY <1>1, SameCallFacts, Zenon
<1>3. Direct'
  BY <1>1, Zenon DEF Direct
<1>4. Turned' = Turned
  BY <1>1, Zenon DEF Turned
<1>5. Registers'
  BY <1>1, <1>2, <1>4, Zenon DEF Registers
<1>6. StoredUp' <=> StoredUp
  BY <1>1, Zenon DEF StoredUp, SoFar, ByteOf, Copies
<1>7. StoredDown' <=> StoredDown
  BY <1>1, <1>2, Zenon DEF StoredDown, SoFar, ByteOf, Copies
<1>8. Stored'
  BY <1>1, <1>2, <1>6, <1>7, Zenon DEF Stored
<1>. QED BY <1>2, <1>3, <1>5, <1>8, Zenon DEF Running

\* .memcpy_aligned, .memset_aligned: cld, and the length in words and bytes.
LEMMA AlignedRunning == ASSUME Running, Aligned PROVE Running'
<1>1. /\ pc = "top" /\ pc' = "rep" /\ ecx' = ecx \div 4 /\ edx' = ecx % 4
      /\ df' = FALSE /\ SameCall /\ UNCHANGED <<edi, esi, unit, memory>>
      /\ Registers
  BY DEF Aligned, Cld, SameCall, Running
<1>2. /\ call.fn \in {"memcpy", "memset"} /\ unit = 4 /\ ecx \in Nat
      /\ ~ Turned /\ Left = ecx
  BY <1>1 DEF Registers, Turned, Left
<1>3. ecx' \in Nat /\ edx' \in Nat /\ 4 * ecx' + edx' = ecx
  BY <1>1, <1>2
<1>4. Left' = 4 * ecx' + edx'
  BY <1>1, <1>2 DEF Left
<1>5. Left' = Left
  BY <1>2, <1>3, <1>4
<1>6. df' = Turned
  BY <1>1, <1>2, Zenon DEF Turned
<1>. QED BY <1>1, <1>2, <1>3, <1>5, <1>6, StayRunning DEF MemPc

\* The string instruction ends.
LEMMA RepEndRunning == ASSUME Running, RepEnd PROVE Running'
<1>1. /\ pc = "rep" /\ pc' = "bottom" /\ ecx = 0 /\ ecx' = ecx /\ edx' = edx
      /\ SameCall /\ UNCHANGED <<edi, esi, unit, memory>> /\ Registers
  BY DEF RepEnd, libVars, registers, SameCall, Running
<1>2. /\ unit \in Nat /\ edx \in Nat
      /\ call.fn \notin {"memcpy", "memset"} => edx = 0
  BY <1>1 DEF Registers
<1>3. Left' = Left
  BY <1>1, <1>2 DEF Left
<1>. QED BY <1>1, <1>2, <1>3, StayRunning DEF MemPc

\* .memcpy_bottom, .memset_bottom
LEMMA BottomRunning == ASSUME Running, BottomByte PROVE Running'
<1>1. /\ pc = "bottom" /\ pc' = "bottom" /\ edx # 0 /\ edx' = edx - 1
      /\ Transfer(1, FALSE) /\ SameCall /\ unit' = unit /\ ecx' = ecx
      /\ Direct /\ MemCall /\ Registers /\ df' = df
  BY Zenon DEF BottomByte, Running, SameCall
<1>2. /\ call.fn \in {"memcpy", "memset"} /\ ~ Turned
      /\ edx \in Nat /\ Left = edx /\ Left' = edx - 1 /\ ecx \in Nat
  BY <1>1 DEF Registers, Turned, Left
<1>3. EaxRight(1)
  BY <1>2, EaxBytes
<1>4. /\ 1 \in Nat /\ 1 <= 1 /\ 1 <= Left /\ Left \in Nat /\ Left' = Left - 1
      /\ ecx' \in Nat /\ edx' \in Nat /\ (edx = 0 => edx' = 0) /\ pc \in MemPc
  BY <1>1, <1>2 DEF MemPc
<1>5. StepUp(1)
  BY <1>1, <1>3, <1>4, Zenon DEF StepUp
<1>. QED BY <1>2, <1>5, UpRunning

\* memset_word and memset_dword store whole units, so that the bytes of eax
\* stay in step with the destination.
LEMMA EaxUnits ==
  ASSUME MemCall, Registers, pc = "rep", ~ Turned,
         call.fn \in {"memset_word", "memset_dword"}
  PROVE  EaxRight(unit)
<1>1. /\ ~ Copies /\ eax = Arg /\ \A k : ByteOf(k) = Arg[(k % UnitOf(call.fn)) + 1]
  BY DEF Copies, eax, ByteOf
<1>2. /\ ecx \in Nat /\ edx = 0 /\ Left = unit * ecx + edx
      /\ edi = call.dest + Bytes - Left
      /\ unit = IF call.fn = "memset_word" THEN 2 ELSE 4
      /\ Bytes = call.n * UnitOf(call.fn)
  BY DEF Registers, Left, Bytes
<1>3. call.dest \in Nat /\ call.n \in Nat /\ Bytes \in Nat
  BY CallFacts, Zenon
<1>4. unit = UnitOf(call.fn)
  BY <1>2, Units
<1>5. ASSUME NEW b \in 0 .. unit - 1
      PROVE  (edi - call.dest + b) % UnitOf(call.fn) = b
  <2>1. CASE unit = 2
    <3>1. edi - call.dest + b = 2 * (call.n - ecx) + b
      BY <1>2, <1>3, <1>4, <2>1
    <3>2. (2 * (call.n - ecx) + b) % 2 = b
      BY <1>2, <1>3, <2>1
    <3>. QED BY <1>4, <2>1, <3>1, <3>2
  <2>2. CASE unit = 4
    <3>1. edi - call.dest + b = 4 * (call.n - ecx) + b
      BY <1>2, <1>3, <1>4, <2>2
    <3>2. (4 * (call.n - ecx) + b) % 4 = b
      BY <1>2, <1>3, <2>2
    <3>. QED BY <1>4, <2>2, <3>1, <3>2
  <2>. QED BY <1>2, <2>1, <2>2
<1>. QED BY <1>1, <1>5, Zenon DEF EaxRight

\* One element of rep movs or rep stos.
LEMMA RepRunning == ASSUME Running, Rep PROVE Running'
<1>1. /\ pc = "rep" /\ pc' = "rep" /\ ecx # 0 /\ ecx' = ecx - 1 /\ edx' = edx
      /\ Transfer(unit, df) /\ SameCall /\ call' = call /\ back' = back
      /\ unit' = unit /\ df' = df
      /\ Direct /\ MemCall /\ Registers /\ Stored
  BY Zenon DEF Rep, Running, SameCall
<1>2. /\ ecx \in Nat /\ edx \in Nat /\ df = Turned
      /\ Left = unit * ecx + edx /\ Left' = unit * (ecx - 1) + edx
      /\ unit = IF call.fn = "memset_word" THEN 2
                ELSE IF call.fn = "memmove" THEN 1 ELSE 4
  BY <1>1 DEF Registers, Left
<1>3. CASE ~ Turned
  <2>1. df = FALSE
    BY <1>2, <1>3, Zenon DEF Turned
  <2>2. EaxRight(unit)
    <3>1. CASE call.fn \in {"memcpy", "memset"}
      BY <1>2, <3>1, EaxBytes
    <3>2. CASE call.fn = "memmove"
      BY <3>2 DEF EaxRight, Copies
    <3>3. CASE call.fn \in {"memset_word", "memset_dword"}
      BY <1>1, <1>3, <3>3, EaxUnits
    <3>. QED BY <1>1, <3>1, <3>2, <3>3 DEF MemCall, MemRoutines
  <2>3. /\ unit \in Nat /\ 1 <= unit /\ unit <= Left /\ Left \in Nat
        /\ Left' = Left - unit
    <3>1. CASE unit = 1 BY <1>1, <1>2, <3>1
    <3>2. CASE unit = 2 BY <1>1, <1>2, <3>2
    <3>3. CASE unit = 4 BY <1>1, <1>2, <3>3
    <3>. QED BY <1>2, <3>1, <3>2, <3>3
  <2>4. /\ ecx' \in Nat /\ edx' \in Nat /\ (edx = 0 => edx' = 0) /\ pc \in MemPc
    BY <1>1, <1>2 DEF MemPc
  <2>5. StepUp(unit)
    BY <1>1, <2>1, <2>2, <2>3, <2>4, Zenon DEF StepUp
  <2>. QED BY <1>3, <2>5, UpRunning
<1>4. CASE Turned
  <2>1. df = TRUE
    BY <1>2, <1>4, Zenon DEF Turned
  <2>2. /\ unit = 1 /\ edx = 0 /\ Copies /\ call.fn = "memmove" /\ ~ Overlap
    BY <1>1, <1>2, <1>4 DEF Turned, Registers, Copies, Overlap
  <2>3. Left = ecx /\ Left' = ecx - 1 /\ Left \in Nat /\ 1 <= Left
    BY <1>1, <1>2, <2>2
  <2>4. Transfer(1, TRUE)
    BY <1>1, <2>1, <2>2, Zenon
  <2>5. /\ MemCall' /\ (Turned' <=> Turned) /\ (Overlap' <=> Overlap)
        /\ Bytes' = Bytes /\ Turned' = Turned
    BY <1>1, SameCallFacts, Zenon DEF Turned
  <2>6. Stored'
    <3>1. StoredDown
      BY <1>1, <1>4, <2>2, Zenon DEF Stored
    <3>2. StoredDown'
      BY <1>1, <1>4, <2>3, <2>4, <3>1, Backward, Zenon
    <3>. QED BY <1>4, <2>5, <3>2, Zenon DEF Stored
  <2>7. /\ edi' = edi - 1 /\ esi' = esi - 1
        /\ edi = call.dest + Left - 1 /\ esi = call.src + Left - 1
        /\ edi \in Int /\ esi \in Int /\ Left <= Bytes
    BY <1>1, <1>4, <2>2, <2>4 DEF Transfer, Registers
  <2>8. call.dest \in Nat /\ call.src \in Nat /\ Bytes \in Nat
    BY <1>1, CallFacts, Zenon
  <2>9. /\ edi' \in Int /\ esi' \in Int /\ ecx' \in Nat /\ edx' \in Nat
        /\ Left' <= Bytes'
        /\ edi' = call'.dest + Left' - 1 /\ esi' = call'.src + Left' - 1
        /\ edx' = 0
    BY <1>1, <1>2, <2>2, <2>3, <2>5, <2>7, <2>8
  <2>10. /\ unit' = IF call'.fn = "memset_word" THEN 2
                    ELSE IF call'.fn = "memmove" THEN 1 ELSE 4
         /\ pc' # "top" /\ df' = Turned' /\ Turned'
    BY <1>1, <1>2, <1>4, <2>5, Zenon
  <2>11. Registers'
    BY <2>9, <2>10, Zenon DEF Registers
  <2>12. Direct'
    BY <1>1, Zenon DEF Direct
  <2>. QED BY <2>5, <2>6, <2>11, <2>12, Zenon DEF Running
<1>. QED BY <1>3, <1>4

\* A call of a memory routine: nothing is stored yet.
LEMMA CallRunning ==
  ASSUME OldMemory, NEW fn \in MemRoutines, NEW dest \in 0 .. MAX_ADDRESS,
         NEW src \in 0 .. MAX_ADDRESS, NEW n \in 0 .. MAX_N, CallMem(fn, dest, src, n)
  PROVE  Running' /\ back' = "returned"
<1>1. /\ n * UnitOf(fn) <= MAX_N /\ back' = "returned"
      /\ call' = [NoCall EXCEPT !.fn = fn, !.dest = dest, !.src = src, !.n = n]
      /\ Enter(fn, dest, src, n) /\ memory' = memory
  BY DEF CallMem
<1>2. call'.fn = fn /\ call'.dest = dest /\ call'.src = src /\ call'.n = n
  BY <1>1 DEF NoCall
<1>3. n \in Nat /\ UnitOf(fn) \in {1, 2, 4} /\ Bytes' = n * UnitOf(fn)
  <2>1. n \in Nat
    BY LibAssumption
  <2>2. UnitOf(fn) \in {1, 2, 4}
    BY Units
  <2>. QED BY <1>2, <2>1, <2>2 DEF Bytes
<1>4. Bytes' \in Nat
  <2>1. CASE UnitOf(fn) = 1 BY <1>3, <2>1
  <2>2. CASE UnitOf(fn) = 2 BY <1>3, <2>2
  <2>3. CASE UnitOf(fn) = 4 BY <1>3, <2>3
  <2>. QED BY <1>3, <2>1, <2>2, <2>3
<1>5. MemCall'
  BY <1>1, <1>2, <1>3, <1>4 DEF MemCall
<1>6. Turned' <=> fn = "memmove" /\ src < dest
  BY <1>2 DEF Turned
<1>7. /\ edi' = dest + (IF Turned' THEN n - 1 ELSE 0)
      /\ esi' = src + (IF Turned' THEN n - 1 ELSE 0)
      /\ edx' = 0 /\ ecx' = n
      /\ pc' = IF fn \in {"memcpy", "memset"} THEN "top" ELSE "rep"
  BY <1>1, <1>6, Zenon DEF Enter
<1>8. /\ unit' = IF fn = "memset_word" THEN 2 ELSE IF fn = "memmove" THEN 1 ELSE 4
      /\ pc' = "rep" => df' = (fn = "memmove" /\ src < dest)
  BY <1>1, Zenon DEF Enter
<1>9. Direct'
  BY <1>1, <1>7 DEF Direct, MemPc
<1>10. Left' = Bytes'
  <2>1. CASE fn \in {"memcpy", "memset"}
    BY <1>3, <1>7, <2>1, Units DEF Left
  <2>2. CASE fn \notin {"memcpy", "memset"}
    <3>1. Left' = unit' * n + 0
      BY <1>3, <1>7, <2>2 DEF Left
    <3>2. unit' = UnitOf(fn)
      BY <1>8, <2>2, Units DEF MemRoutines
    <3>3. CASE unit' = 1 BY <1>3, <3>1, <3>2, <3>3
    <3>4. CASE unit' = 2 BY <1>3, <3>1, <3>2, <3>4
    <3>5. CASE unit' = 4 BY <1>3, <3>1, <3>2, <3>5
    <3>. QED BY <1>3, <3>2, <3>3, <3>4, <3>5
  <2>. QED BY <2>1, <2>2
<1>11. Turned' => Bytes' = n
  BY <1>3, <1>6, Units
<1>12. /\ edi' \in Int /\ esi' \in Int /\ ecx' \in Nat /\ edx' \in Nat
       /\ edi' = IF Turned' THEN call'.dest + Left' - 1
                 ELSE call'.dest + Bytes' - Left'
       /\ Copies' => esi' = IF Turned' THEN call'.src + Left' - 1
                            ELSE call'.src + Bytes' - Left'
       /\ Left' <= Bytes'
  BY <1>2, <1>3, <1>4, <1>7, <1>10, <1>11
<1>13. Registers'
  <2>1. pc' = "rep" => df' = Turned'
    BY <1>2, <1>8, Zenon DEF Turned
  <2>2. call'.fn \notin {"memcpy", "memset"} => pc' # "top" /\ edx' = 0
    BY <1>2, <1>7
  <2>. QED BY <1>2, <1>8, <1>12, <2>1, <2>2, Zenon DEF Registers
<1>14. Stored'
  <2>1. memory' = [a \in Addresses |-> Old(a)]
    BY <1>1 DEF OldMemory
  <2>2. CASE Turned'
    <3>1. edi' + 1 .. call'.dest + Bytes' - 1 = {}
      BY <1>2, <1>3, <1>7, <1>11, <2>2
    <3>2. StoredDown'
      BY <2>1, <3>1, Zenon DEF StoredDown, SoFar
    <3>. QED BY <2>2, <3>2, Zenon DEF Stored
  <2>3. CASE ~ Turned'
    <3>1. call'.dest .. edi' - 1 = {}
      BY <1>2, <1>7, <2>3
    <3>2. StoredUp'
      BY <2>1, <3>1, Zenon DEF StoredUp, SoFar
    <3>. QED BY <2>3, <3>2, Zenon DEF Stored
  <2>. QED BY <2>2, <2>3
<1>. QED BY <1>1, <1>5, <1>9, <1>13, <1>14, Zenon DEF Running

\* A routine that has nothing left to store has stored what was asked for.
LEMMA DoneRight ==
  ASSUME Running, Left = 0, ~ Overlap
  PROVE  memory = [a \in Addresses |-> MemWanted(a)]
<1>1. MemCall /\ Registers /\ Stored
  BY Zenon DEF Running
<1>2. \A a \in Addresses :
        MemWanted(a) = IF a \in call.dest .. call.dest + Bytes - 1
                       THEN ByteOf(a - call.dest) ELSE Old(a)
  BY <1>1, WantedBytes
<1>3. call.dest \in Nat /\ Bytes \in Nat
  BY <1>1, CallFacts, Zenon
<1>4. CASE Turned
  <2>1. edi + 1 = call.dest
    BY <1>1, <1>3, <1>4 DEF Registers
  <2>2. SoFar(edi + 1 .. call.dest + Bytes - 1)
    BY <1>1, <1>4, Zenon DEF Stored, StoredDown
  <2>3. SoFar(call.dest .. call.dest + Bytes - 1)
    <3>1. edi + 1 .. call.dest + Bytes - 1 = call.dest .. call.dest + Bytes - 1
      BY <2>1
    <3>. QED BY <2>2, <3>1 DEF SoFar
  <2>. QED BY <1>2, <2>3, Zenon DEF SoFar
<1>5. CASE ~ Turned
  <2>1. edi - 1 = call.dest + Bytes - 1
    BY <1>1, <1>3, <1>5 DEF Registers
  <2>2. SoFar(call.dest .. edi - 1)
    BY <1>1, <1>5, Zenon DEF Stored, StoredUp
  <2>3. SoFar(call.dest .. call.dest + Bytes - 1)
    <3>1. call.dest .. edi - 1 = call.dest .. call.dest + Bytes - 1
      BY <2>1, Zenon
    <3>. QED BY <2>2, <3>1 DEF SoFar
  <2>. QED BY <1>2, <2>3, Zenon DEF SoFar
<1>. QED BY <1>4, <1>5

\* Every step of the library and of read_data keeps the invariant: the ones of
\* a routine that runs, its call and its end.
LEMMA MemStep == MemInv /\ [Next]_vars => MemInv'
<1>. SUFFICES ASSUME MemInv, [Next]_vars PROVE MemInv'
  OBVIOUS
<1>0. /\ Direct => Running
      /\ pc = "idle" => OldMemory
      /\ pc \in StrRoutines \cup {"strncpy_pad"} => call.fn \in StrRoutines
      /\ back \in {"none", "copy", "returned"}
      /\ MemoryRight
  BY Zenon DEF MemInv
<1>1. CASE UNCHANGED vars
  <2>1. pc' = pc /\ UNCHANGED <<call, back, edi, esi, ecx, edx, unit, df, i, memory>>
    BY <1>1, Zenon DEF vars, libVars, registers
  <2>2. (Direct => Running)'
    <3>1. SUFFICES ASSUME Direct' PROVE Running'
      OBVIOUS
    <3>2. Direct /\ Running
      BY <1>0, <2>1, <3>1, Zenon DEF Direct
    <3>3. Running'
      BY <2>1, <3>2, Zenon DEF Running, Direct, MemCall, Bytes, Registers, Turned,
         Left, Copies, Stored, Overlap, StoredUp, StoredDown, SoFar, ByteOf
    <3>. QED BY <3>3
  <2>3. MemoryRight'
    BY <1>0, <2>1, Zenon DEF MemoryRight, MemWanted, Before
  <2>. QED BY <1>0, <2>1, <2>2, <2>3, Zenon DEF MemInv, OldMemory
\* Steps that end outside the routines, or in a caller.
<1>2. ASSUME pc' \notin MemPc \cup StrRoutines \cup {"strncpy_pad", "idle", "returned"},
             back' \in {"none", "copy", "returned"}
      PROVE  MemInv'
  BY <1>2, Zenon DEF MemInv, Direct, MemoryRight
<1>3. CASE pc = "idle" /\ LibCall
  <2>1. OldMemory
    BY <1>0, <1>3
  <2>2. CASE \E fn \in MemRoutines, dest, src \in 0 .. MAX_ADDRESS,
                n \in 0 .. MAX_N :
               CallMem(fn, dest, src, n)
    <3>1. Running' /\ back' = "returned"
      BY <2>1, <2>2, CallRunning
    <3>2. pc' \in MemPc
      BY <3>1, Zenon DEF Running, Direct
    <3>. QED BY <3>1, <3>2 DEF MemInv, MemPc, StrRoutines, MemoryRight
  <2>3. CASE \E fn \in StrRoutines, s1, s2 \in Strings, n \in 0 .. MAX_STR :
               CallStr(fn, s1, s2, n)
    <3>1. PICK fn \in StrRoutines, s1 \in Strings, s2 \in Strings, n \in 0 .. MAX_STR :
            CallStr(fn, s1, s2, n)
      BY <2>3
    <3>2. pc' = fn /\ call'.fn = fn /\ back' = "returned"
      BY <3>1 DEF CallStr
    <3>. QED BY <3>2 DEF MemInv, Direct, MemPc, StrRoutines, MemoryRight
  <2>. QED BY <1>3, <2>2, <2>3 DEF LibCall
<1>4. CASE pc = "idle" /\ \E file \in Inodes, len \in Lengths, off \in 0 .. SizeLimit,
                             address \in 0 .. 3 : Call(file, off, len, address)
  <2>1. pc' \in {"done", "skip"} /\ back' = back
    BY <1>4 DEF Call, libVars
  <2>. QED BY <1>0, <1>2, <2>1 DEF MemPc, StrRoutines
<1>5. CASE ReadDataStep
  <2>1. CASE SkipBlock \/ EndSkip \/ Return
    <3>1. pc' \in {"skip", "copy", "done"} /\ back' = back
      BY <2>1 DEF SkipBlock, EndSkip, Return, libVars
    <3>. QED BY <1>0, <1>2, <3>1 DEF MemPc, StrRoutines
  <2>2. CASE CopyEnd \/ CopyBlock
    <3>1. \/ pc' = "overrun" /\ back' = back
          \/ pc' = "top" /\ back' = "copy"
      BY <2>2, Zenon DEF CopyEnd, CopyBlock, CallMemcpy, Enter, libVars
    <3>. QED BY <1>0, <1>2, <3>1 DEF MemPc, StrRoutines, MemInv, Direct, MemoryRight
  <2>3. CASE Leave
    <3>1. pc' = "idle" /\ OldMemory' /\ back' = back
      BY <2>3, LaidNone, Zenon DEF Leave, OldMemory, libVars
    <3>. QED BY <1>0, <3>1 DEF MemPc, StrRoutines, MemInv, Direct, MemoryRight
  <2>. QED BY <1>5, <2>1, <2>2, <2>3 DEF ReadDataStep
<1>6. CASE LibStep
  <2>1. CASE strlen \/ strcpy \/ strncpy_copy \/ strncpy_pad \/ strncmp
    <3>1. /\ pc \in StrRoutines \cup {"strncpy_pad"}
          /\ pc' \in StrRoutines \cup {"strncpy_pad", "returned"}
          /\ call' = call /\ back' = back
      BY <2>1 DEF strlen, strcpy, strncpy_copy, strncpy_pad, strncmp, StrLoop,
         StrReturn, StrRoutines
    <3>2. call'.fn \in StrRoutines
      BY <1>0, <3>1
    <3>. QED BY <1>0, <3>1, <3>2 DEF MemPc, StrRoutines, MemRoutines, MemInv,
         Direct, MemoryRight
  <2>2. CASE TopByte \/ Aligned \/ Rep \/ RepEnd \/ BottomByte
    <3>1. pc \in MemPc /\ pc' \in MemPc /\ back' = back
      BY <2>2 DEF TopByte, Aligned, Rep, RepEnd, BottomByte, MemPc, libVars
    <3>2. CASE back = "returned"
      <4>1. Running
        BY <1>0, <3>1, <3>2, Zenon DEF Direct
      <4>2. Running'
        BY <2>2, <4>1, TopRunning, AlignedRunning, RepRunning, RepEndRunning,
           BottomRunning
      <4>. QED BY <1>0, <3>1, <4>2 DEF MemPc, StrRoutines, MemInv, MemoryRight
    <3>3. CASE back # "returned"
      BY <1>0, <3>1, <3>3 DEF MemPc, StrRoutines, MemInv, Direct, MemoryRight
    <3>. QED BY <3>2, <3>3
  <2>3. CASE Done
    <3>1. /\ pc \in MemPc /\ pc' = back /\ back' = "none" /\ memory' = memory
          /\ (pc = "top" /\ ecx = 0) \/ (pc = "bottom" /\ edx = 0)
      BY <2>3 DEF Done, Cleared, MemPc
    <3>2. CASE back = "returned"
      <4>1. Running /\ call' = call
        BY <1>0, <2>3, <3>1, <3>2, Zenon DEF Direct, Done
      <4>2. Left = 0
        BY <3>1 DEF Left
      <4>3. MemoryRight'
        <5>1. CASE Overlap
          BY <4>1, <5>1, Zenon DEF MemoryRight, Overlap
        <5>2. CASE ~ Overlap
          <6>1. memory = [a \in Addresses |-> MemWanted(a)]
            BY <4>1, <4>2, <5>2, DoneRight
          <6>. QED BY <3>1, <4>1, <6>1, Zenon DEF MemoryRight, MemWanted, Before
        <5>. QED BY <5>1, <5>2
      <4>. QED BY <3>1, <3>2, <4>3 DEF MemPc, StrRoutines, MemInv, Direct
    <3>3. CASE back # "returned"
      BY <1>0, <3>1, <3>3 DEF MemPc, StrRoutines, MemInv, Direct, MemoryRight
    <3>. QED BY <3>2, <3>3
  <2>. QED BY <1>6, <2>1, <2>2, <2>3 DEF LibStep
<1>7. CASE LibLeave
  <2>1. pc' = "idle" /\ OldMemory' /\ back' = "none"
    BY <1>7, LaidNone, Zenon DEF LibLeave, OldMemory, Cleared
  <2>. QED BY <2>1 DEF MemPc, StrRoutines, MemInv, Direct, MemoryRight
<1>. QED BY <1>1, <1>3, <1>4, <1>5, <1>6, <1>7, Zenon DEF Next, LibCall

\* The library at rest.
LEMMA MemInit == Init => MemInv
<1>. SUFFICES ASSUME Init PROVE MemInv
  OBVIOUS
<1>1. pc = "idle" /\ back = "none" /\ OldMemory
  BY LaidNone, Zenon DEF Init, LibInit, OldMemory
<1>. QED BY <1>1 DEF MemPc, StrRoutines, MemInv, Direct, MemoryRight

\* printf leaves the memory of the other routines alone.
LEMMA LibraryStep == [LibraryNext]_<<vars, printfVars>> => [Next]_vars
  BY Zenon DEF LibraryNext

(***************************************************************************)
(* memcpy, memmove, memset, memset_word and memset_dword store the bytes   *)
(* asked for and no other: for every length, alignment and overlap, in any *)
(* sequence of calls of the library, whatever direction flag a memmove has *)
(* left.                                                                   *)
(***************************************************************************)
THEOREM MemoryTheorem == LibrarySpec => []MemoryRight
<1>1. LibraryInit => MemInv
  BY MemInit, Zenon DEF LibraryInit
<1>2. MemInv /\ [LibraryNext]_<<vars, printfVars>> => MemInv'
  BY MemStep, LibraryStep
<1>3. MemInv => MemoryRight
  BY Zenon DEF MemInv
<1>. QED BY <1>1, <1>2, <1>3, PTL DEF LibrarySpec

----------------------------------------------------------------------------
(***************************************************************************)
(* The string routines.  What a loop has done is told by its index: the    *)
(* first bytes of the destination are those of the source string, or, for  *)
(* strncmp, the first characters are equal and none ends a string.         *)
(***************************************************************************)
StrPc == StrRoutines \cup {"strncpy_pad"}

StrCall ==
  /\ call.fn \in StrRoutines /\ call.dest = 0 /\ call.src = (TOP \div 2) + 1
  /\ call.s1 \in Strings /\ call.s2 \in Strings /\ call.n \in 0 .. MAX_STR

\* A byte of a string with its terminator, and of the zeros of strncpy.
CharOf(str, k) == IF k < Len(str) THEN str[k + 1] ELSE 0

\* Memory with the first k bytes of the destination copied.
DestUpTo(k) ==
  [a \in Addresses |-> IF a < k THEN CharOf(call.s2, a) ELSE Before[a]]

StrShape ==
  /\ StrCall /\ i \in Nat
  /\ call.fn = IF pc = "strncpy_pad" THEN "strncpy" ELSE pc
  /\ pc # "strncpy_pad" => i <= Len(call.s2)
  /\ pc \notin {"strlen", "strcpy"} => i <= call.n
  /\ pc = "strncpy_pad" => i = call.n \/ i >= Len(call.s2)
  /\ memory = IF pc \in {"strlen", "strncmp"} THEN Before ELSE DestUpTo(i)
  /\ pc = "strncmp" => /\ i <= Len(call.s1)
                       /\ \A k \in 1 .. i : call.s1[k] = call.s2[k]

\* The inductive invariant for the string routines.
StrInv ==
  /\ pc \in StrPc => StrShape
  /\ pc \notin StrPc \cup {"returned"} => i = 0
  /\ StringsRight

\* The arithmetic of a call, and the bytes it finds.
LEMMA StrFacts ==
  ASSUME StrCall
  PROVE  /\ TOP \in Nat /\ call.src \in Nat /\ call.n \in Nat
         /\ call.src > call.n /\ call.n <= TOP
         /\ call.s1 \in Seq(Nat \ {0}) /\ call.s2 \in Seq(Nat \ {0})
         /\ Len(call.s1) \in Nat /\ Len(call.s2) \in Nat
         /\ Len(call.s1) < call.src /\ Len(call.s2) < call.src
         /\ call.src + Len(call.s2) <= TOP /\ call.src <= TOP
<1>1. /\ TOP \in Nat /\ MAX_STR \in Nat /\ MAX_STR < TOP \div 2
      /\ call.src = (TOP \div 2) + 1 /\ call.n \in 0 .. MAX_STR
  BY LibAssumption DEF StrCall
<1>2. /\ call.s1 \in Seq(Nat \ {0}) /\ call.s2 \in Seq(Nat \ {0})
      /\ Len(call.s1) <= MAX_STR /\ Len(call.s2) <= MAX_STR
  BY LibAssumption, Zenon DEF StrCall
<1>3. Len(call.s1) \in Nat /\ Len(call.s2) \in Nat
  BY <1>2
<1>. DEFINE half == TOP \div 2
            n1 == Len(call.s1)
            n2 == Len(call.s2)
<1>4. half \in Nat /\ half + half <= TOP
  BY <1>1
<1>5. /\ MAX_STR < half /\ call.src = half + 1 /\ call.n \in Nat
      /\ call.n <= MAX_STR /\ n1 \in Nat /\ n2 \in Nat
      /\ n1 <= MAX_STR /\ n2 <= MAX_STR
  BY <1>1, <1>2, <1>3
<1>. HIDE DEF half, n1, n2
<1>6. /\ call.src \in Nat /\ call.src > call.n /\ call.n <= TOP
      /\ n1 < call.src /\ n2 < call.src
      /\ call.src + n2 <= TOP /\ call.src <= TOP
  BY <1>1, <1>4, <1>5
<1>. QED BY <1>1, <1>2, <1>3, <1>5, <1>6 DEF n1, n2

\* The characters of a string are not zero, its terminator is.
LEMMA CharFacts ==
  ASSUME NEW str \in Seq(Nat \ {0}), NEW k \in Nat
  PROVE  CharOf(str, k) \in Nat /\ (CharOf(str, k) = 0 <=> k >= Len(str))
  BY DEF CharOf

\* The two strings as they lie in memory.
LEMMA StrBytes ==
  ASSUME StrCall
  PROVE  /\ \A k \in 0 .. Len(call.s1) :
              k \in Addresses /\ Before[k] = CharOf(call.s1, k)
         /\ \A k \in 0 .. Len(call.s2) :
              /\ call.src + k \in Addresses /\ call.src + k >= call.src
              /\ Before[call.src + k] = CharOf(call.s2, k)
<1>. DEFINE n1 == Len(call.s1)
            n2 == Len(call.s2)
<1>0. /\ TOP \in Nat /\ call.src \in Nat /\ n1 \in Nat /\ n2 \in Nat
      /\ n1 < call.src /\ call.src + n2 <= TOP /\ call.dest = 0
      /\ call.fn \in {"strlen", "strcpy", "strncpy", "strncmp"}
  BY StrFacts DEF StrCall, StrRoutines
<1>1. ASSUME NEW a \in Addresses
      PROVE  Before[a] =
               CASE a \in 0 .. 0 + n1 -> CharOf(call.s1, a - 0)
                 [] a \in call.src .. call.src + n2 -> CharOf(call.s2, a - call.src)
                 [] OTHER -> Old(a)
  BY <1>0, Zenon DEF Before, Laid, CharOf
<1>. HIDE DEF n1, n2
<1>2. ASSUME NEW k \in 0 .. n1
      PROVE  k \in Addresses /\ Before[k] = CharOf(call.s1, k)
  <2>1. k \in Addresses /\ k - 0 = k /\ k \in 0 .. 0 + n1
        /\ k \notin call.src .. call.src + n2
    BY <1>0 DEF Addresses
  <2>. QED BY <1>1, <2>1
<1>3. ASSUME NEW k \in 0 .. n2
      PROVE  /\ call.src + k \in Addresses /\ call.src + k >= call.src
             /\ Before[call.src + k] = CharOf(call.s2, k)
  <2>. DEFINE a == call.src + k
  <2>1. a \in Addresses /\ a - call.src = k /\ a \notin 0 .. 0 + n1
        /\ a \in call.src .. call.src + n2 /\ a >= call.src
    BY <1>0 DEF Addresses
  <2>. HIDE DEF a
  <2>2. Before[a] = CharOf(call.s2, k)
    BY <1>1, <2>1
  <2>. QED BY <2>1, <2>2 DEF a
<1>. QED BY <1>2, <1>3 DEF n1, n2

\* The byte of the source a routine looks at; what it has stored lies below.
LEMMA SrcByte ==
  ASSUME StrShape, pc \in StrPc, i <= Len(call.s2)
  PROVE  Load(call.src + i) = CharOf(call.s2, i)
<1>1. /\ StrCall /\ i \in Nat /\ i \in 0 .. Len(call.s2)
      /\ memory = Before \/ memory = DestUpTo(i)
  <2>1. StrCall /\ i \in Nat /\ (memory = Before \/ memory = DestUpTo(i))
    BY Zenon DEF StrShape
  <2>. QED BY <2>1, StrFacts
<1>2. /\ call.src + i \in Addresses /\ call.src + i >= call.src
      /\ Before[call.src + i] = CharOf(call.s2, i)
  BY <1>1, StrBytes
<1>3. ~ (call.src + i < i)
  BY <1>1, StrFacts
<1>. QED BY <1>1, <1>2, <1>3 DEF Load, DestUpTo

\* One more byte of the destination.
LEMMA StoreNext ==
  ASSUME StrCall, i \in Nat, memory = DestUpTo(i), call' = call, Store(CharOf(call.s2, i))
  PROVE  memory' = DestUpTo(i + 1)
<1>1. /\ memory = [a \in Addresses |-> IF a < i THEN CharOf(call.s2, a) ELSE Before[a]]
      /\ memory' = [memory EXCEPT ![0 + i] = CharOf(call.s2, i)]
  BY Zenon DEF DestUpTo, Store, StrCall
<1>2. 0 + i = i
  OBVIOUS
<1>3. ASSUME NEW a \in Addresses
      PROVE  memory'[a] = IF a < i + 1 THEN CharOf(call.s2, a) ELSE Before[a]
  <2>1. a \in Int
    BY LibAssumption DEF Addresses
  <2>. QED BY <1>1, <1>2, <2>1
<1>. QED BY <1>1, <1>3 DEF DestUpTo

\* Memory m has str at the destination and is otherwise as it was.
StoredIn(m, str) ==
  \A a \in Addresses : m[a] =
    IF a \in call.dest .. call.dest + Len(str) - 1
    THEN str[a - call.dest + 1] ELSE Before[a]

\* Nothing stored, for strlen and strncmp.
LEMMA StoredNone ==
  ASSUME StrCall PROVE StoredIn(Before, <<>>)
<1>1. call.dest .. call.dest + Len(<<>>) - 1 = {}
  BY DEF StrCall
<1>. QED BY <1>1, Zenon DEF StoredIn

\* The whole string with its terminator, for strcpy.
LEMMA StoredAll ==
  ASSUME StrCall, NEW m, m = DestUpTo(Len(call.s2) + 1)
  PROVE  StoredIn(m, Append(call.s2, 0))
<1>. DEFINE str == Append(call.s2, 0)
<1>1. /\ Len(str) = Len(call.s2) + 1 /\ Len(call.s2) \in Nat
      /\ \A k \in 0 .. Len(call.s2) : str[k + 1] = CharOf(call.s2, k)
  BY StrFacts DEF CharOf
<1>. HIDE DEF str
<1>2. ASSUME NEW a \in Addresses
      PROVE  m[a] = IF a \in 0 .. 0 + Len(str) - 1 THEN str[a - 0 + 1] ELSE Before[a]
  <2>1. a \in Nat
    BY LibAssumption DEF Addresses
  <2>2. m[a] = IF a < Len(call.s2) + 1 THEN CharOf(call.s2, a) ELSE Before[a]
    BY DEF DestUpTo
  <2>. QED BY <1>1, <2>1, <2>2
<1>. QED BY <1>2, Zenon DEF StoredIn, str, StrCall

\* The n bytes that strncpy is asked for.
LEMMA PaddedFacts ==
  ASSUME NEW n \in Nat, NEW str \in Seq(Nat \ {0})
  PROVE  /\ Len(Padded(str, n)) = n
         /\ \A k \in 1 .. n : Padded(str, n)[k] = CharOf(str, k - 1)
  BY DEF Padded, CharOf

\* The n bytes of strncpy are stored.
LEMMA StoredPadded ==
  ASSUME StrCall, NEW m, m = DestUpTo(call.n)
  PROVE  StoredIn(m, Padded(call.s2, call.n))
<1>. DEFINE str == Padded(call.s2, call.n)
<1>1. /\ Len(str) = call.n /\ call.n \in Nat
      /\ \A k \in 1 .. call.n : str[k] = CharOf(call.s2, k - 1)
  BY StrFacts, PaddedFacts
<1>. HIDE DEF str
<1>2. ASSUME NEW a \in Addresses
      PROVE  m[a] = IF a \in 0 .. 0 + Len(str) - 1 THEN str[a - 0 + 1] ELSE Before[a]
  <2>1. a \in Nat /\ a - 0 + 1 - 1 = a
    BY LibAssumption DEF Addresses
  <2>2. m[a] = IF a < call.n THEN CharOf(call.s2, a) ELSE Before[a]
    BY DEF DestUpTo
  <2>. QED BY <1>1, <2>1, <2>2
<1>. QED BY <1>2, Zenon DEF StoredIn, str, StrCall

\* The least element of a set of numbers.
LEMMA MinIs ==
  ASSUME NEW S \in SUBSET Int, NEW m \in S, \A k \in S : m <= k
  PROVE  Min(S) = m
<1>1. Min(S) \in S /\ \A k \in S : Min(S) <= k
  <2>1. \E x \in S : \A y \in S : x <= y
    OBVIOUS
  <2>. QED BY <2>1, Zenon DEF Min
<1>2. Min(S) \in Int /\ m \in Int /\ Min(S) <= m /\ m <= Min(S)
  BY <1>1, Zenon
<1>. QED BY <1>2

\* The first n characters.
LEMMA CutFacts ==
  ASSUME NEW str \in Seq(Nat \ {0}), NEW n \in Nat
  PROVE  /\ Cut(str, n) \in Seq(Nat \ {0})
         /\ Len(Cut(str, n)) = IF n <= Len(str) THEN n ELSE Len(str)
         /\ \A k \in 1 .. n : k <= Len(str) => Cut(str, n)[k] = str[k]
<1>. DEFINE m == Min({n, Len(str)})
<1>1. m = IF n <= Len(str) THEN n ELSE Len(str)
  <2>0. {n, Len(str)} \in SUBSET Int /\ Len(str) \in Nat
    OBVIOUS
  <2>1. CASE n <= Len(str)
    <3>1. \A k \in {n, Len(str)} : n <= k
      BY <2>1
    <3>. QED BY <2>0, <2>1, <3>1, MinIs
  <2>2. CASE ~ (n <= Len(str))
    <3>1. \A k \in {n, Len(str)} : Len(str) <= k
      BY <2>0, <2>2
    <3>. QED BY <2>0, <2>2, <3>1, MinIs
  <2>. QED BY <2>1, <2>2
<1>. HIDE DEF m
<1>2. m \in Nat /\ m <= Len(str)
  BY <1>1
<1>3. Cut(str, n) = SubSeq(str, 1, m)
  BY DEF Cut, m
<1>. QED BY <1>1, <1>2, <1>3

\* What strncmp says of two strings.
Compared(result) ==
  LET a1 == Padded(call.s1, call.n)
      a2 == Padded(call.s2, call.n)
      differ == {k \in 1 .. call.n : a1[k] # a2[k]}
  IN  /\ result = 0 <=> Cut(call.s1, call.n) = Cut(call.s2, call.n)
      /\ differ # {} => (result < 0 <=> a1[Min(differ)] < a2[Min(differ)])

\* All of the first n characters are equal.
LEMMA ComparedEqual ==
  ASSUME StrCall,
         \A k \in 0 .. call.n - 1 : CharOf(call.s1, k) = CharOf(call.s2, k)
  PROVE  Compared(0)
<1>. DEFINE n1 == Len(call.s1)
            n2 == Len(call.s2)
            c1 == Cut(call.s1, call.n)
            c2 == Cut(call.s2, call.n)
            differ == {k \in 1 .. call.n : Padded(call.s1, call.n)[k]
                                           # Padded(call.s2, call.n)[k]}
<1>1. /\ call.n \in Nat /\ n1 \in Nat /\ n2 \in Nat
      /\ call.s1 \in Seq(Nat \ {0}) /\ call.s2 \in Seq(Nat \ {0})
  BY StrFacts
<1>2. \A k \in 1 .. call.n : Padded(call.s1, call.n)[k] = Padded(call.s2, call.n)[k]
  <2>1. TAKE k \in 1 .. call.n
  <2>2. k - 1 \in 0 .. call.n - 1
    BY <1>1
  <2>3. Padded(call.s1, call.n)[k] = CharOf(call.s1, k - 1)
    BY <1>1, PaddedFacts, Zenon
  <2>4. Padded(call.s2, call.n)[k] = CharOf(call.s2, k - 1)
    BY <1>1, PaddedFacts, Zenon
  <2>. QED BY <2>2, <2>3, <2>4, Zenon
<1>3. differ = {}
  BY <1>2, Zenon
<1>4. /\ c1 \in Seq(Nat \ {0}) /\ c2 \in Seq(Nat \ {0})
      /\ Len(c1) = IF call.n <= n1 THEN call.n ELSE n1
      /\ Len(c2) = IF call.n <= n2 THEN call.n ELSE n2
      /\ \A k \in 1 .. call.n : k <= n1 => c1[k] = call.s1[k]
      /\ \A k \in 1 .. call.n : k <= n2 => c2[k] = call.s2[k]
  BY <1>1, CutFacts
<1>5. \A k \in 0 .. call.n - 1 : k >= n1 <=> k >= n2
  <2>1. TAKE k \in 0 .. call.n - 1
  <2>2. k \in Nat
    BY <1>1
  <2>. QED BY <1>1, <2>2, CharFacts
<1>. HIDE DEF n1, n2, c1, c2
<1>6. Len(c1) = Len(c2)
  <2>1. CASE n1 < call.n
    BY <1>1, <1>4, <1>5, <2>1
  <2>2. CASE n2 < call.n
    BY <1>1, <1>4, <1>5, <2>2
  <2>3. CASE call.n <= n1 /\ call.n <= n2
    BY <1>4, <2>3
  <2>. QED BY <1>1, <2>1, <2>2, <2>3
<1>7. \A k \in 1 .. Len(c1) : c1[k] = c2[k]
  <2>1. TAKE k \in 1 .. Len(c1)
  <2>2. /\ k \in 1 .. call.n /\ k <= n1 /\ k <= n2 /\ k - 1 \in 0 .. call.n - 1
        /\ k - 1 < n1 /\ k - 1 < n2 /\ k - 1 + 1 = k
    BY <1>1, <1>4, <1>6
  <2>3. call.s1[k] = call.s2[k]
    BY <2>2 DEF CharOf, n1, n2
  <2>. QED BY <1>4, <2>2, <2>3
<1>8. c1 = c2
  <2>1. c1 \in Seq(Nat \ {0}) /\ c2 \in Seq(Nat \ {0})
    BY <1>4
  <2>. QED BY <1>6, <1>7, <2>1
<1>. QED BY <1>3, <1>8, Zenon DEF Compared, c1, c2

\* The characters differ first at j.
LEMMA ComparedDiffer ==
  ASSUME StrCall, NEW j \in 0 .. call.n - 1,
         \A k \in 0 .. j - 1 : CharOf(call.s1, k) = CharOf(call.s2, k),
         j <= Len(call.s1), j <= Len(call.s2),
         CharOf(call.s1, j) # CharOf(call.s2, j)
  PROVE  Compared(CharOf(call.s1, j) - CharOf(call.s2, j))
<1>. DEFINE n1 == Len(call.s1)
            n2 == Len(call.s2)
            c1 == Cut(call.s1, call.n)
            c2 == Cut(call.s2, call.n)
            a1 == Padded(call.s1, call.n)
            a2 == Padded(call.s2, call.n)
            differ == {k \in 1 .. call.n : a1[k] # a2[k]}
            v1 == CharOf(call.s1, j)
            v2 == CharOf(call.s2, j)
<1>1. /\ call.n \in Nat /\ n1 \in Nat /\ n2 \in Nat /\ j \in Nat /\ j < call.n
      /\ call.s1 \in Seq(Nat \ {0}) /\ call.s2 \in Seq(Nat \ {0})
  BY StrFacts
<1>2. \A k \in 1 .. call.n : a1[k] = CharOf(call.s1, k - 1)
                             /\ a2[k] = CharOf(call.s2, k - 1)
  BY <1>1, PaddedFacts
<1>3. /\ v1 \in Nat /\ v2 \in Nat /\ v1 # v2
      /\ v1 = 0 <=> j >= n1
      /\ v2 = 0 <=> j >= n2
  BY <1>1, CharFacts
<1>4. /\ Len(c1) = IF call.n <= n1 THEN call.n ELSE n1
      /\ Len(c2) = IF call.n <= n2 THEN call.n ELSE n2
      /\ \A k \in 1 .. call.n : k <= n1 => c1[k] = call.s1[k]
      /\ \A k \in 1 .. call.n : k <= n2 => c2[k] = call.s2[k]
  BY <1>1, CutFacts
<1>5. c1 # c2
  <2>1. CASE j >= n1 \/ j >= n2
    <3>1. Len(c1) # Len(c2)
      <4>. HIDE DEF c1, c2, n1, n2, v1, v2
      <4>. QED BY <1>1, <1>3, <1>4, <2>1
    <3>. QED BY <3>1
  <2>2. CASE j < n1 /\ j < n2
    <3>1. c1[j + 1] = v1 /\ c2[j + 1] = v2
      <4>1. j + 1 \in 1 .. call.n /\ j + 1 <= n1 /\ j + 1 <= n2
        BY <1>1, <2>2
      <4>2. v1 = call.s1[j + 1] /\ v2 = call.s2[j + 1]
        BY <2>2 DEF CharOf
      <4>. HIDE DEF v1, v2, c1, c2, n1, n2
      <4>. QED BY <1>4, <4>1, <4>2
    <3>. QED BY <1>3, <3>1
  <2>. QED BY <1>1, <2>1, <2>2
<1>6. j + 1 \in 1 .. call.n /\ j + 1 - 1 = j
  BY <1>1
<1>7. a1[j + 1] = v1 /\ a2[j + 1] = v2
  BY <1>2, <1>6
<1>8. \A k \in 1 .. j : a1[k] = a2[k]
  <2>1. TAKE k \in 1 .. j
  <2>2. k \in 1 .. call.n /\ k - 1 \in 0 .. j - 1
    BY <1>1
  <2>. QED BY <1>2, <2>2
<1>9. Min(differ) = j + 1
  <2>1. j + 1 \in differ
    BY <1>3, <1>6, <1>7
  <2>2. \A k \in differ : j + 1 <= k
    BY <1>1, <1>8
  <2>3. differ \in SUBSET Int
    BY <1>1
  <2>. HIDE DEF differ
  <2>. QED BY <2>1, <2>2, <2>3, MinIs
<1>. HIDE DEF v1, v2, a1, a2, c1, c2
<1>10. (v1 - v2 = 0 <=> c1 = c2) /\ (v1 - v2 < 0 <=> v1 < v2)
  BY <1>3, <1>5
<1>. QED BY <1>7, <1>9, <1>10, Zenon DEF Compared, v1, v2, a1, a2, c1, c2

\* StringsRight, with the parts named above.
RightParts ==
  /\ pc # "returned" => StringsRight
  /\ call.fn \notin StrRoutines => StringsRight
  /\ call.fn = "strlen" /\ ret = Len(call.s2) /\ StoredIn(memory, <<>>) => StringsRight
  /\ call.fn = "strcpy" /\ StoredIn(memory, Append(call.s2, 0)) => StringsRight
  /\ call.fn = "strncpy" /\ StoredIn(memory, Padded(call.s2, call.n)) => StringsRight
  /\ call.fn = "strncmp" /\ StoredIn(memory, <<>>) /\ Compared(ret) => StringsRight

\* Each of the parts is enough.
LEMMA PartsRight == RightParts
<1>1. /\ pc # "returned" => StringsRight
      /\ call.fn \notin StrRoutines => StringsRight
  BY Zenon DEF StringsRight, StrRoutines
<1>2. call.fn = "strlen" /\ ret = Len(call.s2) /\ StoredIn(memory, <<>>) => StringsRight
  BY Zenon DEF StringsRight, StoredIn
<1>3. call.fn = "strcpy" /\ StoredIn(memory, Append(call.s2, 0)) => StringsRight
  BY Zenon DEF StringsRight, StoredIn
<1>4. call.fn = "strncpy" /\ StoredIn(memory, Padded(call.s2, call.n)) => StringsRight
  BY Zenon DEF StringsRight, StoredIn
<1>5. call.fn = "strncmp" /\ StoredIn(memory, <<>>) /\ Compared(ret) => StringsRight
  BY Zenon DEF StringsRight, StoredIn, Compared
<1>. QED BY <1>1, <1>2, <1>3, <1>4, <1>5, Zenon DEF RightParts

\* A routine returns with its result.
LEMMA ReturnRight ==
  ASSUME call' = call, pc' = "returned",
         \/ call.fn = "strlen" /\ ret' = Len(call.s2) /\ StoredIn(memory', <<>>)
         \/ call.fn = "strcpy" /\ StoredIn(memory', Append(call.s2, 0))
         \/ call.fn = "strncpy" /\ StoredIn(memory', Padded(call.s2, call.n))
         \/ call.fn = "strncmp" /\ StoredIn(memory', <<>>) /\ Compared(ret')
  PROVE  StrInv'
<1>1. RightParts'
  BY PartsRight, PTL
<1>2. \A str : StoredIn(memory', str) => StoredIn(memory, str)'
  BY Zenon DEF StoredIn, Before
<1>3. Compared(ret') => Compared(ret)'
  BY Zenon DEF Compared
<1>4. StringsRight'
  BY <1>1, <1>2, <1>3, Zenon DEF RightParts
<1>5. "returned" \notin StrPc
  BY DEF StrPc, StrRoutines
<1>. QED BY <1>4, <1>5, Zenon DEF StrInv

\* A routine goes on.
LEMMA GoesOn ==
  ASSUME StrCall, call' = call, pc' \in StrPc, i' \in Nat,
         call.fn = IF pc' = "strncpy_pad" THEN "strncpy" ELSE pc',
         pc' # "strncpy_pad" => i' <= Len(call.s2),
         pc' \notin {"strlen", "strcpy"} => i' <= call.n,
         pc' = "strncpy_pad" => i' = call.n \/ i' >= Len(call.s2),
         memory' = IF pc' \in {"strlen", "strncmp"} THEN Before ELSE DestUpTo(i'),
         pc' = "strncmp" => /\ i' <= Len(call.s1)
                            /\ \A k \in 1 .. i' : call.s1[k] = call.s2[k]
  PROVE  StrInv'
<1>1. RightParts'
  BY PartsRight, PTL
<1>2. pc' # "returned"
  BY DEF StrPc, StrRoutines
<1>3. StrCall' /\ Before' = Before /\ (memory = DestUpTo(i))' <=> memory' = DestUpTo(i')
  BY Zenon DEF StrCall, Before, DestUpTo
<1>4. StrShape'
  BY <1>3, Zenon DEF StrShape, DestUpTo, Before, StrCall
<1>. QED BY <1>1, <1>2, <1>4, Zenon DEF StrInv, RightParts

\* An iteration of strlen.
LEMMA StrlenStep == ASSUME StrShape, strlen PROVE StrInv'
<1>1. /\ pc = "strlen" /\ StrCall /\ i \in Nat /\ i <= Len(call.s2)
      /\ call.fn = "strlen" /\ memory = Before
      /\ call' = call /\ memory' = memory
      /\ IF Load(call.src + i) # 0 THEN StrLoop ELSE StrReturn(i)
  BY DEF strlen, StrShape
<1>2. pc \in StrPc
  BY <1>1 DEF StrPc, StrRoutines
<1>3. Load(call.src + i) = CharOf(call.s2, i)
  BY <1>1, <1>2, SrcByte
<1>4. /\ call.s2 \in Seq(Nat \ {0}) /\ Len(call.s2) \in Nat
      /\ CharOf(call.s2, i) = 0 <=> i >= Len(call.s2)
  BY <1>1, StrFacts, CharFacts
<1>5. CASE CharOf(call.s2, i) # 0
  <2>1. i' = i + 1 /\ pc' = "strlen"
    BY <1>1, <1>3, <1>5 DEF StrLoop
  <2>. QED BY <1>1, <1>2, <1>4, <1>5, <2>1, GoesOn
<1>6. CASE CharOf(call.s2, i) = 0
  <2>1. ret' = i /\ pc' = "returned" /\ i = Len(call.s2)
    BY <1>1, <1>3, <1>4, <1>6 DEF StrReturn
  <2>. QED BY <1>1, <2>1, StoredNone, ReturnRight
<1>. QED BY <1>5, <1>6

\* An iteration of strcpy.
LEMMA StrcpyStep == ASSUME StrShape, strcpy PROVE StrInv'
<1>1. /\ pc = "strcpy" /\ StrCall /\ i \in Nat /\ i <= Len(call.s2)
      /\ call.fn = "strcpy" /\ memory = DestUpTo(i)
      /\ call' = call /\ Store(Load(call.src + i))
      /\ IF Load(call.src + i) # 0 THEN StrLoop ELSE StrReturn(0)
  BY DEF strcpy, StrShape
<1>2. pc \in StrPc
  BY <1>1 DEF StrPc, StrRoutines
<1>3. Load(call.src + i) = CharOf(call.s2, i)
  BY <1>1, <1>2, SrcByte
<1>4. /\ call.s2 \in Seq(Nat \ {0}) /\ Len(call.s2) \in Nat
      /\ CharOf(call.s2, i) = 0 <=> i >= Len(call.s2)
  BY <1>1, StrFacts, CharFacts
<1>5. memory' = DestUpTo(i + 1)
  <2>1. Store(CharOf(call.s2, i))
    BY <1>1, <1>3, Zenon
  <2>. QED BY <1>1, <2>1, StoreNext
<1>6. CASE CharOf(call.s2, i) # 0
  <2>1. i' = i + 1 /\ pc' = "strcpy"
    BY <1>1, <1>3, <1>6 DEF StrLoop
  <2>. QED BY <1>1, <1>2, <1>4, <1>5, <1>6, <2>1, GoesOn
<1>7. CASE CharOf(call.s2, i) = 0
  <2>1. pc' = "returned" /\ i = Len(call.s2)
    BY <1>1, <1>3, <1>4, <1>7 DEF StrReturn
  <2>. QED BY <1>1, <1>5, <2>1, StoredAll, ReturnRight
<1>. QED BY <1>6, <1>7

\* An iteration of the first loop of strncpy.
LEMMA StrncpyStep == ASSUME StrShape, strncpy_copy PROVE StrInv'
<1>1. /\ pc = "strncpy" /\ StrCall /\ i \in Nat /\ i <= Len(call.s2)
      /\ call.fn = "strncpy" /\ memory = DestUpTo(i) /\ i <= call.n
      /\ call' = call
      /\ IF Load(call.src + i) # 0 /\ i < call.n
         THEN Store(Load(call.src + i)) /\ StrLoop
         ELSE pc' = "strncpy_pad" /\ UNCHANGED <<memory, i, ret>>
  BY DEF strncpy_copy, StrShape
<1>2. pc \in StrPc /\ "strncpy_pad" \in StrPc
  BY <1>1 DEF StrPc, StrRoutines
<1>3. Load(call.src + i) = CharOf(call.s2, i)
  BY <1>1, <1>2, SrcByte
<1>4. /\ call.s2 \in Seq(Nat \ {0}) /\ Len(call.s2) \in Nat /\ call.n \in Nat
      /\ CharOf(call.s2, i) = 0 <=> i >= Len(call.s2)
  BY <1>1, StrFacts, CharFacts
<1>5. CASE CharOf(call.s2, i) # 0 /\ i < call.n
  <2>1. Store(CharOf(call.s2, i)) /\ i' = i + 1 /\ pc' = "strncpy"
    BY <1>1, <1>3, <1>5 DEF StrLoop
  <2>2. memory' = DestUpTo(i')
    BY <1>1, <2>1, StoreNext
  <2>. QED BY <1>1, <1>2, <1>4, <1>5, <2>1, <2>2, GoesOn
<1>6. CASE ~ (CharOf(call.s2, i) # 0 /\ i < call.n)
  <2>1. i' = i /\ memory' = memory /\ pc' = "strncpy_pad"
    BY <1>1, <1>3, <1>6
  <2>2. i' = call.n \/ i' >= Len(call.s2)
    BY <1>1, <1>4, <1>6, <2>1
  <2>. QED BY <1>1, <1>2, <2>1, <2>2, GoesOn
<1>. QED BY <1>5, <1>6

\* An iteration of the second, which pads with zeros.
LEMMA PadStep == ASSUME StrShape, strncpy_pad PROVE StrInv'
<1>1. /\ pc = "strncpy_pad" /\ StrCall /\ i \in Nat
      /\ i = call.n \/ i >= Len(call.s2)
      /\ call.fn = "strncpy" /\ memory = DestUpTo(i) /\ i <= call.n
      /\ call' = call
      /\ IF i < call.n THEN Store(0) /\ StrLoop
                       ELSE StrReturn(0) /\ UNCHANGED memory
  BY DEF strncpy_pad, StrShape, PadMore
<1>2. pc \in StrPc
  BY <1>1 DEF StrPc, StrRoutines
<1>3. /\ call.s2 \in Seq(Nat \ {0}) /\ Len(call.s2) \in Nat /\ call.n \in Nat
      /\ CharOf(call.s2, i) = 0 <=> i >= Len(call.s2)
  BY <1>1, StrFacts, CharFacts
<1>4. CASE i < call.n
  <2>1. Store(0) /\ i' = i + 1 /\ pc' = "strncpy_pad"
    BY <1>1, <1>4 DEF StrLoop
  <2>2. CharOf(call.s2, i) = 0 /\ i >= Len(call.s2)
    BY <1>1, <1>3, <1>4
  <2>3. memory' = DestUpTo(i')
    <3>1. Store(CharOf(call.s2, i))
      BY <2>1, <2>2, Zenon
    <3>. QED BY <1>1, <2>1, <3>1, StoreNext
  <2>4. i' \in Nat /\ i' <= call.n /\ i' >= Len(call.s2)
    BY <1>1, <1>3, <1>4, <2>1, <2>2
  <2>. QED BY <1>1, <1>2, <2>1, <2>3, <2>4, GoesOn
<1>5. CASE ~ (i < call.n)
  <2>1. memory' = memory /\ pc' = "returned" /\ i = call.n
    BY <1>1, <1>3, <1>5 DEF StrReturn
  <2>. QED BY <1>1, <2>1, StoredPadded, ReturnRight
<1>. QED BY <1>4, <1>5

\* An iteration of strncmp.
LEMMA StrncmpStep == ASSUME StrShape, strncmp PROVE StrInv'
<1>. DEFINE v1 == CharOf(call.s1, i)
            v2 == CharOf(call.s2, i)
<1>1. /\ pc = "strncmp" /\ StrCall /\ i \in Nat
      /\ i <= Len(call.s1) /\ i <= Len(call.s2) /\ i <= call.n
      /\ call.fn = "strncmp" /\ memory = Before
      /\ \A k \in 1 .. i : call.s1[k] = call.s2[k]
      /\ call' = call /\ memory' = memory
  BY DEF strncmp, StrShape
<1>2. pc \in StrPc
  BY <1>1 DEF StrPc, StrRoutines
<1>3. Load(call.src + i) = v2
  BY <1>1, <1>2, SrcByte
<1>4. /\ call.s1 \in Seq(Nat \ {0}) /\ Len(call.s1) \in Nat
      /\ call.s2 \in Seq(Nat \ {0}) /\ Len(call.s2) \in Nat /\ call.n \in Nat
  BY <1>1, StrFacts
<1>5. Load(call.dest + i) = v1
  <2>1. call.dest + i = i /\ i \in 0 .. Len(call.s1)
    BY <1>1, <1>4 DEF StrCall
  <2>. QED BY <1>1, <2>1, StrBytes DEF Load
<1>6. /\ v1 \in Nat /\ v2 \in Nat
      /\ v1 = 0 <=> i >= Len(call.s1)
      /\ v2 = 0 <=> i >= Len(call.s2)
  BY <1>1, <1>4, CharFacts
<1>7. IF i >= call.n THEN StrReturn(0)
      ELSE IF v1 # v2 \/ v1 = 0 THEN StrReturn(v1 - v2) ELSE StrLoop
  BY <1>3, <1>5 DEF strncmp
<1>8. \A k \in 0 .. i - 1 : CharOf(call.s1, k) = CharOf(call.s2, k)
  <2>1. TAKE k \in 0 .. i - 1
  <2>0. i \in Nat /\ i <= Len(call.s1) /\ i <= Len(call.s2)
    BY <1>1
  <2>2. k + 1 \in 1 .. i /\ k < Len(call.s1) /\ k < Len(call.s2)
    BY <1>4, <2>0
  <2>. QED BY <1>1, <2>2 DEF CharOf
<1>9. CASE i >= call.n
  <2>1. i = call.n /\ pc' = "returned" /\ ret' = 0
    BY <1>1, <1>4, <1>7, <1>9 DEF StrReturn
  <2>2. Compared(0)
    BY <1>1, <1>8, <2>1, ComparedEqual
  <2>. QED BY <1>1, <2>1, <2>2, StoredNone, ReturnRight
<1>10. CASE i < call.n /\ v1 # v2
  <2>1. pc' = "returned" /\ ret' = v1 - v2
    BY <1>1, <1>4, <1>7, <1>10 DEF StrReturn
  <2>2. Compared(v1 - v2)
    <3>1. i \in 0 .. call.n - 1
      BY <1>1, <1>4, <1>10
    <3>. QED BY <1>1, <1>8, <1>10, <3>1, ComparedDiffer
  <2>. QED BY <1>1, <2>1, <2>2, StoredNone, ReturnRight
<1>11. CASE i < call.n /\ v1 = v2 /\ v1 = 0
  <2>1. pc' = "returned" /\ ret' = 0
    BY <1>1, <1>4, <1>6, <1>7, <1>11 DEF StrReturn
  <2>2. \A k \in 0 .. call.n - 1 : CharOf(call.s1, k) = CharOf(call.s2, k)
    <3>1. TAKE k \in 0 .. call.n - 1
    <3>2. CASE k < i
      <4>1. k \in 0 .. i - 1
        BY <1>1, <1>4, <3>2
      <4>. QED BY <1>8, <4>1
    <3>3. CASE ~ (k < i)
      <4>1. ~ (k < Len(call.s1)) /\ ~ (k < Len(call.s2))
        BY <1>1, <1>4, <1>6, <1>11, <3>3
      <4>. QED BY <4>1 DEF CharOf
    <3>. QED BY <3>2, <3>3
  <2>3. Compared(0)
    BY <1>1, <2>2, ComparedEqual
  <2>. QED BY <1>1, <2>1, <2>3, StoredNone, ReturnRight
<1>12. CASE i < call.n /\ v1 = v2 /\ v1 # 0
  <2>1. i' = i + 1 /\ pc' = "strncmp"
    BY <1>1, <1>4, <1>7, <1>12 DEF StrLoop
  <2>2. i < Len(call.s1) /\ i < Len(call.s2)
    BY <1>1, <1>4, <1>6, <1>12
  <2>3. call.s1[i + 1] = call.s2[i + 1]
    BY <1>12, <2>2 DEF CharOf
  <2>4. /\ i' \in Nat /\ i' <= Len(call.s1) /\ i' <= Len(call.s2) /\ i' <= call.n
        /\ \A k \in 1 .. i' : call.s1[k] = call.s2[k]
    <3>1. /\ i \in Nat /\ i < call.n
          /\ \A k \in 1 .. i : call.s1[k] = call.s2[k]
      BY <1>1, <1>12
    <3>2. /\ i' \in Nat /\ i' <= Len(call.s1) /\ i' <= Len(call.s2) /\ i' <= call.n
          /\ \A k \in 1 .. i' : k \in 1 .. i \/ k = i + 1
      BY <1>4, <2>1, <2>2, <3>1
    <3>. QED BY <2>3, <3>1, <3>2, Zenon
  <2>. HIDE DEF v1, v2
  <2>. QED BY <1>1, <1>2, <2>1, <2>4, GoesOn
<1>. QED BY <1>1, <1>4, <1>9, <1>10, <1>11, <1>12

\* The memory that a call is given is a function of the addresses.
LEMMA LaidFunction ==
  ASSUME NEW k
  PROVE  Laid(k) = [a \in Addresses |-> Laid(k)[a]]
<1>. DEFINE Within(a, str, low) ==
              k.fn \in {"strlen", "strcpy", "strncpy", "strncmp"}
              /\ a \in low .. low + Len(str)
            Byte(str, j) == IF j < Len(str) THEN str[j + 1] ELSE 0
            At(a) == CASE Within(a, k.s1, k.dest) -> Byte(k.s1, a - k.dest)
                       [] Within(a, k.s2, k.src)  -> Byte(k.s2, a - k.src)
                       [] OTHER                   -> Old(a)
<1>1. Laid(k) = [a \in Addresses |-> At(a)]
  BY Zenon DEF Laid
<1>. HIDE DEF At
<1>. QED BY <1>1

\* A call of a string routine.
LEMMA StrCalled ==
  ASSUME i = 0, NEW fn \in StrRoutines, NEW s1 \in Strings, NEW s2 \in Strings,
         NEW n \in 0 .. MAX_STR, CallStr(fn, s1, s2, n)
  PROVE  StrInv'
<1>1. /\ call'.fn = fn /\ call'.dest = 0 /\ call'.src = (TOP \div 2) + 1
      /\ call'.s1 = s1 /\ call'.s2 = s2 /\ call'.n = n
      /\ memory' = Laid(call') /\ pc' = fn /\ i' = 0
  BY DEF CallStr
<1>2. StrCall' /\ memory' = Before'
  BY <1>1, Zenon DEF StrCall, Before
<1>3. /\ n \in Nat /\ s1 \in Seq(Nat \ {0}) /\ s2 \in Seq(Nat \ {0})
  BY LibAssumption
<1>4. Before' = [a \in Addresses |-> Before'[a]]
  BY LaidFunction, Zenon DEF Before
<1>5. Before' = [a \in Addresses |-> IF a < 0 THEN CharOf(call'.s2, a) ELSE Before'[a]]
  <2>1. \A a \in Addresses : ~ (a < 0)
    BY LibAssumption DEF Addresses
  <2>. QED BY <1>4, <2>1, Zenon
<1>6. memory' = IF pc' \in {"strlen", "strncmp"} THEN Before' ELSE DestUpTo(i)'
  BY <1>1, <1>2, <1>5, Zenon DEF DestUpTo
<1>7. /\ i' \in Nat /\ i' <= Len(call'.s2) /\ i' <= call'.n /\ i' <= Len(call'.s1)
      /\ \A k \in 1 .. i' : call'.s1[k] = call'.s2[k]
  BY <1>1, <1>3
<1>8. pc' # "strncpy_pad" /\ pc' # "returned" /\ pc' \in StrPc
  BY <1>1 DEF StrRoutines, StrPc
<1>9. StrShape'
  BY <1>1, <1>2, <1>6, <1>7, <1>8, Zenon DEF StrShape
<1>10. RightParts'
  BY PartsRight, PTL
<1>. QED BY <1>8, <1>9, <1>10, Zenon DEF StrInv, RightParts

\* Every step keeps the invariant.
LEMMA StrStep == MemInv /\ StrInv /\ [Next]_vars => StrInv'
<1>. SUFFICES ASSUME MemInv, StrInv, [Next]_vars PROVE StrInv'
  OBVIOUS
<1>0. /\ pc \in StrPc => StrShape
      /\ pc \notin StrPc \cup {"returned"} => i = 0
      /\ StringsRight
      /\ RightParts'
  <2>1. RightParts'
    BY PartsRight, PTL
  <2>. QED BY <2>1, Zenon DEF StrInv
<1>1. CASE UNCHANGED vars
  <2>1. UNCHANGED <<pc, call, i, memory, ret>>
    BY <1>1, Zenon DEF vars, libVars
  <2>2. StringsRight'
    BY <1>0, <2>1, Zenon DEF StringsRight, Before
  <2>3. StrShape => StrShape'
    BY <2>1, Zenon DEF StrShape, StrCall, DestUpTo, Before
  <2>. QED BY <1>0, <2>1, <2>2, <2>3, Zenon DEF StrInv
<1>2. ASSUME pc' \notin StrPc \cup {"returned"}, i' = 0
      PROVE  StrInv'
  BY <1>0, <1>2, Zenon DEF StrInv, RightParts
<1>3. CASE pc = "idle" /\ LibCall
  <2>0. i = 0
    BY <1>0, <1>3 DEF StrPc, StrRoutines
  <2>1. CASE \E fn \in MemRoutines, dest, src \in 0 .. MAX_ADDRESS,
                n \in 0 .. MAX_N :
               CallMem(fn, dest, src, n)
    <3>1. pc' \in {"top", "rep"} /\ i' = i
      BY <2>1 DEF CallMem, Enter
    <3>. QED BY <1>2, <2>0, <3>1 DEF StrPc, StrRoutines
  <2>2. CASE \E fn \in StrRoutines, s1, s2 \in Strings, n \in 0 .. MAX_STR :
               CallStr(fn, s1, s2, n)
    BY <2>0, <2>2, StrCalled
  <2>. QED BY <1>3, <2>1, <2>2 DEF LibCall
<1>4. CASE pc = "idle" /\ \E file \in Inodes, len \in Lengths, off \in 0 .. SizeLimit,
                             address \in 0 .. 3 : Call(file, off, len, address)
  <2>1. pc' \in {"done", "skip"} /\ i' = i
    BY <1>4 DEF Call, libVars
  <2>. QED BY <1>0, <1>2, <1>4, <2>1 DEF StrPc, StrRoutines
<1>5. CASE ReadDataStep
  <2>1. pc \in {"skip", "copy", "done"}
    BY <1>5 DEF ReadDataStep, SkipBlock, EndSkip, Return, CopyEnd, CopyBlock, Leave
  <2>2. pc' \in {"skip", "copy", "done", "overrun", "top", "rep", "idle"} /\ i' = i
    <3>1. CASE SkipBlock \/ EndSkip \/ Return
      BY <3>1 DEF SkipBlock, EndSkip, Return, libVars
    <3>2. CASE CopyEnd \/ CopyBlock
      BY <3>2, Zenon DEF CopyEnd, CopyBlock, CallMemcpy, Enter, libVars
    <3>3. CASE Leave
      BY <3>3 DEF Leave, libVars
    <3>. QED BY <1>5, <3>1, <3>2, <3>3 DEF ReadDataStep
  <2>. QED BY <1>0, <1>2, <2>1, <2>2 DEF StrPc, StrRoutines
<1>6. CASE LibStep
  <2>1. CASE strlen \/ strcpy \/ strncpy_copy \/ strncpy_pad \/ strncmp
    <3>1. pc \in StrPc
      BY <2>1 DEF strlen, strcpy, strncpy_copy, strncpy_pad, strncmp, StrPc,
         StrRoutines
    <3>. QED BY <1>0, <2>1, <3>1, StrlenStep, StrcpyStep, StrncpyStep, PadStep,
         StrncmpStep
  <2>2. CASE TopByte \/ Aligned \/ Rep \/ RepEnd \/ BottomByte
    <3>1. pc \in MemPc /\ pc' \in MemPc /\ i' = i
      BY <2>2 DEF TopByte, Aligned, Rep, RepEnd, BottomByte, MemPc, libVars
    <3>. QED BY <1>0, <1>2, <3>1 DEF StrPc, StrRoutines, MemPc
  <2>3. CASE Done
    <3>1. pc \in MemPc /\ pc' = back /\ i' = 0
      BY <2>3 DEF Done, Cleared, MemPc
    <3>2. CASE back = "returned"
      <4>1. call' = call /\ MemCall
        BY <2>3, <3>1, <3>2, Zenon DEF MemInv, Direct, Running, Done
      <4>2. call'.fn \notin StrRoutines
        BY <4>1 DEF MemCall, MemRoutines, StrRoutines
      <4>3. pc' = "returned" /\ pc' \notin StrPc
        BY <3>1, <3>2 DEF StrPc, StrRoutines
      <4>. QED BY <1>0, <4>2, <4>3, Zenon DEF StrInv, RightParts
    <3>3. CASE back # "returned"
      <4>1. back \in {"none", "copy"}
        BY <3>3, Zenon DEF MemInv
      <4>. QED BY <1>2, <3>1, <4>1 DEF StrPc, StrRoutines
    <3>. QED BY <3>2, <3>3
  <2>. QED BY <1>6, <2>1, <2>2, <2>3 DEF LibStep
<1>7. CASE LibLeave
  <2>1. pc' = "idle" /\ i' = 0
    BY <1>7 DEF LibLeave, Cleared
  <2>. QED BY <1>2, <2>1 DEF StrPc, StrRoutines
<1>. QED BY <1>1, <1>3, <1>4, <1>5, <1>6, <1>7, Zenon DEF Next, LibCall

\* The invariant holds at first.
LEMMA StrInit == Init => StrInv
<1>. SUFFICES ASSUME Init PROVE StrInv
  OBVIOUS
<1>1. pc = "idle" /\ i = 0
  BY Zenon DEF Init, LibInit
<1>2. pc \notin StrPc /\ pc # "returned"
  BY <1>1 DEF StrPc, StrRoutines
<1>. QED BY <1>1, <1>2, PartsRight, Zenon DEF StrInv, RightParts

(***************************************************************************)
(* strlen, strcpy, strncpy and strncmp return and store what the C library *)
(* says of them: the length, the whole string with its terminator, exactly *)
(* n bytes padded with zeros and never a byte more, and the sign of the    *)
(* first difference; for all strings and every n that memory has room for. *)
(***************************************************************************)
THEOREM StringsTheorem == LibrarySpec => []StringsRight
<1>1. LibraryInit => MemInv /\ StrInv
  BY MemInit, StrInit, Zenon DEF LibraryInit
<1>2. MemInv /\ StrInv /\ [LibraryNext]_<<vars, printfVars>> => (MemInv /\ StrInv)'
  BY MemStep, StrStep, LibraryStep
<1>3. StrInv => StringsRight
  BY Zenon DEF StrInv
<1>. QED BY <1>1, <1>2, <1>3, PTL DEF LibrarySpec

=============================================================================
