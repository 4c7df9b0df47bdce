-------------------------------- MODULE Lib --------------------------------
(***************************************************************************)
(* The memory and string routines of lib.c: memcpy, memset, memset_word,   *)
(* memset_dword and memmove with their registers and the direction flag,   *)
(* strlen, strcpy, strncpy and strncmp by the iterations of their loops.   *)
(*                                                                         *)
(* memory is the part of memory a call writes to and the bytes around it.  *)
(* Every byte of it starts as a value of its own, and a byte outside it is *)
(* represented by its address, so that a copy from a wrong place is a      *)
(* wrong byte.                                                             *)
(***************************************************************************)
EXTENDS Integers, Sequences, FiniteSetsExt

CONSTANTS TOP,          \* the last address of memory
          MAX_N,        \* the longest direct call
          MAX_ADDRESS,  \* the last destination and source of a direct call
          MAX_STR,      \* the longest string, and the largest n given with one
          Strings       \* strings without their terminator

ASSUME LibAssumption ==
  /\ TOP \in Nat /\ MAX_N \in Nat /\ MAX_ADDRESS \in Nat
  /\ MAX_ADDRESS + MAX_N < TOP
  /\ MAX_STR \in Nat /\ MAX_STR < TOP \div 2
  /\ Strings \subseteq Seq(Nat \ {0})
  /\ \A str \in Strings : Len(str) <= MAX_STR

VARIABLES
  pc,
  call,                   \* the routine that runs and its arguments
  back,                   \* where it returns to
  edi, esi, ecx, edx,     \* the registers
  unit,                   \* operand size of the string instruction
  df,                     \* the direction flag; no routine saves it
  i,                      \* the index of a C loop
  memory,                 \* by address
  ret                     \* the value returned

registers == <<edi, esi, ecx, edx, unit>>
libVars == <<call, back, registers, df, i>>

Addresses == 0 .. TOP

Old(a) == -1 - a

NoCall == [fn |-> "none", dest |-> 0, src |-> 0, n |-> 0,
           s1 |-> <<>>, s2 |-> <<>>]

\* The memory a routine is called with: two strings with their terminators,
\* where it is called with strings, in otherwise different bytes.
Laid(k) ==
  LET Within(a, s, at) == k.fn \in {"strlen", "strcpy", "strncpy", "strncmp"}
                          /\ a \in at .. at + Len(s)
      Byte(s, j) == IF j < Len(s) THEN s[j + 1] ELSE 0
  IN  [a \in Addresses |->
         CASE Within(a, k.s1, k.dest) -> Byte(k.s1, a - k.dest)
           [] Within(a, k.s2, k.src)  -> Byte(k.s2, a - k.src)
           [] OTHER                   -> Old(a)]

Load(a) == IF a \in Addresses THEN memory[a] ELSE a

\* The bytes of the argument c of the memset routines, lowest first, and of
\* eax: memset repeats the lowest.
Arg == <<101, 102, 103, 104>>
eax == IF call.fn = "memset" THEN [b \in 1 .. 4 |-> Arg[1]] ELSE Arg

----------------------------------------------------------------------------
(* The routines in assembly *)

Copies == call.fn \in {"memcpy", "memmove"}

\* A load and a store of u bytes, and the step of the pointers.
Transfer(u, backwards) ==
  LET step == IF backwards THEN -u ELSE u
  IN  /\ memory' = [a \in Addresses |->
            IF a \notin edi .. edi + u - 1 THEN memory[a]
            ELSE IF Copies THEN Load(esi + a - edi) ELSE eax[a - edi + 1]]
      /\ edi' = edi + step
      /\ esi' = IF Copies THEN esi + step ELSE esi

\* The register arguments.  memcpy and memset begin with the alignment, the
\* others with cld and the string instruction; memmove turns to the last
\* byte and sets the direction flag when the destination lies higher.
Enter(fn, dest, src, n) ==
  LET turned == fn = "memmove" /\ src < dest
      last   == IF turned THEN n - 1 ELSE 0
  IN  /\ edi' = dest + last /\ esi' = src + last /\ edx' = 0
      /\ ecx' = n
      /\ unit' = CASE fn = "memset_word" -> 2
                   [] fn = "memmove"     -> 1
                   [] OTHER              -> 4
      /\ IF fn \in {"memcpy", "memset"}
         THEN pc' = "top" /\ UNCHANGED df
         ELSE pc' = "rep" /\ df' = turned

\* .memcpy_top, .memset_top: single bytes up to an aligned destination.
TopByte ==
  /\ pc = "top"
  /\ ecx # 0 /\ edi % 4 # 0
  /\ Transfer(1, FALSE)
  /\ ecx' = ecx - 1
  /\ UNCHANGED <<pc, call, back, edx, unit, df, i, ret>>

Cld_Missing == df
Cld == FALSE

\* .memcpy_aligned, .memset_aligned
Aligned ==
  /\ pc = "top"
  /\ ecx # 0 /\ edi % 4 = 0
  /\ ecx' = ecx \div 4 /\ edx' = ecx % 4
  /\ df' = Cld
  /\ pc' = "rep"
  /\ UNCHANGED <<call, back, edi, esi, unit, i, memory, ret>>

\* One element of rep movs or rep stos.
Rep ==
  /\ pc = "rep"
  /\ ecx # 0
  /\ Transfer(unit, df)
  /\ ecx' = ecx - 1
  /\ UNCHANGED <<pc, call, back, edx, unit, df, i, ret>>

RepEnd ==
  /\ pc = "rep"
  /\ ecx = 0
  /\ pc' = "bottom"
  /\ UNCHANGED <<libVars, memory, ret>>

\* .memcpy_bottom, .memset_bottom; the other routines have edx = 0 here.
BottomByte ==
  /\ pc = "bottom"
  /\ edx # 0
  /\ Transfer(1, FALSE)
  /\ edx' = edx - 1
  /\ UNCHANGED <<pc, call, back, ecx, unit, df, i, ret>>

Cleared == /\ edi' = 0 /\ esi' = 0 /\ ecx' = 0 /\ edx' = 0 /\ unit' = 4
           /\ back' = "none" /\ i' = 0

\* .memcpy_done, .memset_done, or the end of another routine; the registers
\* are free again.
Done ==
  /\ \/ pc = "top" /\ ecx = 0
     \/ pc = "bottom" /\ edx = 0
  /\ pc' = back
  /\ call' = IF back = "returned" THEN call ELSE NoCall
  /\ Cleared
  /\ UNCHANGED <<df, memory, ret>>

----------------------------------------------------------------------------
(* The routines in C, an iteration of their loop at a time *)

StrReturn(value) ==
  /\ pc' = "returned"
  /\ ret' = value
  /\ UNCHANGED i

StrLoop == /\ i' = i + 1
           /\ UNCHANGED <<pc, ret>>

Store(value) == memory' = [memory EXCEPT ![call.dest + i] = value]

strlen ==
  /\ pc = "strlen"
  /\ IF Load(call.src + i) # 0 THEN StrLoop ELSE StrReturn(i)
  /\ UNCHANGED <<call, back, registers, df, memory>>

strcpy ==
  /\ pc = "strcpy"
  /\ Store(Load(call.src + i))
  /\ IF Load(call.src + i) # 0 THEN StrLoop ELSE StrReturn(0)
  /\ UNCHANGED <<call, back, registers, df>>

\* The first loop, up to the terminator or n bytes.
strncpy_copy ==
  /\ pc = "strncpy"
  /\ IF Load(call.src + i) # 0 /\ i < call.n
     THEN Store(Load(call.src + i)) /\ StrLoop
     ELSE pc' = "strncpy_pad" /\ UNCHANGED <<memory, i, ret>>
  /\ UNCHANGED <<call, back, registers, df>>

PadMore_One(k) == k <= call.n
PadMore(k) == k < call.n

\* The second loop, zeros up to n bytes.
strncpy_pad ==
  /\ pc = "strncpy_pad"
  /\ IF PadMore(i) THEN Store(0) /\ StrLoop
                   ELSE StrReturn(0) /\ UNCHANGED memory
  /\ UNCHANGED <<call, back, registers, df>>

strncmp ==
  LET c1 == Load(call.dest + i)
      c2 == Load(call.src + i)
  IN  /\ pc = "strncmp"
      /\ IF i >= call.n THEN StrReturn(0)
         ELSE IF c1 # c2 \/ c1 = 0 THEN StrReturn(c1 - c2)
         ELSE StrLoop
      /\ UNCHANGED <<call, back, registers, df, memory>>

----------------------------------------------------------------------------
MemRoutines == {"memcpy", "memset", "memset_word", "memset_dword", "memmove"}
StrRoutines == {"strlen", "strcpy", "strncpy", "strncmp"}

UnitOf(fn) == CASE fn = "memset_word" -> 2 [] fn = "memset_dword" -> 4
                [] OTHER -> 1

\* A call of a memory routine by any part of the kernel; memset_word and
\* memset_dword count in their own units, although lib.c calls their n the
\* "number of bytes to set".
CallMem(fn, dest, src, n) ==
  /\ n * UnitOf(fn) <= MAX_N
  /\ call' = [NoCall EXCEPT !.fn = fn, !.dest = dest, !.src = src, !.n = n]
  /\ back' = "returned"
  /\ Enter(fn, dest, src, n)
  /\ UNCHANGED <<i, memory, ret>>

\* A call of a string routine; the strings do not overlap.
CallStr(fn, s1, s2, n) ==
  /\ call' = [fn |-> fn, dest |-> 0, src |-> (TOP \div 2) + 1, n |-> n,
              s1 |-> s1, s2 |-> s2]
  /\ memory' = Laid(call')
  /\ pc' = fn
  /\ back' = "returned"
  /\ UNCHANGED <<registers, df, i, ret>>

LibLeave ==
  /\ pc = "returned"
  /\ pc' = "idle"
  /\ call' = NoCall
  /\ Cleared
  /\ memory' = Laid(NoCall)
  /\ ret' = 0
  /\ UNCHANGED df

LibInit ==
  /\ pc = "idle"
  /\ call = NoCall /\ back = "none"
  /\ edi = 0 /\ esi = 0 /\ ecx = 0 /\ edx = 0 /\ unit = 4
  /\ df = FALSE /\ i = 0
  /\ memory = Laid(NoCall)
  /\ ret = 0

LibStep ==
  \/ TopByte \/ Aligned \/ Rep \/ RepEnd \/ BottomByte \/ Done
  \/ strlen \/ strcpy \/ strncpy_copy \/ strncpy_pad \/ strncmp

LibCall ==
  /\ pc = "idle"
  /\ \/ \E fn \in MemRoutines, dest, src \in 0 .. MAX_ADDRESS,
          n \in 0 .. MAX_N :
          CallMem(fn, dest, src, n)
     \/ \E fn \in StrRoutines, s1, s2 \in Strings, n \in 0 .. MAX_STR :
          CallStr(fn, s1, s2, n)

----------------------------------------------------------------------------
(* Properties *)

Before == Laid(call)

\* The bytes a memory routine is to store: its range, and what goes there.
MemWanted(a) ==
  IF a \notin call.dest .. call.dest + call.n * UnitOf(call.fn) - 1
  THEN Before[a]
  ELSE CASE call.fn \in {"memcpy", "memmove"} -> Before[call.src + a - call.dest]
         [] call.fn = "memset"                -> Arg[1]
         [] OTHER -> Arg[((a - call.dest) % UnitOf(call.fn)) + 1]

(***************************************************************************)
(* Whatever the alignment, the length and the overlap, and whatever        *)
(* direction an earlier memmove has left the processor in (it returns with *)
(* the direction flag set), a memory routine has stored the bytes asked    *)
(* for, read before the call, and no other.  memcpy promises this unless   *)
(* the destination lies inside the source.                                 *)
(***************************************************************************)
MemoryRight ==
  /\ pc = "returned"
  /\ call.fn \in MemRoutines
  /\ ~ (call.fn = "memcpy" /\ call.dest \in call.src + 1 .. call.src + call.n - 1)
  => memory = [a \in Addresses |-> MemWanted(a)]

\* What strncpy leaves in the n bytes of its destination.
Padded(s, n) == [k \in 1 .. n |-> IF k <= Len(s) THEN s[k] ELSE 0]

\* The first n characters of a string.
Cut(s, n) == SubSeq(s, 1, Min({n, Len(s)}))

\* The string routines against the strings: strlen counts, strcpy copies the
\* terminator too, strncpy fills exactly n bytes and ends the string only if
\* there is room, and strncmp orders the first n characters by the first
\* difference and finds equal just the equal ones.
StringsRight ==
  pc = "returned" =>
    LET Stored(s) == \A a \in Addresses : memory[a] =
          IF a \in call.dest .. call.dest + Len(s) - 1
          THEN s[a - call.dest + 1] ELSE Before[a]
        a1 == Padded(call.s1, call.n)
        a2 == Padded(call.s2, call.n)
        differ == {k \in 1 .. call.n : a1[k] # a2[k]}
    IN  CASE call.fn = "strlen"  -> ret = Len(call.s2) /\ Stored(<<>>)
          [] call.fn = "strcpy"  -> Stored(Append(call.s2, 0))
          [] call.fn = "strncpy" -> Stored(Padded(call.s2, call.n))
          [] call.fn = "strncmp" ->
               /\ Stored(<<>>)
               /\ ret = 0 <=> Cut(call.s1, call.n) = Cut(call.s2, call.n)
               /\ differ # {} => (ret < 0 <=> a1[Min(differ)] < a2[Min(differ)])
          [] OTHER -> TRUE
=============================================================================
