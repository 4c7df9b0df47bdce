-------------------------- MODULE SysReturnProofs --------------------------
(***************************************************************************)
(* Proofs about SysReturn for any system-call numbers and results, and any *)
(* interrupts between the instructions.                                    *)
(*                                                                         *)
(* The properties speak of the iret.  The invariant follows the stack      *)
(* through every instruction: where it ends (SpShape), that nothing writes *)
(* the user's frame (FrameKept), where the user's registers are            *)
(* (RegsSaved, RegsHeld), what the word that holds eax can have become     *)
(* (EaxShape) and which numbers take which way out (WayOut).               *)
(***************************************************************************)
EXTENDS SysReturn, TLAPS

SpShape ==
  /\ pc = "user" => sp = 0
  /\ pc \in {"pusha", "backToEax", "errorEax", "iret"} => sp = 5
  /\ pc \in {"pushArgs", "pushEax", "popa", "toFrame", "errorPopa"} => sp = 13
  /\ pc \in {"skipEax", "popEax"} => sp = 14
  /\ pc \in {"compare", "call", "dropArgs", "errorDropArgs"} => sp = 16

FrameKept == pc # "user" => \A w \in 0 .. 4 : stack[w] = User("frame")

\* popa finds register Pusha[k] in word 4 + k.
RegsSaved ==
  pc \in {"pushArgs", "compare", "call", "dropArgs", "pushEax", "skipEax",
          "popa", "errorDropArgs", "errorPopa"} =>
    \A k \in 2 .. 8 : k # 5 => stack[4 + k] = User(Pusha[k])

RegsHeld ==
  pc \in {"pusha", "pushArgs", "backToEax", "popEax", "toFrame", "errorEax",
          "iret"} =>
    \A r \in Registers \ {"eax"} : reg[r] = User(r)

\* What an interrupt can leave of the freed word.
Leftovers == {Num(result), Kernel("eflags"), User("ebx")}

EaxShape ==
  /\ pc \in {"dropArgs", "pushEax"} => reg["eax"] = Num(result)
  /\ pc = "skipEax" => stack[13] = Num(result)
  /\ pc \in {"popa", "backToEax", "popEax"} => stack[13] \in Leftovers
  /\ pc = "toFrame" => reg["eax"] \in Leftovers
  /\ pc = "iret" => IF InTable(number) THEN reg["eax"] \in Leftovers
                                       ELSE reg["eax"] = Num(-1) /\ ~ IF_flag

WayOut ==
  /\ pc # "fault"
  /\ pc \in {"call", "dropArgs", "pushEax", "skipEax", "popa", "backToEax",
             "popEax", "toFrame"} => InTable(number)
  /\ pc \in {"errorDropArgs", "errorPopa", "errorEax"} =>
       ~ InTable(number) /\ ~ IF_flag
  /\ pc \in {"pusha", "pushArgs", "compare"} => ~ IF_flag

Inv == /\ TypeOK /\ SpShape /\ FrameKept /\ RegsSaved /\ RegsHeld
       /\ EaxShape /\ WayOut
----------------------------------------------------------------------------
(* The words and registers of the model. *)

\* What the kernel stores is among the contents the model distinguishes.
LEMMA Stored ==
  /\ \A r \in Registers : User(r) \in Contents
  /\ User("frame") \in Contents
  /\ Kernel("esp") \in Contents /\ Kernel("eflags") \in Contents
  /\ Kernel("other") \in Contents
  /\ \A n \in Numbers \cup Results \cup {-1} : Num(n) \in Contents
  BY DEF Contents

\* The order of pusha.
LEMMA PushaOrder ==
  /\ Pusha[1] = "eax" /\ Pusha[4] = "ebx" /\ Pusha[5] = "esp"
  /\ \A k \in 1 .. 8 : k # 5 => Pusha[k] # "esp" /\ Pusha[k] \in Registers
  /\ \A k \in 2 .. 8 : k # 5 => Pusha[k] \in Registers \ {"eax"}
  BY DEF Pusha, Registers

\* The place of a register in it.
Place(r) == CHOOSE k \in 1 .. 8 : Pusha[k] = r

\* Every register has one place.
LEMMA PlaceOf ==
  ASSUME NEW r \in Registers
  PROVE  /\ Place(r) \in 1 .. 8 /\ Place(r) # 5 /\ Pusha[Place(r)] = r
         /\ r # "eax" => Place(r) \in 2 .. 8
<1>1. \E k \in 1 .. 8 : Pusha[k] = r
  <2>1. /\ Pusha[1] = "eax" /\ Pusha[2] = "ecx" /\ Pusha[3] = "edx"
        /\ Pusha[4] = "ebx" /\ Pusha[6] = "ebp" /\ Pusha[7] = "esi"
        /\ Pusha[8] = "edi"
    BY DEF Pusha
  <2>2. /\ 1 \in 1 .. 8 /\ 2 \in 1 .. 8 /\ 3 \in 1 .. 8 /\ 4 \in 1 .. 8
        /\ 6 \in 1 .. 8 /\ 7 \in 1 .. 8 /\ 8 \in 1 .. 8
    OBVIOUS
  <2>. QED BY <2>1, <2>2 DEF Registers
<1>2. Place(r) \in 1 .. 8 /\ Pusha[Place(r)] = r
  BY <1>1, Zenon DEF Place
<1>3. r # "esp"
  BY DEF Registers
<1>. QED BY <1>2, <1>3, PushaOrder

\* The words pusha and an interrupt store.
LEMMA WordStored ==
  ASSUME TypeOK, NEW k \in 1 .. 8
  PROVE  /\ PushaWord(k) \in Contents
         /\ k # 5 => PushaWord(k) = reg[Pusha[k]]
  BY Stored, PushaOrder DEF PushaWord, TypeOK

\* The registers popa loads when they are the ones in words 5 to 12.
LEMMA Popped ==
  ASSUME TypeOK, sp = 13,
         \A k \in 2 .. 8 : k # 5 => stack[4 + k] = User(Pusha[k])
  PROVE  /\ PopaRegs \in [Registers -> Contents]
         /\ \A r \in Registers \ {"eax"} : PopaRegs[r] = User(r)
<1>1. PopaRegs = [r \in Registers |-> stack[sp - 9 + Place(r)]]
  BY DEF PopaRegs, Place
<1>2. ASSUME NEW r \in Registers
      PROVE  /\ stack[sp - 9 + Place(r)] \in Contents
             /\ r # "eax" => stack[sp - 9 + Place(r)] = User(r)
  <2>1. sp - 9 + Place(r) = 4 + Place(r) /\ 4 + Place(r) \in 0 .. StackWords - 1
    BY PlaceOf DEF StackWords, UserFrame
  <2>2. stack[4 + Place(r)] \in Contents
    BY <2>1 DEF TypeOK
  <2>3. r # "eax" => stack[4 + Place(r)] = User(r)
    BY PlaceOf
  <2>. QED BY <2>1, <2>2, <2>3
<1>. QED BY <1>1, <1>2

----------------------------------------------------------------------------
\* Before the first system call.
LEMMA InitInv == Init => Inv
<1>. SUFFICES ASSUME Init PROVE Inv
  OBVIOUS
<1>1. TypeOK
  BY Stored DEF Init, TypeOK, StackWords, UserFrame
<1>2. /\ SpShape /\ FrameKept /\ RegsSaved /\ RegsHeld /\ EaxShape /\ WayOut
  BY DEF Init, SpShape, FrameKept, RegsSaved, RegsHeld, EaxShape, WayOut
<1>. QED BY <1>1, <1>2 DEF Inv

\* The parts of Inv that name pc.
Shapes == SpShape /\ FrameKept /\ RegsSaved /\ RegsHeld /\ EaxShape /\ WayOut

\* int $0x80 leaves the user's frame and registers.
LEMMA Int80Inv == ASSUME Inv, Int80 PROVE Inv'
<1>1. PICK n \in Numbers :
        /\ number' = n
        /\ reg' = [r \in Registers |-> IF r = "eax" THEN Num(n) ELSE User(r)]
  BY DEF Int80
<1>2. /\ pc' = "pusha" /\ IF_flag' = FALSE /\ sp' = 5 /\ result' = result
      /\ stack' = [w \in 0 .. StackWords - 1 |->
                     IF w < 5 THEN User("frame") ELSE Kernel("other")]
  BY DEF Int80, Step, UserFrame, Inv, TypeOK
<1>3. TypeOK'
  <2>1. reg' \in [Registers -> Contents] /\ number' \in Numbers \cup {0}
    BY <1>1, Stored
  <2>2. stack' \in [0 .. StackWords - 1 -> Contents]
    BY <1>2, Stored
  <2>3. pc' = "pusha" /\ IF_flag' \in BOOLEAN
    BY <1>2
  <2>4. sp' \in 0 .. StackWords
    BY <1>2 DEF StackWords, UserFrame
  <2>5. result' \in Results \cup {0}
    BY <1>2 DEF Inv, TypeOK
  <2>. QED BY <2>1, <2>2, <2>3, <2>4, <2>5 DEF TypeOK
<1>4. Shapes'
  BY <1>1, <1>2
  DEF Shapes, SpShape, FrameKept, RegsSaved, RegsHeld, EaxShape, WayOut,
      StackWords, UserFrame
<1>. QED BY <1>3, <1>4 DEF Inv, Shapes

\* pusha saves the user's registers in words 5 to 12.
LEMMA PushAllInv == ASSUME Inv, PushAll PROVE Inv'
<1>1. /\ pc = "pusha" /\ pc' = "pushArgs" /\ sp = 5 /\ sp' = 13
      /\ UNCHANGED <<IF_flag, reg, number, result>>
  BY DEF PushAll, Step, Keeps, Inv, SpShape
<1>2. stack' = [w \in 0 .. StackWords - 1 |->
                  IF w \in 5 .. 12 THEN PushaWord(w - 4) ELSE stack[w]]
  <2>1. \A w \in 0 .. StackWords - 1 : w - 5 + 1 = w - 4
    BY DEF StackWords, UserFrame
  <2>. QED BY <1>1, <2>1 DEF PushAll, Inv, TypeOK
<1>3. \A w \in 5 .. 12 : PushaWord(w - 4) \in Contents
  BY WordStored DEF Inv
<1>4. TypeOK'
  BY <1>1, <1>2, <1>3 DEF Inv, TypeOK, StackWords, UserFrame
<1>5. RegsSaved'
  <2>. SUFFICES ASSUME NEW k \in 2 .. 8, k # 5
                PROVE  stack'[4 + k] = User(Pusha[k])
    BY DEF RegsSaved
  <2>1. 4 + k \in 5 .. 12 /\ (4 + k) - 4 = k /\ 4 + k \in 0 .. StackWords - 1
    BY DEF StackWords, UserFrame
  <2>2. stack'[4 + k] = PushaWord(k)
    BY <1>2, <2>1
  <2>3. PushaWord(k) = reg[Pusha[k]] /\ Pusha[k] \in Registers \ {"eax"}
    BY WordStored, PushaOrder DEF Inv
  <2>. QED BY <1>1, <2>2, <2>3 DEF Inv, RegsHeld
<1>6. FrameKept'
  BY <1>1, <1>2 DEF Inv, FrameKept, StackWords, UserFrame
<1>7. SpShape' /\ RegsHeld' /\ EaxShape' /\ WayOut'
  BY <1>1 DEF Inv, SpShape, RegsHeld, EaxShape, WayOut
<1>. QED BY <1>4, <1>5, <1>6, <1>7 DEF Inv

(***************************************************************************)
(* Instructions that change words from 13 on and no others: the frame and  *)
(* the saved registers stay.                                               *)
(***************************************************************************)
LEMMA HighWords ==
  ASSUME FrameKept, RegsSaved, pc # "user",
         \A w \in 0 .. 12 : stack'[w] = stack[w],
         pc' \in {"pushArgs", "compare", "call", "dropArgs", "pushEax", "skipEax",
                  "popa", "errorDropArgs", "errorPopa"} =>
           pc \in {"pushArgs", "compare", "call", "dropArgs", "pushEax", "skipEax",
                  "popa", "errorDropArgs", "errorPopa"}
  PROVE  FrameKept' /\ RegsSaved'
<1>1. \A w \in 0 .. 4 : stack'[w] = User("frame")
  BY DEF FrameKept
<1>2. ASSUME NEW k \in 2 .. 8 PROVE stack'[4 + k] = stack[4 + k]
  <2>1. 4 + k \in 0 .. 12
    OBVIOUS
  <2>. QED BY <2>1
<1>. QED BY <1>1, <1>2 DEF FrameKept, RegsSaved

\* Pushing the arguments, the call itself and eax writes words from 13 on.
LEMMA HighStepInv == ASSUME Inv, PushArgs \/ Call \/ PushEax PROVE Inv'
<1>1. CASE PushArgs
  <2>1. /\ pc = "pushArgs" /\ pc' = "compare" /\ sp = 13 /\ sp' = 16
        /\ UNCHANGED <<IF_flag, reg, number, result>>
        /\ stack' = [stack EXCEPT ![13] = reg["edx"], ![14] = reg["ecx"],
                                  ![15] = reg["ebx"]]
    BY <1>1 DEF PushArgs, Step, Keeps, Inv, SpShape
  <2>2. /\ reg["edx"] \in Contents /\ reg["ecx"] \in Contents
        /\ reg["ebx"] \in Contents
    BY DEF Inv, TypeOK, Registers
  <2>3. TypeOK' /\ \A w \in 0 .. 12 : stack'[w] = stack[w]
    BY <2>1, <2>2 DEF Inv, TypeOK, StackWords, UserFrame
  <2>4. FrameKept' /\ RegsSaved'
    BY <2>1, <2>3, HighWords DEF Inv
  <2>5. SpShape' /\ RegsHeld' /\ EaxShape' /\ WayOut'
    BY <2>1 DEF Inv, SpShape, RegsHeld, EaxShape, WayOut
  <2>. QED BY <2>3, <2>4, <2>5 DEF Inv
<1>2. CASE Call
  <2>1. /\ pc = "call" /\ sp = 16 /\ InTable(number) /\ number # 0
        /\ UNCHANGED <<IF_flag, sp, number>>
    BY <1>2 DEF Call, Inv, SpShape, WayOut, InTable
  <2>2. PICK v \in Results :
          /\ result' = v
          /\ reg' = [reg EXCEPT !["eax"] = Num(v), !["ecx"] = Kernel("other"),
                                !["edx"] = Kernel("other")]
    BY <1>2, <2>1 DEF Call
  <2>3. /\ pc' = "dropArgs"
        /\ stack' = [w \in 0 .. StackWords - 1 |->
                       IF w >= 13 THEN Kernel("other") ELSE stack[w]]
    BY <1>2, <2>1 DEF Call, Inv, TypeOK
  <2>4. /\ reg' \in [Registers -> Contents]
        /\ reg'["eax"] = Num(v)
    BY <2>2, Stored DEF Inv, TypeOK, Registers
  <2>5. TypeOK' /\ \A w \in 0 .. 12 : stack'[w] = stack[w]
    BY <2>1, <2>2, <2>3, <2>4, Stored DEF Inv, TypeOK, StackWords, UserFrame
  <2>6. FrameKept' /\ RegsSaved'
    BY <2>1, <2>3, <2>5, HighWords DEF Inv
  <2>7. SpShape' /\ RegsHeld' /\ EaxShape' /\ WayOut'
    BY <2>1, <2>2, <2>3, <2>4 DEF Inv, SpShape, RegsHeld, EaxShape, WayOut
  <2>. QED BY <2>5, <2>6, <2>7 DEF Inv
<1>3. CASE PushEax
  <2>1. /\ pc = "pushEax" /\ pc' = "skipEax" /\ sp = 13 /\ sp' = 14
        /\ UNCHANGED <<IF_flag, reg, number, result>>
        /\ stack' = [stack EXCEPT ![13] = reg["eax"]]
        /\ reg["eax"] = Num(result)
    BY <1>3 DEF PushEax, Step, Keeps, Inv, SpShape, EaxShape
  <2>2. reg["eax"] \in Contents
    BY DEF Inv, TypeOK, Registers
  <2>3. /\ TypeOK' /\ \A w \in 0 .. 12 : stack'[w] = stack[w]
        /\ stack'[13] = Num(result)
    BY <2>1, <2>2 DEF Inv, TypeOK, StackWords, UserFrame
  <2>4. FrameKept' /\ RegsSaved'
    BY <2>1, <2>3, HighWords DEF Inv
  <2>5. SpShape' /\ RegsHeld' /\ EaxShape' /\ WayOut'
    BY <2>1, <2>3 DEF Inv, SpShape, RegsHeld, EaxShape, WayOut
  <2>. QED BY <2>3, <2>4, <2>5 DEF Inv
<1>. QED BY <1>1, <1>2, <1>3
\* The instructions that move the stack pointer and nothing else.
LEMMA MoveInv ==
  ASSUME Inv,
         DropArgs \/ SkipEax \/ BackToEax \/ ToFrame \/ ErrorDropArgs
  PROVE  Inv'
<1>. USE DEF DropArgs, SkipEax, BackToEax, ToFrame, ErrorDropArgs, Step, Keeps
<1>1. UNCHANGED <<IF_flag, stack, reg, number, result>>
  OBVIOUS
<1>2. SpShape'
  BY DEF Inv, SpShape
<1>3. TypeOK'
  BY <1>1, <1>2 DEF SpShape, Inv, TypeOK, StackWords, UserFrame
<1>4. FrameKept' /\ RegsSaved' /\ RegsHeld'
  BY <1>1 DEF Inv, FrameKept, RegsSaved, RegsHeld
<1>5. EaxShape'
  BY <1>1 DEF Inv, EaxShape, WayOut, Leftovers
<1>6. WayOut'
  BY <1>1 DEF Inv, WayOut
<1>. QED BY <1>2, <1>3, <1>4, <1>5, <1>6 DEF Inv

\* popa, on either way out, gives the program its registers back.
LEMMA PopInv == ASSUME Inv, PopAll \/ ErrorPopa PROVE Inv'
<1>1. /\ pc \in {"popa", "errorPopa"} /\ sp = 13 /\ sp' = 5
      /\ pc' = IF pc = "popa" THEN "backToEax" ELSE "errorEax"
      /\ UNCHANGED <<IF_flag, stack, number, result>>
      /\ reg' = PopaRegs
  BY DEF PopAll, ErrorPopa, Step, Keeps, Inv, SpShape
<1>2. /\ reg' \in [Registers -> Contents]
      /\ \A r \in Registers \ {"eax"} : reg'[r] = User(r)
  BY <1>1, Popped DEF Inv, RegsSaved
<1>3. TypeOK'
  BY <1>1, <1>2 DEF Inv, TypeOK, StackWords, UserFrame
<1>4. FrameKept' /\ RegsSaved' /\ RegsHeld'
  BY <1>1, <1>2 DEF Inv, FrameKept, RegsSaved, RegsHeld
<1>5. SpShape' /\ EaxShape' /\ WayOut'
  BY <1>1 DEF Inv, SpShape, EaxShape, WayOut, Leftovers
<1>. QED BY <1>3, <1>4, <1>5 DEF Inv

\* eax is loaded from word 13, or with -1.
LEMMA EaxInv == ASSUME Inv, PopEax \/ ErrorEax PROVE Inv'
<1>1. CASE PopEax
  <2>1. /\ pc = "popEax" /\ pc' = "toFrame" /\ sp = 14 /\ sp' = 13
        /\ UNCHANGED <<IF_flag, stack, number, result>>
        /\ reg' = [reg EXCEPT !["eax"] = stack[13]]
    BY <1>1 DEF PopEax, Step, Keeps, Inv, SpShape
  <2>2. stack[13] \in Contents
    BY DEF Inv, TypeOK, StackWords, UserFrame
  <2>3. /\ reg' \in [Registers -> Contents] /\ reg'["eax"] = stack[13]
        /\ \A r \in Registers \ {"eax"} : reg'[r] = reg[r]
    BY <2>1, <2>2 DEF Inv, TypeOK, Registers
  <2>4. TypeOK'
    BY <2>1, <2>3 DEF Inv, TypeOK, StackWords, UserFrame
  <2>5. FrameKept' /\ RegsSaved' /\ RegsHeld'
    BY <2>1, <2>3 DEF Inv, FrameKept, RegsSaved, RegsHeld
  <2>6. SpShape' /\ EaxShape' /\ WayOut'
    BY <2>1, <2>3 DEF Inv, SpShape, EaxShape, WayOut, Leftovers
  <2>. QED BY <2>4, <2>5, <2>6 DEF Inv
<1>2. CASE ErrorEax
  <2>1. /\ pc = "errorEax" /\ pc' = "iret" /\ sp = 5
        /\ UNCHANGED <<IF_flag, sp, stack, number, result>>
        /\ reg' = [reg EXCEPT !["eax"] = Num(-1)]
    BY <1>2 DEF ErrorEax, Step, Keeps, Inv, SpShape
  <2>2. Num(-1) \in Contents
    BY Stored
  <2>3. /\ reg' \in [Registers -> Contents] /\ reg'["eax"] = Num(-1)
        /\ \A r \in Registers \ {"eax"} : reg'[r] = reg[r]
    BY <2>1, <2>2 DEF Inv, TypeOK, Registers
  <2>4. TypeOK'
    BY <2>1, <2>3 DEF Inv, TypeOK
  <2>5. FrameKept' /\ RegsSaved' /\ RegsHeld'
    BY <2>1, <2>3 DEF Inv, FrameKept, RegsSaved, RegsHeld
  <2>6. SpShape' /\ EaxShape' /\ WayOut'
    BY <2>1, <2>3 DEF Inv, SpShape, EaxShape, WayOut
  <2>. QED BY <2>4, <2>5, <2>6 DEF Inv
<1>. QED BY <1>1, <1>2

\* The test of the number chooses the way out and the interrupt flag.
LEMMA CompareInv == ASSUME Inv, Compare PROVE Inv'
<1>1. /\ pc = "compare" /\ sp = 16
      /\ UNCHANGED <<sp, stack, reg, number, result>>
      /\ \/ InTable(number) /\ pc' = "call" /\ IF_flag' = TRUE
         \/ ~ InTable(number) /\ pc' = "errorDropArgs" /\ IF_flag' = FALSE
  BY DEF Compare, Inv, SpShape, InTable
<1>2. TypeOK'
  <2>1. pc' \in {"call", "errorDropArgs"} /\ IF_flag' \in BOOLEAN
    BY <1>1
  <2>. QED BY <1>1, <2>1 DEF Inv, TypeOK
<1>3. FrameKept' /\ RegsSaved' /\ RegsHeld'
  BY <1>1 DEF Inv, FrameKept, RegsSaved, RegsHeld
<1>4. SpShape' /\ EaxShape' /\ WayOut'
  BY <1>1 DEF Inv, SpShape, EaxShape, WayOut
<1>. QED BY <1>2, <1>3, <1>4 DEF Inv

\* Back in the user program nothing is claimed but types.
LEMMA IretInv == ASSUME Inv, Iret PROVE Inv'
<1>1. /\ pc' = "user" /\ sp' = 0 /\ IF_flag' = TRUE
      /\ UNCHANGED <<stack, reg, number, result>>
  BY DEF Iret, Step
<1>2. TypeOK'
  <2>1. IF_flag' \in BOOLEAN /\ sp' \in 0 .. StackWords
    BY <1>1 DEF StackWords, UserFrame
  <2>. QED BY <1>1, <2>1 DEF Inv, TypeOK
<1>3. Shapes'
  BY <1>1
  DEF Shapes, SpShape, FrameKept, RegsSaved, RegsHeld, EaxShape, WayOut
<1>. QED BY <1>2, <1>3 DEF Inv, Shapes

(***************************************************************************)
(* An interrupt overwrites the free words.  Where the saved registers are  *)
(* still needed they are below sp; word 13 is the interrupt's eflags when  *)
(* sp is 13 and its saved ebx when sp is 5, and popa has run by then.      *)
(***************************************************************************)
LEMMA InterruptInv == ASSUME Inv, Interrupt PROVE Inv'
<1>1. /\ IF_flag /\ pc \notin {"user", "call", "fault"}
      /\ UNCHANGED <<pc, IF_flag, sp, reg, number, result>>
  BY DEF Interrupt
<1>2. /\ pc \in {"dropArgs", "pushEax", "skipEax", "popa", "backToEax",
                 "popEax", "toFrame", "iret"}
      /\ sp \in {5, 13, 14, 16}
  BY <1>1 DEF Inv, TypeOK, SpShape, WayOut
<1>3. stack' = [w \in 0 .. StackWords - 1 |->
                  IF w < sp THEN stack[w]
                  ELSE IF w = sp THEN Kernel("eflags")
                  ELSE IF w \in sp + 5 .. sp + 12 THEN PushaWord(w - sp - 4)
                  ELSE Kernel("other")]
  BY DEF Interrupt, Inv, TypeOK
<1>4. \A w \in 0 .. StackWords - 1 : w < sp => stack'[w] = stack[w]
  BY <1>3
<1>5. TypeOK'
  <2>1. ASSUME NEW w \in 0 .. StackWords - 1 PROVE stack'[w] \in Contents
    <3>1. CASE w < sp
      BY <1>4, <3>1 DEF Inv, TypeOK
    <3>2. CASE ~(w < sp) /\ w \in sp + 5 .. sp + 12
      <4>1. w - sp - 4 \in 1 .. 8 /\ w # sp
        BY <1>2, <3>2 DEF StackWords, UserFrame
      <4>2. stack'[w] = PushaWord(w - sp - 4)
        BY <1>3, <3>2, <4>1
      <4>. QED BY <4>1, <4>2, WordStored DEF Inv
    <3>3. CASE ~(w < sp) /\ w \notin sp + 5 .. sp + 12
      BY <1>3, <3>3, Stored
    <3>. QED BY <3>1, <3>2, <3>3
  <2>2. DOMAIN stack' = 0 .. StackWords - 1
    BY <1>3
  <2>3. stack' \in [0 .. StackWords - 1 -> Contents]
    BY <1>3, <2>1, <2>2
  <2>. QED BY <1>1, <2>3 DEF Inv, TypeOK
<1>6. FrameKept'
  <2>1. \A w \in 0 .. 4 : w \in 0 .. StackWords - 1 /\ w < sp
    BY <1>2 DEF StackWords, UserFrame
  <2>. QED BY <1>1, <1>4, <2>1 DEF Inv, FrameKept
<1>7. RegsSaved'
  <2>. SUFFICES ASSUME pc \in {"dropArgs", "pushEax", "skipEax", "popa"},
                       NEW k \in 2 .. 8, k # 5
                PROVE  stack'[4 + k] = User(Pusha[k])
    BY <1>1, <1>2 DEF RegsSaved
  <2>1. sp >= 13
    BY DEF Inv, SpShape
  <2>2. 4 + k \in 0 .. StackWords - 1 /\ 4 + k < sp
    BY <1>2, <2>1 DEF StackWords, UserFrame
  <2>. QED BY <1>4, <2>2 DEF Inv, RegsSaved
<1>8. EaxShape'
  <2>1. 13 \in 0 .. StackWords - 1
    BY DEF StackWords, UserFrame
  <2>2. CASE sp = 14
    BY <1>1, <1>4, <2>1, <2>2 DEF Inv, EaxShape, SpShape, Leftovers
  <2>3. CASE sp = 13
    <3>1. stack'[13] = Kernel("eflags")
      BY <1>3, <2>1, <2>3
    <3>. QED BY <1>1, <2>3, <3>1 DEF Inv, EaxShape, SpShape, Leftovers
  <2>4. CASE sp = 5
    <3>1. 13 - sp - 4 = 4 /\ 13 \in sp + 5 .. sp + 12
      BY <2>4
    <3>2. stack'[13] = PushaWord(4)
      BY <1>3, <2>1, <2>4, <3>1
    <3>3. PushaWord(4) = reg["ebx"]
      BY WordStored, PushaOrder DEF Inv
    <3>4. "ebx" \in Registers \ {"eax"}
      BY DEF Registers
    <3>5. pc = "backToEax" => stack'[13] = User("ebx")
      BY <3>2, <3>3, <3>4 DEF Inv, RegsHeld
    <3>. QED BY <1>1, <2>4, <3>5 DEF Inv, EaxShape, SpShape, Leftovers
  <2>5. CASE sp = 16
    BY <1>1, <2>5 DEF Inv, EaxShape, SpShape
  <2>. QED BY <1>2, <2>2, <2>3, <2>4, <2>5
<1>9. SpShape' /\ RegsHeld' /\ WayOut'
  BY <1>1 DEF Inv, SpShape, RegsHeld, WayOut
<1>. QED BY <1>5, <1>6, <1>7, <1>8, <1>9 DEF Inv

\* Every instruction and every interrupt keeps Inv.
LEMMA NextInv == Inv /\ [Next]_vars => Inv'
<1>1. Inv /\ UNCHANGED vars => Inv'
  BY DEF vars, Inv, TypeOK, SpShape, FrameKept, RegsSaved, RegsHeld, EaxShape,
         WayOut, Leftovers
<1>. QED
  BY <1>1, Int80Inv, PushAllInv, HighStepInv, CompareInv, MoveInv, PopInv,
     EaxInv, IretInv, InterruptInv
  DEF Next

(***************************************************************************)
(* The invariant of handler_syscall.                                       *)
(***************************************************************************)
THEOREM SysReturnInvTheorem == Spec => []Inv
  BY InitInv, NextInv, PTL DEF Spec

(* Type correctness; the stack never grows past the words kept. *)
THEOREM SysReturnTypeTheorem == Spec => []TypeOK
<1>1. Inv => TypeOK
  BY DEF Inv
<1>. QED BY <1>1, SysReturnInvTheorem, PTL

(***************************************************************************)
(* Wherever interrupts arrive, the iret finds the program's frame and      *)
(* every register but eax as the program left them.                        *)
(***************************************************************************)
THEOREM ProgramRestoredTheorem == Spec => []ProgramRestored
<1>1. Inv => ProgramRestored
  BY DEF Inv, SpShape, FrameKept, RegsHeld, ProgramRestored, UserFrame
<1>. QED BY <1>1, SysReturnInvTheorem, PTL

(***************************************************************************)
(* A number outside the table returns -1 with interrupts still disabled,   *)
(* and the null entry of the table is never called.                        *)
(***************************************************************************)
THEOREM RefusedNumbersTheorem == Spec => []RefusedNumbersFail
<1>1. Inv => RefusedNumbersFail
  <2>. SUFFICES ASSUME Inv, pc = "iret", number \notin 1 .. 10
                PROVE  reg["eax"] = Num(-1) /\ ~ IF_flag
    BY DEF Inv, WayOut, RefusedNumbersFail
  <2>1. number \in Int
    BY SysReturnAssumption DEF Inv, TypeOK
  <2>2. ~ InTable(number)
    BY <2>1 DEF InTable
  <2>. QED BY <2>2 DEF Inv, EaxShape
<1>. QED BY <1>1, SysReturnInvTheorem, PTL

(***************************************************************************)
(* What comes back in eax is the result, -1, the eflags of an interrupt or *)
(* the program's own ebx, and no other word of the kernel's stack.         *)
(***************************************************************************)
THEOREM NoKernelWordTheorem == Spec => []NoKernelWordReturned
<1>1. Inv => NoKernelWordReturned
  BY DEF Inv, EaxShape, Leftovers, NoKernelWordReturned
<1>. QED BY <1>1, SysReturnInvTheorem, PTL
=============================================================================
