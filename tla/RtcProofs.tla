----------------------------- MODULE RtcProofs -----------------------------
(***************************************************************************)
(* Proofs about Rtc for any set of frequencies that programs write.        *)
(*                                                                         *)
(* The properties speak of the moments after a call; what makes them true  *)
(* happens between its steps.  Exclusion: from cli to sti no handler runs  *)
(* or can start, so nothing selects another register (IndexKept).  The     *)
(* rate chosen by the switch is the right one (WantMatches) and is in      *)
(* register A from the store on (RateStored), next to what was read there  *)
(* before (PrevKept, RegShape).  RTC_READ is cleared only by               *)
(* the handler (ReadWaits), and the handler acknowledges the clock while   *)
(* it has register C selected (TickKept).                                  *)
(***************************************************************************)
EXTENDS Rtc, TLAPS

(* The two halves of TypeOK. *)
Ranges ==
  /\ pc \in {"user", "cli", "index1", "prev", "index2", "data", "sti", "spin", "done"}
  /\ want \in [freq : Freqs \cup {2, 1024}, rate : 0 .. 15]
  /\ hpc \in {"idle", "clear", "select", "read", "eoiSlave", "eoiMaster"}
  /\ index \in {"A", "B", "C"} /\ regA \in 0 .. 127 /\ prev \in 0 .. 127

Flags ==
  /\ IF_flag \in BOOLEAN /\ RTC_READ \in BOOLEAN /\ ticked \in BOOLEAN
  /\ flagC \in BOOLEAN /\ irr \in BOOLEAN
  /\ isr8 \in BOOLEAN /\ isr2 \in BOOLEAN

Exclusion ==
  pc \in {"index1", "prev", "index2", "data", "sti"} => ~ IF_flag /\ hpc = "idle"

IndexKept ==
  /\ pc \in {"prev", "data"} => index = "A"
  /\ hpc = "read" => index = "C"

TwoTo(k) == 2 ^ k

Matches(freq, r) ==
  IF freq = 0 THEN r = 0 ELSE r > 0 /\ Hertz(r) = freq

WantMatches == Matches(want.freq, want.rate)

RateStored == pc \in {"sti", "user", "spin", "done"} => Rate = want.rate

PrevKept == pc \in {"index2", "data"} => prev = regA

RegShape == regA = FirmwareA \/ regA = Masked(FirmwareA) + Rate

ReadWaits == /\ pc = "spin" /\ ~ RTC_READ => ticked
             /\ pc = "done" => ticked

TickKept ==
  /\ hpc = "idle" => ~ isr8 /\ ~ isr2
  /\ hpc = "eoiMaster" => ~ isr8
  /\ hpc \in {"idle", "eoiSlave", "eoiMaster"} => (flagC => irr)

Inv == /\ TypeOK /\ Exclusion /\ IndexKept /\ WantMatches /\ RateStored
       /\ PrevKept /\ RegShape /\ ReadWaits /\ TickKept

\* The parts of Inv about the order of the steps.
ControlInv == /\ Exclusion /\ IndexKept /\ RateStored /\ PrevKept /\ RegShape
              /\ ReadWaits /\ TickKept

----------------------------------------------------------------------------
\* Numbers and names on one side, flags on the other.
LEMMA TypeHalves == TypeOK <=> Ranges /\ Flags
  BY DEF TypeOK, Ranges, Flags

(* With 16 - k for its rate the clock gives 2^k Hz. *)
LEMMA Divided ==
  \A k \in 1 .. 10 : 16 - k \in 1 .. 15 /\ Hertz(16 - k) = TwoTo(k)
<1>1. /\ Hertz(15) = TwoTo(1) /\ Hertz(14) = TwoTo(2) /\ Hertz(13) = TwoTo(3)
      /\ Hertz(12) = TwoTo(4) /\ Hertz(11) = TwoTo(5) /\ Hertz(10) = TwoTo(6)
      /\ Hertz(9) = TwoTo(7) /\ Hertz(8) = TwoTo(8) /\ Hertz(7) = TwoTo(9)
      /\ Hertz(6) = TwoTo(10)
  BY DEF Hertz, TwoTo
<1>. QED BY <1>1

(* The rates rtc_open and the switch of rtc_write choose are right. *)
LEMMA RatesRight ==
  /\ Matches(2, SHIFT_FOR_2HZ) /\ SHIFT_FOR_2HZ \in 0 .. 15
  /\ \A freq \in Freqs :
       Valid(freq) => Matches(freq, RateOf(freq)) /\ RateOf(freq) \in 0 .. 15
<1>1. Matches(2, SHIFT_FOR_2HZ) /\ SHIFT_FOR_2HZ \in 0 .. 15
  <2>1. Hertz(15) = 2
    BY DEF Hertz
  <2>. QED BY <2>1 DEF Matches, SHIFT_FOR_2HZ
<1>2. ASSUME NEW freq \in Freqs, Valid(freq)
      PROVE  Matches(freq, RateOf(freq)) /\ RateOf(freq) \in 0 .. 15
  <2>1. CASE freq = 0
    BY <2>1 DEF Matches, RateOf
  <2>2. CASE freq # 0
    <3>1. PICK c : c = CHOOSE k \in 1 .. 10 : freq = 2 ^ k
      OBVIOUS
    <3>2. c \in 1 .. 10 /\ freq = 2 ^ c
      BY <1>2, <2>2, <3>1, Zenon DEF Valid
    <3>3. RateOf(freq) = 16 - c
      BY <2>2, <3>1, Zenon DEF RateOf
    <3>4. c \in 1 .. 10 /\ freq = TwoTo(c)
      BY <3>2, Zenon DEF TwoTo
    <3>5. 16 - c > 0 /\ 16 - c \in 0 .. 15 /\ Hertz(16 - c) = TwoTo(c)
      BY <3>4, Divided
    <3>6. Matches(freq, 16 - c)
      BY <2>2, <3>4, <3>5 DEF Matches
    <3>. QED BY <3>3, <3>5, <3>6
  <2>. QED BY <2>1, <2>2
<1>. QED BY <1>1, <1>2

----------------------------------------------------------------------------
\* The state rtc_init leaves satisfies Inv.
LEMMA InitInv == Init => Inv
<1>. SUFFICES ASSUME Init PROVE Inv
  OBVIOUS
<1>1. TypeOK
  <2>1. want \in [freq : Freqs \cup {2, 1024}, rate : 0 .. 15]
    BY DEF Init
  <2>2. regA \in 0 .. 127 /\ prev \in 0 .. 127
    BY FreqAssumption DEF Init
  <2>3. /\ pc \in {"user", "cli", "index1", "prev", "index2", "data", "sti", "spin", "done"}
        /\ hpc \in {"idle", "clear", "select", "read", "eoiSlave", "eoiMaster"}
        /\ index \in {"A", "B", "C"}
    BY DEF Init
  <2>4. /\ IF_flag \in BOOLEAN /\ RTC_READ \in BOOLEAN /\ ticked \in BOOLEAN
        /\ flagC \in BOOLEAN /\ irr \in BOOLEAN
        /\ isr8 \in BOOLEAN /\ isr2 \in BOOLEAN
    BY DEF Init
  <2>. QED BY <2>1, <2>2, <2>3, <2>4 DEF TypeOK
<1>2. WantMatches
  <2>1. Hertz(6) = 1024
    BY DEF Hertz
  <2>. QED BY <2>1 DEF Init, WantMatches, Matches
<1>3. ControlInv
  BY FreqAssumption
  DEF ControlInv, Init, Exclusion, IndexKept, RateStored, PrevKept, RegShape,
      ReadWaits, TickKept, Rate
<1>. QED BY <1>1, <1>2, <1>3 DEF Inv, ControlInv

\* rtc_open and rtc_write: from the switch to the cli.
LEMMA SetRateInv ==
  ASSUME Inv, NEW freq \in Freqs \cup {2, 1024}, NEW r \in 0 .. 15,
         Matches(freq, r), Runs, SetRate(freq, r)
  PROVE  Inv'
<1>1. /\ want' = [freq |-> freq, rate |-> r]
      /\ pc = "user" /\ pc' = "cli"
      /\ UNCHANGED <<prev, hpc, IF_flag, RTC_READ, index, regA, flagC, irr,
                     isr8, isr2, ticked>>
  BY DEF SetRate, Goto, clock, pic
<1>2. TypeOK'
  BY <1>1 DEF Inv, TypeOK
<1>3. WantMatches'
  BY <1>1 DEF WantMatches
<1>4. ControlInv'
  BY <1>1
  DEF ControlInv, Inv, Exclusion, IndexKept, RateStored, PrevKept, RegShape,
      ReadWaits, TickKept, Rate
<1>. QED BY <1>2, <1>3, <1>4 DEF Inv, ControlInv

\* The other steps leave want alone.
LEMMA WantUnchanged ==
  ASSUME Inv, want' = want PROVE WantMatches'
  BY DEF Inv, WantMatches

\* The store to register A: its bit 6, and the rate.
LEMMA Stored ==
  ASSUME NEW a \in 0 .. 127, NEW k \in 0 .. 15
  PROVE  /\ Masked(a) + k \in 0 .. 127 /\ (Masked(a) + k) % 16 = k
         /\ Masked(Masked(a) + k) = Masked(a)
  BY DEF Masked, BITMASK6

\* The steps of the running process.
LEMMA ProcessStepInv ==
  ASSUME Inv, ProcessStep \/ rtc_read PROVE Inv'
<1>. USE DEF Runs, Goto, clock, pic
<1>1. want' = want
  BY DEF ProcessStep, Cli, Index1, Prev, Index2, Data, Sti, Spin, Return,
         rtc_read
<1>2. TypeOK'
  <2>. USE TypeHalves
  <2>1. Ranges'
    <3>1. CASE Data
      <4>1. /\ regA' \in {regA, Masked(prev) + want.rate}
            /\ prev \in 0 .. 127 /\ want.rate \in 0 .. 15
        BY <3>1 DEF Data, Inv, Ranges
      <4>2. Masked(prev) + want.rate \in 0 .. 127
        BY <4>1, Stored
      <4>3. regA' \in 0 .. 127
        BY <4>1, <4>2 DEF Inv, Ranges
      <4>. QED BY <3>1, <4>3 DEF Data, Inv, Ranges
    <3>2. CASE Prev
      <4>1. prev' \in {regA, BITMASK6, 0} /\ regA' = regA
        BY <3>2, Zenon DEF Prev
      <4>2. /\ pc' = "index2" /\ want' = want /\ hpc' = hpc /\ index' = index
        BY <3>2 DEF Prev
      <4>. QED BY <4>1, <4>2 DEF Inv, Ranges, BITMASK6
    <3>3. CASE ~ Data /\ ~ Prev
      BY <3>3
      DEF ProcessStep, Cli, Index1, Index2, Sti, Spin, Return, rtc_read,
          Inv, Ranges
    <3>. QED BY <3>1, <3>2, <3>3
  <2>2. Flags'
    BY Zenon
    DEF ProcessStep, Cli, Index1, Prev, Index2, Data, Sti, Spin, Return,
        rtc_read, Inv, Flags
  <2>. QED BY <2>1, <2>2, PTL
<1>3. Exclusion'
  BY DEF ProcessStep, Cli, Index1, Prev, Index2, Data, Sti, Spin, Return,
         rtc_read, Inv, Exclusion
<1>4. IndexKept'
  BY DEF ProcessStep, Cli, Index1, Prev, Index2, Data, Sti, Spin, Return,
         rtc_read, Inv, IndexKept
<1>5. RateStored' /\ PrevKept' /\ RegShape'
  <2>1. CASE Data
    <3>1. /\ pc = "data" /\ pc' = "sti" /\ prev = regA
          /\ regA' = Masked(regA) + want.rate /\ want.rate \in 0 .. 15
          /\ regA \in 0 .. 127
      BY <2>1 DEF Data, Inv, IndexKept, PrevKept, TypeOK
    <3>2. Rate' = want.rate
      BY <3>1, Stored DEF Rate
    <3>3. Masked(regA) = Masked(FirmwareA)
      <4>1. CASE regA = FirmwareA
        BY <4>1
      <4>2. CASE regA = Masked(FirmwareA) + Rate
        <5>1. Rate \in 0 .. 15 /\ FirmwareA \in 0 .. 127
          BY <3>1, FreqAssumption DEF Rate
        <5>. QED BY <4>2, <5>1, Stored
      <4>. QED BY <4>1, <4>2 DEF Inv, RegShape
    <3>. QED BY <1>1, <3>1, <3>2, <3>3 DEF RateStored, PrevKept, RegShape, Rate
  <2>2. CASE ~ Data
    <3>1. regA' = regA /\ (pc' \in {"index2", "data"} => prev' = regA)
      BY <2>2
      DEF ProcessStep, Cli, Index1, Prev, Index2, Sti, Spin, Return, rtc_read,
          Inv, IndexKept, PrevKept
    <3>2. pc' \in {"sti", "user", "spin", "done"} =>
            pc \in {"sti", "user", "spin", "done"}
      BY <2>2
      DEF ProcessStep, Cli, Index1, Prev, Index2, Sti, Spin, Return, rtc_read
    <3>. QED BY <1>1, <3>1, <3>2 DEF Inv, RateStored, PrevKept, RegShape, Rate
  <2>. QED BY <2>1, <2>2
<1>6. ReadWaits'
  BY DEF ProcessStep, Cli, Index1, Prev, Index2, Data, Sti, Spin, Return,
         rtc_read, Inv, ReadWaits
<1>7. TickKept'
  <2>1. CASE Prev
    <3>1. /\ hpc' = hpc /\ isr8' = isr8 /\ isr2' = isr2 /\ irr' = irr
          /\ flagC' => flagC
      BY <2>1, Zenon DEF Prev, pic
    <3>. QED BY <3>1, Zenon DEF Inv, TickKept
  <2>2. CASE ~ Prev
    BY <2>2
    DEF ProcessStep, Cli, Index1, Index2, Data, Sti, Spin, Return, rtc_read,
        Inv, TickKept
  <2>. QED BY <2>1, <2>2
<1>. QED
  BY <1>1, <1>2, <1>3, <1>4, <1>5, <1>6, <1>7, WantUnchanged DEF Inv

\* The clock, the controllers and the interrupt handler.
LEMMA InterruptInv ==
  ASSUME Inv, Tick \/ Deliver \/ HandlerStep PROVE Inv'
<1>. USE DEF Runs, Handler, clock, pic
<1>1. want' = want /\ pc' = pc /\ IF_flag' = IF_flag
  BY DEF Tick, Deliver, HandlerStep, clear_rtc_read, SelectC, ReadC, EoiSlave,
         EoiMaster
<1>2. TypeOK'
  <2>. USE TypeHalves
  <2>1. Ranges'
    BY DEF Tick, Deliver, HandlerStep, clear_rtc_read, SelectC, ReadC, EoiSlave,
           EoiMaster, Inv, Ranges
  <2>2. Flags'
    BY Zenon
    DEF Tick, Deliver, HandlerStep, clear_rtc_read, SelectC, ReadC, EoiSlave,
        EoiMaster, Inv, Flags
  <2>. QED BY <2>1, <2>2, PTL
<1>3. Exclusion'
  BY DEF Tick, Deliver, HandlerStep, clear_rtc_read, SelectC, ReadC, EoiSlave,
         EoiMaster, Inv, Exclusion
<1>4. IndexKept'
  BY DEF Tick, Deliver, HandlerStep, clear_rtc_read, SelectC, ReadC, EoiSlave,
         EoiMaster, Inv, IndexKept, Exclusion
<1>5. RateStored' /\ PrevKept' /\ RegShape'
  <2>1. regA' = regA /\ prev' = prev
    BY DEF Tick, Deliver, HandlerStep, clear_rtc_read, SelectC, ReadC, EoiSlave,
           EoiMaster
  <2>. QED BY <1>1, <2>1 DEF Inv, RateStored, PrevKept, RegShape, Rate
<1>6. ReadWaits'
  BY DEF Tick, Deliver, HandlerStep, clear_rtc_read, SelectC, ReadC, EoiSlave,
         EoiMaster, Inv, ReadWaits
<1>7. TickKept'
  <2>1. CASE Tick
    <3>1. /\ hpc' = hpc /\ isr8' = isr8 /\ isr2' = isr2 /\ irr' = (irr \/ ~ flagC)
          /\ TickKept
      BY <2>1, Zenon DEF Tick, pic, Inv
    <3>. QED BY <3>1, Zenon DEF TickKept
  <2>2. CASE Deliver
    BY <2>2 DEF Deliver, TickKept
  <2>3. CASE clear_rtc_read \/ SelectC
    BY <2>3 DEF clear_rtc_read, SelectC, TickKept
  <2>4. CASE ReadC
    BY <2>4 DEF ReadC, Inv, IndexKept, TickKept
  <2>5. CASE EoiSlave \/ EoiMaster
    BY <2>5 DEF EoiSlave, EoiMaster, Inv, TickKept
  <2>. QED BY <2>1, <2>2, <2>3, <2>4, <2>5 DEF HandlerStep
<1>. QED
  BY <1>1, <1>2, <1>3, <1>4, <1>5, <1>6, <1>7, WantUnchanged DEF Inv

\* Every step of process, handler and clock keeps Inv.
LEMMA NextInv == Inv /\ [Next]_vars => Inv'
<1>. SUFFICES ASSUME Inv, [Next]_vars PROVE Inv'
  OBVIOUS
<1>1. CASE rtc_open
  BY <1>1, RatesRight, SetRateInv DEF rtc_open
<1>2. ASSUME NEW freq \in Freqs, rtc_write(freq) PROVE Inv'
  BY <1>2, RatesRight, SetRateInv DEF rtc_write
<1>3. CASE UNCHANGED vars
  BY <1>3
  DEF vars, clock, pic, Inv, TypeOK, Exclusion, IndexKept, WantMatches,
      RateStored, PrevKept, RegShape, ReadWaits, TickKept, Rate
<1>4. ASSUME NEW freq \in Freqs, rtc_write_refused(freq) PROVE Inv'
  BY <1>3, <1>4 DEF rtc_write_refused
<1>5. CASE SpinAgain
  BY <1>3, <1>5 DEF SpinAgain
<1>. QED
  BY <1>1, <1>2, <1>3, <1>4, <1>5, ProcessStepInv, InterruptInv DEF Next

(***************************************************************************)
(* The invariant of process, interrupt handler and clock.                  *)
(***************************************************************************)
THEOREM RtcInvTheorem == Spec => []Inv
  BY InitInv, NextInv, PTL DEF Spec

(* Type correctness; the rate and the divider always fit register A. *)
THEOREM RtcTypeTheorem == Spec => []TypeOK
<1>1. Inv => TypeOK
  BY DEF Inv
<1>. QED BY <1>1, RtcInvTheorem, PTL

(***************************************************************************)
(* When rtc_open or rtc_write has returned, register A holds the rate that *)
(* the formula of rtc.c gives for the frequency asked for, and of the      *)
(* divider bit 6 alone, wherever interrupts come.                          *)
(***************************************************************************)
THEOREM RateTheorem == Spec => []RateAsRequested
<1>1. Inv => RateAsRequested
  BY DEF Inv, WantMatches, Matches, RateStored, RegShape, RateAsRequested
<1>. QED BY <1>1, RtcInvTheorem, PTL

(***************************************************************************)
(* rtc_read returns only after an interrupt handled since the call.        *)
(***************************************************************************)
THEOREM ReadTheorem == Spec => []ReadWaitsForTick
<1>1. Inv => ReadWaitsForTick
  BY DEF Inv, ReadWaits, ReadWaitsForTick
<1>. QED BY <1>1, RtcInvTheorem, PTL

(***************************************************************************)
(* No tick between the steps of the handler is lost for good: once the     *)
(* handler is done, an unacknowledged clock has an edge pending at the     *)
(* controller, and the controller accepts it.                              *)
(***************************************************************************)
THEOREM NoTickLostTheorem == Spec => []NoTickLost
<1>1. Inv => NoTickLost
  BY DEF Inv, TickKept, NoTickLost
<1>. QED BY <1>1, RtcInvTheorem, PTL
=============================================================================
