-------------------------------- MODULE Rtc --------------------------------
(***************************************************************************)
(* The real-time clock: rtc.c, its interrupt handler in idt.c and the      *)
(* end-of-interrupt commands of i8259.c.                                   *)
(*                                                                         *)
(* Three actors: the running process in rtc_open, rtc_read or rtc_write,   *)
(* the interrupt handler, which runs on the same processor with interrupts *)
(* disabled, and the clock, which ticks at any time.  Process and handler  *)
(* share the index port that selects a register of the clock, and the flag *)
(* RTC_READ.  Register B enables periodic interrupts from rtc_init on.  Of *)
(* register A the low seven bits are kept, the divider in bits 6 to 4 and  *)
(* the rate in bits 3 to 0; bit 7 is read-only.  The demonstration code    *)
(* behind rtc_test_flag is reached from testcode.c only and left out.      *)
(***************************************************************************)
EXTENDS Integers

CONSTANTS
  Freqs,      \* frequencies user programs write
  FirmwareA   \* register A as the firmware leaves it, 38 on a PC

\* The firmware's rate is 6, 1024 Hz.
ASSUME FreqAssumption ==
  /\ Freqs \subseteq Nat
  /\ FirmwareA \in 0 .. 127 /\ FirmwareA % 16 = 6

MAX_FREQ == 1024
SHIFT_FOR_2HZ == 15
BITMASK6 == 64          \* bit 6 alone

VARIABLES
  pc,          \* the running process
  want,        \* the rate being set, with the frequency asked for
  prev,        \* what rtc_open or rtc_write read from register A
  hpc,         \* the interrupt handler; "idle" when it does not run
  IF_flag,     \* interrupts enabled in the process
  RTC_READ,
  index,       \* the register selected by port RTC_INDEX
  regA,        \* register A
  flagC,       \* register C: an interrupt has not been acknowledged
  irr,         \* the slave controller has seen the edge of IRQ 8
  isr8, isr2,  \* in service: IRQ 8 at the slave, IRQ 2 at the master
  ticked       \* an interrupt was handled since rtc_read set its flag

clock == <<regA, flagC, irr>>
pic == <<isr8, isr2>>
vars == <<pc, want, prev, hpc, IF_flag, RTC_READ, index, clock, pic, ticked>>

Goto(from, to) == pc = from /\ pc' = to

Rate == regA % 16

\* The process executes only while the handler does not.
Runs == hpc = "idle"

----------------------------------------------------------------------------
(* rtc_write and rtc_open *)

(***************************************************************************)
(* The switch of rtc_write: powers of two from 2 to 1024, and 0 for no     *)
(* interrupts at all.  The clock divides 32768 Hz by 2^(rate - 1).         *)
(***************************************************************************)
Valid(freq) ==
  freq <= MAX_FREQ /\ (freq = 0 \/ \E k \in 1 .. 10 : freq = 2 ^ k)

RateOf_Shifted(freq) ==
  IF freq = 0 THEN 0 ELSE 17 - CHOOSE k \in 1 .. 10 : freq = 2 ^ k

RateOf(freq) ==
  IF freq = 0 THEN 0 ELSE 16 - CHOOSE k \in 1 .. 10 : freq = 2 ^ k

SetRate(freq, r) ==
  /\ want' = [freq |-> freq, rate |-> r]
  /\ Goto("user", "cli")
  /\ UNCHANGED <<prev, hpc, IF_flag, RTC_READ, index, clock, pic, ticked>>

rtc_open == Runs /\ SetRate(2, SHIFT_FOR_2HZ)

rtc_write(freq) == Runs /\ Valid(freq) /\ SetRate(freq, RateOf(freq))

\* A frequency that is too high or not a power of two: -1, nothing changes.
rtc_write_refused(freq) ==
  /\ Runs /\ pc = "user"
  /\ ~ Valid(freq)
  /\ UNCHANGED vars

Cli_Missing ==
  /\ Runs /\ Goto("cli", "index1")
  /\ UNCHANGED <<want, prev, hpc, IF_flag, RTC_READ, index, clock, pic, ticked>>

Cli ==
  /\ Runs /\ Goto("cli", "index1")
  /\ IF_flag' = FALSE
  /\ UNCHANGED <<want, prev, hpc, RTC_READ, index, clock, pic, ticked>>

\* outb(REG_A, RTC_INDEX)
Index1 ==
  /\ Runs /\ Goto("index1", "prev")
  /\ index' = "A"
  /\ UNCHANGED <<want, prev, hpc, IF_flag, RTC_READ, clock, pic, ticked>>

\* prev = inb(RTC_DATA): the selected register.  Bit 6 of register C is the
\* pending interrupt, which the read acknowledges.
Prev ==
  /\ Runs /\ Goto("prev", "index2")
  /\ prev' = IF index = "A" THEN regA
             ELSE IF index = "C" /\ flagC THEN BITMASK6 ELSE 0
  /\ flagC' = (flagC /\ index # "C")
  /\ UNCHANGED <<want, hpc, IF_flag, RTC_READ, index, regA, irr, pic, ticked>>

Index2 ==
  /\ Runs /\ Goto("index2", "data")
  /\ index' = "A"
  /\ UNCHANGED <<want, prev, hpc, IF_flag, RTC_READ, clock, pic, ticked>>

\* a & BITMASK6, for a number of seven bits.
Masked(a) == IF a >= BITMASK6 THEN BITMASK6 ELSE 0

\* outb((prev & BITMASK6) | rate, RTC_DATA): the store goes to the selected
\* register; C is read-only.
Data ==
  /\ Runs /\ Goto("data", "sti")
  /\ regA' = IF index = "A" THEN Masked(prev) + want.rate ELSE regA
  /\ UNCHANGED <<want, prev, hpc, IF_flag, RTC_READ, index, flagC, irr, pic,
                 ticked>>

Sti ==
  /\ Runs /\ Goto("sti", "user")
  /\ IF_flag' = TRUE
  /\ UNCHANGED <<want, prev, hpc, RTC_READ, index, clock, pic, ticked>>

----------------------------------------------------------------------------
(* rtc_read *)

rtc_read_NoFlag ==
  /\ Runs /\ Goto("user", "spin")
  /\ ticked' = FALSE
  /\ UNCHANGED <<want, prev, hpc, IF_flag, RTC_READ, index, clock, pic>>

rtc_read ==
  /\ Runs /\ Goto("user", "spin")
  /\ RTC_READ' = TRUE
  /\ ticked' = FALSE
  /\ UNCHANGED <<want, prev, hpc, IF_flag, index, clock, pic>>

Spin ==
  /\ Runs /\ Goto("spin", "done")
  /\ ~ RTC_READ
  /\ UNCHANGED <<want, prev, hpc, IF_flag, RTC_READ, index, clock, pic, ticked>>

\* while (RTC_READ) {}: with rate 0 for ever.
SpinAgain ==
  /\ Runs /\ pc = "spin"
  /\ RTC_READ
  /\ UNCHANGED vars

Return ==
  /\ Runs /\ Goto("done", "user")
  /\ UNCHANGED <<want, prev, hpc, IF_flag, RTC_READ, index, clock, pic, ticked>>

----------------------------------------------------------------------------
(* The clock and the interrupt controllers (external) *)

\* A periodic interrupt: its edge is seen only if the last one was acknowledged.
Tick ==
  /\ Rate # 0
  /\ flagC' = TRUE
  /\ irr' = (irr \/ ~ flagC)
  /\ UNCHANGED <<pc, want, prev, hpc, IF_flag, RTC_READ, index, regA, pic,
                 ticked>>

\* The line is delivered unless it, or the master's IRQ 2, is in service.
Deliver ==
  /\ Runs /\ IF_flag /\ irr /\ ~ isr8 /\ ~ isr2
  /\ irr' = FALSE /\ isr8' = TRUE /\ isr2' = TRUE
  /\ hpc' = "clear"
  /\ UNCHANGED <<pc, want, prev, IF_flag, RTC_READ, index, regA, flagC,
                 ticked>>

----------------------------------------------------------------------------
(* rtc_handler, then send_eoi(8) *)

Handler(from, to) == hpc = from /\ hpc' = to /\ UNCHANGED <<pc, want, prev, IF_flag>>

clear_rtc_read ==
  /\ Handler("clear", "select")
  /\ RTC_READ' = FALSE
  /\ ticked' = TRUE
  /\ UNCHANGED <<index, clock, pic>>

SelectC ==
  /\ Handler("select", "read")
  /\ index' = "C"
  /\ UNCHANGED <<RTC_READ, clock, pic, ticked>>

ReadC_Missing ==
  /\ Handler("read", "eoiSlave")
  /\ UNCHANGED <<RTC_READ, index, clock, pic, ticked>>

\* Reading register C acknowledges the interrupt to the clock.
ReadC ==
  /\ Handler("read", "eoiSlave")
  /\ flagC' = (flagC /\ index # "C")
  /\ UNCHANGED <<RTC_READ, index, regA, irr, pic, ticked>>

EoiSlave ==
  /\ Handler("eoiSlave", "eoiMaster")
  /\ isr8' = FALSE
  /\ UNCHANGED <<RTC_READ, index, clock, isr2, ticked>>

EoiMaster ==
  /\ Handler("eoiMaster", "idle")
  /\ isr2' = FALSE
  /\ UNCHANGED <<RTC_READ, index, clock, isr8, ticked>>

----------------------------------------------------------------------------
\* After rtc_init, which leaves register A as the firmware set it.
Init ==
  /\ pc = "user" /\ want = [freq |-> 1024, rate |-> 6] /\ prev = 0
  /\ hpc = "idle" /\ IF_flag = TRUE
  /\ RTC_READ = FALSE
  /\ index = "B" /\ regA = FirmwareA
  /\ flagC = FALSE /\ irr = FALSE /\ isr8 = FALSE /\ isr2 = FALSE
  /\ ticked = FALSE

ProcessStep ==
  Cli \/ Index1 \/ Prev \/ Index2 \/ Data \/ Sti \/ Spin \/ Return

HandlerStep ==
  clear_rtc_read \/ SelectC \/ ReadC \/ EoiSlave \/ EoiMaster

Next ==
  \/ rtc_open \/ rtc_read
  \/ \E freq \in Freqs : rtc_write(freq) \/ rtc_write_refused(freq)
  \/ ProcessStep \/ SpinAgain
  \/ Tick \/ Deliver \/ HandlerStep

Spec == Init /\ [][Next]_vars

(***************************************************************************)
(* The processor executes, a clock with a rate ticks, and the controller   *)
(* delivers what the processor keeps accepting.  The process gets its turn *)
(* between interrupts (strong fairness): at 1024 Hz or less the handler is *)
(* done long before the next tick.                                         *)
(***************************************************************************)
FairSpec ==
  /\ Spec
  /\ SF_vars(ProcessStep) /\ WF_vars(HandlerStep)
  /\ WF_vars(Tick) /\ WF_vars(Deliver)

----------------------------------------------------------------------------
(* Properties *)

\* Types; the two fields stay within register A.
TypeOK ==
  /\ pc \in {"user", "cli", "index1", "prev", "index2", "data", "sti", "spin", "done"}
  /\ want \in [freq : Freqs \cup {2, 1024}, rate : 0 .. 15]
  /\ hpc \in {"idle", "clear", "select", "read", "eoiSlave", "eoiMaster"}
  /\ index \in {"A", "B", "C"} /\ regA \in 0 .. 127 /\ prev \in 0 .. 127
  /\ IF_flag \in BOOLEAN /\ RTC_READ \in BOOLEAN /\ ticked \in BOOLEAN
  /\ flagC \in BOOLEAN /\ irr \in BOOLEAN
  /\ isr8 \in BOOLEAN /\ isr2 \in BOOLEAN

\* rtc.c: "frequency = 32768 >> (rate-1)", at a rate that is not 0.
Hertz(r) == 32768 \div 2 ^ (r - 1)

(***************************************************************************)
(* When rtc_open or rtc_write has returned, the rate in register A is the  *)
(* one that the formula of rtc.c gives for the frequency asked for: the    *)
(* handler, which selects register C through the same port, never comes    *)
(* between the accesses.  Of the divider, which the formula's 32768 Hz     *)
(* depend on, BITMASK6 keeps one bit: it is the firmware's until the first *)
(* call, and from then on its bit 6 alone, whatever is called how often.   *)
(* The header of rtc_open (lines 129-130 of rtc.c) derives the rate 14 for *)
(* 2 Hz from the formula; the formula gives 15, and the code writes 15.    *)
(***************************************************************************)
RateAsRequested ==
  pc \in {"sti", "user"} =>
    /\ IF want.freq = 0 THEN Rate = 0
                        ELSE Rate > 0 /\ Hertz(Rate) = want.freq
    /\ regA = FirmwareA \/ regA = Masked(FirmwareA) + Rate

(***************************************************************************)
(* rtc_read returns only after an interrupt that was handled since the     *)
(* call, not because of one handled before.                                *)
(***************************************************************************)
ReadWaitsForTick == pc = "done" => ticked

(***************************************************************************)
(* When the handler is done, neither controller waits for an end of        *)
(* interrupt, and a tick the clock has not been acknowledged for is one    *)
(* the slave will still deliver: the clock raises no further edge for it,  *)
(* so otherwise no tick would ever be handled again.                       *)
(***************************************************************************)
NoTickLost == hpc = "idle" => ~ isr8 /\ ~ isr2 /\ (flagC => irr)

(***************************************************************************)
(* While the clock has a rate, every call returns: no tick that comes      *)
(* between the steps of the handler leaves the clock unacknowledged or a   *)
(* controller waiting for its end of interrupt.                            *)
(***************************************************************************)
CallsReturn == <>[](Rate # 0) => []<>(pc = "user")
=============================================================================
