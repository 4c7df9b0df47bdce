----------------------------- MODULE SysReturn -----------------------------
(***************************************************************************)
(* The way into and out of a system call: handler_syscall of handler.S,    *)
(* instruction by instruction, with the interrupts that can arrive between *)
(* two instructions.                                                       *)
(*                                                                         *)
(* The system-call gate is an interrupt gate (idt_set_vector), so the      *)
(* handler starts with interrupts disabled; its sti enables them, and they *)
(* stay enabled up to the iret.  The kernel stack is an array of words; sp *)
(* counts the words in use, so that a push stores at stack[sp] and the     *)
(* words from sp on are free.                                              *)
(***************************************************************************)
EXTENDS Integers, Sequences

CONSTANTS
  Numbers,       \* values of eax at int $0x80
  Results        \* values a system call returns

ASSUME SysReturnAssumption == Numbers \subseteq Int /\ Results \subseteq Int

VARIABLES
  pc,            \* the next instruction
  IF_flag,       \* interrupts enabled
  sp, stack,     \* the kernel stack
  reg,           \* the general registers
  number,        \* eax at int $0x80
  result         \* what the called function returned

vars == <<pc, IF_flag, sp, stack, reg, number, result>>

\* pusha stores the registers in this order; popa discards the one for esp.
Pusha == <<"eax", "ecx", "edx", "ebx", "esp", "ebp", "esi", "edi">>
Registers == {"eax", "ecx", "edx", "ebx", "ebp", "esi", "edi"}

\* Pushed by the processor on int $0x80: ss, esp, eflags, cs, eip.
UserFrame == 5

\* Words the model keeps: the deepest use is an interrupt after the call.
StackWords == UserFrame + 8 + 3 + 13

\* What a word or a register can hold.
User(r) == <<"user", r>>        \* the user program's value
Kernel(r) == <<"kernel", r>>    \* a value of the kernel's
Num(n) == <<"number", n>>

Contents == {User(r) : r \in Registers \cup {"frame"}}
            \cup {Kernel(r) : r \in {"esp", "eflags", "other"}}
            \cup {Num(n) : n \in Numbers \cup Results \cup {-1}}

\* The eight words of pusha, and the registers popa would load.
PushaWord(k) == IF Pusha[k] = "esp" THEN Kernel("esp") ELSE reg[Pusha[k]]

PopaRegs == [r \in Registers |->
               stack[sp - 9 + CHOOSE k \in 1 .. 8 : Pusha[k] = r]]

Step(from, to) == pc = from /\ pc' = to

Keeps == UNCHANGED <<IF_flag, number, result>>

----------------------------------------------------------------------------
(* handler_syscall *)

\* int $0x80 in a user program.
Int80 ==
  /\ Step("user", "pusha")
  /\ \E n \in Numbers :
       /\ number' = n
       /\ reg' = [r \in Registers |-> IF r = "eax" THEN Num(n) ELSE User(r)]
  /\ IF_flag' = FALSE
  /\ sp' = UserFrame
  /\ stack' = [w \in DOMAIN stack |->
                 IF w < UserFrame THEN User("frame") ELSE Kernel("other")]
  /\ UNCHANGED result

PushAll ==
  /\ Step("pusha", "pushArgs")
  /\ stack' = [w \in DOMAIN stack |->
                 IF w \in sp .. sp + 7 THEN PushaWord(w - sp + 1) ELSE stack[w]]
  /\ sp' = sp + 8
  /\ UNCHANGED reg /\ Keeps

\* pushl %edx; pushl %ecx; pushl %ebx: the arguments.
PushArgs ==
  /\ Step("pushArgs", "compare")
  /\ stack' = [stack EXCEPT ![sp] = reg["edx"], ![sp + 1] = reg["ecx"],
                            ![sp + 2] = reg["ebx"]]
  /\ sp' = sp + 3
  /\ UNCHANGED reg /\ Keeps

InTable_Zero(n) == 0 <= n /\ n <= 10

\* jl and jg: the entries of sys_call_table that hold a function.
InTable(n) == 1 <= n /\ n <= 10

Compare ==
  /\ pc = "compare"
  /\ pc' = IF InTable(number) THEN "call" ELSE "errorDropArgs"
  /\ IF_flag' = InTable(number)
  /\ UNCHANGED <<sp, stack, reg, number, result>>

(***************************************************************************)
(* sti and call *sys_call_table(,%eax,4); entry 0 of the table is NULL.    *)
(* The function leaves its value in eax, may change ecx, edx and its       *)
(* argument words, and uses the stack from sp on, as do interrupts that    *)
(* arrive while it runs.                                                   *)
(***************************************************************************)
Call ==
  /\ pc = "call"
  /\ IF number = 0
     THEN pc' = "fault" /\ UNCHANGED <<stack, reg, result>>
     ELSE /\ pc' = "dropArgs"
          /\ \E v \in Results :
               /\ result' = v
               /\ reg' = [reg EXCEPT !["eax"] = Num(v),
                                     !["ecx"] = Kernel("other"),
                                     !["edx"] = Kernel("other")]
          /\ stack' = [w \in DOMAIN stack |->
                         IF w >= sp - 3 THEN Kernel("other") ELSE stack[w]]
  /\ UNCHANGED <<IF_flag, sp, number>>

DropArgs_Two ==
  /\ Step("dropArgs", "pushEax")
  /\ sp' = sp - 2
  /\ UNCHANGED <<stack, reg>> /\ Keeps

\* sys_success
DropArgs ==
  /\ Step("dropArgs", "pushEax")
  /\ sp' = sp - 3
  /\ UNCHANGED <<stack, reg>> /\ Keeps

PushEax ==
  /\ Step("pushEax", "skipEax")
  /\ stack' = [stack EXCEPT ![sp] = reg["eax"]]
  /\ sp' = sp + 1
  /\ UNCHANGED reg /\ Keeps

SkipEax ==
  /\ Step("skipEax", "popa")
  /\ sp' = sp - 1
  /\ UNCHANGED <<stack, reg>> /\ Keeps

PopAll ==
  /\ Step("popa", "backToEax")
  /\ reg' = PopaRegs
  /\ sp' = sp - 8
  /\ UNCHANGED stack /\ Keeps

BackToEax_Far ==
  /\ Step("backToEax", "popEax")
  /\ sp' = sp + 10
  /\ UNCHANGED <<stack, reg>> /\ Keeps

BackToEax ==
  /\ Step("backToEax", "popEax")
  /\ sp' = sp + 9
  /\ UNCHANGED <<stack, reg>> /\ Keeps

PopEax ==
  /\ Step("popEax", "toFrame")
  /\ reg' = [reg EXCEPT !["eax"] = stack[sp - 1]]
  /\ sp' = sp - 1
  /\ UNCHANGED stack /\ Keeps

\* 32 taken for a number of words.
ToFrame_Bytes ==
  /\ Step("toFrame", "iret")
  /\ sp' = sp - 32
  /\ UNCHANGED <<stack, reg>> /\ Keeps

ToFrame ==
  /\ Step("toFrame", "iret")
  /\ sp' = sp - 8
  /\ UNCHANGED <<stack, reg>> /\ Keeps

\* sys_error
ErrorDropArgs ==
  /\ Step("errorDropArgs", "errorPopa")
  /\ sp' = sp - 3
  /\ UNCHANGED <<stack, reg>> /\ Keeps

ErrorPopa ==
  /\ Step("errorPopa", "errorEax")
  /\ reg' = PopaRegs
  /\ sp' = sp - 8
  /\ UNCHANGED stack /\ Keeps

ErrorEax ==
  /\ Step("errorEax", "iret")
  /\ reg' = [reg EXCEPT !["eax"] = Num(-1)]
  /\ UNCHANGED <<sp, stack>> /\ Keeps

Iret ==
  /\ Step("iret", "user")
  /\ sp' = 0
  /\ IF_flag' = TRUE
  /\ UNCHANGED <<stack, reg, number, result>>

(***************************************************************************)
(* An interrupt between two instructions of the kernel: the processor      *)
(* pushes eflags, cs and eip, the stub 0 and the irq number and then pusha *)
(* and irq_handler calls pic_handler; on the way back esp and the          *)
(* registers are as they were.  After sti one more instruction, the call,  *)
(* executes before an interrupt is taken.                                  *)
(***************************************************************************)
Interrupt ==
  /\ IF_flag
  /\ pc \notin {"user", "call", "fault"}
  /\ stack' = [w \in DOMAIN stack |->
                 IF w < sp THEN stack[w]
                 ELSE IF w = sp THEN Kernel("eflags")
                 ELSE IF w \in sp + 5 .. sp + 12 THEN PushaWord(w - sp - 4)
                 ELSE Kernel("other")]
  /\ UNCHANGED <<pc, IF_flag, sp, reg, number, result>>

----------------------------------------------------------------------------
Init ==
  /\ pc = "user" /\ IF_flag = TRUE /\ sp = 0
  /\ stack = [w \in 0 .. StackWords - 1 |-> Kernel("other")]
  /\ reg = [r \in Registers |-> User(r)]
  /\ number = 0 /\ result = 0

Next ==
  \/ Int80 \/ PushAll \/ PushArgs \/ Compare \/ Call
  \/ DropArgs \/ PushEax \/ SkipEax \/ PopAll \/ BackToEax \/ PopEax \/ ToFrame
  \/ ErrorDropArgs \/ ErrorPopa \/ ErrorEax
  \/ Iret \/ Interrupt

Spec == Init /\ [][Next]_vars

----------------------------------------------------------------------------
(* Properties *)

\* Types; the stack pointer stays within the words kept.
TypeOK ==
  /\ pc \in {"user", "pusha", "pushArgs", "compare", "call", "dropArgs",
             "pushEax", "skipEax", "popa", "backToEax", "popEax", "toFrame",
             "errorDropArgs", "errorPopa", "errorEax", "iret", "fault"}
  /\ IF_flag \in BOOLEAN
  /\ sp \in 0 .. StackWords
  /\ stack \in [0 .. StackWords - 1 -> Contents]
  /\ reg \in [Registers -> Contents]
  /\ number \in Numbers \cup {0} /\ result \in Results \cup {0}

(***************************************************************************)
(* Whatever number is called and wherever interrupts arrive, the iret of   *)
(* handler_syscall finds the frame of the user program, untouched, on top  *)
(* of the stack and every register but eax with the value the program had. *)
(***************************************************************************)
ProgramRestored ==
  pc = "iret" =>
    /\ sp = UserFrame
    /\ \A w \in 0 .. UserFrame - 1 : stack[w] = User("frame")
    /\ \A r \in Registers \ {"eax"} : reg[r] = User(r)

(***************************************************************************)
(* A number outside sys_call_table comes back with -1 and interrupts still *)
(* disabled, and its null entry is never called.                           *)
(***************************************************************************)
RefusedNumbersFail ==
  /\ pc # "fault"
  /\ pc = "iret" /\ number \notin 1 .. 10 => reg["eax"] = Num(-1) /\ ~ IF_flag

(***************************************************************************)
(* handler_syscall reads eax back from a word it has already freed.  What  *)
(* an interrupt in between can leave there is only the kernel's eflags or  *)
(* the program's own ebx, never another word of the kernel's stack.        *)
(***************************************************************************)
NoKernelWordReturned ==
  pc = "iret" => reg["eax"] \in {Num(result), Num(-1), Kernel("eflags"), User("ebx")}

(***************************************************************************)
(* handler.S: "restore all regs except eax", which is the value of the     *)
(* system call.                                                            *)
(***************************************************************************)
ResultReturned == pc = "iret" /\ number \in 1 .. 10 => reg["eax"] = Num(result)
=============================================================================
