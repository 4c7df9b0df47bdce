------------------------------ MODULE Process ------------------------------
(***************************************************************************)
(* Process creation and termination: execute, halt and getargs of          *)
(* student-distrib/syscalls.c with the process queue of                    *)
(* student-distrib/sched.c.                                                *)
(*                                                                         *)
(* The kernel runs on one processor and never preempts a process (the PIT  *)
(* handler's call of change_task is commented out), and no interrupt       *)
(* handler reads or writes the state below, so each system call is one     *)
(* action.  A process is named by its number n, the value of process_count *)
(* when it was created.  Three addresses of the code are functions of that *)
(* number and are abstracted to it: the PCB at 8MB - n*8KB (0 stands for   *)
(* the NULL pointer), the kernel stack top 8MB - n*8KB - 4 held in         *)
(* tss.esp0, and the physical 4MB page at 4MB + n*4MB mapped at 128MB.     *)
(***************************************************************************)
EXTENDS Integers, Sequences

CONSTANTS
  MAX_PROCESSES,     \* sched.h
  NUM_TERMINALS,     \* terminal.h
  Words,             \* the space-free words a command can be made of
  Commands,          \* the strings user programs pass to execute, each cut
                     \* at its spaces: n spaces give n + 1 words
  EmptyWord,         \* the word of length zero
  Shell,             \* the word "shell"
  FileKind,          \* what the file system holds under each word
  WordLength,        \* the number of characters of each word
  Statuses,          \* exit statuses a program passes to halt
  BufferSizes        \* values of nbytes a program passes to getargs

Kinds == {"absent", "unreadable", "data", "elf"}

ASSUME SizeAssumption ==
  /\ MAX_PROCESSES \in Nat /\ MAX_PROCESSES >= 2
  /\ NUM_TERMINALS \in 1 .. MAX_PROCESSES

ASSUME FileAssumption ==
  /\ EmptyWord \in Words /\ Shell \in Words
  /\ FileKind \in [Words -> Kinds]
  /\ FileKind[EmptyWord] = "absent" /\ FileKind[Shell] = "elf"
  /\ WordLength \in [Words -> Nat] /\ WordLength[EmptyWord] = 0

\* A command fits execute's local arrays: program_name has room for
\* FNAME_LENGTH characters and char_space_indices for 100 spaces.  What a
\* longer one does to execute's stack frame is not determined by the source.
FNAME_LENGTH == 32

ASSUME CommandAssumption ==
  \A command \in Commands :
    /\ command \in Seq(Words) /\ Len(command) \in 1 .. 101
    /\ WordLength[command[1]] <= FNAME_LENGTH

ASSUME StatusAssumption == Statuses \subseteq 0 .. 255

ASSUME BufferAssumption == BufferSizes \subseteq Int

VARIABLES
  process_count,         \* number of processes that exist
  primary_shell_count,   \* shells created by the first execute
  process_q,             \* pcbs[], front, rear
  pcb,                   \* the PCB at each process's kernel stack
  image,                 \* the program in each 4MB physical page
  pd_user,               \* pd[PD_IDX_USER]: the page mapped at 128MB
  esp0,                  \* tss.esp0
  cpu,                   \* who runs: the boot code, a user program, nothing
  eax,                   \* value of the last system call that came back
  args                   \* the string getargs last stored in user memory

vars == <<process_count, primary_shell_count, process_q, pcb, image,
          pd_user, esp0, cpu, eax, args>>

NULL == 0
SUCCESS == 0
FAIL == -1
Procs == 1 .. MAX_PROCESSES
Slots == 0 .. MAX_PROCESSES - 1

num_spaces(command) == Len(command) - 1
program_name(command) == command[1]

----------------------------------------------------------------------------
(* The process queue. *)

pq_init == [pcbs |-> [s \in Slots |-> NULL], front |-> 1, rear |-> 0]

pq_peak(q) == q.pcbs[q.front]

pq_enqueue_front_NoWrap(q, p) ==
  LET front == IF q.front = 0 THEN 0 ELSE q.front - 1
  IN  [pcbs |-> [q.pcbs EXCEPT ![front] = p], front |-> front, rear |-> q.rear]

pq_enqueue_front(q, p) ==
  LET front == IF q.front - 1 < 0 THEN MAX_PROCESSES - 1 ELSE q.front - 1
  IN  [pcbs |-> [q.pcbs EXCEPT ![front] = p], front |-> front, rear |-> q.rear]

pq_dequeue_Stay(q) == q

pq_dequeue(q) ==
  [q EXCEPT !.front = IF @ + 1 >= MAX_PROCESSES THEN 0 ELSE @ + 1]

----------------------------------------------------------------------------
(* execute *)

(***************************************************************************)
(* The tests execute makes before it changes anything: the process limit,  *)
(* an empty command, a name of length zero, more than one space, no such   *)
(* file, a file that cannot be read, a file without the ELF magic.         *)
(***************************************************************************)
Accepts_NoLimit(command) ==
  /\ program_name(command) # EmptyWord
  /\ num_spaces(command) <= 1
  /\ FileKind[program_name(command)] = "elf"

Accepts(command) ==
  /\ process_count < MAX_PROCESSES
  /\ command # <<EmptyWord>>
  /\ program_name(command) # EmptyWord
  /\ num_spaces(command) <= 1
  /\ FileKind[program_name(command)] \notin {"absent", "unreadable"}
  /\ FileKind[program_name(command)] = "elf"

\* args_initialize: the text after the space; empty when there is none.
args_initialize(command) ==
  IF num_spaces(command) = 0 THEN EmptyWord ELSE command[2]

NewParent(q) ==
  IF primary_shell_count >= NUM_TERMINALS THEN pq_peak(q) ELSE NULL

NewTerminal_Own(parent) == NUM_TERMINALS - primary_shell_count - 1

\* Stored in a uint32_t: -1 would be 2^32 - 1.
NewTerminal(parent) ==
  IF parent = NULL THEN NUM_TERMINALS - primary_shell_count - 1
                   ELSE pcb[parent].terminal_num

NewPcb(command, n, q) ==
  [pid          |-> n,
   parent_ptr   |-> NewParent(q),
   terminal_num |-> NewTerminal(NewParent(q)),
   argument     |-> args_initialize(command)]

\* Step 6: the kernel stack of the last process created, then iret.
Enter(n) == /\ cpu' = "user"
            /\ esp0' = n

LoadFrame_Reuse(n) == IF n > NUM_TERMINALS THEN n - 1 ELSE n

\* 4MB + process_count*4MB: the page the new program is loaded into.
LoadFrame(n) == n

(***************************************************************************)
(* One iteration of the do-while loop: steps 3, 4 and 5.  count and q are  *)
(* process_count and process_q when the iteration starts.                  *)
(***************************************************************************)
CreateProcess(command, count, q) ==
  LET n == count + 1
  IN  /\ process_count' = n
      /\ pd_user' = LoadFrame(n)
      /\ image' = [image EXCEPT ![LoadFrame(n)] = program_name(command)]
      /\ pcb' = [pcb EXCEPT ![n] = NewPcb(command, n, q)]
      /\ process_q' = pq_enqueue_front(q, n)
      /\ primary_shell_count' =
           IF primary_shell_count < NUM_TERMINALS
           THEN primary_shell_count + 1 ELSE primary_shell_count
      /\ UNCHANGED <<eax, args>>

MoreShells_Early(shells) == shells < NUM_TERMINALS - 1

\* The condition at the end of the do-while loop.
MoreShells(shells) == shells < NUM_TERMINALS

\* The boot code's execute("shell"): one iteration for each terminal.
BootShell ==
  /\ cpu = "boot"
  /\ CreateProcess(<<Shell>>, process_count, process_q)
  /\ IF MoreShells(primary_shell_count')
     THEN UNCHANGED <<cpu, esp0>>
     ELSE Enter(process_count + 1)

Execute(command) ==
  /\ cpu = "user"
  /\ Accepts(command)
  /\ CreateProcess(command, process_count, process_q)
  /\ Enter(process_count + 1)

ExecuteRefused(command) ==
  /\ cpu = "user"
  /\ ~ Accepts(command)
  /\ eax' = FAIL
  /\ UNCHANGED <<process_count, primary_shell_count, process_q, pcb, image,
                 pd_user, esp0, cpu, args>>

----------------------------------------------------------------------------
(* halt *)

(***************************************************************************)
(* With at most one process left halt starts over: no process, an empty    *)
(* queue, and a new shell.                                                 *)
(***************************************************************************)
HaltLast(status) ==
  /\ cpu = "user"
  /\ process_count <= 1
  /\ CreateProcess(<<Shell>>, 0, pq_init)
  /\ Enter(1)

(***************************************************************************)
(* A process without a parent: pq_dequeue has run when parent_pcb->esp is  *)
(* read through the NULL pointer.  Page 0 is not present (init_table), so  *)
(* the read raises a page fault, whose handler (idt_handler) stops the     *)
(* processor.                                                              *)
(***************************************************************************)
HaltOrphan(status) ==
  /\ cpu = "user"
  /\ process_count > 1
  /\ pcb[process_count].parent_ptr = NULL
  /\ process_q' = pq_dequeue(process_q)
  /\ cpu' = "fault"
  /\ UNCHANGED <<process_count, primary_shell_count, pcb, image, pd_user,
                 esp0, eax, args>>

ResumeFrame_Self(n) == n

\* 4MB + (process_count - 1)*4MB: the page mapped again.
ResumeFrame(n) == n - 1

(***************************************************************************)
(* A process with a parent.  The two pushes of the parent's esp and ebp    *)
(* are undone by the leave that follows them; a second leave and a ret     *)
(* then use the ebp the program had when it called halt.  Called from      *)
(* _start that ebp is still the frame of the execute that started the      *)
(* program, and execute returns 0 to the parent.  Called from inside a     *)
(* function of the program (nested) it is a user frame, and the kernel     *)
(* returns to whatever the parent's user page holds there.                 *)
(***************************************************************************)
HaltChild(status, nested) ==
  /\ cpu = "user"
  /\ process_count > 1
  /\ pcb[process_count].parent_ptr # NULL
  /\ process_q' = pq_dequeue(process_q)
  /\ pd_user' = ResumeFrame(process_count)
  /\ process_count' = process_count - 1
  /\ esp0' = process_count - 1
  /\ IF nested THEN cpu' = "lost" /\ UNCHANGED eax
               ELSE cpu' = "user" /\ eax' = SUCCESS
  /\ UNCHANGED <<primary_shell_count, pcb, image, args>>

(***************************************************************************)
(* The whole call.  In the last two cases pq_dequeue, the page and the     *)
(* stack are those of process_count.                                       *)
(***************************************************************************)
Halt(status, nested) ==
  IF process_count <= 1
  THEN HaltLast(status)
  ELSE HaltOrphan(status) \/ HaltChild(status, nested)

----------------------------------------------------------------------------
(* getargs *)

\* Counts the terminator, so that no argument has the length 1.
argument_length(n) == WordLength[pcb[n].argument] + 1

HasArgs(null) == ~ null /\ argument_length(process_count) > 1

\* argument_length is unsigned, so a negative nbytes is compared, and later
\* copied, as a number near 2^32.
GivesArgs(null, nbytes) ==
  HasArgs(null) /\ nbytes >= argument_length(process_count)

Overruns(null, nbytes) == HasArgs(null) /\ nbytes < 0

\* The PCB is found by process_count; of the nbytes copied from it the string
\* up to the terminator matters.
GetArgs(null, nbytes) ==
  /\ cpu = "user"
  /\ ~ Overruns(null, nbytes)
  /\ IF GivesArgs(null, nbytes)
     THEN eax' = SUCCESS /\ args' = pcb[process_count].argument
     ELSE eax' = FAIL /\ UNCHANGED args
  /\ UNCHANGED <<process_count, primary_shell_count, process_q, pcb, image,
                 pd_user, esp0, cpu>>

\* The copy runs out of the mapped pages: a page fault.
GetArgsOverrun(null, nbytes) ==
  /\ cpu = "user"
  /\ Overruns(null, nbytes)
  /\ cpu' = "overrun"
  /\ UNCHANGED <<process_count, primary_shell_count, process_q, pcb, image,
                 pd_user, esp0, eax, args>>

\* The hlt loop of idt_handler, or a kernel that has lost its stack.
Dead ==
  /\ cpu \in {"fault", "overrun", "lost"}
  /\ UNCHANGED vars

----------------------------------------------------------------------------
NoPcb == [pid |-> 0, parent_ptr |-> NULL, terminal_num |-> 0,
          argument |-> EmptyWord]

Init ==
  /\ process_count = 0
  /\ primary_shell_count = 0
  /\ process_q = pq_init
  /\ pcb = [n \in Procs |-> NoPcb]
  /\ image = [n \in Procs |-> EmptyWord]
  /\ pd_user = 0
  /\ esp0 = 0
  /\ cpu = "boot"
  /\ eax = SUCCESS
  /\ args = EmptyWord

Next ==
  \/ BootShell
  \/ \E command \in Commands : Execute(command) \/ ExecuteRefused(command)
  \/ \E status \in Statuses, nested \in BOOLEAN : Halt(status, nested)
  \/ \E null \in BOOLEAN, nbytes \in BufferSizes :
       GetArgs(null, nbytes) \/ GetArgsOverrun(null, nbytes)
  \/ Dead

Spec == Init /\ [][Next]_vars

----------------------------------------------------------------------------
(* Properties *)

\* Types; process_count never passes the limit execute checks.
TypeOK ==
  /\ process_count \in 0 .. MAX_PROCESSES
  /\ primary_shell_count \in 0 .. NUM_TERMINALS
  /\ process_q \in [pcbs : [Slots -> 0 .. MAX_PROCESSES],
                    front : 0 .. MAX_PROCESSES - 1, rear : {0}]
  /\ pcb \in [Procs -> [pid : 0 .. MAX_PROCESSES,
                        parent_ptr : 0 .. MAX_PROCESSES,
                        terminal_num : -1 .. NUM_TERMINALS - 1,
                        argument : Words]]
  /\ image \in [Procs -> Words]
  /\ pd_user \in 0 .. MAX_PROCESSES
  /\ esp0 \in 0 .. MAX_PROCESSES
  /\ cpu \in {"boot", "user", "fault", "overrun", "lost"}
  /\ eax \in {SUCCESS, FAIL}
  /\ args \in Words

(***************************************************************************)
(* The running process is known to the kernel in four ways that execute    *)
(* and halt update separately: process_count (which every system call      *)
(* turns into a PCB address), the front of the queue (which terminal       *)
(* output and the next execute's parent come from), the user page that is  *)
(* mapped, and the kernel stack of the next system call.  Whenever a user  *)
(* program runs they name the same process.                                *)
(***************************************************************************)
RunningProcessAgrees ==
  cpu = "user" =>
    /\ process_count \in Procs
    /\ pcb[process_count].pid = process_count
    /\ pq_peak(process_q) = process_count
    /\ pd_user = process_count
    /\ esp0 = process_count

(***************************************************************************)
(* The ring buffer of sched.c never loses or overwrites a process that     *)
(* still exists, however execute and halt wrap its front index: read from  *)
(* the front it lists every process, youngest first.                       *)
(***************************************************************************)
QueueHoldsEveryProcess ==
  cpu \in {"boot", "user"} =>
    \A k \in 0 .. process_count - 1 :
      process_q.pcbs[(process_q.front + k) % MAX_PROCESSES] = process_count - k

(***************************************************************************)
(* A started program runs in its parent's terminal and its parent is the   *)
(* process just below it; the processes without a parent are one shell on  *)
(* each terminal, the last terminal first.  A comment in execute (lines    *)
(* 224-225 of syscalls.c) says otherwise: a process that "has not parent"  *)
(* is of "the currently displayed terminal", which is 0 for all of them;   *)
(* the property states what the code does.  So the process that runs is    *)
(* always one of terminal 0: the shells of the other terminals are created *)
(* and never run.                                                          *)
(***************************************************************************)
TerminalsOfProcesses ==
  cpu \in {"user", "fault", "overrun"} =>
    /\ \A n \in 1 .. process_count :
         IF n <= NUM_TERMINALS
         THEN /\ pcb[n].parent_ptr = NULL
              /\ pcb[n].terminal_num = NUM_TERMINALS - n
         ELSE /\ pcb[n].parent_ptr = n - 1
              /\ pcb[n].terminal_num = pcb[n - 1].terminal_num
    /\ pcb[process_count].terminal_num = 0

(***************************************************************************)
(* Once the boot code is done the primary shells are never removed, so     *)
(* with two terminals or more the branch of halt for a last remaining      *)
(* process is never taken.                                                 *)
(***************************************************************************)
PrimaryShellsStay ==
  cpu # "boot" =>
    /\ process_count >= NUM_TERMINALS
    /\ primary_shell_count = NUM_TERMINALS
    /\ \A n \in 1 .. NUM_TERMINALS : image[n] = Shell

(***************************************************************************)
(* Nothing that is done for another process changes the PCB or the memory  *)
(* image of a process that exists before and after: starting, running and  *)
(* stopping a child leaves its ancestors as they were.                     *)
(***************************************************************************)
OthersUntouched ==
  [][\A n \in Procs :
       /\ n <= process_count /\ n <= process_count'
       /\ n < process_count \/ n < process_count'
       => pcb'[n] = pcb[n] /\ image'[n] = image[n]]_vars

(***************************************************************************)
(* halt computes what it resumes by subtracting one from process_count;    *)
(* the result is the process recorded as the parent when the halting       *)
(* program was started.                                                    *)
(***************************************************************************)
HaltResumesParent ==
  [][process_count' < process_count =>
       LET parent == pcb[process_count].parent_ptr
       IN  /\ pd_user' = parent
           /\ esp0' = parent
           /\ pq_peak(process_q') = parent]_vars

(***************************************************************************)
(* What the stack of processes promises (ProcessStack), read off the       *)
(* kernel's own tables.                                                    *)
(***************************************************************************)
StackOf ==
  [n \in 1 .. process_count |->
     [program  |-> image[n],
      argument |-> pcb[n].argument,
      terminal |-> pcb[n].terminal_num]]

StateOf == CASE cpu = "boot" -> "booting"
             [] cpu = "user" -> "running"
             [] OTHER        -> "stopped"

Abstract == INSTANCE ProcessStack
              WITH stack <- StackOf, state <- StateOf, got <- args

\* execute, halt and getargs implement a stack of processes.
ImplementsProcessStack == Abstract!Spec

(***************************************************************************)
(* syscalls.c: when no process would be left, "we execute another shell".  *)
(* So exiting a shell never stops the machine.                             *)
(***************************************************************************)
ShellExitKeepsMachineRunning == cpu # "fault"
=============================================================================
