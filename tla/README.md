# TLA+ models of UNIX_OS

UNIX_OS is a small 32-bit kernel for one processor, with three text terminals,
a read-only file system and ten system calls.  This directory holds TLA+ models
of its own logic (`src/student-distrib/`) and of three of its user programs
(`src/fish/`, `src/syscalls/`), the TLC configurations that check them, and TLAPS
proofs about the kernel's parts and about fish.  File names below are relative to
`src/student-distrib/` unless they begin with `src/`.

## 1. Inventory

| Component | State | Operations | Modelled in |
|---|---|---|---|
| Processes (`syscalls.c`, `sched.c`, `kernel.c`) | `process_count`, `primary_shell_count`, `process_q`, one PCB and one 4MB page per process, `pd[PD_IDX_USER]`, `tss.esp0` | `execute`, `halt`, `getargs`, the boot code's first `execute` | `Process`, `ProcessStack`, `ProcessProofs` |
| Keyboard and terminals (`keyboard.c`, `terminal.c`, `putc` of `lib.c`) | `display_terminal`, the cursors, video memory and three backing pages, `kb_buf_index`, `ready_to_read`, modifier flags | `keyboard_handler`, `change_display_term`, `term_read`, `term_write`, `term_putc`, `clear_keyboard_buf` | `Console`, `ConsoleProofs` |
| System-call entry (`handler.S`, `idt.c`) | the kernel stack, the registers, the interrupt flag | `handler_syscall`, interrupts in the middle of it | `SysReturn`, `SysReturnProofs` |
| Clock (`rtc.c`, `rtc_handler` of `idt.c`, `send_eoi` of `i8259.c`) | `RTC_READ`, the index register, register A and C, the controllers' in-service bits | `rtc_open`, `rtc_write`, `rtc_read`, `rtc_handler` | `Rtc`, `RtcProofs` |
| File descriptors (`syscalls.c`, `filesys_mod.c`) | `fde[8]` in every PCB, `dir_read_count` | `open`, `close`, `read`, `write`, `read_file`, `read_directory` | `FileDescriptors`, `FdListingEnd`, `FileDescriptorsProofs` |
| File system (`filesys_mod.c`) | the image (read-only) | `read_data`, `read_dentry_by_name`, `read_dentry_by_index` | `ReadData`, `ReadDataProofs`, `FileDescriptors` |
| Library (`lib.c`) | the direction flag, which outlives a call | `memcpy`, `memset`, `memset_word`, `memset_dword`, `memmove`, `strlen`, `strcpy`, `strncpy`, `strncmp`, `printf` with `itoa`, `strrev`, `puts` | `Lib`, `LibProofs`, `Printf`; `putc` in `Console` |
| `vidmap` (`syscalls.c`) | none of its own | its tests of the pointer | `SysErr` |
| fish (`src/fish/fish.c`, `src/fish/blink.S`) | the array of blinkers, which is heap and list at once, the screen, two files, their and the clock's descriptor numbers | `add_frames`, the ioctls, `mp1_rtc_tasklet`, the loops of `main` | `Blink`, `Fish`, `ProgramsProofs` |
| grep (`src/syscalls/ece391grep.c`) | its buffer | `do_one_file` | `Grep` |
| syserr (`src/syscalls/ece391syserr.c`) | none | eight tests of wrong calls | `SysErr` |
| Scheduler (`sched.c`, `pit.c`) | `process_q.rear`, the registers in the PCB | `pq_rotate`, `change_task` | not called by the running system |
| Initialisation (`boot.S`, `x86_desc.S`, `page.c`, `i8259.c`, `idt.c`) | hardware tables | run once | only what others depend on |

How they interact:

* A user program enters the kernel with `int $0x80`; `handler_syscall` checks the
  number, enables interrupts and calls the function.  From there on a keyboard
  or clock interrupt can arrive between any two instructions.
* `pq_rotate` and `change_task` are never reached: `kernel.c` masks the timer's line
  and `pit_init` enables it again, so the timer interrupts, but the body of
  `pit_handler` is commented out and only the end of interrupt is sent.  So there is
  no preemption, and one process, the youngest, runs at a time.  `process_count` and the front of the queue are
  the two ways the rest of the kernel finds that process.
* `read` and `write` call the driver in the descriptor; the terminal driver shares
  the cursor, the video pages and the keyboard buffers with `keyboard_handler`,
  and the clock driver shares `RTC_READ` and the clock's ports with `rtc_handler`.

What is hard about it: the interrupt handlers share variables with system calls
that do not disable interrupts; the running process is recorded in four places
that `execute` and `halt` update one after the other; state that outlives a
process (the directory position, the kernel stacks) is used by the next one; and
several bounds (the ring, the keyboard buffer, the block size, the 32-bit sums,
the alignment of a copy, the length of a line) are handled by special cases; and
sizes and descriptor numbers come from programs as signed integers that several calls
use before, or without, looking at their sign.  `PROJECT.json` lists each of these
hazards with its line and the properties aimed at it.

## 2. Modules

### Process, ProcessStack, ProcessProofs

One action per way through a call: `BootShell` (one iteration of the first
`execute`'s do-while loop), `Execute`, `ExecuteRefused`, `GetArgs`, `GetArgsOverrun` (a negative
size passes the unsigned comparison, and the copy stops the machine), and `Halt` with the
three ways through it: `HaltLast` (at most one process), `HaltOrphan` (NULL parent: the
page fault stops the machine) and `HaltChild`.  With three terminals `HaltLast` is never
taken (`PrimaryShellsStay`); the proofs cover the builds with one terminal, where it is.  No interrupt handler touches this state and
nothing is preempted, so a system call is one step.

A process is the value of `process_count` when it was created.  The PCB address,
the kernel stack and the physical page are linear in it and are represented by
it; 0 is NULL.  A command string is a sequence of words cut at the spaces; files are
words with a kind (absent, unreadable, data, elf), which is all that `execute`'s
tests distinguish.  `CommandAssumption` takes commands that fit `execute`'s local arrays: a
program name of at most 32 characters and at most 100 spaces; what a longer one does to
the frame of `execute` depends on the compiler, not on the source.

`HaltChild` has a parameter `nested`: `halt` ends with `leave; ret` on the frame
pointer the program had.  Called from `_start` this is `execute`'s frame; called
from inside a function it is a user frame that is gone, and the model's state is
then `"lost"`.

`ProcessStack` is the abstract specification: a stack of programs, each with its
argument and terminal, and the argument last given to a program; `Process` implements
it (`ImplementsProcessStack`).

### Console

The keyboard handler runs to completion with lower lines held back, so every key is
one action.  The process's side is split at each access to a shared variable: the
kernel is compiled without optimisation, so each mention is a load or a store and
`x++` is two steps (`LoadX`, `StoreX`).  Characters are abstracted to the terminal
they belong to and a page to the set of terminals whose text it has received: that
is what `TextInPlace` tells apart.  `SwitchInWrite` says whether the user switches
terminals during a write.  The size of a read is a signed number, which `term_read`
compares as such and `memcpy` takes as an unsigned one below `WORD`: for a negative size
the process ends in `"overrun"`, where the copy runs out of mapped memory.

The four character tables have their empty entries in the same places, so caps lock
and shift do not change this state.  `update_cursor` moves the blinking cursor only.

### SysReturn

`handler_syscall` as one action per instruction (the three argument pushes are one:
interrupts are off there).  A word of the stack is what was stored in it, as a symbol:
a user register, a kernel value, a number.  `Interrupt` overwrites the free part of the
stack the way the processor, the stub of `handler.S` and `pusha` do.

### Rtc

The port accesses of `rtc_write` and `rtc_handler` are separate steps, since both
select a register through the same index port.  `Tick` and `Deliver` are the clock
and the two interrupt controllers, modelled from how the code uses them: a clock
that has raised its line raises it again only after register C is read, and a
controller delivers the line again only after its end of interrupt.  Register A is kept with
its divider: `Prev` reads what the index selects, `Data` writes `(prev & BITMASK6) | rate`.

### FileDescriptors

Each call is one action; the calls that fail are actions of their own.  `history`
records what a program has done with each descriptor, and whether it came into use
from stack garbage, to state the properties.
`StackGarbage` is what the part of the kernel stack that becomes a new descriptor
array may hold, since `init_fd` clears a copy: an unused entry, one with a bad pointer, or
one with a driver's table and whatever name and position are there (`"stale"` for the
files').  `FarFds` are numbers for which `fde[fd]` lies in no mapped page: `close` looks at the
entry before the number (`close_far`).  Sizes are signed: `read_runaway` is a read whose
negative size becomes a copy of almost 2^32 bytes.  With `WholeListings` programs read
directories to the end, one at a time, as `ls` does; without it they may break off.
`FdListingEnd` adds the memory that the comment about the end of a listing needs.

### SysErr

The program `syserr` on top of `FileDescriptors`.  A test is the sequence of its system
calls; `ProgramCall` makes the next one through the same actions any other program uses,
and records whether the program would count a failure.  Other programs have run before
it and may be suspended below it.  `clean` says whether its descriptors came without
leftovers of the kernel stack: with leftovers the tests can fail, and the machine too.

### Lib, ReadData, Printf, Library

`Lib` has the memory routines with their registers and the direction flag, one action
per iteration of a loop or element of a string instruction, and the string routines by
the iterations of their loops.  Every byte of the modelled memory starts as a value of
its own, so that a copy from the wrong place is a wrong byte; the memory covers the
destination at each alignment and the bytes around it.  Calls follow one another, in
any order, since `memmove` leaves the direction flag as it was set.

`ReadData` is `read_data`, one action per iteration of its loops, calling the `memcpy` of
`Lib`.  A byte of the image is its address.  The reference definition is `Wanted`;
`WORD` is the range of the unsigned sums.

`Printf` scans the format, converts digit by digit into the local buffer, reverses it in
place and prints it; the reference definition is `Printed`.  `Library` puts the three
together, one call at a time.

### Blink, Fish, Grep, Programs

`Blink` is the array of blinkers with the operations of `blink.S`: pointers are slots, 0 is
NULL, and a slot is free while its location is 0, as `mp1_malloc` sees it.  `Fish` is the
program: one action per step of `add_frames`' inner loop, per line, per structure the
tasklet visits and per part of `main`.  The kernel's calls are used by what they promise:
a read gives the next byte or 0 at the end, a read of the clock returns at a tick.  Files and
clock are opened and closed by number: an open takes the lowest free one, and
`LeftoverSets` are the numbers in use before the program's first open.
`Grep` is `do_one_file`: one action per read, per line and per call that fails.  Its texts have
NUL bytes, since grep is run on every file of the directory: the search goes past them, the
output and `strcpy` stop there.  `Programs` runs one of the two.

## 3. Runs

Passing runs:

| Run | Instance | What it shows |
|---|---|---|
| `process` | 6 processes, 3 terminals (the kernel's own limits), 12 commands | the four records of the running process agree, the ring lists every process, terminals and parents are right, calls leave other processes alone, `halt` resumes the parent, `getargs` gives a program its own argument, and `ProcessStack` is implemented |
| `console` | 2 terminals, 2x2 screen, buffer of 2, all keys, reads and writes, of a negative size too, fair | no interleaving of keys with `term_read`, `putc` and `clear_keyboard_buf` leaves the keyboard buffers (but in the copy of a negative size) or the mapped pages or, without a switch in mid-write, puts text on another terminal; with a user who stays and presses enter, every call but the read of a negative size returns |
| `sysreturn` | numbers at both ends of the table | the program's frame and registers survive any interrupt; bad numbers fail |
| `rtc` | valid, invalid and zero frequencies, fair | the rate requested is the rate set, and of the divider the masked bit is left; `rtc_read` waits for a tick and gets one; no tick stays unacknowledged |
| `fds` | 4 descriptors, 2 processes, a directory with itself and a file, stack contents of four kinds, a far number, a negative size | descriptors in use are the opened ones and leftovers of the stack, only these, a far number or a negative size can stop the machine, files are read in order, a listing is in order, `open` fails only when full, and `syserr` passes whatever ran before |
| `read_data` | every file length, offset and length over 3 scattered blocks of 5 bytes, every alignment, and lengths that wrap; every destination and source in 8 addresses and lengths up to 9; all strings of up to 3 characters; words of 12 bits and all formats of up to 3 characters | `read_data` returns exactly the bytes asked for, unless offset + length wraps; the library's routines store and return what they promise after any other call; `printf` prints what its table says |
| `programs` | all pairs of frames of up to 3 bytes and two larger, on a screen of 3 lines of 2; descriptors left over so that there is room for all, for two or for none; all texts of up to 5 bytes and, over fewer letters, up to 7, with a buffer of 4 | fish draws what the files show, closes its files and never the clock, list and heap agree, every blinker keeps time, the program ends; grep prints each line with the pattern once and whole, or up to a NUL in it |

Runs that refute a comment of the repository (the findings in `PROJECT.json` quote
the line):

| Run | What happens |
|---|---|
| `shell_exit` | exiting the primary shell stops the machine; the test for "last process" never holds with three shells |
| `switch_in_write` | alt-F during a write puts text on the wrong terminal |
| `sysreturn_value` | an interrupt while the stack is unwound replaces the return value |
| `fds_listing` | a listing starts where a broken-off one stopped |
| `fds_listing_end` | after the 0 at the end of a directory the next read gives its first entry again |

Two of these are the other side of a passing run: `TextInPlace` holds when terminals
are not switched during a write (`SwitchInWrite`), `ListingInOrder` when directories
are listed to the end, one at a time (`WholeListings`).

### Other differences between comments and code

These are visible in the models, which follow the code, and have no run of their own:

* `halt` called from inside a function of the program (as `fish` does) returns on a
  user frame, not on the parent's stack (`HaltChild`, `nested`); `syscalls.c:77`.
* The shells without a parent belong to terminals 2, 1 and 0, while the comment at
  `syscalls.c:224-225` puts a process without a parent on the displayed terminal, which is 0
  for all of them (`NewTerminal`); `TerminalsOfProcesses` states what the code does.
* `rtc_open` writes rate 15 for 2 Hz (`rtc.h:22`), its header says that the formula gives
  14 (`rtc.c:129-130`).  By the formula, 32768 >> (rate - 1), 15 is right: this is what
  `RateAsRequested` requires of an open.
* `term_read` takes its line from the displayed terminal, the comment at `terminal.c:63` says
  "read from active buf" (`ReadWait` and the steps after it); which terminal a line is taken
  from is not kept, so no property of `Console` would notice it.
* `execute` returns 0 whatever status the child passed to `halt`;
  `src/syscalls/ece391syscall.h:9`.
* A key between the test and the copy of `term_read` makes it copy more than `nbytes`
  (`ReadLen`); `terminal.c:57`.
* The write of register A keeps bit 6 of the divider and clears the bits below
  (`Masked`): of the usual 010, for the 32768 Hz in the formula of `rtc.c:128-130`, 000 is
  left.  `RateAsRequested` states the rate field and this bit, not what the clock makes of it.
* A negative size of `read` or `getargs`, and a far number given to `close`, stop the machine
  instead of giving -1 (`ReadTest`, `read_runaway`, `GetArgsOverrun`, `close_far`);
  `KbBufInBounds`, `UsedIsOpened` and the refinement name these cases; `syscalls.c:614`.
* The break code of alt clears the ctrl flag (`AltBreak`); `keyboard.c:13`.
* A full keyboard buffer is not made ready to read (`TypeChar`); `keyboard.c:18`.
* A backspace in the middle of `putc` can leave the cursor one cell off the screen;
  `VideoWritesMapped` bounds how far.
* `init_fd` clears a copy, so a descriptor that was never opened may be in use and lead
  to a call through a bad pointer (`bad_pointer`); `src/syscalls/ece391syserr.c:174`.
* `memset_word` and `memset_dword` count in words and double words, while their headers call
  `n` a number of bytes (`UnitOf`); `lib.c:364,391`.
* `RTC_SYNC` shows the off character whatever the status, since `cmovl` after `testb` never
  moves (`mp1_ioctl_sync`); `ScreenFollows` allows for it; `src/fish/blink.S:281`.
* grep looks at the byte behind what it has read: if the stack held a newline there, a
  line cut by the buffer is taken for two (`IncompleteLine`); `GrepPrintsMatches` excludes
  that, and lines longer than the buffer; `src/syscalls/ece391grep.c:36`.  Of a line with a NUL
  byte that is moved, what lies behind the NUL is not moved, so it is searched as what was in
  the buffer before; the property leaves open whether such a line is printed.
* For lengths that wrap the 32-bit sum `read_data` does not trim and overruns
  (`CopyEnd`); `filesys_mod.c:319`.

### Why the bounds are enough

* `Process`: the limits are the kernel's own; other relations between terminals and ring
  size, where the front wraps at other points, are covered by the proofs.  The buffers
  given to `getargs` are just large enough, one byte too small, and negative.
* `Console`: a screen of 2x2 has a first and a last column and row; a page with one
  cell more than the screen has, like the real one, cells below the screen.  Two
  terminals are the displayed one and another, and the function keys include one that
  selects no terminal.  A buffer of 2 has an empty, a last-but-one and a full state.
  `WORD` is 8, more than twice the buffer, as 2^32 is.
* `Rtc`: `FirmwareA` is 38, divider 010 and rate 6, as a PC's firmware leaves it; the proofs are
  for every divider.
* `SysReturn`: results and numbers are only compared; 29 words hold the deepest use.
* `FileDescriptors`: two descriptors above stdin and stdout, a parent and a child;
  a read of 2 bytes from a file of 3 ends once inside and once at the end, and one of -1
  wraps with the position after it and is trimmed before it.  One far number stands for
  all, and the stack contents leave out the three driver tables whose calls do the same
  on a leftover as on an opened descriptor; the proofs are for all kinds.
* `ReadData`: three blocks give skipped, whole and final blocks in every combination,
  and five bytes are enough for a copy with bytes before, within and after a word.
  `WORD` is 64, more than twice the largest file, as 2^32 is.
* `Lib`: lengths up to 9 with every alignment have bytes before, two words or none, and
  bytes after; eight addresses give every overlap.
* `Printf`: words of 12 bits have 3 hexadecimal digits; the values lie around every change
  of sign and of the number of digits, and 2048 is the most negative.
* `SysErr`: all eight tests, alone and in a row, and a number that selects none.
* `Programs`: frames with lines of different lengths, empty ones, and a missing last
  newline; of the larger frames one asks for more blinkers than there are and runs over the
  end of a line, one has two characters where `RTC_REMOVE` takes one.  The lengths of the phases differ from each other and from the waits, so that
  every edit falls in the middle of a phase.  A buffer of 4 cuts texts of 7 at every place.
  The leftovers put the clock below and the files above a gap, and leave one or three too few.

### Fairness

* `Console!FairSpec`: weak fairness of the process's steps, since the processor always
  executes something and handlers end; weak fairness of enter, a user who goes on
  pressing it.  `CallsReturn` is conditional on a user who stays on one terminal: a read
  looks at whichever is displayed.
* `Rtc!FairSpec`: the processor executes the handler (weak) and gets back to the
  process again and again (strong, since ticks interrupt it); the clock ticks while it
  has a rate and is acknowledged.  Frequency 0 stops the clock (`rtc_write` accepts
  it), and a read then spins for ever; `CallsReturn` is conditional on a rate.

* `Programs!ProgramsSpec`: weak fairness of the program, which the processor executes
  whenever it can run; a read of the clock returns because the clock ticks (`Rtc`).

Deadlock is checked in every run but `programs`, where the programs end.

## 4. Proofs

The proofs are for every value of the constants that satisfies the named assumptions
of the modules (`SizeAssumption`, `FileAssumption`, `CommandAssumption`,
`StatusAssumption`, `BufferAssumption`, `ConsoleAssumption`, `FdAssumption`,
`SysErrAssumption`, `FreqAssumption`, `SysReturnAssumption`, `LibAssumption`, `ReadDataAssumption`,
`PrintfAssumption`, `BlinkAssumption`, `FishAssumption`, `LocationAssumption`, `ScreenAssumption`, `GrepAssumption`),
which every run evaluates on its instance.  Of these, `LibAssumption` bounds the strings and
counts of a call by `MAX_STR`, for which the memory has room;
`SysErrAssumption` says that the image has "." and no file with one of the three names
`err_open` tries; `LocationAssumption` keeps the lines of a frame so few and short that a
location fits its unsigned short; `FishAssumption` and
`ScreenAssumption` hold of the numbers in `fish.c`: 'I' and 'M' have an on-time other than the
frames' 15, they are at 540 and not at 200, where `RTC_REMOVE` is sent, and 15 ticks are over
before 600.  Each
inductive invariant was checked by TLC on the instance of its run before it was proved.

| Module | Theorems (property) | Hypotheses beyond the assumptions |
|---|---|---|
| `ProcessProofs` | `TypeTheorem`, `RunningProcessTheorem`, `QueueTheorem`, the action properties `HaltResumesParentTheorem`, `OthersUntouchedTheorem`, and `PrimaryShellsTheorem`, `TerminalsTheorem`, `RefinementTheorem` (`ImplementsProcessStack`) | the last two: `NUM_TERMINALS >= 2` |
| `SysReturnProofs` | `SysReturnTypeTheorem`, `ProgramRestoredTheorem`, `RefusedNumbersTheorem`, `NoKernelWordTheorem` | none |
| `RtcProofs` | `RtcTypeTheorem`, `RateTheorem`, `ReadTheorem`, `NoTickLostTheorem` | none |
| `FileDescriptorsProofs` | `FdTypeTheorem`, `UsedIsOpenedTheorem`, `FilesReadInOrderTheorem`, `OpenFailsTheorem`, `ListingTheorem`; with syserr: `SyserrPassesTheorem`, `DescriptorsTheorem`, `ListingAmongTheorem` | the two about listings: `WholeListings` |
| `ConsoleProofs` | `ConsoleTypeTheorem`, `KbBufTheorem`, `VideoTheorem`, `TextTheorem` | the last two: `~SwitchInWrite`; the last one: `ActiveTerm = 0` |
| `LibProofs` | `MemoryTheorem` (`MemoryRight`), `StringsTheorem` (`StringsRight`) | none |
| `ReadDataProofs` | `ReadDataTheorem` (`ReadsWanted`) | none |
| `ProgramsProofs` | `FishTypeTheorem`, `ListTheorem` (`ListIsHeap`), `ClockTheorem` (`ClockStaysOpen`), `BlinkTimeTheorem` (`BlinksOnTime`), `ScreenTheorem` (`ScreenFollows`) | none |

The hypotheses are facts of the system or the other side of a finding.  The kernel has
three terminals (`keyboard.h:18`); with one, the shell that `halt` starts after the last one
would belong to terminal -1, because `primary_shell_count` is not reset.  `WholeListings` and `~SwitchInWrite`
are what the runs `fds_listing` and `switch_in_write` show to be needed.  `ActiveTerm = 0`
is what `TerminalsTheorem` proves of the running process; for another terminal
`TextInPlace` fails, since the cells just below its screen lie in terminal 0's
backing page and `VideoTheorem` allows the cursor one row too far.

The arguments:

* `ProcessProofs`: the invariant is `TypeOK /\ QueueShape /\ PcbShape /\ CountShape`.
  `QueueHoldsEveryProcess` speaks of `%`, which the SMT backend handles badly, and no
  property alone says why a dequeue brings the parent to the front.  `QueueShape` gives
  the slot of each process by cases (before or after the wrap), `PcbShape` says that a
  PCB carries its own number and, above the primary shells, the number below it as
  parent, and `CountShape` ties `process_count`, the mapped page, `esp0` and the count of
  primary shells together in each state of `cpu`.
  For the refinement, the images of the primary shells (`ShellShape`) and the terminals
  (`TerminalShape`) are added to that invariant; then the stack the PCBs stand for is a
  sequence of length `process_count`, an `execute` appends to it, a `halt` of a child removes
  its end, `getargs` reads its end and leaves it alone.
* `SysReturnProofs`: the invariant gives, for each instruction, where the stack ends
  (`SpShape`) and where the user's frame and registers are (`FrameKept`, `RegsSaved`,
  `RegsHeld`); an interrupt writes beyond the end only.  The word that `popl %eax` reads
  back has been freed before, so `EaxShape` gives what an interrupt in between can have
  made of it; `WayOut` gives the numbers that reach each label.
* `RtcProofs`: between `cli` and `sti` the handler does not run, so the index register is the
  one selected for the read and for the write, and by induction over the calls register A is the
  firmware's or has its bit 6 alone beside the rate; the position of the handler determines the in-service bits, and an
  unacknowledged clock has its request pending or its handler under way.
* `FileDescriptorsProofs`: `EntriesFine` relates each entry to what the program did with that
  descriptor, for the suspended processes too; `FaultShape` says of the call that stopped the
  machine that it was on garbage, far outside the array or of a negative size.  For listings, `ListShape` says that at most one descriptor of all
  processes is in the middle of a listing and that the shared counter is its position.
  The first five theorems are about `Spec`, any programs in any order.  The run `fds` also has
  `syserr` between them (`SysErrSpec`).  `SyserrPasses` is not inductive: why the next call is
  refused depends on the ones before.  `SysErrInv` says it by the calls that are left: `LotsAt`
  gives the place in them of those of `err_open_lots`, of which some may have been made already,
  and that all others are calls which must fail while only stdin and stdout are open;
  `UsedAfter` gives the descriptors in use after each call of `err_open_lots` and `CleanAfter` the
  value of its counter.  Since this gives the names and numbers that a call passes, also for a
  `syserr` that is not clean, each of its steps is a step of `Next` or has no effect
  (`StepIsStep`), and the five results hold of `SysErrSpec`.
* `ConsoleProofs`: the buffers need only the bounds of the indices as `term_read` has loaded
  them (`Buffers`), and that a copy is longer than the buffer only where the size was
  negative.  The cursor needs `PutcInv`, which bounds it at each label of `putc` and
  allows, there only, for the keys that came since the last test; `BranchInv` keeps
  `term_write`'s stale comparison true while terminals are not switched.
* `LibProofs`: `MemoryRight` speaks of the end of a call.  `Running` gives the registers by the
  number of bytes left (in words and single bytes while `rep` runs) and memory by what the
  pointer has passed; the direction flag equals the direction of this call whenever a
  string instruction runs, whatever an earlier one left in it.  That a load does not see a
  byte already stored is where the direction of `memmove` and the condition on `memcpy`
  are used.
  The string routines stop at a byte of memory, not at a count, so `StrInv` says what `i` has
  passed: the destination holds the first `i` characters and memory is otherwise as it was
  (`DestUpTo`), `strncpy`'s second loop has passed the string and stores zeros only, and for
  `strncmp` the first `i` characters are equal.  Whatever byte stops a loop is then the end of
  the string, or the first difference.
* `ReadDataProofs`: `Position` ties the block number and the offset in it to the number of
  bytes handed over, `offset = KB4` at the start included; from the sign of `block_ct`
  follows that a `memcpy` stays in its block (`InBlock`), and so that its bytes are the next
  ones of the file (`BlockBytes`).  Both are about `LibrarySpec`, all calls in any order.
  The ranges of the counters and pointers are parts of these two invariants, so the
  run `read_data` has no separate type invariant.

* `ProgramsProofs`: `BlinkList` follows pointers, so what it is after a step is an induction.
  It is carried out once: a sequence of slots linked in its order from the head to NULL is
  the list (`ChainGivesList`, by the least number of hops at which they would differ).  A
  list without repetition is no longer than the array (`Pigeonhole`), so the hops suffice.
  `OwnNumbers` says which descriptor number is whose: three different ones while the frames
  are read, none for a file without one for the clock; so a close, or a second one, reaches
  nothing but the file it was meant for.
  `ListInv` says that the list is such a chain of exactly the structures in use; for each
  ioctl the proof names the chain after it: the new slot in front, the removed one left out.
  `TimeInv` says that every blinker is on time, and during a tasklet that those before its
  position have this tick behind them already; `PhaseNext` is the arithmetic of one tick.
  `ScreenFollows` is not inductive where `RTC_REMOVE` takes one of several blinkers from a
  location: `LastIsSeen` says that the screen shows the last of them in the list, from the
  first time they change together on, because all have the frames' lengths (`FrameLengths`)
  and the tasklet passes the last one last.

Only model-checked:

* liveness (`CallsReturn` of `Console` and of `Rtc`, `FishEnds`), since the prover handles
  neither fairness nor ENABLED; `NoTickLost` is the part of it that is a safety property;
* `PrintsRight`, `FramesDrawn` and `GrepPrintsMatches`: their references are a recursive
  function over the format with powers of the radix, and selections from sequences; what
  those compute for every input is an induction over data with an operator as parameter.

## 5. Plan

Done: `Process` with its abstraction, `Console`, `SysReturn`, `Rtc`, `FileDescriptors`, `SysErr`,
`Lib`, `ReadData`, `Printf`, `Blink`, `Fish`, `Grep`, and the proofs of section 4.  Next, in this
order:

1. The VGA index and data ports of `update_cursor`, as an extension of `Console`.
2. A composition of `Process` and `FileDescriptors`, in which the descriptors belong to
   the processes of the ring and the stack a new PCB is taken from is the one a
   process has left.

## 6. Not modelled

The scheduler (`pq_rotate`, `pq_enqueue`, `change_task`), which no code calls; the contents
of characters and files where no property is about them; the self tests of `testcode.c`;
the user programs other than fish, grep and syserr, and the `main` of grep (they pass the
bytes of one call to the next, and are the environment of the kernel's modules: any call
in any order); the host tools that build the image; and the straight-line initialisation
of descriptor tables, paging and the interrupt controllers.  `load`, `clear`,
`term_close`, `set_handler`, `sigreturn`, `RTC_FIND` and the other routines that only
return a constant, write a port once or are never called are left out as well.  So are
commands too long for `execute`'s arrays, and the -1 of `read_data`, which `read_file` would add
to the position: it is for files longer than the blocks of an inode hold, and the tool that
builds the image makes none.
