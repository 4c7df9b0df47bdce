--------------------------- MODULE ProcessProofs ---------------------------
(***************************************************************************)
(* Proofs about Process for any number of processes, terminals, files and  *)
(* commands.                                                               *)
(*                                                                         *)
(* The invariant RunningProcessAgrees is not inductive: halt moves the     *)
(* front of the queue by one slot, so what pq_peak returns afterwards      *)
(* depends on the slots behind the front.  Inv says where every process    *)
(* sits in the ring (QueueShape), who its parent is (PcbShape) and how the *)
(* two counters move while the boot code runs (CountShape).                *)
(***************************************************************************)
EXTENDS Process, SequenceTheorems, TLAPS

\* The ring slot of process n: execute fills 0, MAX-1, MAX-2, ...
Slot(n) == IF n = 1 THEN 0 ELSE MAX_PROCESSES + 1 - n

QueueShape ==
  cpu \in {"boot", "user"} =>
    /\ process_q.front = IF process_count = 0 THEN 1 ELSE Slot(process_count)
    /\ \A n \in 1 .. process_count : process_q.pcbs[Slot(n)] = n

PcbShape ==
  \A n \in 1 .. process_count :
    /\ pcb[n].pid = n
    /\ pcb[n].parent_ptr = IF n <= NUM_TERMINALS THEN NULL ELSE n - 1

CountShape ==
  /\ cpu = "boot" => /\ process_count = primary_shell_count
                     /\ process_count < NUM_TERMINALS
  /\ cpu # "boot" => /\ primary_shell_count = NUM_TERMINALS
                     /\ process_count >= NUM_TERMINALS
  /\ cpu = "user" => /\ pd_user = process_count
                     /\ esp0 = process_count

Inv == TypeOK /\ QueueShape /\ PcbShape /\ CountShape

----------------------------------------------------------------------------
(* A command that execute accepts gives a program name and an argument.    *)
LEMMA CommandWords ==
  ASSUME NEW command \in Commands
  PROVE  /\ program_name(command) \in Words
         /\ num_spaces(command) <= 1 => args_initialize(command) \in Words
<1>1. command \in Seq(Words) /\ Len(command) \in Nat /\ Len(command) >= 1
  BY CommandAssumption
<1>2. \A i \in 1 .. Len(command) : command[i] \in Words
  BY <1>1
<1>3. program_name(command) \in Words
  BY <1>1, <1>2 DEF program_name
<1>4. CASE Len(command) = 1
  BY <1>3, <1>4, FileAssumption DEF args_initialize, num_spaces
<1>5. CASE Len(command) >= 2
  <2>1. command[2] \in Words
    BY <1>1, <1>2, <1>5
  <2>2. args_initialize(command) = command[2]
    BY <1>1, <1>5 DEF args_initialize, num_spaces
  <2>. QED BY <1>3, <2>1, <2>2
<1>6. Len(command) = 1 \/ Len(command) >= 2
  <2>1. Len(command) \in Nat /\ Len(command) >= 1
    BY <1>1
  <2>2. \A n \in Nat : n >= 1 => n = 1 \/ n >= 2
    OBVIOUS
  <2>. QED BY <2>1, <2>2, Zenon
<1>. QED
  BY <1>4, <1>5, <1>6

(* A queue is a ring of MAX_PROCESSES slots with its front inside. *)
Queues == [pcbs : [Slots -> 0 .. MAX_PROCESSES],
           front : 0 .. MAX_PROCESSES - 1, rear : {0}]

(* What pq_enqueue_front and pq_dequeue return, field by field. *)
LEMMA QueueFields ==
  ASSUME NEW q \in Queues, NEW p \in 0 .. MAX_PROCESSES
  PROVE  /\ pq_enqueue_front(q, p).front =
              IF q.front = 0 THEN MAX_PROCESSES - 1 ELSE q.front - 1
         /\ pq_enqueue_front(q, p).pcbs =
              [q.pcbs EXCEPT ![IF q.front = 0 THEN MAX_PROCESSES - 1
                                             ELSE q.front - 1] = p]
         /\ pq_enqueue_front(q, p) \in Queues
         /\ pq_dequeue(q).front =
              IF q.front = MAX_PROCESSES - 1 THEN 0 ELSE q.front + 1
         /\ pq_dequeue(q).pcbs = q.pcbs
         /\ pq_dequeue(q) \in Queues
         /\ pq_peak(q) \in 0 .. MAX_PROCESSES
<1>. DEFINE front == IF q.front - 1 < 0 THEN MAX_PROCESSES - 1 ELSE q.front - 1
<1>0. /\ q.front \in 0 .. MAX_PROCESSES - 1
      /\ q.pcbs \in [Slots -> 0 .. MAX_PROCESSES]
      /\ q.rear = 0
      /\ q = [pcbs |-> q.pcbs, front |-> q.front, rear |-> q.rear]
  BY DEF Queues
<1>1. /\ front = IF q.front = 0 THEN MAX_PROCESSES - 1 ELSE q.front - 1
      /\ front \in Slots
  BY <1>0, SizeAssumption DEF Slots
<1>2. pq_enqueue_front(q, p) =
        [pcbs |-> [q.pcbs EXCEPT ![front] = p], front |-> front, rear |-> q.rear]
  BY <1>0 DEF pq_enqueue_front
<1>3. pq_dequeue(q) =
        [pcbs |-> q.pcbs, rear |-> q.rear,
         front |-> IF q.front + 1 >= MAX_PROCESSES THEN 0 ELSE q.front + 1]
  BY <1>0 DEF pq_dequeue
<1>4. pq_enqueue_front(q, p) \in Queues
  BY <1>0, <1>1, <1>2 DEF Queues, Slots
<1>5. pq_dequeue(q) \in Queues
  BY <1>0, <1>3, SizeAssumption DEF Queues
<1>6. pq_peak(q) \in 0 .. MAX_PROCESSES
  BY <1>0 DEF pq_peak, Slots
<1>. HIDE DEF front
<1>. QED
  BY <1>0, <1>1, <1>2, <1>3, <1>4, <1>5, <1>6, SizeAssumption

(* Putting process n in front of processes 1 .. n-1 fills slot Slot(n) and *)
(* leaves theirs alone.                                                    *)
LEMMA EnqueueShape ==
  ASSUME NEW q \in Queues, NEW count \in 0 .. MAX_PROCESSES - 1,
         q.front = IF count = 0 THEN 1 ELSE Slot(count),
         \A n \in 1 .. count : q.pcbs[Slot(n)] = n
  PROVE  /\ pq_enqueue_front(q, count + 1).front = Slot(count + 1)
         /\ \A n \in 1 .. count + 1 :
              pq_enqueue_front(q, count + 1).pcbs[Slot(n)] = n
<1>. DEFINE r == pq_enqueue_front(q, count + 1)
<1>0. count + 1 \in 0 .. MAX_PROCESSES
  BY SizeAssumption
<1>a. Slot(count + 1) = IF q.front = 0 THEN MAX_PROCESSES - 1 ELSE q.front - 1
  <2>1. CASE count = 0
    BY <2>1 DEF Slot
  <2>2. CASE count = 1
    BY <2>2, SizeAssumption DEF Slot
  <2>3. CASE count \in 2 .. MAX_PROCESSES - 1
    BY <2>3, SizeAssumption DEF Slot
  <2>. QED BY <2>1, <2>2, <2>3, SizeAssumption
<1>1. r.front = Slot(count + 1)
  BY <1>0, <1>a, QueueFields
<1>2. r.pcbs = [q.pcbs EXCEPT ![Slot(count + 1)] = count + 1]
  <2>1. r.pcbs = [q.pcbs EXCEPT ![IF q.front = 0 THEN MAX_PROCESSES - 1
                                             ELSE q.front - 1] = count + 1]
    BY <1>0, QueueFields
  <2>. QED BY <1>a, <2>1
<1>3. q.pcbs \in [Slots -> 0 .. MAX_PROCESSES]
  BY DEF Queues
<1>4. ASSUME NEW n \in 1 .. count + 1 PROVE r.pcbs[Slot(n)] = n
  <2>1. Slot(n) \in Slots
    BY SizeAssumption DEF Slot, Slots
  <2>2. CASE n = count + 1
    BY <1>2, <1>3, <2>1, <2>2
  <2>3. CASE n \in 1 .. count
    <3>1. Slot(n) # Slot(count + 1)
      BY <2>3, SizeAssumption DEF Slot
    <3>. QED BY <1>2, <1>3, <2>1, <2>3, <3>1
  <2>. QED BY <2>2, <2>3
<1>. QED BY <1>1, <1>4

(* Taking the front process away uncovers the one started before it. *)
LEMMA DequeueShape ==
  ASSUME NEW q \in Queues, NEW count \in 2 .. MAX_PROCESSES,
         q.front = Slot(count),
         \A n \in 1 .. count : q.pcbs[Slot(n)] = n
  PROVE  /\ pq_dequeue(q).front = Slot(count - 1)
         /\ \A n \in 1 .. count - 1 : pq_dequeue(q).pcbs[Slot(n)] = n
         /\ pq_peak(pq_dequeue(q)) = count - 1
<1>1. NULL \in 0 .. MAX_PROCESSES
  BY SizeAssumption DEF NULL
<1>a. Slot(count - 1) = IF q.front = MAX_PROCESSES - 1 THEN 0 ELSE q.front + 1
  BY SizeAssumption DEF Slot
<1>2. pq_dequeue(q).front = Slot(count - 1)
  BY <1>1, <1>a, QueueFields
<1>3. pq_dequeue(q).pcbs = q.pcbs
  BY <1>1, QueueFields
<1>. QED BY <1>2, <1>3, SizeAssumption DEF pq_peak

----------------------------------------------------------------------------
\* The boot state, before the first execute, satisfies Inv.
LEMMA InitInv == Init => Inv
  BY SizeAssumption, FileAssumption
  DEF Init, Inv, TypeOK, QueueShape, PcbShape, CountShape, pq_init, NoPcb,
      Procs, Slots, NULL, SUCCESS, FAIL

(***************************************************************************)
(* One iteration of execute's loop, started with count processes in q: it  *)
(* extends the queue and the chain of parents by process count + 1.        *)
(***************************************************************************)
LEMMA CreateProcessShape ==
  ASSUME TypeOK, PcbShape,
         NEW command, program_name(command) \in Words,
         args_initialize(command) \in Words,
         NEW count \in 0 .. MAX_PROCESSES - 1, count <= process_count,
         NEW q \in Queues,
         q.front = IF count = 0 THEN 1 ELSE Slot(count),
         \A n \in 1 .. count : q.pcbs[Slot(n)] = n,
         NewParent(q) = IF count + 1 <= NUM_TERMINALS THEN NULL ELSE count,
         CreateProcess(command, count, q)
  PROVE  /\ process_count' = count + 1
         /\ pd_user' = count + 1
         /\ primary_shell_count' \in 0 .. NUM_TERMINALS
         /\ process_q' \in Queues
         /\ pcb' \in [Procs -> [pid : 0 .. MAX_PROCESSES,
                               parent_ptr : 0 .. MAX_PROCESSES,
                               terminal_num : -1 .. NUM_TERMINALS - 1,
                               argument : Words]]
         /\ image' \in [Procs -> Words]
         /\ eax' \in {SUCCESS, FAIL} /\ args' \in Words
         /\ process_q'.front = Slot(count + 1)
         /\ \A n \in 1 .. count + 1 : process_q'.pcbs[Slot(n)] = n
         /\ PcbShape'
<1>. DEFINE m == count + 1
            new == NewPcb(command, m, q)
<1>1. /\ process_count' = m
      /\ pd_user' = m
      /\ image' = [image EXCEPT ![m] = program_name(command)]
      /\ pcb' = [pcb EXCEPT ![m] = new]
      /\ process_q' = pq_enqueue_front(q, m)
      /\ eax' = eax /\ args' = args
  BY DEF CreateProcess, LoadFrame
<1>2. m \in Procs /\ m \in 0 .. MAX_PROCESSES
  BY SizeAssumption DEF Procs
<1>3. primary_shell_count' \in 0 .. NUM_TERMINALS
  BY SizeAssumption DEF CreateProcess, TypeOK
<1>4. NewParent(q) \in 0 .. MAX_PROCESSES
  BY SizeAssumption DEF NULL
<1>5. NewTerminal(NewParent(q)) \in -1 .. NUM_TERMINALS - 1
  <2>1. CASE NewParent(q) = NULL
    BY <2>1, SizeAssumption DEF NewTerminal, TypeOK
  <2>2. CASE NewParent(q) # NULL
    <3>1. NewParent(q) \in Procs
      BY <1>4, <2>2 DEF Procs, NULL
    <3>. QED BY <2>2, <3>1 DEF NewTerminal, TypeOK
  <2>. QED BY <2>1, <2>2
<1>6. /\ new \in [pid : 0 .. MAX_PROCESSES, parent_ptr : 0 .. MAX_PROCESSES,
                  terminal_num : -1 .. NUM_TERMINALS - 1, argument : Words]
      /\ new.pid = m
      /\ new.parent_ptr = NewParent(q)
  BY <1>2, <1>4, <1>5 DEF NewPcb
<1>. HIDE DEF new
<1>7. pcb' \in [Procs -> [pid : 0 .. MAX_PROCESSES,
                         parent_ptr : 0 .. MAX_PROCESSES,
                         terminal_num : -1 .. NUM_TERMINALS - 1,
                         argument : Words]]
  BY <1>1, <1>2, <1>6 DEF TypeOK
<1>8. image' \in [Procs -> Words]
  BY <1>1, <1>2 DEF TypeOK
<1>9. eax' \in {SUCCESS, FAIL} /\ args' \in Words
  BY <1>1 DEF TypeOK
<1>10. process_q' \in Queues
  BY <1>1, <1>2, QueueFields
<1>11. /\ process_q'.front = Slot(m)
       /\ \A n \in 1 .. m : process_q'.pcbs[Slot(n)] = n
  BY <1>1, EnqueueShape
<1>12. PcbShape'
  <2>1. SUFFICES ASSUME NEW n \in 1 .. m
                 PROVE  /\ pcb'[n].pid = n
                        /\ pcb'[n].parent_ptr =
                             IF n <= NUM_TERMINALS THEN NULL ELSE n - 1
    BY <1>1 DEF PcbShape
  <2>a. n \in Procs
    BY <1>2, SizeAssumption DEF Procs
  <2>2. n \in Procs /\ pcb' = [pcb EXCEPT ![m] = new] /\ DOMAIN pcb = Procs
    BY <1>1, <2>a DEF TypeOK
  <2>3. CASE n = m
    <3>1. pcb'[n] = new
      BY <2>2, <2>3
    <3>2. NewParent(q) = IF n <= NUM_TERMINALS THEN NULL ELSE n - 1
      BY <2>3
    <3>. QED BY <1>6, <2>3, <3>1, <3>2
  <2>4. CASE n \in 1 .. count
    <3>1. pcb'[n] = pcb[n] /\ n \in 1 .. process_count
      BY <2>2, <2>4 DEF TypeOK
    <3>. QED BY <3>1 DEF PcbShape
  <2>. QED BY <2>3, <2>4
<1>. QED
  BY <1>1, <1>3, <1>7, <1>8, <1>9, <1>10, <1>11, <1>12

----------------------------------------------------------------------------
(* Every step keeps Inv: one lemma for each action of Process. *)

\* execute keeps Inv while the boot code creates the primary shells.
LEMMA BootShellInv == Inv /\ BootShell => Inv'
<1>. SUFFICES ASSUME Inv, BootShell PROVE Inv'
  OBVIOUS
<1>1. /\ TypeOK /\ PcbShape /\ cpu = "boot"
      /\ process_count = primary_shell_count
      /\ process_count \in 0 .. MAX_PROCESSES - 1
      /\ process_count < NUM_TERMINALS
      /\ process_q \in Queues
      /\ process_q.front = IF process_count = 0 THEN 1 ELSE Slot(process_count)
      /\ \A n \in 1 .. process_count : process_q.pcbs[Slot(n)] = n
  BY SizeAssumption
  DEF Inv, TypeOK, CountShape, QueueShape, BootShell, Queues
<1>2. program_name(<<Shell>>) \in Words /\ args_initialize(<<Shell>>) \in Words
  BY FileAssumption DEF program_name, args_initialize, num_spaces
<1>3. NewParent(process_q) =
        IF process_count + 1 <= NUM_TERMINALS THEN NULL ELSE process_count
  BY <1>1, SizeAssumption DEF NewParent
<1>4. CreateProcess(<<Shell>>, process_count, process_q)
  BY DEF BootShell
<1>5. /\ process_count' = process_count + 1
      /\ pd_user' = process_count + 1
      /\ primary_shell_count' \in 0 .. NUM_TERMINALS
      /\ process_q' \in Queues
      /\ pcb' \in [Procs -> [pid : 0 .. MAX_PROCESSES,
                            parent_ptr : 0 .. MAX_PROCESSES,
                            terminal_num : -1 .. NUM_TERMINALS - 1,
                            argument : Words]]
      /\ image' \in [Procs -> Words]
      /\ eax' \in {SUCCESS, FAIL} /\ args' \in Words
      /\ process_q'.front = Slot(process_count + 1)
      /\ \A n \in 1 .. process_count + 1 : process_q'.pcbs[Slot(n)] = n
      /\ PcbShape'
  BY <1>1, <1>2, <1>3, <1>4, CreateProcessShape
<1>6. primary_shell_count' = process_count + 1
  BY <1>1, <1>4 DEF CreateProcess
<1>7. \/ /\ process_count + 1 < NUM_TERMINALS
         /\ cpu' = "boot" /\ esp0' = esp0
      \/ /\ process_count + 1 = NUM_TERMINALS
         /\ cpu' = "user" /\ esp0' = process_count + 1
  BY <1>1, <1>6, SizeAssumption DEF BootShell, Enter, MoreShells
<1>8. TypeOK'
  BY <1>1, <1>5, <1>7, SizeAssumption DEF TypeOK, Queues
<1>9. QueueShape'
  BY <1>1, <1>5 DEF QueueShape
<1>10. CountShape'
  BY <1>1, <1>5, <1>6, <1>7, SizeAssumption DEF CountShape
<1>. QED BY <1>5, <1>8, <1>9, <1>10 DEF Inv

\* A program started by a user program keeps Inv.
LEMMA ExecuteInv ==
  ASSUME Inv, NEW command \in Commands, Execute(command) PROVE Inv'
<1>1. /\ TypeOK /\ PcbShape /\ cpu = "user"
      /\ primary_shell_count = NUM_TERMINALS
      /\ process_count \in 1 .. MAX_PROCESSES - 1
      /\ process_count >= NUM_TERMINALS
      /\ process_q \in Queues
      /\ process_q.front = Slot(process_count)
      /\ \A n \in 1 .. process_count : process_q.pcbs[Slot(n)] = n
  BY SizeAssumption
  DEF Inv, TypeOK, CountShape, QueueShape, Execute, Accepts, Queues
<1>2. program_name(command) \in Words /\ args_initialize(command) \in Words
  BY CommandWords DEF Execute, Accepts
<1>3. NewParent(process_q) =
        IF process_count + 1 <= NUM_TERMINALS THEN NULL ELSE process_count
  BY <1>1, SizeAssumption DEF NewParent, pq_peak
<1>4. CreateProcess(command, process_count, process_q)
  BY DEF Execute
<1>5. /\ process_count' = process_count + 1
      /\ pd_user' = process_count + 1
      /\ primary_shell_count' \in 0 .. NUM_TERMINALS
      /\ process_q' \in Queues
      /\ pcb' \in [Procs -> [pid : 0 .. MAX_PROCESSES,
                            parent_ptr : 0 .. MAX_PROCESSES,
                            terminal_num : -1 .. NUM_TERMINALS - 1,
                            argument : Words]]
      /\ image' \in [Procs -> Words]
      /\ eax' \in {SUCCESS, FAIL} /\ args' \in Words
      /\ process_q'.front = Slot(process_count + 1)
      /\ \A n \in 1 .. process_count + 1 : process_q'.pcbs[Slot(n)] = n
      /\ PcbShape'
  <2>1. /\ process_count \in 0 .. MAX_PROCESSES - 1
        /\ process_q.front = IF process_count = 0 THEN 1 ELSE Slot(process_count)
        /\ process_count <= process_count
    BY <1>1
  <2>. QED BY <1>1, <1>2, <1>3, <1>4, <2>1, CreateProcessShape
<1>6. primary_shell_count' = NUM_TERMINALS
  BY <1>1, <1>4, SizeAssumption DEF CreateProcess
<1>7. cpu' = "user" /\ esp0' = process_count + 1
  BY DEF Execute, Enter
<1>8. TypeOK'
  BY <1>1, <1>5, <1>7, SizeAssumption DEF TypeOK, Queues
<1>9. QueueShape'
  BY <1>1, <1>5 DEF QueueShape
<1>10. CountShape'
  BY <1>1, <1>5, <1>6, <1>7, SizeAssumption DEF CountShape
<1>. QED BY <1>5, <1>8, <1>9, <1>10 DEF Inv

\* Starting over with one shell keeps Inv: only with one terminal.
LEMMA HaltLastInv ==
  ASSUME Inv, NEW status \in Statuses, HaltLast(status) PROVE Inv'
<1>1. /\ TypeOK /\ PcbShape /\ cpu = "user"
      /\ primary_shell_count = NUM_TERMINALS
      /\ process_count = 1 /\ NUM_TERMINALS = 1
  BY SizeAssumption DEF Inv, TypeOK, CountShape, HaltLast
<1>2. program_name(<<Shell>>) \in Words /\ args_initialize(<<Shell>>) \in Words
  BY FileAssumption DEF program_name, args_initialize, num_spaces
<1>3. pq_init \in Queues /\ pq_init.front = 1
  BY SizeAssumption DEF pq_init, Queues, NULL
<1>4. NewParent(pq_init) = IF 0 + 1 <= NUM_TERMINALS THEN NULL ELSE 0
  BY <1>1, SizeAssumption DEF NewParent, pq_peak, pq_init, Slots, NULL
<1>5. CreateProcess(<<Shell>>, 0, pq_init)
  BY DEF HaltLast
<1>6. /\ process_count' = 1
      /\ pd_user' = 1
      /\ primary_shell_count' \in 0 .. NUM_TERMINALS
      /\ process_q' \in Queues
      /\ pcb' \in [Procs -> [pid : 0 .. MAX_PROCESSES,
                            parent_ptr : 0 .. MAX_PROCESSES,
                            terminal_num : -1 .. NUM_TERMINALS - 1,
                            argument : Words]]
      /\ image' \in [Procs -> Words]
      /\ eax' \in {SUCCESS, FAIL} /\ args' \in Words
      /\ process_q'.front = Slot(1)
      /\ \A n \in 1 .. 1 : process_q'.pcbs[Slot(n)] = n
      /\ PcbShape'
  <2>1. /\ 0 \in 0 .. MAX_PROCESSES - 1 /\ 0 <= process_count
        /\ \A n \in 1 .. 0 : pq_init.pcbs[Slot(n)] = n
        /\ pq_init.front = IF 0 = 0 THEN 1 ELSE Slot(0)
        /\ 0 + 1 = 1
    BY <1>1, <1>3, SizeAssumption
  <2>. HIDE DEF pq_init
  <2>. QED BY <1>1, <1>2, <1>3, <1>4, <1>5, <2>1, CreateProcessShape
<1>7. primary_shell_count' = NUM_TERMINALS
  BY <1>1, <1>5, SizeAssumption DEF CreateProcess
<1>8. cpu' = "user" /\ esp0' = 1
  BY DEF HaltLast, Enter
<1>9. TypeOK'
  BY <1>6, <1>8, SizeAssumption DEF TypeOK, Queues
<1>10. QueueShape'
  BY <1>6 DEF QueueShape
<1>11. CountShape'
  BY <1>1, <1>6, <1>7, <1>8 DEF CountShape
<1>. QED BY <1>6, <1>9, <1>10, <1>11 DEF Inv

\* The fault of a primary shell that exits keeps Inv.
LEMMA HaltOrphanInv ==
  ASSUME Inv, NEW status \in Statuses, HaltOrphan(status) PROVE Inv'
<1>1. process_q \in Queues /\ NULL \in 0 .. MAX_PROCESSES
  BY SizeAssumption DEF Inv, TypeOK, Queues, NULL
<1>2. process_q' \in Queues
  BY <1>1, QueueFields DEF HaltOrphan
<1>3. cpu = "user" /\ cpu' = "fault"
  BY DEF HaltOrphan
<1>4. UNCHANGED <<process_count, primary_shell_count, pcb, image, pd_user,
                  esp0, eax, args>>
  BY DEF HaltOrphan
<1>5. TypeOK'
  BY <1>2, <1>3, <1>4 DEF Inv, TypeOK, Queues
<1>6. QueueShape' /\ PcbShape' /\ CountShape'
  BY <1>3, <1>4 DEF Inv, QueueShape, PcbShape, CountShape
<1>. QED BY <1>5, <1>6 DEF Inv

\* halt of a process with a parent keeps Inv, nested or not.
LEMMA HaltChildInv ==
  ASSUME Inv, NEW status \in Statuses, NEW nested \in BOOLEAN,
         HaltChild(status, nested)
  PROVE  Inv'
<1>1. /\ process_q \in Queues /\ NULL \in 0 .. MAX_PROCESSES
      /\ process_q.front = Slot(process_count)
      /\ \A n \in 1 .. process_count : process_q.pcbs[Slot(n)] = n
      /\ process_count \in 2 .. MAX_PROCESSES
      /\ cpu = "user" /\ primary_shell_count = NUM_TERMINALS
  BY SizeAssumption
  DEF HaltChild, Inv, TypeOK, QueueShape, CountShape, Queues, NULL
<1>2. process_q' = pq_dequeue(process_q)
  BY DEF HaltChild
<1>3. process_q' \in Queues
  BY <1>1, <1>2, QueueFields
<1>4. /\ process_q'.front = Slot(process_count - 1)
      /\ \A n \in 1 .. process_count - 1 : process_q'.pcbs[Slot(n)] = n
  BY <1>1, <1>2, DequeueShape
<1>5. process_count > NUM_TERMINALS
  BY <1>1, SizeAssumption DEF HaltChild, Inv, PcbShape
<1>6. /\ process_count' = process_count - 1
      /\ pd_user' = process_count - 1
      /\ esp0' = process_count - 1
      /\ UNCHANGED <<primary_shell_count, pcb, image, args>>
      /\ \/ cpu' = "lost" /\ eax' = eax
         \/ cpu' = "user" /\ eax' = SUCCESS
  BY DEF HaltChild, ResumeFrame
<1>7. process_count - 1 \in 1 .. MAX_PROCESSES
  BY <1>1, SizeAssumption
<1>8. TypeOK'
  BY <1>3, <1>6, <1>7 DEF Inv, TypeOK, Queues
<1>9. QueueShape'
  BY <1>4, <1>6, <1>7 DEF QueueShape
<1>10. PcbShape'
  BY <1>1, <1>6 DEF Inv, PcbShape
<1>11. CountShape'
  BY <1>1, <1>5, <1>6, SizeAssumption DEF CountShape
<1>. QED BY <1>8, <1>9, <1>10, <1>11 DEF Inv

\* halt keeps Inv, whichever way it takes.
LEMMA HaltInv ==
  ASSUME Inv, NEW status \in Statuses, NEW nested \in BOOLEAN,
         Halt(status, nested)
  PROVE  Inv'
<1>1. CASE HaltLast(status)
  BY <1>1, HaltLastInv
<1>2. CASE HaltOrphan(status)
  BY <1>2, HaltOrphanInv
<1>3. CASE HaltChild(status, nested)
  BY <1>3, HaltChildInv
<1>. QED BY <1>1, <1>2, <1>3 DEF Halt

\* getargs changes only what it returns, and gives a word of a PCB.
LEMMA GetArgsInv ==
  ASSUME Inv, NEW null \in BOOLEAN, NEW nbytes \in BufferSizes,
         GetArgs(null, nbytes)
  PROVE  Inv'
<1>1. process_count \in Procs
  BY SizeAssumption DEF GetArgs, Inv, TypeOK, CountShape, Procs
<1>2. pcb[process_count].argument \in Words
  BY <1>1 DEF Inv, TypeOK
<1>3. eax' \in {SUCCESS, FAIL} /\ args' \in Words
  BY <1>2 DEF GetArgs, Inv, TypeOK
<1>4. UNCHANGED <<process_count, primary_shell_count, process_q, pcb, image,
                  pd_user, esp0, cpu>>
  BY DEF GetArgs
<1>5. TypeOK'
  BY <1>3, <1>4 DEF Inv, TypeOK
<1>6. QueueShape' /\ PcbShape' /\ CountShape'
  BY <1>4 DEF Inv, QueueShape, PcbShape, CountShape
<1>. QED BY <1>5, <1>6 DEF Inv

\* Every step of execute, halt and getargs keeps Inv.
LEMMA NextInv == Inv /\ [Next]_vars => Inv'
<1>. SUFFICES ASSUME Inv, [Next]_vars PROVE Inv'
  OBVIOUS
<1>1. CASE BootShell
  BY <1>1, BootShellInv
<1>2. ASSUME NEW command \in Commands, Execute(command) PROVE Inv'
  BY <1>2, ExecuteInv
<1>3. ASSUME NEW command \in Commands, ExecuteRefused(command) PROVE Inv'
  BY <1>3 DEF ExecuteRefused, Inv, TypeOK, QueueShape, PcbShape, CountShape
<1>4. ASSUME NEW status \in Statuses, NEW nested \in BOOLEAN,
             Halt(status, nested)
      PROVE  Inv'
  BY <1>4, HaltInv
<1>5. ASSUME NEW null \in BOOLEAN, NEW nbytes \in BufferSizes,
             GetArgs(null, nbytes)
      PROVE  Inv'
  BY <1>5, GetArgsInv
<1>7. ASSUME NEW null \in BOOLEAN, NEW nbytes \in BufferSizes,
             GetArgsOverrun(null, nbytes)
      PROVE  Inv'
  BY <1>7 DEF GetArgsOverrun, Inv, TypeOK, QueueShape, PcbShape, CountShape
<1>6. CASE UNCHANGED vars
  BY <1>6 DEF vars, Inv, TypeOK, QueueShape, PcbShape, CountShape
<1>. QED
  BY <1>1, <1>2, <1>3, <1>4, <1>5, <1>6, <1>7 DEF Next, Dead

(***************************************************************************)
(* The invariant of execute and halt: types, the place of every process in *)
(* the queue, the chain of parents and the counters.                       *)
(***************************************************************************)
THEOREM InvTheorem == Spec => []Inv
  BY InitInv, NextInv, PTL DEF Spec

(* Type correctness of execute and halt. *)
THEOREM TypeTheorem == Spec => []TypeOK
<1>1. Inv => TypeOK
  BY DEF Inv
<1>. QED BY <1>1, InvTheorem, PTL

(***************************************************************************)
(* Whenever a user program runs, process_count, the front of the queue,    *)
(* the mapped user page and tss.esp0 name the same process.                *)
(***************************************************************************)
THEOREM RunningProcessTheorem == Spec => []RunningProcessAgrees
<1>1. Inv => RunningProcessAgrees
  <2>. SUFFICES ASSUME Inv, cpu = "user" PROVE RunningProcessAgrees
    BY DEF RunningProcessAgrees
  <2>1. process_count \in Procs /\ process_count \in 1 .. process_count
    BY SizeAssumption DEF Inv, TypeOK, CountShape, Procs
  <2>2. pq_peak(process_q) = process_count
    BY <2>1 DEF Inv, QueueShape, pq_peak, Procs
  <2>. QED
    BY <2>1, <2>2 DEF Inv, PcbShape, CountShape, RunningProcessAgrees
<1>. QED BY <1>1, InvTheorem, PTL

(***************************************************************************)
(* Read from its front the ring lists every process, youngest first.       *)
(***************************************************************************)
THEOREM QueueTheorem == Spec => []QueueHoldsEveryProcess
<1>1. Inv => QueueHoldsEveryProcess
  <2>. SUFFICES ASSUME Inv, cpu \in {"boot", "user"},
                       NEW k \in 0 .. process_count - 1
                PROVE  process_q.pcbs[(process_q.front + k) % MAX_PROCESSES]
                         = process_count - k
    BY DEF QueueHoldsEveryProcess
  <2>1. /\ process_count \in 1 .. MAX_PROCESSES
        /\ process_q.front = Slot(process_count)
        /\ process_count - k \in 1 .. process_count
        /\ k \in Nat
        /\ process_q.pcbs[Slot(process_count - k)] = process_count - k
    BY SizeAssumption DEF Inv, TypeOK, QueueShape
  <2>2. (Slot(process_count) + k) % MAX_PROCESSES = Slot(process_count - k)
    <3>1. CASE Slot(process_count) + k \in 0 .. MAX_PROCESSES - 1
      <4>1. (Slot(process_count) + k) % MAX_PROCESSES = Slot(process_count) + k
        BY <3>1, SizeAssumption
      <4>2. Slot(process_count) + k = Slot(process_count - k)
        BY <2>1, <3>1, SizeAssumption DEF Slot
      <4>. QED BY <4>1, <4>2
    <3>2. CASE Slot(process_count) + k = MAX_PROCESSES
      <4>1. MAX_PROCESSES % MAX_PROCESSES = 0
        BY SizeAssumption
      <4>2. Slot(process_count - k) = 0
        BY <2>1, <3>2, SizeAssumption DEF Slot
      <4>. QED BY <3>2, <4>1, <4>2
    <3>3. Slot(process_count) + k \in 0 .. MAX_PROCESSES
      BY <2>1, SizeAssumption DEF Slot
    <3>. QED BY <3>1, <3>2, <3>3, SizeAssumption
  <2>. QED BY <2>1, <2>2
<1>. QED BY <1>1, InvTheorem, PTL

(***************************************************************************)
(* What halt resumes by counting down is the recorded parent.              *)
(***************************************************************************)
THEOREM HaltResumesParentTheorem == Spec => HaltResumesParent
<1>. DEFINE Resumes ==
       process_count' < process_count =>
         LET parent == pcb[process_count].parent_ptr
         IN  /\ pd_user' = parent
             /\ esp0' = parent
             /\ pq_peak(process_q') = parent
<1>1. Inv /\ [Next]_vars => [Resumes]_vars
  <2>. SUFFICES ASSUME Inv, Next, process_count' < process_count
                PROVE  Resumes
    OBVIOUS
  <2>1. process_count \in 0 .. MAX_PROCESSES
    BY DEF Inv, TypeOK
  <2>2. PICK status \in Statuses, nested \in BOOLEAN : HaltChild(status, nested)
    <3>1. ~ BootShell /\ ~ Dead
      BY <2>1 DEF BootShell, CreateProcess, Dead, vars
    <3>2. \A command \in Commands : ~ Execute(command) /\ ~ ExecuteRefused(command)
      BY <2>1 DEF Execute, CreateProcess, ExecuteRefused
    <3>3. \A status \in Statuses : ~ HaltLast(status) /\ ~ HaltOrphan(status)
      BY <2>1, SizeAssumption
      DEF HaltLast, CreateProcess, HaltOrphan, Inv, CountShape
    <3>4. \A null \in BOOLEAN, nbytes \in BufferSizes :
            ~ GetArgs(null, nbytes) /\ ~ GetArgsOverrun(null, nbytes)
      BY <2>1 DEF GetArgs, GetArgsOverrun
    <3>. QED BY <3>1, <3>2, <3>3, <3>4 DEF Next, Halt
  <2>3. /\ process_q \in Queues
        /\ process_q.front = Slot(process_count)
        /\ \A n \in 1 .. process_count : process_q.pcbs[Slot(n)] = n
        /\ process_count \in 2 .. MAX_PROCESSES
    BY <2>2, SizeAssumption
    DEF HaltChild, Inv, TypeOK, QueueShape, Queues
  <2>4. pq_peak(process_q') = process_count - 1
    BY <2>2, <2>3, DequeueShape DEF HaltChild
  <2>5. pcb[process_count].parent_ptr = process_count - 1
    BY <2>2, <2>3 DEF HaltChild, Inv, PcbShape
  <2>6. pd_user' = process_count - 1 /\ esp0' = process_count - 1
    BY <2>2 DEF HaltChild, ResumeFrame
  <2>. QED BY <2>4, <2>5, <2>6
<1>. QED BY <1>1, InvTheorem, PTL DEF Spec, HaltResumesParent

(***************************************************************************)
(* Starting and stopping a process leaves every other process's PCB and    *)
(* memory image as it was.                                                 *)
(***************************************************************************)
THEOREM OthersUntouchedTheorem == Spec => OthersUntouched
<1>. DEFINE Untouched ==
       \A n \in Procs :
         /\ n <= process_count /\ n <= process_count'
         /\ n < process_count \/ n < process_count'
         => pcb'[n] = pcb[n] /\ image'[n] = image[n]
<1>1. Inv /\ [Next]_vars => [Untouched]_vars
  <2>. SUFFICES ASSUME Inv, Next, NEW n \in Procs,
                       n <= process_count, n <= process_count',
                       n < process_count \/ n < process_count'
                PROVE  pcb'[n] = pcb[n] /\ image'[n] = image[n]
    OBVIOUS
  <2>1. /\ process_count \in 0 .. MAX_PROCESSES
        /\ DOMAIN pcb = Procs /\ DOMAIN image = Procs
    BY DEF Inv, TypeOK
  <2>2. ASSUME NEW command, CreateProcess(command, process_count, process_q)
        PROVE  pcb'[n] = pcb[n] /\ image'[n] = image[n]
    <3>1. n # process_count + 1
      BY <2>1 DEF Procs
    <3>. QED BY <2>1, <2>2, <3>1 DEF CreateProcess, LoadFrame
  <2>3. CASE BootShell
    BY <2>2, <2>3 DEF BootShell
  <2>4. ASSUME NEW command \in Commands, Execute(command)
        PROVE  pcb'[n] = pcb[n] /\ image'[n] = image[n]
    BY <2>2, <2>4 DEF Execute
  <2>5. ASSUME NEW status \in Statuses
        PROVE  ~ HaltLast(status)
    BY <2>1, SizeAssumption DEF HaltLast, CreateProcess, Procs
  <2>6. CASE pcb' = pcb /\ image' = image
    BY <2>6
  <2>. QED
    BY <2>3, <2>4, <2>5, <2>6
    DEF Next, Halt, GetArgs, GetArgsOverrun, ExecuteRefused, HaltOrphan,
        HaltChild, Dead, vars
<1>. QED BY <1>1, InvTheorem, PTL DEF Spec, OthersUntouched

----------------------------------------------------------------------------
(***************************************************************************)
(* The terminals of processes, the primary shells and the stack of         *)
(* processes that execute, halt and getargs implement.                     *)
(*                                                                         *)
(* Two parts are added to Inv: what each page of a primary shell holds     *)
(* (ShellShape) and the terminal of every process (TerminalShape).  With   *)
(* one terminal halt would create its new shell for terminal -1, because   *)
(* primary_shell_count is not reset, so what depends on TerminalShape is   *)
(* proved for two terminals or more; the code has three.                   *)
(***************************************************************************)
ShellShape ==
  \A n \in 1 .. process_count : n <= NUM_TERMINALS => image[n] = Shell

TerminalShape ==
  \A n \in 1 .. process_count :
    pcb[n].terminal_num = IF n <= NUM_TERMINALS THEN NUM_TERMINALS - n ELSE 0

----------------------------------------------------------------------------
(***************************************************************************)
(* A process created on top of the ones that exist: its own PCB and page   *)
(* are written, those below it are not.                                    *)
(***************************************************************************)
LEMMA CreateOnTop ==
  ASSUME Inv, NEW command, process_count < MAX_PROCESSES,
         CreateProcess(command, process_count, process_q)
  PROVE  LET m == process_count + 1
         IN  /\ process_count' = m
             /\ image'[m] = program_name(command)
             /\ pcb'[m].argument = args_initialize(command)
             /\ pcb'[m].terminal_num = NewTerminal(NewParent(process_q))
             /\ \A n \in 1 .. process_count :
                  pcb'[n] = pcb[n] /\ image'[n] = image[n]
             /\ args' = args
<1>. DEFINE m == process_count + 1
<1>1. /\ process_count \in 0 .. MAX_PROCESSES - 1
      /\ DOMAIN pcb = Procs /\ DOMAIN image = Procs
      /\ m \in Procs
  BY SizeAssumption DEF Inv, TypeOK, Procs
<1>2. /\ process_count' = m
      /\ image' = [image EXCEPT ![m] = program_name(command)]
      /\ pcb' = [pcb EXCEPT ![m] = NewPcb(command, m, process_q)]
      /\ args' = args
  BY DEF CreateProcess, LoadFrame
<1>3. pcb'[m] = NewPcb(command, m, process_q) /\ image'[m] = program_name(command)
  BY <1>1, <1>2
<1>4. ASSUME NEW n \in 1 .. process_count
      PROVE  pcb'[n] = pcb[n] /\ image'[n] = image[n]
  <2>1. n \in Procs /\ n # m
    BY <1>1, SizeAssumption DEF Procs
  <2>. QED BY <1>1, <1>2, <2>1
<1>. QED BY <1>2, <1>3, <1>4 DEF NewPcb

\* The parent and the terminal of a process created on top of the others.
LEMMA TerminalOnTop ==
  ASSUME Inv, TerminalShape, process_count < MAX_PROCESSES,
         cpu \in {"boot", "user"}
  PROVE  NewTerminal(NewParent(process_q)) =
           IF process_count < NUM_TERMINALS
           THEN NUM_TERMINALS - process_count - 1 ELSE 0
<1>1. /\ process_count \in 0 .. MAX_PROCESSES - 1
      /\ primary_shell_count \in 0 .. NUM_TERMINALS
      /\ cpu = "boot" => /\ process_count = primary_shell_count
                         /\ process_count < NUM_TERMINALS
      /\ cpu = "user" => /\ primary_shell_count = NUM_TERMINALS
                         /\ process_count >= NUM_TERMINALS
  BY SizeAssumption DEF Inv, TypeOK, CountShape
<1>2. CASE cpu = "boot"
  BY <1>1, <1>2, SizeAssumption DEF NewTerminal, NewParent
<1>3. CASE cpu = "user"
  <2>1. process_count \in 1 .. process_count
    BY <1>1, <1>3, SizeAssumption
  <2>2. pq_peak(process_q) = process_count
    BY <1>1, <1>3, <2>1 DEF Inv, QueueShape, pq_peak
  <2>3. NewParent(process_q) = process_count
    BY <1>1, <1>3, <2>2, SizeAssumption DEF NewParent
  <2>4. NewTerminal(process_count) = pcb[process_count].terminal_num
    BY <2>1 DEF NewTerminal, NULL
  <2>5. pcb[process_count].terminal_num = 0
    BY <1>1, <1>3, <2>1, SizeAssumption DEF TerminalShape
  <2>. QED BY <1>1, <1>3, <2>3, <2>4, <2>5, SizeAssumption
<1>. QED BY <1>2, <1>3

(***************************************************************************)
(* Every step of Process is one of five for what follows: a shell created  *)
(* by the boot code, a program started, the single terminal's restart, the *)
(* top process removed, or one that leaves processes and pages alone.      *)
(***************************************************************************)
LEMMA StepCases ==
  ASSUME Inv, [Next]_vars
  PROVE  \/ BootShell
         \/ \E command \in Commands : Execute(command)
         \/ NUM_TERMINALS = 1 /\ \E status \in Statuses : HaltLast(status)
         \/ \E status \in Statuses, nested \in BOOLEAN : HaltChild(status, nested)
         \/ UNCHANGED <<process_count, primary_shell_count, pcb, image>>
<1>1. ASSUME NEW status \in Statuses, HaltLast(status)
      PROVE  NUM_TERMINALS = 1
  BY <1>1, SizeAssumption DEF Inv, TypeOK, CountShape, HaltLast
<1>2. ASSUME NEW status \in Statuses, HaltOrphan(status)
      PROVE  UNCHANGED <<process_count, primary_shell_count, pcb, image>>
  BY <1>2 DEF HaltOrphan
<1>3. ASSUME NEW command \in Commands, ExecuteRefused(command)
      PROVE  UNCHANGED <<process_count, primary_shell_count, pcb, image>>
  BY <1>3 DEF ExecuteRefused
<1>4. ASSUME NEW null \in BOOLEAN, NEW nbytes \in BufferSizes,
             GetArgs(null, nbytes) \/ GetArgsOverrun(null, nbytes)
      PROVE  UNCHANGED <<process_count, primary_shell_count, pcb, image>>
  BY <1>4 DEF GetArgs, GetArgsOverrun
<1>5. Dead \/ UNCHANGED vars =>
        UNCHANGED <<process_count, primary_shell_count, pcb, image>>
  BY DEF Dead, vars
<1>. QED
  BY <1>1, <1>2, <1>3, <1>4, <1>5 DEF Next, Halt

----------------------------------------------------------------------------
\* The pages of the primary shells keep the shell.
LEMMA ShellStep == Inv /\ ShellShape /\ [Next]_vars => ShellShape'
<1>. SUFFICES ASSUME Inv, ShellShape, [Next]_vars PROVE ShellShape'
  OBVIOUS
<1>0. process_count \in 0 .. MAX_PROCESSES
  BY DEF Inv, TypeOK
<1>1. CASE BootShell
  <2>1. process_count < MAX_PROCESSES
    BY <1>0, <1>1, SizeAssumption DEF Inv, CountShape, BootShell
  <2>2. CreateProcess(<<Shell>>, process_count, process_q)
    BY <1>1 DEF BootShell
  <2>3. program_name(<<Shell>>) = Shell
    BY DEF program_name
  <2>4. /\ process_count' = process_count + 1
        /\ image'[process_count + 1] = Shell
        /\ \A n \in 1 .. process_count : image'[n] = image[n]
    BY <2>1, <2>2, <2>3, CreateOnTop
  <2>. QED BY <1>0, <2>4 DEF ShellShape
<1>2. ASSUME NEW command \in Commands, Execute(command) PROVE ShellShape'
  <2>1. process_count >= NUM_TERMINALS /\ process_count < MAX_PROCESSES
    BY <1>2 DEF Inv, CountShape, Execute, Accepts
  <2>2. CreateProcess(command, process_count, process_q)
    BY <1>2 DEF Execute
  <2>3. /\ process_count' = process_count + 1
        /\ \A n \in 1 .. process_count : image'[n] = image[n]
    BY <2>1, <2>2, CreateOnTop
  <2>. QED BY <1>0, <2>1, <2>3, SizeAssumption DEF ShellShape
<1>3. ASSUME NEW status \in Statuses, HaltLast(status) PROVE ShellShape'
  <2>1. process_count' = 1 /\ image' = [image EXCEPT ![1] = Shell]
    BY <1>3 DEF HaltLast, CreateProcess, LoadFrame, program_name
  <2>2. 1 \in DOMAIN image
    BY SizeAssumption DEF Inv, TypeOK, Procs
  <2>. QED BY <2>1, <2>2 DEF ShellShape
<1>4. ASSUME NEW status \in Statuses, NEW nested \in BOOLEAN,
             HaltChild(status, nested)
      PROVE  ShellShape'
  BY <1>0, <1>4 DEF HaltChild, ShellShape
<1>5. CASE UNCHANGED <<process_count, primary_shell_count, pcb, image>>
  BY <1>5 DEF ShellShape
<1>. QED BY <1>1, <1>2, <1>3, <1>4, <1>5, StepCases

(***************************************************************************)
(* Once the boot code is done the primary shells are never removed and     *)
(* never overwritten, however many programs execute and halt run on top.   *)
(***************************************************************************)
THEOREM PrimaryShellsTheorem == Spec => []PrimaryShellsStay
<1>1. Init => ShellShape
  BY DEF Init, ShellShape
<1>2. Inv /\ ShellShape => PrimaryShellsStay
  BY SizeAssumption DEF Inv, TypeOK, CountShape, ShellShape, PrimaryShellsStay
<1>. QED BY <1>1, <1>2, ShellStep, InvTheorem, PTL DEF Spec

\* A program started later runs in its parent's terminal, terminal 0.
LEMMA TerminalStep ==
  NUM_TERMINALS >= 2 /\ Inv /\ TerminalShape /\ [Next]_vars => TerminalShape'
<1>. SUFFICES ASSUME NUM_TERMINALS >= 2, Inv, TerminalShape, [Next]_vars
              PROVE  TerminalShape'
  OBVIOUS
<1>0. process_count \in 0 .. MAX_PROCESSES
  BY DEF Inv, TypeOK
<1>1. ASSUME NEW command, process_count < MAX_PROCESSES,
             cpu \in {"boot", "user"},
             CreateProcess(command, process_count, process_q)
      PROVE  TerminalShape'
  <2>1. /\ process_count' = process_count + 1
        /\ pcb'[process_count + 1].terminal_num =
             IF process_count < NUM_TERMINALS
             THEN NUM_TERMINALS - process_count - 1 ELSE 0
        /\ \A n \in 1 .. process_count : pcb'[n] = pcb[n]
    BY <1>1, CreateOnTop, TerminalOnTop
  <2>. SUFFICES ASSUME NEW n \in 1 .. process_count + 1
                PROVE  pcb'[n].terminal_num =
                         IF n <= NUM_TERMINALS THEN NUM_TERMINALS - n ELSE 0
    BY <2>1 DEF TerminalShape
  <2>2. CASE n = process_count + 1
    BY <1>0, <2>1, <2>2, SizeAssumption
  <2>3. CASE n \in 1 .. process_count
    BY <2>1, <2>3 DEF TerminalShape
  <2>. QED BY <1>0, <2>2, <2>3
<1>2. CASE BootShell
  <2>1. process_count < MAX_PROCESSES
    BY <1>0, <1>2, SizeAssumption DEF Inv, CountShape, BootShell
  <2>. QED BY <1>1, <1>2, <2>1 DEF BootShell
<1>3. ASSUME NEW command \in Commands, Execute(command) PROVE TerminalShape'
  BY <1>1, <1>3 DEF Execute, Accepts
<1>4. ASSUME NEW status \in Statuses, NEW nested \in BOOLEAN,
             HaltChild(status, nested)
      PROVE  TerminalShape'
  BY <1>0, <1>4 DEF HaltChild, TerminalShape
<1>5. CASE UNCHANGED <<process_count, primary_shell_count, pcb, image>>
  BY <1>5 DEF TerminalShape
<1>. QED BY <1>2, <1>3, <1>4, <1>5, StepCases

\* The terminal of every process, for two terminals or more.
LEMMA TerminalInv ==
  ASSUME NUM_TERMINALS >= 2 PROVE Spec => []TerminalShape
<1>1. Init => TerminalShape
  BY DEF Init, TerminalShape
<1>2. Inv /\ TerminalShape /\ [Next]_vars => TerminalShape'
  BY TerminalStep
<1>. QED BY <1>1, <1>2, InvTheorem, PTL DEF Spec

(***************************************************************************)
(* With two terminals or more a program runs in its parent's terminal, the *)
(* processes without a parent are one shell on each terminal, and the one  *)
(* that runs is always one of terminal 0.                                  *)
(***************************************************************************)
THEOREM TerminalsTheorem ==
  ASSUME NUM_TERMINALS >= 2 PROVE Spec => []TerminalsOfProcesses
<1>1. Inv /\ TerminalShape => TerminalsOfProcesses
  <2>. SUFFICES ASSUME Inv, TerminalShape, cpu \in {"user", "fault", "overrun"}
                PROVE  TerminalsOfProcesses
    BY DEF TerminalsOfProcesses
  <2>1. process_count \in NUM_TERMINALS .. MAX_PROCESSES
    BY SizeAssumption DEF Inv, TypeOK, CountShape
  <2>2. ASSUME NEW n \in 1 .. process_count, n <= NUM_TERMINALS
        PROVE  pcb[n].parent_ptr = NULL /\ pcb[n].terminal_num = NUM_TERMINALS - n
    BY <2>2 DEF Inv, PcbShape, TerminalShape
  <2>3. ASSUME NEW n \in 1 .. process_count, ~(n <= NUM_TERMINALS)
        PROVE  pcb[n].parent_ptr = n - 1
               /\ pcb[n].terminal_num = pcb[n - 1].terminal_num
    <3>1. n - 1 \in 1 .. process_count /\ n - 1 >= NUM_TERMINALS
      BY <2>1, <2>3, SizeAssumption
    <3>2. pcb[n - 1].terminal_num = 0 /\ pcb[n].terminal_num = 0
      BY <2>3, <3>1, SizeAssumption DEF TerminalShape
    <3>. QED BY <2>3, <3>2 DEF Inv, PcbShape
  <2>4. pcb[process_count].terminal_num = 0
    BY <2>1, SizeAssumption DEF TerminalShape
  <2>. QED BY <2>2, <2>3, <2>4 DEF TerminalsOfProcesses
<1>. QED BY <1>1, TerminalInv, InvTheorem, PTL
----------------------------------------------------------------------------
(* The refinement of ProcessStack. *)

\* The kernel's tables read as a stack: a sequence of abstract processes.
StackTyped == StackOf \in Seq(Abstract!Process) /\ Len(StackOf) = process_count

\* The invariant makes it one.
LEMMA StackType == Inv => StackTyped
<1>. SUFFICES ASSUME Inv PROVE StackTyped
  OBVIOUS
<1>1. process_count \in Nat /\ process_count <= MAX_PROCESSES
  BY SizeAssumption DEF Inv, TypeOK
<1>2. ASSUME NEW n \in 1 .. process_count
      PROVE  [program  |-> image[n], argument |-> pcb[n].argument,
              terminal |-> pcb[n].terminal_num] \in Abstract!Process
  <2>1. n \in Procs
    BY <1>1, SizeAssumption DEF Procs
  <2>2. /\ image[n] \in Words /\ pcb[n].argument \in Words
        /\ pcb[n].terminal_num \in -1 .. NUM_TERMINALS - 1
    BY <2>1 DEF Inv, TypeOK
  <2>3. pcb[n].terminal_num \in Int
    BY <2>2, SizeAssumption
  <2>. QED BY <2>2, <2>3 DEF Abstract!Process
<1>3. StackOf \in [1 .. process_count -> Abstract!Process]
  BY <1>2 DEF StackOf
<1>4. StackOf \in Seq(Abstract!Process)
  BY <1>1, <1>3, SeqDef
<1>5. Len(StackOf) = process_count
  BY <1>1, <1>3, <1>4, LenProperties
<1>. QED BY <1>4, <1>5 DEF StackTyped

\* A process created on top of the others is appended to the stack.
LEMMA StackGrows ==
  ASSUME Inv, Inv', NEW command, process_count < MAX_PROCESSES,
         CreateProcess(command, process_count, process_q)
  PROVE  StackOf' = Append(StackOf,
                      [program  |-> program_name(command),
                       argument |-> args_initialize(command),
                       terminal |-> NewTerminal(NewParent(process_q))])
<1>. DEFINE m == process_count + 1
            top == [program  |-> program_name(command),
                    argument |-> args_initialize(command),
                    terminal |-> NewTerminal(NewParent(process_q))]
<1>1. /\ process_count' = m
      /\ image'[m] = program_name(command)
      /\ pcb'[m].argument = args_initialize(command)
      /\ pcb'[m].terminal_num = NewTerminal(NewParent(process_q))
      /\ \A n \in 1 .. process_count : pcb'[n] = pcb[n] /\ image'[n] = image[n]
  BY CreateOnTop
<1>2. StackOf \in Seq(Abstract!Process) /\ Len(StackOf) = process_count
  BY StackType DEF StackTyped
<1>3. StackOf' \in Seq(Abstract!Process) /\ Len(StackOf') = m
  <2>1. StackOf' \in Seq(Abstract!Process) /\ Len(StackOf') = process_count'
    <3>1. StackTyped'
      BY StackType, PTL
    <3>. QED BY <3>1 DEF StackTyped
  <2>. QED BY <1>1, <2>1
<1>4. process_count \in Nat
  BY SizeAssumption DEF Inv, TypeOK
<1>5. StackOf'[m] = top
  BY <1>1, <1>4 DEF StackOf
<1>6. \A n \in 1 .. process_count : StackOf'[n] = StackOf[n]
  BY <1>1, <1>4 DEF StackOf
<1>7. top \in Abstract!Process
  BY <1>3, <1>4, <1>5, ElementOfSeq
<1>. HIDE DEF top
<1>8. /\ Append(StackOf, top) \in Seq(Abstract!Process)
      /\ Len(Append(StackOf, top)) = m
      /\ \A n \in 1 .. process_count : Append(StackOf, top)[n] = StackOf[n]
      /\ Append(StackOf, top)[m] = top
  BY <1>2, <1>4, <1>7, AppendProperties
<1>9. \A n \in 1 .. m : StackOf'[n] = Append(StackOf, top)[n]
  <2>. TAKE n \in 1 .. m
  <2>1. n = m \/ n \in 1 .. process_count
    BY <1>4
  <2>. QED BY <1>5, <1>6, <1>8, <2>1
<1>10. StackOf' = Append(StackOf, top)
  BY <1>3, <1>8, <1>9, SeqEqual
<1>. QED BY <1>10 DEF top

\* The boot state is an empty stack that is booting.
LEMMA AbstractInit == Init => Abstract!Init
<1>. SUFFICES ASSUME Init PROVE Abstract!Init
  OBVIOUS
<1>1. StackOf = << >>
  <2>1. process_count = 0
    BY DEF Init
  <2>2. Len(StackOf) = 0 /\ StackOf \in Seq(Abstract!Process)
    BY <2>1, InitInv, StackType DEF StackTyped
  <2>. QED BY <2>2, EmptySeq
<1>. QED BY <1>1 DEF Init, Abstract!Init, StateOf

(***************************************************************************)
(* Every step of execute, halt and getargs is a step of the stack or       *)
(* leaves it alone.                                                        *)
(***************************************************************************)
LEMMA AbstractStep ==
  NUM_TERMINALS >= 2 /\ Inv /\ Inv' /\ TerminalShape /\ [Next]_vars
    => [Abstract!Next]_(Abstract!vars)
<1>. SUFFICES ASSUME NUM_TERMINALS >= 2, Inv, Inv', TerminalShape, [Next]_vars
              PROVE  [Abstract!Next]_(Abstract!vars)
  OBVIOUS
<1>0. /\ process_count \in 0 .. MAX_PROCESSES
      /\ StackOf \in Seq(Abstract!Process) /\ Len(StackOf) = process_count
      /\ \A n \in 1 .. process_count :
           /\ StackOf[n].argument = pcb[n].argument
           /\ StackOf[n].terminal = pcb[n].terminal_num
  BY StackType DEF StackTyped, StackOf, Inv, TypeOK
<1>1. CASE BootShell
  <2>1. /\ cpu = "boot" /\ process_count < NUM_TERMINALS
        /\ process_count < MAX_PROCESSES
        /\ process_count = primary_shell_count
    BY <1>0, <1>1, SizeAssumption DEF Inv, CountShape, BootShell
  <2>2. CreateProcess(<<Shell>>, process_count, process_q)
    BY <1>1 DEF BootShell
  <2>3. program_name(<<Shell>>) = Shell /\ args_initialize(<<Shell>>) = EmptyWord
    BY DEF program_name, args_initialize, num_spaces
  <2>4. NewTerminal(NewParent(process_q)) = NUM_TERMINALS - process_count - 1
    BY <2>1, TerminalOnTop
  <2>5. StackOf' = Append(StackOf, [program  |-> Shell,
                                    argument |-> EmptyWord,
                                    terminal |-> NUM_TERMINALS - Len(StackOf) - 1])
    BY <1>0, <2>1, <2>2, <2>3, <2>4, StackGrows
  <2>6. args' = args /\ primary_shell_count' = process_count + 1
    BY <2>1, <2>2 DEF CreateProcess
  <2>7. cpu' = IF process_count + 1 < NUM_TERMINALS THEN "boot" ELSE "user"
    BY <1>1, <2>1, <2>6 DEF BootShell, MoreShells, Enter
  <2>8. /\ StateOf = "booting"
        /\ StateOf' = IF Len(StackOf) + 1 < NUM_TERMINALS
                       THEN "booting" ELSE "running"
    BY <1>0, <2>1, <2>7 DEF StateOf
  <2>9. Abstract!Boot
    BY <2>5, <2>6, <2>8 DEF Abstract!Boot
  <2>. QED BY <2>9 DEF Abstract!Next
<1>2. ASSUME NEW command \in Commands, Execute(command)
      PROVE  [Abstract!Next]_(Abstract!vars)
  <2>1. /\ cpu = "user" /\ process_count < MAX_PROCESSES
        /\ process_count \in 1 .. process_count
        /\ process_count >= NUM_TERMINALS
    BY <1>0, <1>2, SizeAssumption DEF Inv, CountShape, Execute, Accepts
  <2>2. CreateProcess(command, process_count, process_q)
    BY <1>2 DEF Execute
  <2>3. program_name(command) \in Words /\ args_initialize(command) \in Words
    BY <1>2, CommandWords DEF Execute, Accepts
  <2>4. /\ NewTerminal(NewParent(process_q)) = 0
        /\ pcb[process_count].terminal_num = 0
    BY <2>1, TerminalOnTop, SizeAssumption DEF TerminalShape
  <2>5. StackOf' = Append(StackOf, [program  |-> program_name(command),
                                    argument |-> args_initialize(command),
                                    terminal |-> StackOf[Len(StackOf)].terminal])
    BY <1>0, <2>1, <2>2, <2>4, StackGrows
  <2>6. args' = args /\ cpu' = "user"
    BY <1>2, <2>2 DEF CreateProcess, Execute, Enter
  <2>7. StateOf = "running" /\ StateOf' = "running"
    BY <2>1, <2>6 DEF StateOf
  <2>8. Abstract!Start(program_name(command), args_initialize(command))
    BY <1>0, <2>1, <2>5, <2>6, <2>7 DEF Abstract!Start
  <2>. QED BY <2>3, <2>8 DEF Abstract!Next
<1>3. ASSUME NEW status \in Statuses, NEW nested \in BOOLEAN,
             HaltChild(status, nested)
      PROVE  [Abstract!Next]_(Abstract!vars)
  <2>1. /\ cpu = "user" /\ cpu' \in {"user", "lost"}
        /\ process_count' = process_count - 1
        /\ pcb' = pcb /\ image' = image /\ args' = args
    BY <1>3 DEF HaltChild
  <2>2. process_count > NUM_TERMINALS
    BY <1>0, <1>3, SizeAssumption DEF HaltChild, Inv, PcbShape
  <2>3. /\ StackOf' \in Seq(Abstract!Process)
        /\ Len(StackOf') = process_count - 1
    <3>1. StackOf' \in Seq(Abstract!Process) /\ Len(StackOf') = process_count'
      <4>1. StackTyped'
        BY StackType, PTL
      <4>. QED BY <4>1 DEF StackTyped
    <3>. QED BY <2>1, <3>1
  <2>4. \A n \in 1 .. process_count - 1 : StackOf'[n] = StackOf[n]
    BY <1>0, <2>1 DEF StackOf
  <2>5. StackOf' = SubSeq(StackOf, 1, Len(StackOf) - 1)
    <3>. DEFINE rest == SubSeq(StackOf, 1, process_count - 1)
    <3>1. /\ 1 \in Int /\ process_count - 1 \in Int
          /\ 1 <= process_count - 1
          /\ \A i \in 1 .. process_count - 1 : StackOf[i] \in Abstract!Process
      BY <1>0, <2>2, ElementOfSeq, SizeAssumption
    <3>2. /\ rest \in Seq(Abstract!Process)
          /\ Len(rest) = IF 1 <= process_count - 1
                          THEN (process_count - 1) - 1 + 1 ELSE 0
          /\ \A i \in 1 .. (process_count - 1) - 1 + 1 : rest[i] = StackOf[1 + i - 1]
      BY <3>1, SubSeqProperties
    <3>3. Len(rest) = process_count - 1
      BY <1>0, <3>1, <3>2
    <3>4. \A i \in 1 .. process_count - 1 : rest[i] = StackOf[i]
      BY <1>0, <3>2
    <3>. HIDE DEF rest
    <3>5. StackOf' = rest
      BY <2>3, <2>4, <3>2, <3>3, <3>4, SeqEqual
    <3>. QED BY <1>0, <3>5 DEF rest
  <2>6. StateOf = "running" /\ StateOf' \in {"running", "stopped"}
    BY <2>1 DEF StateOf
  <2>7. Abstract!Exit
    BY <1>0, <2>1, <2>2, <2>5, <2>6 DEF Abstract!Exit
  <2>. QED BY <2>7 DEF Abstract!Next
<1>4. ASSUME NEW status \in Statuses, HaltOrphan(status)
      PROVE  [Abstract!Next]_(Abstract!vars)
  <2>1. /\ cpu = "user" /\ cpu' = "fault"
        /\ UNCHANGED <<process_count, pcb, image, args>>
        /\ pcb[process_count].parent_ptr = NULL
    BY <1>4 DEF HaltOrphan
  <2>2. process_count = NUM_TERMINALS
    BY <1>0, <2>1, SizeAssumption DEF Inv, PcbShape, CountShape, NULL
  <2>3. StackOf' = StackOf
    BY <2>1 DEF StackOf
  <2>4. StateOf = "running" /\ StateOf' = "stopped"
    BY <2>1 DEF StateOf
  <2>5. Abstract!ExitPrimary
    BY <1>0, <2>1, <2>2, <2>3, <2>4 DEF Abstract!ExitPrimary
  <2>. QED BY <2>5 DEF Abstract!Next
<1>5. ASSUME NEW null \in BOOLEAN, NEW nbytes \in BufferSizes,
             GetArgs(null, nbytes)
      PROVE  [Abstract!Next]_(Abstract!vars)
  <2>1. cpu = "user" /\ UNCHANGED <<process_count, pcb, image, cpu>>
    BY <1>5 DEF GetArgs
  <2>2. StackOf' = StackOf /\ StateOf' = StateOf /\ StateOf = "running"
    BY <2>1 DEF StackOf, StateOf
  <2>3. CASE GivesArgs(null, nbytes)
    <3>1. process_count \in 1 .. process_count
      BY <1>0, <2>1, SizeAssumption DEF Inv, CountShape
    <3>2. pcb[process_count].argument # EmptyWord
      BY <2>3, FileAssumption DEF GivesArgs, HasArgs, argument_length
    <3>3. StackOf[Len(StackOf)].argument = pcb[process_count].argument
      BY <1>0, <3>1
    <3>4. args' = pcb[process_count].argument
      BY <1>5, <2>3 DEF GetArgs
    <3>5. Abstract!GetArgument
      BY <2>2, <3>2, <3>3, <3>4 DEF Abstract!GetArgument
    <3>. QED BY <3>5 DEF Abstract!Next
  <2>4. CASE ~ GivesArgs(null, nbytes)
    <3>1. args' = args
      BY <1>5, <2>4 DEF GetArgs
    <3>. QED BY <2>2, <3>1 DEF Abstract!vars
  <2>. QED BY <2>3, <2>4
<1>6. ASSUME UNCHANGED <<process_count, pcb, image, cpu, args>>
      PROVE  [Abstract!Next]_(Abstract!vars)
  <2>1. StackOf' = StackOf /\ StateOf' = StateOf
    BY <1>6 DEF StackOf, StateOf
  <2>. QED BY <1>6, <2>1 DEF Abstract!vars
<1>7. ASSUME NEW command \in Commands, ExecuteRefused(command)
      PROVE  [Abstract!Next]_(Abstract!vars)
  BY <1>6, <1>7 DEF ExecuteRefused
<1>8. CASE Dead \/ UNCHANGED vars
  BY <1>6, <1>8 DEF Dead, vars
<1>9. ASSUME NEW status \in Statuses, NEW nested \in BOOLEAN,
             Halt(status, nested)
      PROVE  [Abstract!Next]_(Abstract!vars)
  <2>1. ~ HaltLast(status)
    BY <1>0, SizeAssumption DEF HaltLast, Inv, CountShape
  <2>2. HaltOrphan(status) \/ HaltChild(status, nested)
    BY <1>9, <2>1 DEF Halt
  <2>. QED BY <1>3, <1>4, <2>2
<1>10. ASSUME NEW null \in BOOLEAN, NEW nbytes \in BufferSizes,
              GetArgsOverrun(null, nbytes)
       PROVE  [Abstract!Next]_(Abstract!vars)
  <2>1. /\ cpu = "user" /\ cpu' = "overrun" /\ HasArgs(null)
        /\ UNCHANGED <<process_count, pcb, image, args>>
    BY <1>10 DEF GetArgsOverrun, Overruns
  <2>2. /\ StackOf' = StackOf /\ StateOf = "running" /\ StateOf' = "stopped"
    BY <2>1 DEF StackOf, StateOf
  <2>3. process_count \in 1 .. process_count
    BY <1>0, <2>1, SizeAssumption DEF Inv, CountShape
  <2>4. pcb[process_count].argument # EmptyWord
    BY <2>1, FileAssumption DEF HasArgs, argument_length
  <2>5. StackOf[Len(StackOf)].argument = pcb[process_count].argument
    BY <1>0, <2>3
  <2>6. Abstract!Overrun
    BY <2>1, <2>2, <2>4, <2>5 DEF Abstract!Overrun
  <2>. QED BY <2>6 DEF Abstract!Next
<1>. QED
  BY <1>1, <1>2, <1>5, <1>7, <1>8, <1>9, <1>10 DEF Next

(***************************************************************************)
(* With two terminals or more execute, halt and getargs implement the      *)
(* stack of processes that user programs rely on.                          *)
(***************************************************************************)
THEOREM RefinementTheorem ==
  ASSUME NUM_TERMINALS >= 2 PROVE Spec => ImplementsProcessStack
<1>1. Inv /\ Inv' /\ TerminalShape /\ [Next]_vars
        => [Abstract!Next]_(Abstract!vars)
  BY AbstractStep
<1>. QED
  BY <1>1, AbstractInit, TerminalInv, InvTheorem, PTL
  DEF Spec, ImplementsProcessStack, Abstract!Spec
=============================================================================
