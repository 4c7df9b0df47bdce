----------------------- MODULE FileDescriptorsProofs -----------------------
(***************************************************************************)
(* Proofs about FileDescriptors for any directory, any number of           *)
(* descriptors and processes and any garbage on the kernel stack.          *)
(*                                                                         *)
(* The properties of single descriptors are inductive together (Entries-   *)
(* Fine): the type of a position needs that it is within the file, that    *)
(* needs that an open file is in the directory, and what a fault shows     *)
(* needs the drivers of the others.  The order of listings depends on one  *)
(* static counter shared by all open directories, so it needs to be known  *)
(* of them all (ListShape): only one is in the middle of a listing, and    *)
(* the counter is its own.                                                 *)
(*                                                                         *)
(* What syserr needs is said by the calls it has left (SysErrInv): where   *)
(* in them those of err_open_lots are, and which descriptors the ones made *)
(* so far have left in use.  Its steps are calls any program can make, or  *)
(* have no effect (StepIsStep), so the results carry over to SysErrSpec.   *)
(***************************************************************************)
EXTENDS SysErr, TLAPS, WellFoundedInduction

\* What is true of descriptor fd with entry e and history h.
EntryFine(fd, e, h) ==
  /\ e.in_use = (fd <= 1 \/ h.opened \/ h.leftover)
  /\ fd <= 1 \/ h.opened => e.fop_ptr \notin {"NULL", "junk", "stale"}
  /\ e.in_use /\ e.fop_ptr = "file" =>
       /\ read_dentry_by_name(e.file_name) \in DOMAIN Dentries
       /\ e.file_pos = h.count
       /\ e.file_pos <= Dentries[read_dentry_by_name(e.file_name)].length

EntriesFine ==
  \A p \in 1 .. process_count, fd \in Fds :
    EntryFine(fd, fde[p][fd], history[p][fd])

\* The calls that fault.
FaultShape ==
  cpu = "fault" => \/ call.fd \in Fds /\ Hist[call.fd].leftover
                   \/ call.op = "close" /\ call.fd \in FarFds
                   \/ call.op = "read" /\ call.nbytes < 0

Inv == TypeOK /\ EntriesFine /\ FaultShape

\* The directories that are being listed and the counter they share.
ListShape ==
  /\ \A p \in 1 .. process_count, fd \in Fds :
       Listing(p, fd) => history[p][fd].count = dir_read_count
  /\ \A p, q \in 1 .. process_count, fd, gd \in Fds :
       Listing(p, fd) /\ Listing(q, gd) => p = q /\ fd = gd
  /\ dir_read_count > 0 =>
       \E p \in 1 .. process_count, fd \in Fds : Listing(p, fd)

Drivers == Types \cup {"NULL", "junk", "terminal", "stale"}

Entries == [fop_ptr : Drivers, file_name : Names \cup {""}, file_pos : Nat,
            in_use : BOOLEAN]

Histories == [opened : BOOLEAN, count : Nat, leftover : BOOLEAN]

----------------------------------------------------------------------------
(* The operators of the model. *)

\* A set of numbers that is not empty has a smallest one.
LEMMA Smallest ==
  ASSUME NEW T, T \subseteq Nat, T # {}
  PROVE  \E x \in T : \A y \in T : x <= y
<1>1. PICK x \in T : \A y \in T : ~ (<<y, x>> \in OpToRel(<, Nat))
  BY NatLessThanWellFounded, WFMin, Zenon
<1>2. \A y \in T : <<y, x>> \in Nat \X Nat /\ <<y, x>>[1] = y /\ <<y, x>>[2] = x
  OBVIOUS
<1>3. \A y \in T : ~(y < x)
  BY <1>1, <1>2, Zenon DEF OpToRel
<1>4. \A y \in T : x <= y
  BY <1>3
<1>. QED BY <1>4

\* read_dentry_by_name finds a name exactly when the directory has it.
LEMMA Found ==
  ASSUME NEW name
  PROVE  /\ read_dentry_by_name(name) # 0 =>
              /\ read_dentry_by_name(name) \in DOMAIN Dentries
              /\ Dentries[read_dentry_by_name(name)].type \in Types
              /\ Dentries[read_dentry_by_name(name)].length \in Nat
         /\ (\E i \in DOMAIN Dentries : Dentries[i].name = name) =>
              read_dentry_by_name(name) # 0
<1>. DEFINE match == {i \in DOMAIN Dentries : Dentries[i].name = name}
<1>1. DOMAIN Dentries \subseteq Nat /\ 0 \notin DOMAIN Dentries
  BY FdAssumption
<1>2. match \subseteq Nat /\ match \subseteq DOMAIN Dentries
  BY <1>1
<1>3. CASE match = {}
  <2>1. read_dentry_by_name(name) = 0
    BY <1>3, Zenon DEF read_dentry_by_name
  <2>. QED BY <1>3, <2>1
<1>4. CASE match # {}
  <2>1. \E i \in match : \A j \in match : i <= j
    BY <1>2, <1>4, Smallest
  <2>2. read_dentry_by_name(name) = CHOOSE i \in match : \A j \in match : i <= j
    BY <1>4, Zenon DEF read_dentry_by_name
  <2>3. read_dentry_by_name(name) \in match
    BY <2>1, <2>2, Zenon
  <2>4. read_dentry_by_name(name) \in DOMAIN Dentries
    BY <1>2, <2>3
  <2>. HIDE DEF match
  <2>. QED BY <1>1, <2>4, FdAssumption
<1>. QED BY <1>3, <1>4

\* open takes a descriptor that is not in use.
LEMMA LocationFree ==
  ASSUME FreeFds # {} PROVE Location \in Fds /\ ~ check_use(Location)
<1>1. FreeFds \subseteq Nat /\ FreeFds \subseteq Fds
  BY FdAssumption DEF FreeFds, Fds
<1>2. \E fd \in FreeFds : \A other \in FreeFds : fd <= other
  BY <1>1, Smallest
<1>3. Location \in FreeFds
  BY <1>2, Zenon DEF Location
<1>. QED BY <1>3 DEF FreeFds

\* An update of one descriptor of one process.
LEMMA Updated ==
  ASSUME NEW R, NEW f \in [Procs -> [Fds -> R]], NEW p \in Procs, NEW d \in Fds,
         NEW e \in R, NEW g, g = [f EXCEPT ![p][d] = e]
  PROVE  /\ g \in [Procs -> [Fds -> R]]
         /\ g[p][d] = e
         /\ \A q \in Procs, b \in Fds : q # p \/ b # d => g[q][b] = f[q][b]
<1>1. f[p] \in [Fds -> R] /\ [f[p] EXCEPT ![d] = e] \in [Fds -> R]
  OBVIOUS
<1>2. g = [f EXCEPT ![p] = [f[p] EXCEPT ![d] = e]]
  OBVIOUS
<1>3. /\ g \in [Procs -> [Fds -> R]] /\ g[p] = [f[p] EXCEPT ![d] = e]
      /\ \A q \in Procs : q # p => g[q] = f[q]
  BY <1>1, <1>2
<1>. QED BY <1>1, <1>3

\* The number of bytes read_data gives keeps the position within the file.
LEMMA BytesFit ==
  ASSUME NEW length \in Nat, NEW offset \in Nat, NEW n \in Int,
         offset <= length
  PROVE  /\ BytesRead(length, offset, n) \in Nat
         /\ offset + BytesRead(length, offset, n) <= length
  BY DEF BytesRead

----------------------------------------------------------------------------
(* Entries and their histories as records. *)

\* The fields of an entry.
LEMMA EntryFields ==
  ASSUME NEW e \in Entries
  PROVE  /\ e.fop_ptr \in Drivers /\ e.file_name \in Names \cup {""}
         /\ e.file_pos \in Nat /\ e.in_use \in BOOLEAN
         /\ e = [fop_ptr |-> e.fop_ptr, file_name |-> e.file_name,
                 file_pos |-> e.file_pos, in_use |-> e.in_use]
<1>1. /\ e.fop_ptr \in Drivers /\ e.file_name \in Names \cup {""}
      /\ e.file_pos \in Nat /\ e.in_use \in BOOLEAN
  BY Zenon DEF Entries
<1>2. e = [fop_ptr |-> e.fop_ptr, file_name |-> e.file_name,
           file_pos |-> e.file_pos, in_use |-> e.in_use]
  BY DEF Entries
<1>. QED BY <1>1, <1>2

\* The same of histories.
LEMMA HistoryFields ==
  ASSUME NEW h \in Histories
  PROVE  /\ h.opened \in BOOLEAN /\ h.count \in Nat /\ h.leftover \in BOOLEAN
         /\ h = [opened |-> h.opened, count |-> h.count, leftover |-> h.leftover]
<1>1. h.opened \in BOOLEAN /\ h.count \in Nat /\ h.leftover \in BOOLEAN
  BY Zenon DEF Histories
<1>2. h = [opened |-> h.opened, count |-> h.count, leftover |-> h.leftover]
  BY DEF Histories
<1>. QED BY <1>1, <1>2

\* The ways a descriptor can be fine: not in use, in use without a
\* driver from the kernel stack, in use with a driver that is not a file, and
\* an open file at a position within it.
LEMMA FineCases ==
  ASSUME NEW fd \in Fds, NEW e, NEW h,
         \/ /\ ~(fd <= 1) /\ e.in_use = FALSE
            /\ h.opened = FALSE /\ h.leftover = FALSE
         \/ /\ ~(fd <= 1) /\ e.in_use = TRUE
            /\ h.opened = FALSE /\ h.leftover = TRUE /\ e.fop_ptr # "file"
         \/ /\ fd <= 1 \/ h.opened = TRUE
            /\ e.in_use = TRUE /\ e.fop_ptr \notin {"NULL", "junk", "stale", "file"}
         \/ /\ h.opened = TRUE /\ e.in_use = TRUE /\ e.fop_ptr = "file"
            /\ read_dentry_by_name(e.file_name) \in DOMAIN Dentries
            /\ e.file_pos = h.count
            /\ e.file_pos <= Dentries[read_dentry_by_name(e.file_name)].length
  PROVE  EntryFine(fd, e, h)
<1>1. e.in_use = (fd <= 1 \/ h.opened \/ h.leftover)
  BY Zenon
<1>2. fd <= 1 \/ h.opened => e.fop_ptr \notin {"NULL", "junk", "stale"}
  <2>1. "file" \notin {"NULL", "junk", "stale"}
    OBVIOUS
  <2>. QED BY <2>1, Zenon
<1>3. e.in_use /\ e.fop_ptr = "file" =>
        /\ read_dentry_by_name(e.file_name) \in DOMAIN Dentries
        /\ e.file_pos = h.count
        /\ e.file_pos <= Dentries[read_dentry_by_name(e.file_name)].length
  BY Zenon
<1>. QED BY <1>1, <1>2, <1>3, Zenon DEF EntryFine

\* The descriptors execute sets up, whatever was on the kernel stack.
LEMMA NewProcess ==
  ASSUME NEW g \in [2 .. OPS_SIZE - 1 -> StackGarbage], NEW fd \in Fds
  PROVE  /\ NewFds(g)[fd] \in Entries /\ NewHistory(g)[fd] \in Histories
         /\ EntryFine(fd, NewFds(g)[fd], NewHistory(g)[fd])
         /\ NewHistory(g)[fd].count = 0
<1>. DEFINE e == NewFds(g)[fd]
            h == NewHistory(g)[fd]
<1>0. fd \in Int /\ (fd <= 1 <=> ~(fd > 1))
  BY FdAssumption DEF Fds
<1>1. h = [NotOpened EXCEPT !.leftover = fd > 1 /\ g[fd] # "free"]
  BY Zenon DEF NewHistory
<1>2. h = [opened |-> FALSE, count |-> 0, leftover |-> fd > 1 /\ g[fd] # "free"]
  BY <1>1, Zenon DEF NotOpened
<1>3. "terminal" \in Drivers /\ "NULL" \in Drivers /\ "junk" \in Drivers
  BY DEF Drivers
<1>4. "" \in Names \cup {""} /\ 0 \in Nat
  OBVIOUS
<1>. HIDE DEF e, h
<1>5. CASE fd <= 1
  <2>1. e = Terminal
    BY <1>5 DEF NewFds, e
  <2>2. e = [fop_ptr |-> "terminal", file_name |-> "", file_pos |-> 0,
             in_use |-> TRUE]
    BY <2>1, Zenon DEF Terminal, Unused
  <2>3. (fd > 1 /\ g[fd] # "free") = FALSE
    BY <1>0, <1>5
  <2>4. h = [opened |-> FALSE, count |-> 0, leftover |-> FALSE]
    BY <1>2, <2>3, Zenon
  <2>5. e \in Entries /\ e.fop_ptr = "terminal" /\ e.in_use = TRUE
    BY <1>3, <1>4, <2>2, Zenon DEF Entries
  <2>6. h \in Histories
    BY <1>4, <2>4, Zenon DEF Histories
  <2>7. e.fop_ptr \notin {"NULL", "junk", "stale", "file"} /\ h.count = 0
    BY <2>4, <2>5
  <2>8. EntryFine(fd, e, h)
    BY <1>5, <2>5, <2>7, FineCases
  <2>. QED BY <2>5, <2>6, <2>7, <2>8 DEF e, h
<1>6. CASE ~(fd <= 1)
  <2>1. fd \in 2 .. OPS_SIZE - 1
    BY <1>6, FdAssumption DEF Fds
  <2>2. g[fd] \in GarbageKinds
    BY <2>1, FdAssumption
  <2>3. e = Garbage(g[fd])
    BY <1>6 DEF NewFds, e
  <2>4. e = [fop_ptr |-> IF g[fd] \in {"free", "null"} THEN "NULL" ELSE g[fd],
             file_name |-> "", file_pos |-> 0, in_use |-> (g[fd] # "free")]
    BY <2>3, Zenon DEF Garbage, Unused
  <2>5. PICK f : /\ f = IF g[fd] \in {"free", "null"} THEN "NULL" ELSE g[fd]
                 /\ f = "NULL" \/ f \in GarbageKinds \ {"free", "null"}
    BY <2>2, Zenon
  <2>6. PICK b \in BOOLEAN : b = (g[fd] # "free")
    BY Zenon
  <2>7. (fd > 1 /\ g[fd] # "free") = b
    BY <1>0, <1>6, <2>6
  <2>8. e = [fop_ptr |-> f, file_name |-> "", file_pos |-> 0, in_use |-> b]
    BY <2>4, <2>5, <2>6, Zenon
  <2>9. h = [opened |-> FALSE, count |-> 0, leftover |-> b]
    BY <1>2, <2>7, Zenon
  <2>10. f \in Drivers /\ f # "file"
    BY <2>5 DEF Drivers, GarbageKinds, Types
  <2>11. e \in Entries /\ e.fop_ptr = f /\ e.in_use = b
    BY <1>4, <2>6, <2>8, <2>10, Zenon DEF Entries
  <2>12. /\ h \in Histories /\ h.opened = FALSE /\ h.leftover = b
         /\ h.count = 0
    BY <1>4, <2>6, <2>9, Zenon DEF Histories
  <2>13. e.fop_ptr # "file"
    BY <2>10, <2>11
  <2>14. CASE b = TRUE
    <3>1. EntryFine(fd, e, h)
      BY <1>6, <2>11, <2>12, <2>13, <2>14, FineCases, Zenon
    <3>. QED BY <3>1, <2>11, <2>12, <2>13 DEF e, h
  <2>15. CASE b = FALSE
    <3>1. EntryFine(fd, e, h)
      BY <1>6, <2>11, <2>12, <2>13, <2>15, FineCases, Zenon
    <3>. QED BY <3>1, <2>11, <2>12, <2>13 DEF e, h
  <2>. QED BY <2>6, <2>14, <2>15, Zenon
<1>. QED BY <1>5, <1>6

\* The arrays execute stores.
LEMMA NewArrays ==
  ASSUME NEW g \in [2 .. OPS_SIZE - 1 -> StackGarbage]
  PROVE  NewFds(g) \in [Fds -> Entries] /\ NewHistory(g) \in [Fds -> Histories]
<1>1. \A fd \in Fds : NewFds(g)[fd] \in Entries /\ NewHistory(g)[fd] \in Histories
  BY NewProcess
<1>2. /\ NewFds(g) = [fd \in Fds |-> NewFds(g)[fd]]
      /\ NewHistory(g) = [fd \in Fds |-> NewHistory(g)[fd]]
  BY Zenon DEF NewFds, NewHistory
<1>. QED BY <1>1, <1>2, Zenon

\* TypeOK with the sets of entries and histories named.
LEMMA TypeParts ==
  /\ TypeOK <=> /\ process_count \in Procs
                /\ fde \in [Procs -> [Fds -> Entries]]
                /\ dir_read_count \in 0 .. Len(Dentries)
                /\ cpu \in {"user", "fault"}
                /\ history \in [Procs -> [Fds -> Histories]]
  /\ TypeOK' <=> /\ process_count' \in Procs
                 /\ fde' \in [Procs -> [Fds -> Entries]]
                 /\ dir_read_count' \in 0 .. Len(Dentries)
                 /\ cpu' \in {"user", "fault"}
                 /\ history' \in [Procs -> [Fds -> Histories]]
  BY Zenon DEF TypeOK, Entries, Drivers, Histories

\* The first shell's descriptors satisfy the invariant.
LEMMA InitInv == Init => Inv
<1>. SUFFICES ASSUME Init PROVE Inv
  OBVIOUS
<1>1. PICK g \in [2 .. OPS_SIZE - 1 -> StackGarbage] :
        /\ fde = [p \in Procs |->
                    IF p = 1 THEN NewFds(g) ELSE [fd \in Fds |-> Unused]]
        /\ history = [p \in Procs |->
                        IF p = 1 THEN NewHistory(g) ELSE [fd \in Fds |-> NotOpened]]
  BY DEF Init
<1>2. Unused \in Entries /\ NotOpened \in Histories
  <2>1. "NULL" \in Drivers /\ "" \in Names \cup {""} /\ 0 \in Nat
    BY DEF Drivers
  <2>. QED BY <2>1, Zenon DEF Unused, NotOpened, Entries, Histories
<1>3. process_count = 1 /\ dir_read_count = 0 /\ cpu = "user"
  BY DEF Init
<1>4. 1 \in Procs
  BY FdAssumption DEF Procs
<1>5. fde[1] = NewFds(g) /\ history[1] = NewHistory(g)
  BY <1>1, <1>4
<1>6. fde \in [Procs -> [Fds -> Entries]] /\ history \in [Procs -> [Fds -> Histories]]
  BY <1>1, <1>2, NewArrays
<1>7. TypeOK
  <2>1. 0 \in 0 .. Len(Dentries) /\ "user" \in {"user", "fault"}
    BY FdAssumption
  <2>. QED BY <1>3, <1>4, <1>6, <2>1, TypeParts, Zenon
<1>8. EntriesFine
  <2>1. \A p \in 1 .. process_count : p = 1
    BY <1>3
  <2>2. \A fd \in Fds : EntryFine(fd, NewFds(g)[fd], NewHistory(g)[fd])
    BY NewProcess
  <2>. QED BY <1>5, <2>1, <2>2, Zenon DEF EntriesFine
<1>9. FaultShape
  <2>1. "user" # "fault"
    OBVIOUS
  <2>. QED BY <1>3, <2>1, Zenon DEF FaultShape
<1>. QED BY <1>7, <1>8, <1>9 DEF Inv
----------------------------------------------------------------------------
(* The steps. *)

\* The processes that exist have descriptors.
LEMMA CountTyped ==
  ASSUME Inv PROVE process_count \in Procs /\ 1 .. process_count \subseteq Procs
<1>1. process_count \in Procs
  BY TypeParts, Zenon DEF Inv
<1>. QED BY <1>1, FdAssumption DEF Procs

\* What a call may do to a descriptor d of the current process: leave every
\* other one as it is and d fine.
LEMMA EntryStep ==
  ASSUME Inv, NEW d \in Fds,
         process_count' = process_count, cpu' = "user",
         dir_read_count' \in 0 .. Len(Dentries),
         fde' \in [Procs -> [Fds -> Entries]],
         history' \in [Procs -> [Fds -> Histories]],
         \A q \in Procs, b \in Fds : q # process_count \/ b # d =>
           fde'[q][b] = fde[q][b] /\ history'[q][b] = history[q][b],
         EntryFine(d, fde'[process_count][d], history'[process_count][d])
  PROVE  Inv'
<1>1. process_count \in Procs /\ 1 .. process_count \subseteq Procs
  BY CountTyped
<1>2. TypeOK'
  <2>1. "user" \in {"user", "fault"}
    OBVIOUS
  <2>. QED BY <1>1, <2>1, TypeParts, Zenon
<1>3. EntriesFine'
  <2>1. SUFFICES ASSUME NEW p \in 1 .. process_count, NEW fd \in Fds
                 PROVE  EntryFine(fd, fde'[p][fd], history'[p][fd])
    BY Zenon DEF EntriesFine, EntryFine
  <2>2. CASE p = process_count /\ fd = d
    BY <2>2, Zenon
  <2>3. CASE p # process_count \/ fd # d
    <3>1. fde'[p][fd] = fde[p][fd] /\ history'[p][fd] = history[p][fd]
      BY <1>1, <2>3, Zenon
    <3>. QED BY <3>1, Zenon DEF Inv, EntriesFine
  <2>. QED BY <2>2, <2>3, Zenon
<1>4. FaultShape'
  <2>1. "user" # "fault"
    OBVIOUS
  <2>. QED BY <2>1, Zenon DEF FaultShape
<1>. QED BY <1>2, <1>3, <1>4, Zenon DEF Inv

\* The arrays after a call that stores an entry and its history.
LEMMA BothUpdated ==
  ASSUME Inv, NEW d \in Fds, NEW e \in Entries, NEW h \in Histories,
         fde' = [fde EXCEPT ![process_count][d] = e],
         history' = [history EXCEPT ![process_count][d] = h]
  PROVE  /\ fde' \in [Procs -> [Fds -> Entries]]
         /\ history' \in [Procs -> [Fds -> Histories]]
         /\ fde'[process_count][d] = e /\ history'[process_count][d] = h
         /\ \A q \in Procs, b \in Fds : q # process_count \/ b # d =>
              fde'[q][b] = fde[q][b] /\ history'[q][b] = history[q][b]
<1>1. /\ process_count \in Procs
      /\ fde \in [Procs -> [Fds -> Entries]]
      /\ history \in [Procs -> [Fds -> Histories]]
  BY TypeParts, Zenon DEF Inv
<1>2. /\ fde' \in [Procs -> [Fds -> Entries]] /\ fde'[process_count][d] = e
      /\ \A q \in Procs, b \in Fds : q # process_count \/ b # d =>
           fde'[q][b] = fde[q][b]
  BY <1>1, Updated
<1>3. /\ history' \in [Procs -> [Fds -> Histories]]
      /\ history'[process_count][d] = h
      /\ \A q \in Procs, b \in Fds : q # process_count \/ b # d =>
           history'[q][b] = history[q][b]
  BY <1>1, Updated
<1>. QED BY <1>2, <1>3, Zenon

\* The current process's entries.
LEMMA EntryTyped ==
  ASSUME Inv, NEW d \in Fds
  PROVE  /\ Cur[d] \in Entries /\ Hist[d] \in Histories
         /\ EntryFine(d, Cur[d], Hist[d])
<1>1. /\ process_count \in Procs
      /\ fde \in [Procs -> [Fds -> Entries]]
      /\ history \in [Procs -> [Fds -> Histories]]
  BY TypeParts, Zenon DEF Inv
<1>2. process_count \in 1 .. process_count
  BY <1>1, FdAssumption DEF Procs
<1>3. Cur[d] \in Entries /\ Hist[d] \in Histories
  BY <1>1, Zenon DEF Cur, Hist
<1>. QED BY <1>2, <1>3, Zenon DEF Inv, EntriesFine, Cur, Hist

\* A step that changes none of the descriptors' state.
LEMMA NoStep ==
  ASSUME Inv, UNCHANGED <<process_count, fde, dir_read_count, cpu, history>>,
         cpu = "user" \/ call' = call
  PROVE  Inv'
<1>1. TypeOK'
  BY Zenon DEF Inv, TypeOK
<1>2. EntriesFine'
  <2>1. EntriesFine /\ process_count' = process_count
    BY Zenon DEF Inv
  <2>2. fde' = fde /\ history' = history
    OBVIOUS
  <2>. QED BY <2>1, <2>2 DEF EntriesFine, EntryFine
<1>3. FaultShape'
  <2>1. "user" # "fault"
    OBVIOUS
  <2>. QED BY <2>1, Zenon DEF Inv, FaultShape, Hist
<1>. QED BY <1>1, <1>2, <1>3, Zenon DEF Inv

\* A call that does not return leaves the descriptors as they are.
LEMMA FaultStep ==
  ASSUME Inv, NEW op, NEW fd, NEW n, Exception(op, fd, n),
         UNCHANGED <<process_count, fde, dir_read_count, history>>,
         \/ fd \in Fds /\ Hist[fd].leftover
         \/ op = "close" /\ fd \in FarFds
         \/ op = "read" /\ n < 0
  PROVE  Inv'
<1>1. /\ cpu' = "fault" /\ call'.op = op /\ call'.fd = fd /\ call'.nbytes = n
      /\ process_count' = process_count /\ fde' = fde /\ history' = history
      /\ dir_read_count' = dir_read_count
  BY Zenon DEF Exception
<1>2. FaultShape'
  BY <1>1, Zenon DEF FaultShape, Hist
<1>3. TypeOK'
  <2>1. "fault" \in {"user", "fault"}
    OBVIOUS
  <2>. QED BY <1>1, <2>1, TypeParts, Zenon DEF Inv
<1>4. EntriesFine'
  <2>1. EntriesFine
    BY Zenon DEF Inv
  <2>. QED BY <1>1, <2>1 DEF EntriesFine, EntryFine
<1>. QED BY <1>2, <1>3, <1>4, Zenon DEF Inv

\* execute: the new process's descriptors.
LEMMA ExecuteInv == Inv /\ execute => Inv'
<1>. SUFFICES ASSUME Inv, execute PROVE Inv'
  OBVIOUS
<1>1. PICK g \in [2 .. OPS_SIZE - 1 -> StackGarbage] :
        /\ fde' = [fde EXCEPT ![process_count'] = NewFds(g)]
        /\ history' = [history EXCEPT ![process_count'] = NewHistory(g)]
  BY Zenon DEF execute
<1>2. /\ process_count' = process_count + 1 /\ process_count < MaxDepth
      /\ dir_read_count' = dir_read_count /\ cpu' = cpu /\ cpu = "user"
  BY Zenon DEF execute
<1>3. process_count \in Procs /\ process_count' \in Procs
  <2>1. process_count \in Procs
    BY TypeParts DEF Inv
  <2>. QED BY <1>2, <2>1, FdAssumption DEF Procs
<1>4. fde \in [Procs -> [Fds -> Entries]] /\ history \in [Procs -> [Fds -> Histories]]
  BY TypeParts DEF Inv
<1>5. /\ fde' \in [Procs -> [Fds -> Entries]]
      /\ history' \in [Procs -> [Fds -> Histories]]
      /\ fde'[process_count'] = NewFds(g) /\ history'[process_count'] = NewHistory(g)
      /\ \A p \in Procs : p # process_count' =>
           fde'[p] = fde[p] /\ history'[p] = history[p]
  BY <1>1, <1>3, <1>4, NewArrays
<1>6. TypeOK'
  BY <1>2, <1>3, <1>5, TypeParts, Zenon DEF Inv
<1>7. EntriesFine'
  <2>1. SUFFICES ASSUME NEW p \in 1 .. process_count', NEW fd \in Fds
                 PROVE  EntryFine(fd, fde'[p][fd], history'[p][fd])
    BY Zenon DEF EntriesFine, EntryFine
  <2>2. CASE p = process_count'
    BY <1>5, <2>2, NewProcess, Zenon
  <2>3. CASE p # process_count'
    <3>1. p \in 1 .. process_count /\ p \in Procs
      BY <1>2, <1>3, <2>3, FdAssumption DEF Procs
    <3>2. fde'[p] = fde[p] /\ history'[p] = history[p]
      BY <1>5, <2>3, <3>1, Zenon
    <3>. QED BY <3>1, <3>2, Zenon DEF Inv, EntriesFine
  <2>. QED BY <2>2, <2>3, Zenon
<1>8. FaultShape'
  <2>1. "user" # "fault"
    OBVIOUS
  <2>. QED BY <1>2, <2>1, Zenon DEF FaultShape
<1>. QED BY <1>6, <1>7, <1>8, Zenon DEF Inv

\* halt: the parent's descriptors are as it left them.
LEMMA HaltInv == Inv /\ halt => Inv'
<1>. SUFFICES ASSUME Inv, halt PROVE Inv'
  OBVIOUS
<1>1. /\ process_count > 1 /\ process_count' = process_count - 1
      /\ fde' = fde /\ dir_read_count' = dir_read_count /\ cpu' = cpu
      /\ history' = history /\ cpu = "user"
  BY Zenon DEF halt
<1>2. process_count \in Procs
  BY TypeParts DEF Inv
<1>3. process_count' \in Procs /\ 1 .. process_count' \subseteq 1 .. process_count
  BY <1>1, <1>2, FdAssumption DEF Procs
<1>4. TypeOK'
  BY <1>1, <1>3, TypeParts, Zenon DEF Inv
<1>5. EntriesFine'
  <2>1. EntriesFine
    BY Zenon DEF Inv
  <2>. SUFFICES ASSUME NEW p \in 1 .. process_count', NEW fd \in Fds
                PROVE  EntryFine(fd, fde[p][fd], history[p][fd])'
    BY Zenon DEF EntriesFine
  <2>2. EntryFine(fd, fde[p][fd], history[p][fd])
    BY <1>3, <2>1, Zenon DEF EntriesFine
  <2>. QED BY <1>1, <2>2 DEF EntryFine
<1>6. FaultShape'
  <2>1. "user" # "fault"
    OBVIOUS
  <2>. QED BY <1>1, <2>1, Zenon DEF FaultShape
<1>. QED BY <1>4, <1>5, <1>6, Zenon DEF Inv

\* open: the first descriptor that was not in use, and a file, if it is one,
\* that is in the directory.
LEMMA OpenInv == ASSUME NEW name \in Names, Inv, open(name) PROVE Inv'
<1>. DEFINE d == Location
            type == Dentries[read_dentry_by_name(name)].type
            e == OpenEntry(d, name, type)
            h == [NotOpened EXCEPT !.opened = TRUE]
<1>1. /\ FreeFds # {} /\ read_dentry_by_name(name) # 0
      /\ fde' = [fde EXCEPT ![process_count][d] = e]
      /\ history' = [history EXCEPT ![process_count][d] = h]
      /\ process_count' = process_count /\ dir_read_count' = dir_read_count
      /\ cpu' = cpu /\ cpu = "user"
  BY Zenon DEF open
<1>2. d \in Fds
  BY <1>1, LocationFree
<1>3. /\ read_dentry_by_name(name) \in DOMAIN Dentries /\ type \in Types
      /\ Dentries[read_dentry_by_name(name)].length \in Nat
  BY <1>1, Found
<1>4. e = [fop_ptr |-> type, file_name |-> name, file_pos |-> 0, in_use |-> TRUE]
  BY Zenon DEF OpenEntry
<1>5. 0 \in Nat
  OBVIOUS
<1>6. e \in Entries /\ e.fop_ptr = type /\ e.in_use = TRUE /\ e.file_name = name
      /\ e.file_pos = 0
  <2>1. type \in Drivers /\ name \in Names \cup {""} /\ 0 \in Nat
    BY <1>3 DEF Drivers
  <2>. HIDE DEF e, type
  <2>. QED BY <1>4, <2>1, Zenon DEF Entries
<1>7. h \in Histories /\ h.opened = TRUE /\ h.count = 0
  <2>1. NotOpened \in Histories
    BY <1>5, Zenon DEF NotOpened, Histories
  <2>2. h \in Histories
    BY <1>5, <2>1, Zenon DEF Histories
  <2>3. h.opened = TRUE
    BY Zenon DEF NotOpened
  <2>4. h.count = 0
    BY Zenon DEF NotOpened
  <2>. QED BY <2>2, <2>3, <2>4, Zenon
<1>8. EntryFine(d, e, h)
  <2>. HIDE DEF e, h, d
  <2>1. CASE type = "file"
    <3>1. e.file_pos <= Dentries[read_dentry_by_name(e.file_name)].length
      BY <1>3, <1>6
    <3>. QED BY <1>2, <1>3, <1>6, <1>7, <2>1, <3>1, FineCases, Zenon
  <2>2. CASE type # "file"
    <3>1. e.fop_ptr \notin {"NULL", "junk", "stale", "file"}
      BY <1>3, <1>6, <2>2 DEF Types
    <3>. QED BY <1>2, <1>6, <1>7, <3>1, FineCases, Zenon
  <2>. QED BY <2>1, <2>2, Zenon
<1>. HIDE DEF e, h, d
<1>9. /\ fde' \in [Procs -> [Fds -> Entries]]
      /\ history' \in [Procs -> [Fds -> Histories]]
      /\ fde'[process_count][d] = e /\ history'[process_count][d] = h
      /\ \A q \in Procs, b \in Fds : q # process_count \/ b # d =>
           fde'[q][b] = fde[q][b] /\ history'[q][b] = history[q][b]
  BY <1>1, <1>2, <1>6, <1>7, BothUpdated, Zenon
<1>10. dir_read_count' \in 0 .. Len(Dentries)
  BY <1>1, TypeParts, Zenon DEF Inv
<1>11. EntryFine(d, fde'[process_count][d], history'[process_count][d])
  BY <1>8, <1>9, Zenon
<1>. QED BY <1>1, <1>2, <1>9, <1>10, <1>11, EntryStep

\* close: the descriptor is out of use again.
LEMMA CloseInv == ASSUME NEW fd, Inv, close(fd) PROVE Inv'
<1>. DEFINE e == ClosedEntry(fd)
<1>1. /\ Closable(fd)
      /\ fde' = [fde EXCEPT ![process_count][fd] = e]
      /\ history' = [history EXCEPT ![process_count][fd] = NotOpened]
      /\ process_count' = process_count /\ dir_read_count' = dir_read_count
      /\ cpu' = cpu /\ cpu = "user"
  BY Zenon DEF close
<1>2. fd \in Fds /\ fd > 1
  BY <1>1, Zenon DEF Closable
<1>3. ~(fd <= 1)
  BY <1>2, FdAssumption DEF Fds
<1>4. e \in Entries /\ e.in_use = FALSE
  <2>1. Cur[fd] \in Entries
    BY <1>2, EntryTyped
  <2>2. [Cur[fd] EXCEPT !.fop_ptr = "NULL", !.file_pos = 0, !.in_use = FALSE]
          \in Entries
    BY <2>1 DEF Entries, Drivers
  <2>3. e.in_use = FALSE
    BY <2>1, Zenon DEF ClosedEntry, Entries
  <2>. QED BY <2>2, <2>3, Zenon DEF ClosedEntry
<1>5. NotOpened \in Histories /\ NotOpened.opened = FALSE /\ NotOpened.leftover = FALSE
  <2>1. 0 \in Nat
    OBVIOUS
  <2>. QED BY <2>1, Zenon DEF Histories, NotOpened
<1>. HIDE DEF e
<1>6. EntryFine(fd, e, NotOpened)
  BY <1>2, <1>3, <1>4, <1>5, FineCases, Zenon
<1>7. /\ fde' \in [Procs -> [Fds -> Entries]]
      /\ history' \in [Procs -> [Fds -> Histories]]
      /\ fde'[process_count][fd] = e /\ history'[process_count][fd] = NotOpened
      /\ \A q \in Procs, b \in Fds : q # process_count \/ b # fd =>
           fde'[q][b] = fde[q][b] /\ history'[q][b] = history[q][b]
  BY <1>1, <1>2, <1>4, <1>5, BothUpdated, Zenon
<1>8. dir_read_count' \in 0 .. Len(Dentries)
  BY <1>1, TypeParts, Zenon DEF Inv
<1>9. EntryFine(fd, fde'[process_count][fd], history'[process_count][fd])
  BY <1>6, <1>7, Zenon
<1>. QED BY <1>1, <1>2, <1>7, <1>8, <1>9, EntryStep

\* A read of a file: the position moves on by what was read and stays within.
LEMMA ReadFileInv ==
  ASSUME NEW fd, NEW n \in ReadSizes, Inv, cpu = "user", Readable(fd),
         read_file(fd, n), UNCHANGED <<process_count, cpu>>
  PROVE  Inv'
<1>. DEFINE length == FileLength(fd)
            bytes == BytesRead(length, Cur[fd].file_pos, n)
            e == [Cur[fd] EXCEPT !.file_pos = @ + bytes]
            h == [Hist[fd] EXCEPT !.count = @ + bytes]
<1>1. fd \in Fds /\ Cur[fd].in_use /\ Cur[fd].fop_ptr = "file"
  BY Zenon DEF Readable, check_use, read_file
<1>2. Cur[fd] \in Entries /\ Hist[fd] \in Histories /\ EntryFine(fd, Cur[fd], Hist[fd])
  BY <1>1, EntryTyped
<1>3. /\ read_dentry_by_name(Cur[fd].file_name) \in DOMAIN Dentries
      /\ Cur[fd].file_pos = Hist[fd].count /\ Cur[fd].file_pos <= length
      /\ ~(fd <= 1 \/ Hist[fd].opened) => Hist[fd].leftover
  BY <1>1, <1>2, Zenon DEF EntryFine, FileLength
<1>4. length \in Nat /\ n \in Int /\ Cur[fd].file_pos \in Nat
  <2>1. Cur[fd].file_pos \in Nat
    BY <1>2, EntryFields
  <2>. QED BY <1>3, <2>1, FdAssumption DEF FileLength
<1>5. bytes \in Nat /\ Cur[fd].file_pos + bytes <= length
      /\ Cur[fd].file_pos + bytes \in Nat
  <2>1. bytes \in Nat /\ Cur[fd].file_pos + bytes <= length
    BY <1>3, <1>4, BytesFit
  <2>. QED BY <1>4, <2>1
<1>6. /\ fde' = [fde EXCEPT ![process_count][fd].file_pos = @ + bytes]
      /\ history' = [history EXCEPT ![process_count][fd].count = @ + bytes]
      /\ dir_read_count' = dir_read_count
  BY Zenon DEF read_file
<1>. HIDE DEF length, bytes
<1>7. /\ e \in Entries /\ e.in_use = Cur[fd].in_use /\ e.fop_ptr = "file"
      /\ e.file_name = Cur[fd].file_name /\ e.file_pos = Cur[fd].file_pos + bytes
  <2>1. e \in Entries
    BY <1>2, <1>5 DEF Entries
  <2>2. e.in_use = Cur[fd].in_use
    BY <1>2, Zenon DEF Entries
  <2>3. e.fop_ptr = "file" /\ e.file_name = Cur[fd].file_name
    BY <1>1, <1>2, Zenon DEF Entries
  <2>4. e.file_pos = Cur[fd].file_pos + bytes
    BY <1>2, Zenon DEF Entries
  <2>. QED BY <2>1, <2>2, <2>3, <2>4, Zenon
<1>8. /\ h \in Histories /\ h.opened = Hist[fd].opened
      /\ h.leftover = Hist[fd].leftover /\ h.count = Hist[fd].count + bytes
  <2>1. h \in Histories
    BY <1>2, <1>3, <1>5 DEF Histories
  <2>2. h.opened = Hist[fd].opened
    BY <1>2, Zenon DEF Histories
  <2>3. h.leftover = Hist[fd].leftover
    BY <1>2, Zenon DEF Histories
  <2>4. h.count = Hist[fd].count + bytes
    BY <1>2, Zenon DEF Histories
  <2>. QED BY <2>1, <2>2, <2>3, <2>4, Zenon
<1>9. /\ fde' = [fde EXCEPT ![process_count][fd] = e]
      /\ history' = [history EXCEPT ![process_count][fd] = h]
  BY <1>6, Zenon DEF Cur, Hist
<1>. HIDE DEF e, h
<1>10. EntryFine(fd, e, h)
  <2>1. e.in_use = (fd <= 1 \/ h.opened \/ h.leftover)
    BY <1>2, <1>7, <1>8, Zenon DEF EntryFine
  <2>2. fd <= 1 \/ h.opened => e.fop_ptr \notin {"NULL", "junk", "stale"}
    <3>1. "file" \notin {"NULL", "junk", "stale"}
      OBVIOUS
    <3>. QED BY <1>7, <3>1, Zenon
  <2>3. /\ read_dentry_by_name(e.file_name) \in DOMAIN Dentries
        /\ e.file_pos = h.count
        /\ e.file_pos <= Dentries[read_dentry_by_name(e.file_name)].length
    BY <1>3, <1>5, <1>7, <1>8, Zenon DEF length, FileLength
  <2>. QED BY <2>1, <2>2, <2>3, Zenon DEF EntryFine
<1>11. /\ fde' \in [Procs -> [Fds -> Entries]]
       /\ history' \in [Procs -> [Fds -> Histories]]
       /\ fde'[process_count][fd] = e /\ history'[process_count][fd] = h
       /\ \A q \in Procs, b \in Fds : q # process_count \/ b # fd =>
            fde'[q][b] = fde[q][b] /\ history'[q][b] = history[q][b]
  BY <1>1, <1>7, <1>8, <1>9, BothUpdated, Zenon
<1>12. dir_read_count' \in 0 .. Len(Dentries)
  BY <1>6, TypeParts, Zenon DEF Inv
<1>13. EntryFine(fd, fde'[process_count][fd], history'[process_count][fd])
  BY <1>10, <1>11, Zenon
<1>. QED BY <1>1, <1>11, <1>12, <1>13, EntryStep

\* A read of a directory moves only the counter.
LEMMA ReadDirectoryInv ==
  ASSUME NEW fd, Inv, cpu = "user", Readable(fd), read_directory(fd),
         UNCHANGED <<process_count, cpu>>
  PROVE  Inv'
<1>1. fd \in Fds /\ Cur[fd].fop_ptr = "directory" /\ fde' = fde
  BY Zenon DEF Readable, read_directory
<1>2. Cur[fd] \in Entries /\ Hist[fd] \in Histories /\ EntryFine(fd, Cur[fd], Hist[fd])
  BY <1>1, EntryTyped
<1>3. PICK k \in Nat :
        history' = [history EXCEPT ![process_count][fd] =
                      [Hist[fd] EXCEPT !.count = k]]
  <2>1. Hist[fd].count \in Nat
    BY <1>2, HistoryFields
  <2>2. 0 \in Nat /\ Hist[fd].count + 1 \in Nat
    BY <2>1
  <2>3. \/ history' = [history EXCEPT ![process_count][fd].count = 0]
        \/ history' = [history EXCEPT ![process_count][fd].count = @ + 1]
    BY Zenon DEF read_directory
  <2>. QED BY <2>2, <2>3, Zenon DEF Hist
<1>. DEFINE e == Cur[fd]
            h == [Hist[fd] EXCEPT !.count = k]
<1>4. h \in Histories /\ h.opened = Hist[fd].opened /\ h.leftover = Hist[fd].leftover
  <2>1. h \in Histories
    BY <1>2 DEF Histories
  <2>2. h.opened = Hist[fd].opened
    BY <1>2, Zenon DEF Histories
  <2>3. h.leftover = Hist[fd].leftover
    BY <1>2, Zenon DEF Histories
  <2>. QED BY <2>1, <2>2, <2>3, Zenon
<1>. HIDE DEF h
<1>5. EntryFine(fd, e, h)
  <2>1. "directory" # "file"
    OBVIOUS
  <2>. QED BY <1>1, <1>2, <1>4, <2>1, Zenon DEF EntryFine
<1>6. fde' = [fde EXCEPT ![process_count][fd] = e]
  <2>1. process_count \in Procs /\ fde \in [Procs -> [Fds -> Entries]]
    BY TypeParts, Zenon DEF Inv
  <2>2. fde[process_count] \in [Fds -> Entries]
    BY <2>1, Zenon
  <2>3. [fde[process_count] EXCEPT ![fd] = fde[process_count][fd]] = fde[process_count]
    BY <1>1, <2>2
  <2>4. [fde EXCEPT ![process_count] = fde[process_count]] = fde
    BY <2>1
  <2>. QED BY <1>1, <2>3, <2>4, Zenon DEF Cur
<1>7. history' = [history EXCEPT ![process_count][fd] = h]
  BY <1>3, Zenon DEF h
<1>. HIDE DEF e
<1>8. e \in Entries
  BY <1>2, Zenon DEF e
<1>9. /\ fde' \in [Procs -> [Fds -> Entries]]
      /\ history' \in [Procs -> [Fds -> Histories]]
      /\ fde'[process_count][fd] = e /\ history'[process_count][fd] = h
      /\ \A q \in Procs, b \in Fds : q # process_count \/ b # fd =>
           fde'[q][b] = fde[q][b] /\ history'[q][b] = history[q][b]
  BY <1>1, <1>4, <1>6, <1>7, <1>8, BothUpdated, Zenon
<1>10. dir_read_count' \in 0 .. Len(Dentries)
  <2>1. dir_read_count \in 0 .. Len(Dentries)
    BY TypeParts, Zenon DEF Inv
  <2>2. dir_read_count' = NextCount(dir_read_count)
    BY Zenon DEF read_directory
  <2>. QED BY <2>1, <2>2, FdAssumption DEF NextCount, AtEnd
<1>11. EntryFine(fd, fde'[process_count][fd], history'[process_count][fd])
  BY <1>5, <1>9, Zenon
<1>. QED BY <1>1, <1>9, <1>10, <1>11, EntryStep

\* Only a descriptor left over from the kernel stack has a bad pointer.
LEMMA BadPointerInv ==
  ASSUME NEW fd, NEW op \in {"read", "write", "close"}, Inv, bad_pointer(op, fd)
  PROVE  Inv'
<1>1. /\ Exception(op, fd, 0)
      /\ UNCHANGED <<process_count, fde, dir_read_count, history>>
  BY Zenon DEF bad_pointer
<1>2. fd \in Fds /\ Cur[fd].in_use /\ Cur[fd].fop_ptr \in {"NULL", "junk", "stale"}
  <2>1. op = "read" \/ op = "write" \/ op = "close"
    OBVIOUS
  <2>2. \/ Readable(fd) /\ Cur[fd].fop_ptr \in {"NULL", "junk", "stale"}
        \/ Writable(fd) /\ Cur[fd].fop_ptr \in {"NULL", "junk"}
        \/ Closable(fd) /\ Cur[fd].fop_ptr = "junk"
    BY <2>1, Zenon DEF bad_pointer
  <2>. QED BY <2>2, Zenon DEF Readable, Writable, Closable, check_use
<1>3. EntryFine(fd, Cur[fd], Hist[fd])
  BY <1>2, EntryTyped
<1>4. Hist[fd].leftover
  BY <1>2, <1>3, Zenon DEF EntryFine
<1>. QED BY <1>1, <1>2, <1>4, FaultStep, Zenon

\* Every step keeps the invariant.
LEMMA NextInv == Inv /\ [Next]_vars => Inv'
<1>. SUFFICES ASSUME Inv, [Next]_vars PROVE Inv'
  OBVIOUS
<1>1. CASE execute
  BY <1>1, ExecuteInv
<1>2. CASE halt
  BY <1>2, HaltInv
<1>3. ASSUME NEW name \in Names, open(name) PROVE Inv'
  BY <1>3, OpenInv
<1>4. ASSUME NEW name \in Names, open_failed(name) PROVE Inv'
  BY <1>4, NoStep DEF open_failed
<1>5. ASSUME NEW fd \in PassedFds, close(fd) PROVE Inv'
  BY <1>5, CloseInv
<1>6. ASSUME NEW fd \in PassedFds, close_failed(fd) PROVE Inv'
  BY <1>6, NoStep DEF close_failed
<1>7. ASSUME NEW fd \in PassedFds, write(fd) PROVE Inv'
  BY <1>7, NoStep DEF write
<1>8. ASSUME NEW fd \in PassedFds, NEW n \in ReadSizes, read(fd, n) PROVE Inv'
  <2>1. cpu = "user" /\ Readable(fd) /\ UNCHANGED <<process_count, cpu>>
    BY <1>8, Zenon DEF read
  <2>2. CASE read_file(fd, n)
    BY <2>1, <2>2, ReadFileInv
  <2>3. CASE read_directory(fd)
    BY <2>1, <2>3, ReadDirectoryInv
  <2>4. CASE UNCHANGED <<fde, dir_read_count, history>>
    BY <2>1, <2>4, NoStep
  <2>. QED BY <1>8, <2>2, <2>3, <2>4, Zenon DEF read, read_stale
<1>9. ASSUME NEW fd \in PassedFds, NEW op \in {"read", "write"},
             read_write_refused(op, fd)
      PROVE  Inv'
  BY <1>9, NoStep DEF read_write_refused
<1>10. ASSUME NEW fd \in PassedFds, NEW op \in {"read", "write", "close"},
              bad_pointer(op, fd)
       PROVE  Inv'
  BY <1>10, BadPointerInv
<1>11. CASE UNCHANGED vars
  BY <1>11, NoStep DEF vars
<1>12. ASSUME NEW fd \in PassedFds, close_far(fd) PROVE Inv'
  BY <1>12, FaultStep, Zenon DEF close_far
<1>13. ASSUME NEW fd \in PassedFds, NEW n \in ReadSizes, read_runaway(fd, n)
       PROVE  Inv'
  BY <1>13, FaultStep, Zenon DEF read_runaway, Runaway
<1>. QED
  BY <1>1, <1>2, <1>3, <1>4, <1>5, <1>6, <1>7, <1>8, <1>9, <1>10, <1>11, <1>12,
     <1>13, Zenon
  DEF Next

----------------------------------------------------------------------------
(* Results about single descriptors. *)

\* The invariant holds in every reachable state.
THEOREM FdInvTheorem == Spec => []Inv
  BY InitInv, NextInv, PTL DEF Spec

\* Descriptors, positions and the counter of read_directory have their types
\* however calls follow one another; the counter stays within the directory.
THEOREM FdTypeTheorem == Spec => []TypeOK
<1>1. Inv => TypeOK
  BY DEF Inv
<1>. QED BY <1>1, FdInvTheorem, PTL

\* The descriptors in use are the first two, the opened ones and those left
\* over from the kernel stack; a call faults only on the last kind, in close
\* with a number whose entry is not mapped, or in read with a negative number
\* of bytes (open, close, read and execute of syscalls.c).
THEOREM UsedIsOpenedTheorem == Spec => []UsedIsOpened
<1>1. Inv => UsedIsOpened
  BY Zenon DEF Inv, EntriesFine, EntryFine, FaultShape, UsedIsOpened
<1>. QED BY <1>1, FdInvTheorem, PTL

\* read_file goes through an open file from its start to its end without gaps
\* for any sequence of calls of any processes, files and sizes.
THEOREM FilesReadInOrderTheorem == Spec => []FilesReadInOrder
<1>1. Inv => FilesReadInOrder
  BY Zenon DEF Inv, EntriesFine, EntryFine, FilesReadInOrder
<1>. QED BY <1>1, FdInvTheorem, PTL

\* The record of the last call.
LEMMA CallFields ==
  ASSUME NEW op, NEW fd, NEW name, NEW ret, Returns(op, fd, name, ret)
  PROVE  call'.op = op /\ call'.fd = fd /\ call'.name = name /\ call'.ret = ret
  BY Zenon DEF Returns

\* A call that found every descriptor in use, or did not fail, or is not open.
LEMMA OpenFailsStep ==
  Inv /\ OpenFailsOnlyWhenFull /\ [Next]_vars => OpenFailsOnlyWhenFull'
<1>. SUFFICES ASSUME Inv, OpenFailsOnlyWhenFull, [Next]_vars
              PROVE  OpenFailsOnlyWhenFull'
  OBVIOUS
<1>0. \A op \in {"none", "close", "read", "write"} : op # "open"
  OBVIOUS
<1>a. call'.op \in {"none", "close", "read", "write"} => OpenFailsOnlyWhenFull'
  BY <1>0, Zenon DEF OpenFailsOnlyWhenFull
<1>b. call' = call /\ process_count' = process_count /\ history' = history
        => OpenFailsOnlyWhenFull'
  BY Zenon DEF OpenFailsOnlyWhenFull, Hist
<1>c. /\ "none" \in {"none", "close", "read", "write"}
      /\ "close" \in {"none", "close", "read", "write"}
      /\ "read" \in {"none", "close", "read", "write"}
      /\ "write" \in {"none", "close", "read", "write"}
  OBVIOUS
<1>1. CASE execute \/ halt
  <2>0. call' = NoCall
    BY <1>1, Zenon DEF execute, halt, Quiet
  <2>1. call'.op = "none"
    BY <2>0, Zenon DEF NoCall
  <2>. QED BY <1>a, <1>c, <2>1, Zenon
<1>2. ASSUME NEW name \in Names, open(name) PROVE OpenFailsOnlyWhenFull'
  <2>1. FreeFds # {} /\ Returns("open", Location, name, Location)
    BY <1>2, Zenon DEF open
  <2>2. call'.ret = Location
    BY <2>1, CallFields, Zenon
  <2>3. Location \in Fds
    BY <2>1, LocationFree
  <2>4. call'.ret # FAIL
    BY <2>2, <2>3, FdAssumption DEF Fds, FAIL
  <2>. QED BY <2>4, Zenon DEF OpenFailsOnlyWhenFull
<1>3. ASSUME NEW name \in Names, open_failed(name) PROVE OpenFailsOnlyWhenFull'
  <2>1. /\ FreeFds = {} \/ read_dentry_by_name(name) = 0
        /\ Returns("open", 0, name, FAIL)
        /\ process_count' = process_count /\ history' = history
    BY <1>3, Zenon DEF open_failed
  <2>2. call'.name = name
    BY <2>1, CallFields, Zenon
  <2>3. CASE FreeFds = {}
    <3>1. SUFFICES ASSUME NEW fd \in Fds
                   PROVE  fd <= 1 \/ Hist[fd].opened \/ Hist[fd].leftover
      BY <2>1, Zenon DEF OpenFailsOnlyWhenFull, Hist
    <3>2. Cur[fd].in_use
      BY <2>3, Zenon DEF FreeFds, check_use
    <3>3. EntryFine(fd, Cur[fd], Hist[fd])
      BY EntryTyped
    <3>. QED BY <3>2, <3>3, Zenon DEF EntryFine
  <2>4. CASE read_dentry_by_name(name) = 0
    <3>1. ~ (\E i \in DOMAIN Dentries : Dentries[i].name = name)
      BY <2>4, Found
    <3>. QED BY <2>2, <3>1, Zenon DEF OpenFailsOnlyWhenFull
  <2>. QED BY <2>1, <2>3, <2>4
<1>4. ASSUME NEW fd \in PassedFds,
             close(fd) \/ close_failed(fd) \/ write(fd)
      PROVE  OpenFailsOnlyWhenFull'
  <2>1. \E ret : Returns("close", fd, "", ret) \/ Returns("write", fd, "", ret)
    BY <1>4, Zenon DEF close, close_failed, write
  <2>2. call'.op = "close" \/ call'.op = "write"
    BY <2>1, CallFields, Zenon
  <2>. QED BY <1>a, <1>c, <2>2, Zenon
<1>5. ASSUME NEW fd \in PassedFds, NEW n \in ReadSizes, read(fd, n)
      PROVE  OpenFailsOnlyWhenFull'
  <2>1. \E ret : Returns("read", fd, "", ret)
    BY <1>5, Zenon DEF read, read_file, read_stale, read_directory
  <2>2. call'.op = "read"
    BY <2>1, CallFields, Zenon
  <2>. QED BY <1>a, <1>c, <2>2, Zenon
<1>6. ASSUME NEW fd \in PassedFds, NEW op \in {"read", "write"},
             read_write_refused(op, fd)
      PROVE  OpenFailsOnlyWhenFull'
  <2>1. call'.op = op
    BY <1>6, Zenon DEF read_write_refused, Returns
  <2>2. call'.op = "read" \/ call'.op = "write"
    BY <2>1, Zenon
  <2>. QED BY <1>a, <1>c, <2>2, Zenon
<1>7. ASSUME NEW fd \in PassedFds, NEW op \in {"read", "write", "close"},
             bad_pointer(op, fd)
      PROVE  OpenFailsOnlyWhenFull'
  <2>1. call'.op = op /\ (op = "read" \/ op = "write" \/ op = "close")
    BY <1>7, Zenon DEF bad_pointer, Exception
  <2>. QED BY <1>a, <1>c, <2>1, Zenon
<1>8. CASE UNCHANGED vars
  BY <1>b, <1>8, Zenon DEF vars
<1>9. ASSUME NEW fd \in PassedFds,
             close_far(fd) \/ \E n \in ReadSizes : read_runaway(fd, n)
      PROVE  OpenFailsOnlyWhenFull'
  <2>1. ASSUME NEW op \in {"read", "close"}, NEW n, Exception(op, fd, n)
        PROVE  OpenFailsOnlyWhenFull'
    <3>1. call'.op = op
      BY <2>1, Zenon DEF Exception
    <3>2. op \in {"none", "close", "read", "write"}
      OBVIOUS
    <3>. QED BY <1>a, <3>1, <3>2, Zenon
  <2>2. "read" \in {"read", "close"} /\ "close" \in {"read", "close"}
    OBVIOUS
  <2>3. CASE close_far(fd)
    BY <2>1, <2>2, <2>3, Zenon DEF close_far
  <2>4. ASSUME NEW n \in ReadSizes, read_runaway(fd, n)
        PROVE  OpenFailsOnlyWhenFull'
    BY <2>1, <2>2, <2>4, Zenon DEF read_runaway
  <2>. QED BY <1>9, <2>3, <2>4, Zenon
<1>. QED
  BY <1>1, <1>2, <1>3, <1>4, <1>5, <1>6, <1>7, <1>8, <1>9, Zenon DEF Next

\* open refuses a file that exists only when no descriptor is free: closed
\* descriptors are never lost, whatever the order of opens and closes.
THEOREM OpenFailsTheorem == Spec => []OpenFailsOnlyWhenFull
<1>1. Init => OpenFailsOnlyWhenFull
  <2>1. ASSUME Init PROVE call.op # "open"
    <3>1. call.op = "none"
      BY <2>1, Zenon DEF Init, NoCall
    <3>. QED BY <3>1
  <2>. QED BY <2>1, Zenon DEF OpenFailsOnlyWhenFull
<1>. QED BY <1>1, OpenFailsStep, FdInvTheorem, PTL DEF Spec

----------------------------------------------------------------------------
(* The order of listings, when one directory at a time is listed to its    *)
(* end: the shared counter is then the count of the one being listed.      *)

\* An update of one descriptor leaves the others alone.
LEMMA OthersKept ==
  ASSUME NEW R, NEW f \in [Procs -> [Fds -> R]], NEW p \in Procs, NEW d \in Fds,
         NEW e, NEW g, g = [f EXCEPT ![p][d] = e]
  PROVE  /\ g[p][d] = e
         /\ \A q \in Procs, b \in Fds : q # p \/ b # d => g[q][b] = f[q][b]
<1>1. f[p] \in [Fds -> R]
  OBVIOUS
<1>2. g = [f EXCEPT ![p] = [f[p] EXCEPT ![d] = e]]
  OBVIOUS
<1>3. /\ g[p] = [f[p] EXCEPT ![d] = e]
      /\ \A q \in Procs : q # p => g[q] = f[q]
  BY <1>2
<1>. QED BY <1>1, <1>3

\* The listings go on as before.
LEMMA ListKept ==
  ASSUME ListShape, dir_read_count' = dir_read_count,
         \A p \in 1 .. process_count', fd \in Fds : Listing(p, fd)' =>
           /\ p \in 1 .. process_count /\ Listing(p, fd)
           /\ history'[p][fd].count = history[p][fd].count,
         \A p \in 1 .. process_count, fd \in Fds : Listing(p, fd) =>
           p \in 1 .. process_count' /\ Listing(p, fd)'
  PROVE  ListShape'
<1>1. \A p \in 1 .. process_count', fd \in Fds :
        Listing(p, fd)' => history'[p][fd].count = dir_read_count'
  <2>1. TAKE p \in 1 .. process_count', fd \in Fds
  <2>2. HAVE Listing(p, fd)'
  <2>3. /\ p \in 1 .. process_count /\ Listing(p, fd)
        /\ history'[p][fd].count = history[p][fd].count
    BY <2>2, Zenon
  <2>. QED BY <2>3, Zenon DEF ListShape
<1>2. \A p, q \in 1 .. process_count', fd, gd \in Fds :
        Listing(p, fd)' /\ Listing(q, gd)' => p = q /\ fd = gd
  <2>1. TAKE p, q \in 1 .. process_count', fd, gd \in Fds
  <2>2. HAVE Listing(p, fd)' /\ Listing(q, gd)'
  <2>3. p \in 1 .. process_count /\ Listing(p, fd)
    BY <2>2, Zenon
  <2>4. q \in 1 .. process_count /\ Listing(q, gd)
    BY <2>2, Zenon
  <2>. QED BY <2>3, <2>4, Zenon DEF ListShape
<1>3. dir_read_count' > 0 =>
        \E p \in 1 .. process_count', fd \in Fds : Listing(p, fd)'
  BY Zenon DEF ListShape
<1>. QED BY <1>1, <1>2, <1>3, Zenon DEF ListShape

\* A call changed only descriptor d, of which no listing was or is going on.
LEMMA ListEntry ==
  ASSUME Inv, ListShape, NEW d \in Fds, process_count' = process_count,
         dir_read_count' = dir_read_count,
         \A q \in Procs, b \in Fds : q # process_count \/ b # d =>
           fde'[q][b] = fde[q][b] /\ history'[q][b] = history[q][b],
         ~ Listing(process_count, d),
         ~ (/\ fde'[process_count][d].in_use
            /\ fde'[process_count][d].fop_ptr = "directory"
            /\ history'[process_count][d].count > 0)
  PROVE  ListShape'
<1>1. 1 .. process_count \subseteq Procs
  BY CountTyped
<1>2. ASSUME NEW p \in 1 .. process_count, NEW fd \in Fds
      PROVE  /\ Listing(p, fd)' <=> Listing(p, fd)
             /\ Listing(p, fd) => history'[p][fd].count = history[p][fd].count
  <2>1. CASE p = process_count /\ fd = d
    BY <2>1, Zenon DEF Listing
  <2>2. CASE p # process_count \/ fd # d
    <3>1. fde'[p][fd] = fde[p][fd] /\ history'[p][fd] = history[p][fd]
      BY <1>1, <2>2, Zenon
    <3>. QED BY <3>1, Zenon DEF Listing
  <2>. QED BY <2>1, <2>2, Zenon
<1>. QED BY <1>2, ListKept, Zenon

\* A step that changes none of it.
LEMMA ListNoStep ==
  ASSUME ListShape, UNCHANGED <<process_count, fde, dir_read_count, history>>
  PROVE  ListShape'
<1>1. \A p, fd : (Listing(p, fd)' <=> Listing(p, fd)) /\ history'[p][fd] = history[p][fd]
  BY Zenon DEF Listing
<1>. QED BY <1>1, ListKept, Zenon

\* execute: no descriptor of the new process is being listed.
LEMMA ListExecute == ASSUME Inv, ListShape, execute PROVE ListShape'
<1>1. PICK g \in [2 .. OPS_SIZE - 1 -> StackGarbage] :
        /\ fde' = [fde EXCEPT ![process_count'] = NewFds(g)]
        /\ history' = [history EXCEPT ![process_count'] = NewHistory(g)]
  BY Zenon DEF execute
<1>2. /\ process_count' = process_count + 1 /\ process_count < MaxDepth
      /\ dir_read_count' = dir_read_count
  BY Zenon DEF execute
<1>3. process_count \in Procs /\ process_count' \in Procs
  <2>1. process_count \in Procs
    BY CountTyped
  <2>. QED BY <1>2, <2>1, FdAssumption DEF Procs
<1>4. fde \in [Procs -> [Fds -> Entries]] /\ history \in [Procs -> [Fds -> Histories]]
  BY TypeParts DEF Inv
<1>5. /\ history'[process_count'] = NewHistory(g)
      /\ \A p \in Procs : p # process_count' =>
           fde'[p] = fde[p] /\ history'[p] = history[p]
  BY <1>1, <1>3, <1>4
<1>6. \A p, fd : p = process_count' /\ fd \in Fds => ~ Listing(p, fd)'
  <2>1. \A fd \in Fds : ~(NewHistory(g)[fd].count > 0)
    BY NewProcess
  <2>. QED BY <1>5, <2>1, Zenon DEF Listing
<1>7. \A p \in 1 .. process_count : p \in Procs /\ p # process_count'
                                    /\ p \in 1 .. process_count'
  BY <1>2, <1>3, FdAssumption DEF Procs
<1>8. \A p \in 1 .. process_count' : p = process_count' \/ p \in 1 .. process_count
  BY <1>2, <1>3, FdAssumption DEF Procs
<1>9. \A p \in 1 .. process_count, fd \in Fds :
        (Listing(p, fd)' <=> Listing(p, fd)) /\ history'[p][fd] = history[p][fd]
  BY <1>5, <1>7, Zenon DEF Listing
<1>. QED BY <1>2, <1>6, <1>7, <1>8, <1>9, ListKept, Zenon

\* halt: a process that halts has listed its directories to the end.
LEMMA ListHalt == ASSUME WholeListings, Inv, ListShape, halt PROVE ListShape'
<1>1. /\ process_count > 1 /\ process_count' = process_count - 1
      /\ fde' = fde /\ dir_read_count' = dir_read_count /\ history' = history
      /\ \A fd \in Fds : ~ Listing(process_count, fd)
  BY Zenon DEF halt
<1>2. process_count \in Nat
  BY CountTyped, FdAssumption DEF Procs
<1>3. \A p \in 1 .. process_count' : p \in 1 .. process_count
  BY <1>1, <1>2
<1>4. \A p \in 1 .. process_count : p = process_count \/ p \in 1 .. process_count'
  BY <1>1, <1>2
<1>5. \A p, fd : (Listing(p, fd)' <=> Listing(p, fd)) /\ history'[p][fd] = history[p][fd]
  BY <1>1, Zenon DEF Listing
<1>. QED BY <1>1, <1>3, <1>4, <1>5, ListKept, Zenon

\* The entry that a call of the current process replaces.
LEMMA ListStored ==
  ASSUME Inv, ListShape, NEW d \in Fds, NEW e, NEW h,
         fde' = [fde EXCEPT ![process_count][d] = e],
         history' = [history EXCEPT ![process_count][d] = h],
         process_count' = process_count, dir_read_count' = dir_read_count,
         ~ Listing(process_count, d),
         ~ (e.in_use /\ e.fop_ptr = "directory" /\ h.count > 0)
  PROVE  ListShape'
<1>1. /\ process_count \in Procs
      /\ fde \in [Procs -> [Fds -> Entries]]
      /\ history \in [Procs -> [Fds -> Histories]]
  BY TypeParts, Zenon DEF Inv
<1>2. /\ fde'[process_count][d] = e
      /\ \A q \in Procs, b \in Fds : q # process_count \/ b # d =>
           fde'[q][b] = fde[q][b]
  BY <1>1, OthersKept
<1>3. /\ history'[process_count][d] = h
      /\ \A q \in Procs, b \in Fds : q # process_count \/ b # d =>
           history'[q][b] = history[q][b]
  BY <1>1, OthersKept
<1>4. ~ (/\ fde'[process_count][d].in_use
         /\ fde'[process_count][d].fop_ptr = "directory"
         /\ history'[process_count][d].count > 0)
  BY <1>2, <1>3, Zenon
<1>. QED BY <1>2, <1>3, <1>4, ListEntry, Zenon

\* open: the descriptor was not in use, and nothing of it has been read.
LEMMA ListOpen ==
  ASSUME NEW name \in Names, Inv, ListShape, open(name) PROVE ListShape'
<1>. DEFINE h == [NotOpened EXCEPT !.opened = TRUE]
<1>1. PICK e :
        /\ FreeFds # {}
        /\ fde' = [fde EXCEPT ![process_count][Location] = e]
        /\ history' = [history EXCEPT ![process_count][Location] = h]
        /\ process_count' = process_count /\ dir_read_count' = dir_read_count
  BY Zenon DEF open
<1>2. Location \in Fds /\ ~ check_use(Location)
  BY <1>1, LocationFree
<1>3. ~ Listing(process_count, Location)
  BY <1>2, Zenon DEF Listing, check_use, Cur
<1>4. h.count = 0
  BY Zenon DEF NotOpened
<1>. HIDE DEF h
<1>5. ~(h.count > 0)
  BY <1>4
<1>. QED BY <1>1, <1>2, <1>3, <1>5, ListStored, Zenon

\* close: of a directory only before its listing or after it.
LEMMA ListClose ==
  ASSUME WholeListings, NEW fd, Inv, ListShape, close(fd) PROVE ListShape'
<1>1. PICK e :
        /\ Closable(fd) /\ ~ Listing(process_count, fd)
        /\ fde' = [fde EXCEPT ![process_count][fd] = e]
        /\ history' = [history EXCEPT ![process_count][fd] = NotOpened]
        /\ process_count' = process_count /\ dir_read_count' = dir_read_count
  BY Zenon DEF close
<1>2. fd \in Fds
  BY <1>1, Zenon DEF Closable
<1>3. NotOpened.count = 0
  BY Zenon DEF NotOpened
<1>4. ~(NotOpened.count > 0)
  BY <1>3
<1>. QED BY <1>1, <1>2, <1>4, ListStored, Zenon

\* A read of a file is no listing.
LEMMA ListReadFile ==
  ASSUME NEW fd, NEW n, Inv, ListShape, Readable(fd), read_file(fd, n),
         process_count' = process_count
  PROVE  ListShape'
<1>1. fd \in Fds /\ Cur[fd].fop_ptr = "file"
  BY Zenon DEF Readable, read_file
<1>2. PICK k, c :
        /\ fde' = [fde EXCEPT ![process_count][fd] = [Cur[fd] EXCEPT !.file_pos = k]]
        /\ history' = [history EXCEPT ![process_count][fd] =
                         [Hist[fd] EXCEPT !.count = c]]
        /\ dir_read_count' = dir_read_count
  BY Zenon DEF read_file, Cur, Hist
<1>3. Cur[fd] \in Entries
  BY <1>1, EntryTyped
<1>. DEFINE e == [Cur[fd] EXCEPT !.file_pos = k]
<1>4. e.fop_ptr = "file"
  BY <1>1, <1>3, Zenon DEF Entries
<1>5. "file" # "directory"
  OBVIOUS
<1>6. ~ Listing(process_count, fd)
  BY <1>1, <1>5, Zenon DEF Listing, Cur
<1>. HIDE DEF e
<1>7. fde' = [fde EXCEPT ![process_count][fd] = e]
  BY <1>2, Zenon DEF e
<1>. QED BY <1>1, <1>2, <1>4, <1>5, <1>6, <1>7, ListStored, Zenon

\* A read of a directory: if it is being listed the counter is its count, if
\* not then no directory is and the counter is 0.
LEMMA CounterIsCount ==
  ASSUME WholeListings, NEW fd, Inv, ListShape, Readable(fd), read_directory(fd)
  PROVE  Hist[fd].count = dir_read_count
<1>1. fd \in Fds /\ Cur[fd].in_use /\ Cur[fd].fop_ptr = "directory"
      /\ \A p \in 1 .. process_count, other \in Fds :
           Listing(p, other) => p = process_count /\ other = fd
  BY Zenon DEF Readable, check_use, read_directory
<1>2. Hist[fd].count \in Nat
  <2>1. Hist[fd] \in Histories
    BY <1>1, EntryTyped
  <2>. QED BY <2>1, HistoryFields
<1>3. dir_read_count \in Nat
  <2>1. dir_read_count \in 0 .. Len(Dentries)
    BY TypeParts, Zenon DEF Inv
  <2>. QED BY <2>1, FdAssumption
<1>4. process_count \in 1 .. process_count
  BY CountTyped, FdAssumption DEF Procs
<1>5. CASE Hist[fd].count > 0
  <2>1. Listing(process_count, fd)
    BY <1>1, <1>5, Zenon DEF Listing, Cur, Hist
  <2>. QED BY <1>1, <1>4, <2>1, Zenon DEF ListShape, Hist
<1>6. CASE ~(Hist[fd].count > 0)
  <2>1. ~ Listing(process_count, fd)
    BY <1>6, Zenon DEF Listing, Hist
  <2>2. ~ (\E p \in 1 .. process_count, other \in Fds : Listing(p, other))
    BY <1>1, <2>1, Zenon
  <2>3. ~(dir_read_count > 0)
    BY <2>2, Zenon DEF ListShape
  <2>. QED BY <1>2, <1>3, <1>6, <2>3
<1>. QED BY <1>5, <1>6

\* The counter and the count move together, to the next entry or back to 0.
LEMMA ReadDirectoryCount ==
  ASSUME WholeListings, NEW fd, Inv, ListShape, Readable(fd), read_directory(fd)
  PROVE  /\ fd \in Fds /\ dir_read_count' \in Nat
         /\ history'[process_count][fd].count = dir_read_count'
         /\ \A q \in Procs, b \in Fds : q # process_count \/ b # fd =>
              history'[q][b] = history[q][b]
         /\ \E ret : Returns("read", fd, "", ret) /\
                     (ret > 0 => ret = dir_read_count')
<1>1. fd \in Fds
  BY Zenon DEF Readable
<1>2. Hist[fd].count = dir_read_count
  BY CounterIsCount
<1>3. Hist[fd] \in Histories
  BY <1>1, EntryTyped
<1>4. dir_read_count \in Nat
  BY <1>2, <1>3, HistoryFields
<1>5. process_count \in Procs /\ history \in [Procs -> [Fds -> Histories]]
  BY TypeParts, Zenon DEF Inv
<1>6. ASSUME NEW k, history' = [history EXCEPT ![process_count][fd] =
                                  [Hist[fd] EXCEPT !.count = k]]
      PROVE  /\ history'[process_count][fd].count = k
             /\ \A q \in Procs, b \in Fds : q # process_count \/ b # fd =>
                  history'[q][b] = history[q][b]
  <2>1. /\ history'[process_count][fd] = [Hist[fd] EXCEPT !.count = k]
        /\ \A q \in Procs, b \in Fds : q # process_count \/ b # fd =>
             history'[q][b] = history[q][b]
    BY <1>1, <1>5, <1>6, OthersKept
  <2>2. [Hist[fd] EXCEPT !.count = k].count = k
    BY <1>3, Zenon DEF Histories
  <2>. QED BY <2>1, <2>2, Zenon
<1>7. CASE AtEnd(dir_read_count)
  <2>1. /\ dir_read_count' = 0
        /\ history' = [history EXCEPT ![process_count][fd] =
                         [Hist[fd] EXCEPT !.count = 0]]
        /\ Returns("read", fd, "", 0)
    BY <1>7, Zenon DEF read_directory, NextCount, Hist
  <2>2. 0 \in Nat /\ ~(0 > 0)
    OBVIOUS
  <2>. QED BY <1>1, <1>6, <2>1, <2>2, Zenon
<1>8. CASE ~ AtEnd(dir_read_count)
  <2>1. /\ dir_read_count' = dir_read_count + 1
        /\ history' = [history EXCEPT ![process_count][fd] =
                         [Hist[fd] EXCEPT !.count = @ + 1]]
        /\ Returns("read", fd, "", dir_read_count + 1)
    BY <1>8, Zenon DEF read_directory, NextCount, Hist
  <2>2. history' = [history EXCEPT ![process_count][fd] =
                      [Hist[fd] EXCEPT !.count = dir_read_count + 1]]
    BY <1>2, <2>1, Zenon
  <2>3. dir_read_count + 1 \in Nat
    BY <1>4
  <2>. QED BY <1>1, <1>6, <2>1, <2>2, <2>3, Zenon
<1>. QED BY <1>7, <1>8, Zenon

\* A read of a directory keeps the shared position in step with the one open
\* listing.
LEMMA ListReadDirectory ==
  ASSUME WholeListings, NEW fd, Inv, ListShape, Readable(fd), read_directory(fd),
         process_count' = process_count
  PROVE  ListShape'
<1>1. /\ fd \in Fds /\ dir_read_count' \in Nat /\ fde' = fde
      /\ Cur[fd].in_use /\ Cur[fd].fop_ptr = "directory"
      /\ \A p \in 1 .. process_count, other \in Fds :
           Listing(p, other) => p = process_count /\ other = fd
      /\ history'[process_count][fd].count = dir_read_count'
      /\ \A q \in Procs, b \in Fds : q # process_count \/ b # fd =>
           history'[q][b] = history[q][b]
  <2>1. fde' = fde /\ Cur[fd].in_use /\ Cur[fd].fop_ptr = "directory"
        /\ \A p \in 1 .. process_count, other \in Fds :
             Listing(p, other) => p = process_count /\ other = fd
    BY Zenon DEF read_directory, Readable, check_use
  <2>. QED BY <2>1, ReadDirectoryCount, Zenon
<1>2. 1 .. process_count \subseteq Procs
  BY CountTyped
<1>3. \A p \in 1 .. process_count, other \in Fds :
        Listing(p, other)' => p = process_count /\ other = fd
  <2>1. SUFFICES ASSUME NEW p \in 1 .. process_count, NEW other \in Fds,
                        p # process_count \/ other # fd, Listing(p, other)'
                 PROVE  FALSE
    BY Zenon
  <2>2. history'[p][other] = history[p][other]
    BY <1>1, <1>2, <2>1, Zenon
  <2>3. Listing(p, other)
    BY <1>1, <2>1, <2>2, Zenon DEF Listing
  <2>. QED BY <1>1, <2>1, <2>3, Zenon
<1>4. process_count \in 1 .. process_count
  BY CountTyped, FdAssumption DEF Procs
<1>5. dir_read_count' > 0 => Listing(process_count, fd)'
  BY <1>1, Zenon DEF Listing, Cur
<1>6. \A p \in 1 .. process_count', other \in Fds :
        Listing(p, other)' => history'[p][other].count = dir_read_count'
  BY <1>1, <1>3, Zenon
<1>7. \A p, q \in 1 .. process_count', b, c \in Fds :
        Listing(p, b)' /\ Listing(q, c)' => p = q /\ b = c
  BY <1>3, Zenon
<1>8. dir_read_count' > 0 =>
        \E p \in 1 .. process_count', other \in Fds : Listing(p, other)'
  BY <1>1, <1>4, <1>5, Zenon
<1>. QED BY <1>6, <1>7, <1>8, Zenon DEF ListShape

\* Every step keeps the shape of the listings.
LEMMA ListStep ==
  ASSUME WholeListings PROVE Inv /\ ListShape /\ [Next]_vars => ListShape'
<1>. SUFFICES ASSUME Inv, ListShape, [Next]_vars PROVE ListShape'
  OBVIOUS
<1>1. CASE execute
  BY <1>1, ListExecute
<1>2. CASE halt
  BY <1>2, ListHalt
<1>3. ASSUME NEW name \in Names, open(name) PROVE ListShape'
  BY <1>3, ListOpen
<1>4. ASSUME NEW name \in Names, open_failed(name) PROVE ListShape'
  BY <1>4, ListNoStep DEF open_failed
<1>5. ASSUME NEW fd \in PassedFds, close(fd) PROVE ListShape'
  BY <1>5, ListClose
<1>6. ASSUME NEW fd \in PassedFds, close_failed(fd) \/ write(fd)
      PROVE  ListShape'
  BY <1>6, ListNoStep DEF close_failed, write
<1>7. ASSUME NEW fd \in PassedFds, NEW n \in ReadSizes, read(fd, n)
      PROVE  ListShape'
  <2>1. Readable(fd) /\ process_count' = process_count
    BY <1>7, Zenon DEF read
  <2>2. CASE read_file(fd, n)
    BY <2>1, <2>2, ListReadFile
  <2>3. CASE read_directory(fd)
    BY <2>1, <2>3, ListReadDirectory
  <2>4. CASE UNCHANGED <<fde, dir_read_count, history>>
    BY <2>1, <2>4, ListNoStep
  <2>. QED BY <1>7, <2>2, <2>3, <2>4, Zenon DEF read, read_stale
<1>8. ASSUME NEW fd \in PassedFds, NEW op \in {"read", "write"},
             read_write_refused(op, fd)
      PROVE  ListShape'
  BY <1>8, ListNoStep DEF read_write_refused
<1>9. ASSUME NEW fd \in PassedFds, NEW op \in {"read", "write", "close"},
             bad_pointer(op, fd)
      PROVE  ListShape'
  <2>1. UNCHANGED <<process_count, fde, dir_read_count, history>>
    BY <1>9, Zenon DEF bad_pointer
  <2>. QED BY <2>1, ListNoStep
<1>10. CASE UNCHANGED vars
  BY <1>10, ListNoStep DEF vars
<1>11. ASSUME NEW fd \in PassedFds,
              close_far(fd) \/ \E n \in ReadSizes : read_runaway(fd, n)
       PROVE  ListShape'
  <2>1. UNCHANGED <<process_count, fde, dir_read_count, history>>
    BY <1>11, Zenon DEF close_far, read_runaway
  <2>. QED BY <2>1, ListNoStep
<1>. QED
  BY <1>1, <1>2, <1>3, <1>4, <1>5, <1>6, <1>7, <1>8, <1>9, <1>10, <1>11, Zenon
  DEF Next

\* The last call was a read of a directory and returned its next entry, or was
\* something else.
LEMMA OrderStep ==
  ASSUME WholeListings
  PROVE  Inv /\ ListShape /\ ListingInOrder /\ [Next]_vars => ListingInOrder'
<1>. SUFFICES ASSUME Inv, ListShape, ListingInOrder, [Next]_vars
              PROVE  ListingInOrder'
  OBVIOUS
<1>a. call'.op \in {"none", "open", "close", "write"} => ListingInOrder'
  <2>1. \A op \in {"none", "open", "close", "write"} : op # "read"
    OBVIOUS
  <2>. QED BY <2>1, Zenon DEF ListingInOrder
<1>b. UNCHANGED <<call, process_count, fde, history>> => ListingInOrder'
  BY Zenon DEF ListingInOrder, Hist, Cur
<1>c. ASSUME NEW op \in {"none", "open", "close", "write"}, NEW fd, NEW name,
             NEW ret, Returns(op, fd, name, ret)
      PROVE  ListingInOrder'
  BY <1>a, <1>c, CallFields, Zenon
<1>d. /\ "none" \in {"none", "open", "close", "write"}
      /\ "open" \in {"none", "open", "close", "write"}
      /\ "close" \in {"none", "open", "close", "write"}
      /\ "write" \in {"none", "open", "close", "write"}
  OBVIOUS
<1>e. ASSUME NEW op, NEW fd, NEW ret \in {0, FAIL}, Returns(op, fd, "", ret)
      PROVE  ListingInOrder'
  <2>1. call'.ret = ret
    BY <1>e, CallFields, Zenon
  <2>2. ~(ret > 0)
    BY DEF FAIL
  <2>. QED BY <2>1, <2>2, Zenon DEF ListingInOrder
<1>f. ASSUME NEW op, NEW fd, NEW n, Exception(op, fd, n) PROVE ListingInOrder'
  <2>1. call'.ret = 0
    BY <1>f, Zenon DEF Exception
  <2>2. ~(0 > 0)
    OBVIOUS
  <2>. QED BY <2>1, <2>2, Zenon DEF ListingInOrder
<1>1. CASE execute \/ halt
  <2>1. Returns("none", 0, "", 0)
    BY <1>1, Zenon DEF execute, halt, Quiet, NoCall, Returns
  <2>. QED BY <1>c, <1>d, <2>1, Zenon
<1>2. ASSUME NEW name \in Names, open(name) \/ open_failed(name)
      PROVE  ListingInOrder'
  <2>1. \E fd, ret : Returns("open", fd, name, ret)
    BY <1>2, Zenon DEF open, open_failed
  <2>. QED BY <1>c, <1>d, <2>1, Zenon
<1>3. ASSUME NEW fd \in PassedFds, close(fd) \/ close_failed(fd) \/ write(fd)
      PROVE  ListingInOrder'
  <2>1. \E ret : Returns("close", fd, "", ret) \/ Returns("write", fd, "", ret)
    BY <1>3, Zenon DEF close, close_failed, write
  <2>. QED BY <1>c, <1>d, <2>1, Zenon
<1>4. ASSUME NEW fd \in PassedFds, NEW n \in ReadSizes, read(fd, n)
      PROVE  ListingInOrder'
  <2>1. Readable(fd) /\ fd \in Fds /\ process_count' = process_count
    BY <1>4, Zenon DEF read, Readable
  <2>2. CASE read_file(fd, n)
    <3>1. \E ret : Returns("read", fd, "", ret)
      BY <2>2, Zenon DEF read_file
    <3>2. call'.fd = fd
      BY <3>1, CallFields, Zenon
    <3>3. PICK k :
            fde' = [fde EXCEPT ![process_count][fd] = [Cur[fd] EXCEPT !.file_pos = k]]
      BY <2>2, Zenon DEF read_file, Cur
    <3>4. Cur[fd] \in Entries /\ Cur[fd].fop_ptr = "file"
      BY <2>1, <2>2, EntryTyped DEF read_file
    <3>5. [Cur[fd] EXCEPT !.file_pos = k].fop_ptr = "file"
      BY <3>4, Zenon DEF Entries
    <3>6. process_count \in Procs /\ fde \in [Procs -> [Fds -> Entries]]
      BY TypeParts, Zenon DEF Inv
    <3>7. fde'[process_count][fd] = [Cur[fd] EXCEPT !.file_pos = k]
      BY <2>1, <3>3, <3>6, OthersKept
    <3>8. "file" # "directory"
      OBVIOUS
    <3>. QED BY <2>1, <3>2, <3>5, <3>7, <3>8, Zenon DEF ListingInOrder, Cur
  <2>3. CASE read_directory(fd)
    <3>1. PICK ret : /\ Returns("read", fd, "", ret)
                     /\ ret > 0 => ret = dir_read_count'
                     /\ history'[process_count][fd].count = dir_read_count'
      BY <2>1, <2>3, ReadDirectoryCount, Zenon
    <3>2. call'.fd = fd /\ call'.ret = ret
      BY <3>1, CallFields, Zenon
    <3>. QED BY <2>1, <3>1, <3>2, Zenon DEF ListingInOrder, Hist
  <2>4. CASE Returns("read", fd, "", 0)
    BY <1>e, <2>4, Zenon
  <2>5. CASE read_stale(fd)
    <3>1. call'.fd = fd /\ fde' = fde /\ Cur[fd].fop_ptr = "stale"
      BY <2>5, CallFields, Zenon DEF read_stale
    <3>2. "stale" # "directory"
      OBVIOUS
    <3>. QED BY <2>1, <3>1, <3>2, Zenon DEF ListingInOrder, Cur
  <2>. QED BY <1>4, <2>2, <2>3, <2>4, <2>5, Zenon DEF read
<1>5. ASSUME NEW fd \in PassedFds, NEW op \in {"read", "write"},
             read_write_refused(op, fd)
      PROVE  ListingInOrder'
  BY <1>e, <1>5, Zenon DEF read_write_refused
<1>6. ASSUME NEW fd \in PassedFds, NEW op \in {"read", "write", "close"},
             bad_pointer(op, fd)
      PROVE  ListingInOrder'
  BY <1>f, <1>6, Zenon DEF bad_pointer
<1>7. CASE UNCHANGED vars
  BY <1>b, <1>7, Zenon DEF vars
<1>8. ASSUME NEW fd \in PassedFds,
             close_far(fd) \/ \E n \in ReadSizes : read_runaway(fd, n)
      PROVE  ListingInOrder'
  BY <1>f, <1>8, Zenon DEF close_far, read_runaway
<1>. QED
  BY <1>1, <1>2, <1>3, <1>4, <1>5, <1>6, <1>7, <1>8, Zenon DEF Next

\* Nothing is being listed at first.
LEMMA ListInit == Init => ListShape /\ ListingInOrder
<1>. SUFFICES ASSUME Init PROVE ListShape /\ ListingInOrder
  OBVIOUS
<1>1. PICK g \in [2 .. OPS_SIZE - 1 -> StackGarbage] :
        history = [p \in Procs |->
                     IF p = 1 THEN NewHistory(g) ELSE [fd \in Fds |-> NotOpened]]
  BY DEF Init
<1>2. process_count = 1 /\ dir_read_count = 0 /\ 1 \in Procs
  <2>1. process_count = 1 /\ dir_read_count = 0
    BY Zenon DEF Init
  <2>. QED BY <2>1, FdAssumption DEF Procs
<1>3. history[1] = NewHistory(g)
  BY <1>1, <1>2
<1>4. \A p \in 1 .. process_count : p = 1
  BY <1>2
<1>5. \A fd \in Fds : ~(NewHistory(g)[fd].count > 0)
  BY NewProcess
<1>6. \A p \in 1 .. process_count, fd \in Fds : ~ Listing(p, fd)
  BY <1>3, <1>4, <1>5, Zenon DEF Listing
<1>7. ~(dir_read_count > 0)
  BY <1>2
<1>8. ListShape
  BY <1>6, <1>7, Zenon DEF ListShape
<1>9. call.op = "none"
  BY Zenon DEF Init, NoCall
<1>10. call.op # "read"
  BY <1>9
<1>. QED BY <1>8, <1>10, Zenon DEF ListingInOrder

\* If directories are listed to the end, one at a time, consecutive calls of
\* read_directory return consecutive entries from the first on, in any program
\* and any process, although they share one static counter; without the
\* condition they do not (run fds_listing).
THEOREM ListingTheorem == ASSUME WholeListings PROVE Spec => []ListingInOrder
<1>1. Spec => [](ListShape /\ ListingInOrder)
  BY ListInit, ListStep, OrderStep, FdInvTheorem, PTL DEF Spec
<1>. QED BY <1>1, PTL

----------------------------------------------------------------------------
(* syserr: the invariant. *)

\* The number of calls of err_open_lots, the comparison at its end included.
LOTS == 2 * OPS_SIZE - 2

Ops == {"open", "close", "read", "write", "vidmap", "number", "open_count",
        "close_any", "end_lots"}
Tried == {".", "helloo", "shel", ""}
Calls == [op : Ops, fd : Int, name : Tried]

\* A call that must return -1 in a program that has only stdin and stdout.
Wrong(c) ==
  /\ c \in Calls
  /\ \/ c.op = "open" /\ read_dentry_by_name(c.name) = 0
     \/ c.op = "close" /\ c.fd \in -1 .. OPS_SIZE
     \/ c.op = "read" /\ c.fd \in -1 .. OPS_SIZE /\ c.fd # 0
     \/ c.op = "write" /\ c.fd \in -1 .. OPS_SIZE /\ c.fd # 1
     \/ c.op = "vidmap" /\ vidmap(c.fd) = FAIL
     \/ c.op = "number" /\ syscall_number(c.fd) = FAIL

AllWrong(s) == s \in Seq(Calls) /\ \A i \in 1 .. Len(s) : Wrong(s[i])

\* In s the calls of err_open_lots come after the first b ones, or -b of them
\* have been made already; all other calls are wrong ones.
LotsAt(s, b) ==
  /\ s \in Seq(Calls)
  /\ b \in Int /\ -LOTS <= b /\ b <= Len(s) - LOTS
  /\ \A i \in 1 .. Len(s) :
       IF b < i /\ i <= b + LOTS THEN s[i] = err_open_lots[i - b] ELSE Wrong(s[i])

\* The descriptors in use after j calls of err_open_lots.
UsedAfter(j, fd) ==
  \/ fd <= 1
  \/ j <= OPS_SIZE - 2 /\ fd < 2 + j
  \/ j >= OPS_SIZE - 1 /\ fd >= j - OPS_SIZE + 3

Made(b) == IF b < 0 THEN -b ELSE 0

\* The state of a clean syserr that has made j of them.
UsedIs(j) ==
  \A fd \in Fds : ~ Hist[fd].leftover /\ (Cur[fd].in_use <=> UsedAfter(j, fd))

CleanAfter(j) ==
  /\ UsedIs(j)
  /\ j <= OPS_SIZE - 2 => prog.cnt = 0
  /\ j >= OPS_SIZE - 1 /\ j < LOTS => prog.cnt = 1

Progs == [at : {"off", "select", "tests"}, script : Seq(Calls), fail : BOOLEAN,
          cnt : Nat, clean : BOOLEAN]

\* The script that is left, and what the calls made so far have led to.
ScriptShape ==
  prog.at = "tests" =>
    \E b \in Int : LotsAt(prog.script, b) /\ (prog.clean => CleanAfter(Made(b)))

CleanShape ==
  prog.clean =>
    /\ prog.at # "off" /\ ~ prog.fail /\ cpu = "user"
    /\ prog.at = "select" => CleanAfter(0) /\ Cur[0].fop_ptr = "terminal"

SysErrInv == prog \in Progs /\ ScriptShape /\ CleanShape

\* A call that changes nothing and is not a read, and opens no file there is.
Harmless ==
  /\ cpu = "user"
  /\ UNCHANGED <<process_count, fde, dir_read_count, cpu, history>>
  /\ \/ call'.op \in {"vidmap", "number"}
     \/ call'.op = "open" /\ read_dentry_by_name(call'.name) = 0

----------------------------------------------------------------------------
(* The scripts of syserr. *)

\* The names of err_open are not in the directory, and "." is.
LEMMA NamesTried ==
  /\ read_dentry_by_name(".") # 0
  /\ \A s \in {"helloo", "shel", ""} : read_dentry_by_name(s) = 0
<1>1. read_dentry_by_name(".") # 0
  BY SysErrAssumption, Found
<1>2. ASSUME NEW s \in {"helloo", "shel", ""} PROVE read_dentry_by_name(s) = 0
  <2>1. {i \in DOMAIN Dentries : Dentries[i].name = s} = {}
    BY SysErrAssumption
  <2>. QED BY <2>1, Zenon DEF read_dentry_by_name
<1>. QED BY <1>1, <1>2

\* The fields of a call.
LEMMA CallShape ==
  ASSUME NEW op \in Ops, NEW arg \in Int, NEW s \in Tried
  PROVE  /\ Call(op, arg) \in Calls /\ Call(op, arg).op = op
         /\ Call(op, arg).fd = arg
         /\ OpenCall(s) \in Calls /\ OpenCall(s).op = "open"
         /\ OpenCall(s).name = s
<1>1. "open" \in Ops /\ "" \in Tried
  BY Zenon DEF Ops, Tried
<1>2. 0 \in Int
  OBVIOUS
<1>. QED BY <1>1, <1>2, Zenon DEF Call, OpenCall, Calls

\* The calls of the tests other than err_open_lots.
LEMMA WrongCalls ==
  /\ \A arg \in -1 .. OPS_SIZE : Wrong(Call("close", arg))
  /\ \A arg \in -1 .. OPS_SIZE : arg # 0 => Wrong(Call("read", arg))
  /\ \A arg \in -1 .. OPS_SIZE : arg # 1 => Wrong(Call("write", arg))
  /\ \A s \in {"helloo", "shel", ""} : Wrong(OpenCall(s))
  /\ Wrong(Call("vidmap", 0)) /\ Wrong(Call("vidmap", 1))
  /\ Wrong(Call("number", 11)) /\ Wrong(Call("number", -1)) /\ Wrong(Call("number", 0))
<1>0. -1 .. OPS_SIZE \subseteq Int
  BY FdAssumption
<1>b. 0 \in Int
  OBVIOUS
<1>a. ASSUME NEW op \in {"close", "read", "write", "vidmap", "number"}, NEW arg \in Int
      PROVE  /\ Call(op, arg) \in Calls /\ Call(op, arg).op = op
             /\ Call(op, arg).fd = arg
  <2>1. op \in Ops /\ "" \in Tried
    BY DEF Ops, Tried
  <2>. QED BY <2>1, CallShape, Zenon
<1>1. ASSUME NEW arg \in -1 .. OPS_SIZE PROVE Wrong(Call("close", arg))
  <2>1. Call("close", arg) \in Calls /\ Call("close", arg).op = "close"
        /\ Call("close", arg).fd = arg
    BY <1>0, <1>a
  <2>. QED BY <2>1, Zenon DEF Wrong
<1>2. ASSUME NEW arg \in -1 .. OPS_SIZE, arg # 0 PROVE Wrong(Call("read", arg))
  <2>1. Call("read", arg) \in Calls /\ Call("read", arg).op = "read"
        /\ Call("read", arg).fd = arg
    BY <1>0, <1>a
  <2>. QED BY <1>2, <2>1, Zenon DEF Wrong
<1>3. ASSUME NEW arg \in -1 .. OPS_SIZE, arg # 1 PROVE Wrong(Call("write", arg))
  <2>1. Call("write", arg) \in Calls /\ Call("write", arg).op = "write"
        /\ Call("write", arg).fd = arg
    BY <1>0, <1>a
  <2>. QED BY <1>3, <2>1, Zenon DEF Wrong
<1>4. ASSUME NEW s \in {"helloo", "shel", ""} PROVE Wrong(OpenCall(s))
  <2>1. s \in Tried
    BY DEF Tried
  <2>2. /\ OpenCall(s) \in Calls /\ OpenCall(s).op = "open"
        /\ OpenCall(s).name = s
    <3>1. "open" \in Ops
      BY Zenon DEF Ops
    <3>. QED BY <1>b, <2>1, <3>1, CallShape, Zenon
  <2>. QED BY <2>2, NamesTried DEF Wrong
<1>5. ASSUME NEW arg \in {0, 1} PROVE Wrong(Call("vidmap", arg))
  <2>1. vidmap(arg) = FAIL
    BY DEF vidmap, TOP_PAGE, BOTTOM_PAGE, NULL_PTR
  <2>2. Call("vidmap", arg) \in Calls /\ Call("vidmap", arg).op = "vidmap"
        /\ Call("vidmap", arg).fd = arg
    BY <1>a
  <2>. QED BY <2>1, <2>2, Zenon DEF Wrong
<1>6. ASSUME NEW arg \in {11, -1, 0} PROVE Wrong(Call("number", arg))
  <2>1. syscall_number(arg) = FAIL
    BY DEF syscall_number
  <2>2. Call("number", arg) \in Calls /\ Call("number", arg).op = "number"
        /\ Call("number", arg).fd = arg
    BY <1>a
  <2>. QED BY <2>1, <2>2, Zenon DEF Wrong
<1>. QED BY <1>1, <1>2, <1>3, <1>4, <1>5, <1>6

\* Three wrong calls, and two, in a row.
LEMMA WrongTuples ==
  ASSUME NEW c, NEW d, NEW e, Wrong(c), Wrong(d), Wrong(e)
  PROVE  AllWrong(<<c, d>>) /\ AllWrong(<<c, d, e>>)
<1>1. c \in Calls /\ d \in Calls /\ e \in Calls
  BY DEF Wrong
<1>2. /\ <<c, d>> \in Seq(Calls) /\ Len(<<c, d>>) = 2
      /\ <<c, d, e>> \in Seq(Calls) /\ Len(<<c, d, e>>) = 3
  BY <1>1
<1>3. \A i \in 1 .. 2 : Wrong(<<c, d>>[i])
  <2>1. \A i \in 1 .. 2 : i = 1 \/ i = 2
    OBVIOUS
  <2>2. <<c, d>>[1] = c /\ <<c, d>>[2] = d
    OBVIOUS
  <2>. QED BY <2>1, <2>2, Zenon
<1>4. \A i \in 1 .. 3 : Wrong(<<c, d, e>>[i])
  <2>1. \A i \in 1 .. 3 : i = 1 \/ i = 2 \/ i = 3
    OBVIOUS
  <2>2. <<c, d, e>>[1] = c /\ <<c, d, e>>[2] = d /\ <<c, d, e>>[3] = e
    OBVIOUS
  <2>. QED BY <2>1, <2>2, Zenon
<1>. QED BY <1>2, <1>3, <1>4, Zenon DEF AllWrong

\* Wrong calls on every descriptor of a range.
LEMMA WrongForFds ==
  ASSUME NEW op \in Ops, NEW from \in 0 .. OPS_SIZE,
         \A arg \in from .. OPS_SIZE : Wrong(Call(op, arg))
  PROVE  AllWrong(ForFds(op, from))
<1>. DEFINE s == ForFds(op, from)
            n == OPS_SIZE - from
<1>1. n \in Nat /\ OPS_SIZE \in Nat /\ from \in Nat
  BY FdAssumption
<1>2. \A k \in 1 .. n : from + k - 1 \in from .. OPS_SIZE
  BY <1>1
<1>3. s = [k \in 1 .. n |-> Call(op, from + k - 1)]
  BY DEF ForFds
<1>4. \A k \in 1 .. n : s[k] = Call(op, from + k - 1)
  BY <1>3
<1>5. \A k \in 1 .. n : Wrong(s[k])
  BY <1>2, <1>4, Zenon
<1>6. \A k \in 1 .. n : Call(op, from + k - 1) \in Calls
  BY <1>4, <1>5, Zenon DEF Wrong
<1>. HIDE DEF s
<1>7. s \in [1 .. n -> Calls]
  BY <1>3, <1>6
<1>8. s \in Seq(Calls) /\ Len(s) = n
  BY <1>1, <1>7
<1>. QED BY <1>5, <1>8, Zenon DEF AllWrong, s

\* Wrong calls followed by wrong calls.
LEMMA WrongConcat ==
  ASSUME NEW s, NEW t, AllWrong(s), AllWrong(t) PROVE AllWrong(s \o t)
<1>1. s \in Seq(Calls) /\ t \in Seq(Calls)
  BY DEF AllWrong
<1>2. s \o t \in Seq(Calls) /\ Len(s \o t) = Len(s) + Len(t)
  BY <1>1
<1>3. ASSUME NEW i \in 1 .. Len(s \o t) PROVE Wrong((s \o t)[i])
  <2>1. CASE i <= Len(s)
    <3>1. i \in 1 .. Len(s) /\ (s \o t)[i] = s[i]
      BY <1>1, <1>2, <2>1
    <3>. QED BY <3>1 DEF AllWrong
  <2>2. CASE i > Len(s)
    <3>1. i - Len(s) \in 1 .. Len(t) /\ (s \o t)[i] = t[i - Len(s)]
      BY <1>1, <1>2, <2>2
    <3>. QED BY <3>1 DEF AllWrong
  <2>3. i <= Len(s) \/ i > Len(s)
    BY <1>1, <1>2
  <2>. QED BY <2>1, <2>2, <2>3
<1>. QED BY <1>2, <1>3 DEF AllWrong

\* The tests other than err_open_lots consist of wrong calls.
LEMMA TestsWrong ==
  /\ AllWrong(err_neg_fd) /\ AllWrong(err_big_fd) /\ AllWrong(err_open)
  /\ AllWrong(err_unopened) /\ AllWrong(err_vidmap) /\ AllWrong(err_stdin_out)
  /\ AllWrong(err_syscall_num)
<1>0. OPS_SIZE \in Nat /\ OPS_SIZE > 2
  BY FdAssumption
<1>1. ASSUME NEW arg \in {-1, OPS_SIZE} PROVE AllWrong(BadFd(arg))
  <2>1. arg \in -1 .. OPS_SIZE /\ arg # 0 /\ arg # 1
    BY <1>0
  <2>2. Wrong(Call("read", arg)) /\ Wrong(Call("write", arg)) /\ Wrong(Call("close", arg))
    BY <2>1, WrongCalls, Zenon
  <2>. QED BY <2>2, WrongTuples, Zenon DEF BadFd
<1>2. AllWrong(err_open)
  <2>1. Wrong(OpenCall("helloo")) /\ Wrong(OpenCall("shel")) /\ Wrong(OpenCall(""))
    BY WrongCalls
  <2>. QED BY <2>1, WrongTuples, Zenon DEF err_open
<1>3. AllWrong(err_unopened)
  <2>1. /\ 0 \in 0 .. OPS_SIZE /\ 2 \in 0 .. OPS_SIZE
        /\ 0 .. OPS_SIZE \subseteq -1 .. OPS_SIZE
        /\ \A arg \in 2 .. OPS_SIZE : arg \in -1 .. OPS_SIZE /\ arg # 0 /\ arg # 1
    BY <1>0
  <2>2. "close" \in Ops /\ "read" \in Ops /\ "write" \in Ops
    BY DEF Ops
  <2>3. /\ \A arg \in 0 .. OPS_SIZE : Wrong(Call("close", arg))
        /\ \A arg \in 2 .. OPS_SIZE : Wrong(Call("read", arg))
        /\ \A arg \in 2 .. OPS_SIZE : Wrong(Call("write", arg))
    BY <2>1, WrongCalls, Zenon
  <2>4. /\ AllWrong(ForFds("close", 0)) /\ AllWrong(ForFds("read", 2))
        /\ AllWrong(ForFds("write", 2))
    BY <2>1, <2>2, <2>3, WrongForFds, Zenon
  <2>. QED BY <2>4, WrongConcat, Zenon DEF err_unopened
<1>4. AllWrong(err_vidmap)
  BY WrongCalls, WrongTuples, Zenon DEF err_vidmap
<1>5. AllWrong(err_stdin_out)
  <2>1. 0 \in -1 .. OPS_SIZE /\ 1 \in -1 .. OPS_SIZE /\ 0 # 1
    BY <1>0
  <2>2. Wrong(Call("write", 0)) /\ Wrong(Call("read", 1))
    BY <2>1, WrongCalls, Zenon
  <2>. QED BY <2>2, WrongTuples, Zenon DEF err_stdin_out
<1>6. AllWrong(err_syscall_num)
  BY WrongCalls, WrongTuples, Zenon DEF err_syscall_num
<1>7. -1 \in {-1, OPS_SIZE} /\ OPS_SIZE \in {-1, OPS_SIZE}
  OBVIOUS
<1>. QED BY <1>1, <1>2, <1>3, <1>4, <1>5, <1>6, <1>7, Zenon DEF err_neg_fd, err_big_fd

\* The calls of two scripts, one after the other.
LEMMA Joined ==
  ASSUME NEW s, NEW t, s \in Seq(Calls), t \in Seq(Calls)
  PROVE  /\ s \o t \in Seq(Calls) /\ Len(s \o t) = Len(s) + Len(t)
         /\ \A k \in 1 .. Len(s) : (s \o t)[k] = s[k]
         /\ \A k \in 1 .. Len(s) + Len(t) : k > Len(s) => (s \o t)[k] = t[k - Len(s)]
<1>1. s \o t \in Seq(Calls) /\ Len(s \o t) = Len(s) + Len(t)
  OBVIOUS
<1>2. \A k \in 1 .. Len(s) : (s \o t)[k] = s[k]
  OBVIOUS
<1>3. \A k \in 1 .. Len(s) + Len(t) : k > Len(s) => (s \o t)[k] = t[k - Len(s)]
  OBVIOUS
<1>. QED BY <1>1, <1>2, <1>3, Zenon

\* The calls of err_open_lots, by their number.
LEMMA LotsCalls ==
  /\ LOTS \in Nat /\ err_open_lots \in Seq(Calls) /\ Len(err_open_lots) = LOTS
  /\ \A k \in 1 .. OPS_SIZE - 1 :
       err_open_lots[k].op = "open_count" /\ err_open_lots[k].name = "."
  /\ \A k \in OPS_SIZE .. LOTS - 1 :
       err_open_lots[k].op = "close_any" /\ err_open_lots[k].fd = k - OPS_SIZE + 2
  /\ err_open_lots[LOTS].op = "end_lots"
<1>. DEFINE n == OPS_SIZE
            oc == [OpenCall(".") EXCEPT !.op = "open_count"]
            cc(k) == [Call("close", k + 1) EXCEPT !.op = "close_any"]
            os == [k \in 1 .. n - 1 |-> oc]
            cs == [k \in 1 .. n - 2 |-> cc(k)]
            es == <<Call("end_lots", 0)>>
<1>0. n \in Nat /\ n > 2 /\ LOTS = 2 * n - 2
  BY FdAssumption DEF LOTS
<1>a. 0 \in Int
  OBVIOUS
<1>1. oc \in Calls /\ oc.op = "open_count" /\ oc.name = "."
  <2>1. oc = [op |-> "open_count", fd |-> 0, name |-> "."]
    BY DEF OpenCall
  <2>2. "open_count" \in Ops /\ "." \in Tried
    BY Zenon DEF Ops, Tried
  <2>. HIDE DEF oc
  <2>. QED BY <1>a, <2>1, <2>2, Zenon DEF Calls
<1>2. ASSUME NEW k \in Int
      PROVE  cc(k) \in Calls /\ cc(k).op = "close_any" /\ cc(k).fd = k + 1
  <2>0. k + 1 \in Int
    OBVIOUS
  <2>1. "close" \in Ops /\ "close_any" \in Ops /\ "" \in Tried
    BY Zenon DEF Ops, Tried
  <2>2. Call("close", k + 1) \in Calls /\ Call("close", k + 1).fd = k + 1
    BY <2>0, <2>1, CallShape, Zenon
  <2>3. cc(k) \in Calls
    BY <2>1, <2>2, Zenon DEF Calls
  <2>4. cc(k).op = "close_any"
    BY <2>2, Zenon DEF Calls
  <2>5. cc(k).fd = k + 1
    BY <2>2, Zenon DEF Calls
  <2>. QED BY <2>3, <2>4, <2>5, Zenon
<1>3. Call("end_lots", 0) \in Calls /\ Call("end_lots", 0).op = "end_lots"
  <2>1. "end_lots" \in Ops /\ "" \in Tried
    BY Zenon DEF Ops, Tried
  <2>. QED BY <1>a, <2>1, CallShape, Zenon
<1>. HIDE DEF oc, cc
<1>4. os \in Seq(Calls) /\ Len(os) = n - 1 /\ \A k \in 1 .. n - 1 : os[k] = oc
  <2>1. n - 1 \in Nat
    BY <1>0
  <2>2. os \in [1 .. n - 1 -> Calls]
    BY <1>1, Zenon
  <2>3. \A k \in 1 .. n - 1 : os[k] = oc
    BY Zenon
  <2>. HIDE DEF os
  <2>. QED BY <2>1, <2>2, <2>3
<1>5. cs \in Seq(Calls) /\ Len(cs) = n - 2 /\ \A k \in 1 .. n - 2 : cs[k] = cc(k)
  <2>1. n - 2 \in Nat /\ 1 .. n - 2 \subseteq Int
    BY <1>0
  <2>2. cs \in [1 .. n - 2 -> Calls]
    BY <1>2, <2>1, Zenon
  <2>3. \A k \in 1 .. n - 2 : cs[k] = cc(k)
    BY Zenon
  <2>. HIDE DEF cs
  <2>. QED BY <2>1, <2>2, <2>3
<1>6. es \in Seq(Calls) /\ Len(es) = 1 /\ es[1] = Call("end_lots", 0)
  BY <1>3
<1>7. err_open_lots = (os \o cs) \o es
  BY Zenon DEF err_open_lots, oc, cc
<1>. HIDE DEF os, cs, es
<1>8. /\ os \o cs \in Seq(Calls) /\ Len(os \o cs) = 2 * n - 3
      /\ \A k \in 1 .. n - 1 : (os \o cs)[k] = os[k]
      /\ \A k \in n .. 2 * n - 3 : (os \o cs)[k] = cs[k - n + 1]
  BY <1>0, <1>4, <1>5
<1>9. /\ err_open_lots \in Seq(Calls) /\ Len(err_open_lots) = LOTS
      /\ \A k \in 1 .. 2 * n - 3 : err_open_lots[k] = (os \o cs)[k]
      /\ err_open_lots[LOTS] = es[1]
  <2>. DEFINE oscs == os \o cs
  <2>1. oscs \in Seq(Calls) /\ Len(oscs) = 2 * n - 3 /\ err_open_lots = oscs \o es
    BY <1>7, <1>8
  <2>. HIDE DEF oscs
  <2>2. /\ err_open_lots \in Seq(Calls) /\ Len(err_open_lots) = LOTS
        /\ \A k \in 1 .. 2 * n - 3 : err_open_lots[k] = oscs[k]
        /\ err_open_lots[LOTS] = es[1]
    <3>1. /\ oscs \o es \in Seq(Calls) /\ Len(oscs \o es) = Len(oscs) + Len(es)
          /\ \A k \in 1 .. Len(oscs) : (oscs \o es)[k] = oscs[k]
          /\ \A k \in 1 .. Len(oscs) + Len(es) :
               k > Len(oscs) => (oscs \o es)[k] = es[k - Len(oscs)]
      BY <1>6, <2>1, Joined, Zenon
    <3>2. LOTS = Len(oscs) + Len(es)
      BY <1>0, <1>6, <2>1
    <3>3. LOTS \in 1 .. Len(oscs) + Len(es) /\ LOTS > Len(oscs) /\ LOTS - Len(oscs) = 1
      BY <1>0, <1>6, <2>1
    <3>. QED BY <2>1, <3>1, <3>2, <3>3, Zenon
  <2>. QED BY <2>2 DEF oscs
<1>10. ASSUME NEW k \in 1 .. OPS_SIZE - 1
       PROVE  err_open_lots[k].op = "open_count" /\ err_open_lots[k].name = "."
  <2>1. k \in 1 .. 2 * n - 3 /\ k \in 1 .. n - 1
    BY <1>0
  <2>. QED BY <1>1, <1>4, <1>8, <1>9, <2>1, Zenon
<1>11. ASSUME NEW k \in OPS_SIZE .. LOTS - 1
       PROVE  err_open_lots[k].op = "close_any" /\ err_open_lots[k].fd = k - OPS_SIZE + 2
  <2>1. /\ k \in 1 .. 2 * n - 3 /\ k \in n .. 2 * n - 3 /\ k - n + 1 \in 1 .. n - 2
        /\ k - n + 1 \in Int /\ (k - n + 1) + 1 = k - n + 2
    BY <1>0
  <2>2. err_open_lots[k] = cc(k - n + 1)
    BY <1>5, <1>8, <1>9, <2>1, Zenon
  <2>. QED BY <1>2, <2>1, <2>2, Zenon
<1>12. LOTS \in Nat
  BY <1>0
<1>. QED BY <1>3, <1>6, <1>9, <1>10, <1>11, <1>12, Zenon

\* Wrong calls only: those of err_open_lots are over or never come.
LEMMA LotsOver == ASSUME NEW s, AllWrong(s) PROVE LotsAt(s, -LOTS)
<1>1. s \in Seq(Calls) /\ LOTS \in Nat
  BY LotsCalls DEF AllWrong
<1>2. /\ -LOTS \in Int /\ -LOTS <= -LOTS /\ -LOTS <= Len(s) - LOTS
      /\ \A i \in 1 .. Len(s) : ~(i <= (-LOTS) + LOTS)
  BY <1>1
<1>. QED BY <1>1, <1>2, Zenon DEF LotsAt, AllWrong

\* The calls of err_open_lots alone.
LEMMA LotsAlone == LotsAt(err_open_lots, 0)
<1>1. err_open_lots \in Seq(Calls) /\ Len(err_open_lots) = LOTS /\ LOTS \in Nat
  BY LotsCalls
<1>2. \A i \in 1 .. Len(err_open_lots) : 0 < i /\ i <= 0 + LOTS /\ i - 0 = i
  BY <1>1
<1>3. 0 \in Int /\ -LOTS <= 0 /\ 0 <= Len(err_open_lots) - LOTS
  BY <1>1
<1>. QED BY <1>1, <1>2, <1>3, Zenon DEF LotsAt

\* Wrong calls before a script.
LEMMA WrongBefore ==
  ASSUME NEW s, NEW t, AllWrong(s), LotsAt(t, 0) PROVE LotsAt(s \o t, Len(s))
<1>1. s \in Seq(Calls) /\ t \in Seq(Calls) /\ LOTS \in Nat /\ 0 <= Len(t) - LOTS
  BY LotsCalls DEF AllWrong, LotsAt
<1>2. s \o t \in Seq(Calls) /\ Len(s \o t) = Len(s) + Len(t)
  BY <1>1
<1>3. /\ Len(s) \in Int /\ -LOTS <= Len(s) /\ Len(s) <= Len(s \o t) - LOTS
  BY <1>1, <1>2
<1>4. ASSUME NEW i \in 1 .. Len(s \o t)
      PROVE  IF Len(s) < i /\ i <= Len(s) + LOTS
             THEN (s \o t)[i] = err_open_lots[i - Len(s)] ELSE Wrong((s \o t)[i])
  <2>1. CASE i <= Len(s)
    <3>1. i \in 1 .. Len(s) /\ (s \o t)[i] = s[i] /\ ~(Len(s) < i)
      BY <1>1, <1>2, <2>1
    <3>. QED BY <3>1, Zenon DEF AllWrong
  <2>2. CASE ~(i <= Len(s))
    <3>. DEFINE j == i - Len(s)
    <3>1. /\ j \in 1 .. Len(t) /\ (s \o t)[i] = t[j] /\ Len(s) < i
          /\ (i <= Len(s) + LOTS <=> j <= 0 + LOTS) /\ 0 < j /\ j - 0 = j
      BY <1>1, <1>2, <2>2
    <3>. HIDE DEF j
    <3>2. IF 0 < j /\ j <= 0 + LOTS THEN t[j] = err_open_lots[j - 0] ELSE Wrong(t[j])
      BY <3>1, Zenon DEF LotsAt
    <3>3. j <= 0 + LOTS => t[j] = err_open_lots[j]
      BY <3>1, <3>2, Zenon
    <3>4. ~(j <= 0 + LOTS) => Wrong(t[j])
      BY <3>2, Zenon
    <3>. QED BY <3>1, <3>3, <3>4, Zenon DEF j
  <2>. QED BY <2>1, <2>2, Zenon
<1>. QED BY <1>2, <1>3, <1>4, Zenon DEF LotsAt

\* Wrong calls after a script.
LEMMA WrongAfter ==
  ASSUME NEW s, NEW t, NEW b, LotsAt(s, b), AllWrong(t) PROVE LotsAt(s \o t, b)
<1>1. /\ s \in Seq(Calls) /\ t \in Seq(Calls) /\ LOTS \in Nat
      /\ b \in Int /\ -LOTS <= b /\ b <= Len(s) - LOTS
  BY LotsCalls DEF AllWrong, LotsAt
<1>2. s \o t \in Seq(Calls) /\ Len(s \o t) = Len(s) + Len(t)
  BY <1>1
<1>3. b <= Len(s \o t) - LOTS
  BY <1>1, <1>2
<1>4. ASSUME NEW i \in 1 .. Len(s \o t)
      PROVE  IF b < i /\ i <= b + LOTS
             THEN (s \o t)[i] = err_open_lots[i - b] ELSE Wrong((s \o t)[i])
  <2>1. CASE i <= Len(s)
    <3>1. i \in 1 .. Len(s) /\ (s \o t)[i] = s[i]
      BY <1>1, <1>2, <2>1
    <3>2. IF b < i /\ i <= b + LOTS THEN s[i] = err_open_lots[i - b] ELSE Wrong(s[i])
      BY <3>1, Zenon DEF LotsAt
    <3>. QED BY <3>1, <3>2, Zenon
  <2>2. CASE ~(i <= Len(s))
    <3>1. /\ i - Len(s) \in 1 .. Len(t) /\ (s \o t)[i] = t[i - Len(s)]
          /\ ~(i <= b + LOTS)
      BY <1>1, <1>2, <2>2
    <3>. QED BY <3>1, Zenon DEF AllWrong
  <2>. QED BY <2>1, <2>2, Zenon
<1>. QED BY <1>1, <1>2, <1>3, <1>4, Zenon DEF LotsAt

\* Every number selects a script of this form, of which nothing is done.
LEMMA ScriptFound ==
  ASSUME NEW select
  PROVE  \E b \in Int : LotsAt(Script(select), b) /\ (b >= 0 \/ b = -LOTS)
<1>0. LOTS \in Nat /\ 0 \in Int /\ -LOTS \in Int /\ 0 >= 0
  BY LotsCalls
<1>1. CASE select = 0
  <2>. DEFINE pre == err_neg_fd \o err_big_fd
              b == Len(pre)
  <2>1. AllWrong(pre)
    BY TestsWrong, WrongConcat, Zenon
  <2>2. b \in Int /\ b >= 0
    <3>1. pre \in Seq(Calls)
      BY <2>1, Zenon DEF AllWrong
    <3>. HIDE DEF pre
    <3>. QED BY <3>1
  <2>3. Script(select) = pre \o err_open_lots \o err_open \o err_unopened
                         \o err_vidmap \o err_stdin_out \o err_syscall_num
    BY <1>1, Zenon DEF Script
  <2>4. LotsAt(pre \o err_open_lots, b)
    BY <2>1, LotsAlone, WrongBefore, Zenon
  <2>. HIDE DEF pre, b
  <2>5. LotsAt(pre \o err_open_lots \o err_open, b)
    BY <2>4, TestsWrong, WrongAfter, Zenon
  <2>6. LotsAt(pre \o err_open_lots \o err_open \o err_unopened, b)
    BY <2>5, TestsWrong, WrongAfter, Zenon
  <2>7. LotsAt(pre \o err_open_lots \o err_open \o err_unopened \o err_vidmap, b)
    BY <2>6, TestsWrong, WrongAfter, Zenon
  <2>8. LotsAt(pre \o err_open_lots \o err_open \o err_unopened \o err_vidmap
               \o err_stdin_out, b)
    BY <2>7, TestsWrong, WrongAfter, Zenon
  <2>9. LotsAt(pre \o err_open_lots \o err_open \o err_unopened \o err_vidmap
               \o err_stdin_out \o err_syscall_num, b)
    BY <2>8, TestsWrong, WrongAfter, Zenon
  <2>. QED BY <2>2, <2>3, <2>9, Zenon
<1>2. CASE select # 0 /\ select \in DOMAIN Tests
  <2>1. Script(select) = Tests[select]
    BY <1>2, Zenon DEF Script
  <2>2. DOMAIN Tests = 1 .. 8
    BY DEF Tests
  <2>3. \/ select = 1 \/ select = 2 \/ select = 3 \/ select = 4
        \/ select = 5 \/ select = 6 \/ select = 7 \/ select = 8
    BY <1>2, <2>2
  <2>4. /\ Tests[1] = err_neg_fd /\ Tests[2] = err_big_fd
        /\ Tests[3] = err_open_lots /\ Tests[4] = err_open
        /\ Tests[5] = err_unopened /\ Tests[6] = err_vidmap
        /\ Tests[7] = err_stdin_out /\ Tests[8] = err_syscall_num
    BY DEF Tests
  <2>5. AllWrong(Script(select)) \/ Script(select) = err_open_lots
    BY <2>1, <2>3, <2>4, TestsWrong, Zenon
  <2>. QED BY <1>0, <2>5, LotsOver, LotsAlone, Zenon
<1>3. CASE select # 0 /\ select \notin DOMAIN Tests
  <2>1. Script(select) = <<>>
    BY <1>3, Zenon DEF Script
  <2>2. <<>> \in Seq(Calls) /\ \A i \in 1 .. Len(<<>>) : FALSE
    OBVIOUS
  <2>3. AllWrong(<<>>)
    BY <2>2, Zenon DEF AllWrong
  <2>. QED BY <1>0, <2>1, <2>3, LotsOver, Zenon
<1>. QED BY <1>1, <1>2, <1>3, Zenon

\* The first call of a script and what is left after it.
LEMMA LotsFirst ==
  ASSUME NEW s, NEW b, LotsAt(s, b), s # <<>>
  PROVE  /\ Head(s) \in Calls /\ Tail(s) \in Seq(Calls)
         /\ IF b <= 0 /\ b > -LOTS
            THEN Head(s) = err_open_lots[1 - b] ELSE Wrong(Head(s))
         /\ LotsAt(Tail(s), IF b = -LOTS THEN b ELSE b - 1)
<1>1. /\ s \in Seq(Calls) /\ LOTS \in Nat
      /\ b \in Int /\ -LOTS <= b /\ b <= Len(s) - LOTS
  BY LotsCalls DEF LotsAt
<1>2. /\ Head(s) = s[1] /\ Head(s) \in Calls /\ Tail(s) \in Seq(Calls)
      /\ Len(Tail(s)) = Len(s) - 1 /\ 1 \in 1 .. Len(s)
      /\ \A i \in 1 .. Len(Tail(s)) : Tail(s)[i] = s[i + 1] /\ i + 1 \in 1 .. Len(s)
  BY <1>1
<1>3. \A i \in 1 .. Len(s) :
        IF b < i /\ i <= b + LOTS THEN s[i] = err_open_lots[i - b] ELSE Wrong(s[i])
  BY Zenon DEF LotsAt
<1>4. IF b <= 0 /\ b > -LOTS THEN Head(s) = err_open_lots[1 - b] ELSE Wrong(Head(s))
  <2>1. (b < 1 /\ 1 <= b + LOTS) <=> (b <= 0 /\ b > -LOTS)
    BY <1>1
  <2>2. IF b < 1 /\ 1 <= b + LOTS THEN s[1] = err_open_lots[1 - b] ELSE Wrong(s[1])
    BY <1>2, <1>3, Zenon
  <2>. QED BY <1>2, <2>1, <2>2, Zenon
<1>5. CASE b = -LOTS
  <2>1. \A i \in 1 .. Len(s) : ~(i <= b + LOTS)
    BY <1>1, <1>5
  <2>2. \A i \in 1 .. Len(s) : Wrong(s[i])
    BY <1>3, <2>1, Zenon
  <2>3. \A i \in 1 .. Len(Tail(s)) : Wrong(Tail(s)[i])
    BY <1>2, <2>2, Zenon
  <2>4. AllWrong(Tail(s))
    BY <1>2, <2>3, Zenon DEF AllWrong
  <2>. QED BY <1>2, <1>4, <1>5, <2>4, LotsOver, Zenon
<1>6. CASE b # -LOTS
  <2>1. b - 1 \in Int /\ -LOTS <= b - 1 /\ b - 1 <= Len(Tail(s)) - LOTS
    BY <1>1, <1>2, <1>6
  <2>2. ASSUME NEW i \in 1 .. Len(Tail(s))
        PROVE  IF b - 1 < i /\ i <= b - 1 + LOTS
               THEN Tail(s)[i] = err_open_lots[i - (b - 1)] ELSE Wrong(Tail(s)[i])
    <3>. DEFINE j == i + 1
    <3>1. /\ j \in 1 .. Len(s) /\ Tail(s)[i] = s[j] /\ j - b = i - (b - 1)
          /\ (b - 1 < i /\ i <= b - 1 + LOTS) <=> (b < j /\ j <= b + LOTS)
      <4>1. j \in 1 .. Len(s) /\ Tail(s)[i] = s[j] /\ i \in Int
        BY <1>2
      <4>2. /\ j - b = i - (b - 1)
            /\ (b - 1 < i /\ i <= b - 1 + LOTS) <=> (b < j /\ j <= b + LOTS)
        BY <1>1, <4>1
      <4>. QED BY <4>1, <4>2
    <3>. HIDE DEF j
    <3>2. IF b < j /\ j <= b + LOTS THEN s[j] = err_open_lots[j - b] ELSE Wrong(s[j])
      BY <1>3, <3>1, Zenon
    <3>. QED BY <3>1, <3>2, Zenon
  <2>3. LotsAt(Tail(s), b - 1)
    BY <1>2, <2>1, <2>2, Zenon DEF LotsAt
  <2>. QED BY <1>2, <1>4, <1>6, <2>3, Zenon
<1>. QED BY <1>5, <1>6

----------------------------------------------------------------------------
(* The calls of a clean syserr. *)

\* What a call of the program is, by its name.
LEMMA MakeCases ==
  ASSUME NEW c \in Calls, Make(c)
  PROVE  \/ /\ c.op \in {"open", "open_count"}
            /\ open(c.name) \/ open_failed(c.name)
         \/ /\ c.op \in {"close", "close_any"}
            /\ close(c.fd) \/ close_failed(c.fd) \/ bad_pointer("close", c.fd)
         \/ /\ c.op = "read"
            /\ \/ \E n \in ReadSizes : read(c.fd, n)
               \/ read_write_refused("read", c.fd)
               \/ bad_pointer("read", c.fd)
         \/ /\ c.op = "write"
            /\ \/ write(c.fd)
               \/ read_write_refused("write", c.fd)
               \/ bad_pointer("write", c.fd)
         \/ c.op = "vidmap" /\ NoState("vidmap", vidmap(c.fd))
         \/ c.op = "number" /\ NoState("number", syscall_number(c.fd))
         \/ c.op = "end_lots" /\ cpu = "user" /\ UNCHANGED vars
<1>1. c.op \in Ops
  BY Zenon DEF Calls
<1>2. \/ c.op \in {"open", "open_count"} \/ c.op \in {"close", "close_any"}
      \/ c.op = "read" \/ c.op = "write" \/ c.op = "vidmap" \/ c.op = "number"
      \/ c.op = "end_lots"
  BY <1>1, Zenon DEF Ops
<1>. QED BY <1>2, Zenon DEF Make, Sizes

\* A call through a bad pointer needs an open descriptor with one.
LEMMA BadPointerNeeds ==
  ASSUME NEW op \in {"read", "write", "close"}, NEW fd, bad_pointer(op, fd)
  PROVE  /\ op = "read" => Readable(fd)
         /\ op = "write" => Writable(fd)
         /\ op = "close" => Closable(fd)
         /\ fd \in Fds /\ Cur[fd].in_use /\ Cur[fd].fop_ptr \in {"NULL", "junk", "stale"}
<1>1. \/ op = "read" /\ Readable(fd) /\ Cur[fd].fop_ptr \in {"NULL", "junk", "stale"}
      \/ op = "write" /\ Writable(fd) /\ Cur[fd].fop_ptr \in {"NULL", "junk", "stale"}
      \/ op = "close" /\ Closable(fd) /\ Cur[fd].fop_ptr = "junk"
  <2>1. op = "read" \/ op = "write" \/ op = "close"
    OBVIOUS
  <2>. QED BY <2>1, Zenon DEF bad_pointer
<1>2. "read" # "write" /\ "read" # "close" /\ "write" # "close"
  OBVIOUS
<1>. QED BY <1>1, <1>2, Zenon DEF Readable, Writable, Closable, check_use

\* The descriptors of a clean syserr have drivers.
LEMMA CleanDrivers ==
  ASSUME Inv, NEW j, CleanAfter(j), NEW fd \in Fds
  PROVE  /\ Cur[fd].in_use \in BOOLEAN /\ (Cur[fd].in_use <=> UsedAfter(j, fd))
         /\ ~ Hist[fd].leftover
         /\ Cur[fd].in_use => Cur[fd].fop_ptr \notin {"NULL", "junk", "stale"}
<1>1. Cur[fd] \in Entries /\ EntryFine(fd, Cur[fd], Hist[fd])
  BY EntryTyped
<1>2. ~ Hist[fd].leftover /\ (Cur[fd].in_use <=> UsedAfter(j, fd))
  BY Zenon DEF CleanAfter, UsedIs
<1>3. Cur[fd].in_use \in BOOLEAN
  BY <1>1, EntryFields
<1>. QED BY <1>1, <1>2, <1>3, Zenon DEF EntryFine

\* So no call of it faults.
LEMMA CleanNoFault ==
  ASSUME Inv, NEW j, CleanAfter(j), NEW fd, NEW op \in {"read", "write", "close"}
  PROVE  ~ bad_pointer(op, fd)
<1>1. SUFFICES ASSUME bad_pointer(op, fd) PROVE FALSE
  OBVIOUS
<1>2. fd \in Fds /\ Cur[fd].in_use /\ Cur[fd].fop_ptr \in {"NULL", "junk", "stale"}
  BY <1>1, BadPointerNeeds, Zenon
<1>. QED BY <1>2, CleanDrivers, Zenon

\* Before and after the calls of err_open_lots only stdin and stdout are in use.
LEMMA UsedEnds ==
  ASSUME NEW fd \in Fds
  PROVE  /\ UsedAfter(0, fd) <=> fd <= 1
         /\ UsedAfter(LOTS - 1, fd) <=> fd <= 1
         /\ UsedAfter(LOTS, fd) <=> fd <= 1
  BY FdAssumption DEF UsedAfter, Fds, LOTS

\* An open takes the next descriptor.
LEMMA UsedOpens ==
  ASSUME NEW j \in 0 .. OPS_SIZE - 3, NEW fd \in Fds
  PROVE  UsedAfter(j + 1, fd) <=> UsedAfter(j, fd) \/ fd = 2 + j
  BY FdAssumption DEF UsedAfter, Fds

\* At the last open all are in use.
LEMMA UsedFull ==
  ASSUME NEW fd \in Fds
  PROVE  UsedAfter(OPS_SIZE - 2, fd) /\ UsedAfter(OPS_SIZE - 1, fd)
  BY FdAssumption DEF UsedAfter, Fds

\* A close frees the lowest of them.
LEMMA UsedCloses ==
  ASSUME NEW j \in OPS_SIZE - 1 .. LOTS - 2, NEW fd \in Fds
  PROVE  UsedAfter(j + 1, fd) <=> UsedAfter(j, fd) /\ fd # j - OPS_SIZE + 3
  BY FdAssumption DEF UsedAfter, Fds, LOTS

\* A wrong call with only stdin and stdout open returns -1.
LEMMA WrongFails ==
  ASSUME Inv, NEW j, CleanAfter(j), \A fd \in Fds : UsedAfter(j, fd) => fd <= 1,
         NEW c, Wrong(c), Make(c)
  PROVE  /\ call'.ret = FAIL
         /\ UNCHANGED <<process_count, fde, dir_read_count, cpu, history>>
<1>1. c \in Calls
  BY Zenon DEF Wrong
<1>2. \A fd \in Fds : Cur[fd].in_use => fd <= 1
  BY CleanDrivers, Zenon
<1>3. \A fd : ~ Closable(fd)
  <2>1. SUFFICES ASSUME NEW fd, Closable(fd) PROVE FALSE
    BY Zenon
  <2>2. fd \in Fds /\ fd > 1 /\ Cur[fd].in_use
    BY <2>1, Zenon DEF Closable, check_use
  <2>3. fd <= 1
    BY <1>2, <2>2, Zenon
  <2>. QED BY <2>2, <2>3, FdAssumption DEF Fds
<1>4. \A fd : fd # 0 => ~ Readable(fd)
  <2>1. SUFFICES ASSUME NEW fd, fd # 0, Readable(fd) PROVE FALSE
    BY Zenon
  <2>2. fd \in Fds /\ fd # 1 /\ Cur[fd].in_use
    BY <2>1, Zenon DEF Readable, check_use
  <2>3. fd <= 1
    BY <1>2, <2>2, Zenon
  <2>. QED BY <2>1, <2>2, <2>3, FdAssumption DEF Fds
<1>5. \A fd : fd # 1 => ~ Writable(fd)
  <2>1. SUFFICES ASSUME NEW fd, fd # 1, Writable(fd) PROVE FALSE
    BY Zenon
  <2>2. fd \in Fds /\ fd # 0 /\ Cur[fd].in_use
    BY <2>1, Zenon DEF Writable, check_use
  <2>3. fd <= 1
    BY <1>2, <2>2, Zenon
  <2>. QED BY <2>1, <2>2, <2>3, FdAssumption DEF Fds
<1>6. /\ ~ bad_pointer("close", c.fd) /\ ~ bad_pointer("read", c.fd)
      /\ ~ bad_pointer("write", c.fd)
  BY CleanNoFault
<1>7. ASSUME NEW op, NEW fd, NEW name, Returns(op, fd, name, FAIL)
      PROVE  call'.ret = FAIL
  BY <1>7, CallFields, Zenon
<1>8. CASE c.op = "open" /\ read_dentry_by_name(c.name) = 0
  <2>1. open_failed(c.name)
    <3>1. open(c.name) \/ open_failed(c.name)
      BY <1>1, <1>8, MakeCases
    <3>. QED BY <1>8, <3>1, Zenon DEF open
  <2>. QED BY <1>7, <2>1, Zenon DEF open_failed
<1>9. CASE c.op = "close"
  <2>1. close(c.fd) \/ close_failed(c.fd) \/ bad_pointer("close", c.fd)
    BY <1>1, <1>9, MakeCases
  <2>2. close_failed(c.fd)
    BY <1>3, <1>6, <2>1, Zenon DEF close
  <2>. QED BY <1>7, <2>2, Zenon DEF close_failed
<1>10. CASE c.op = "read" /\ c.fd # 0
  <2>1. \/ \E n \in ReadSizes : read(c.fd, n)
        \/ read_write_refused("read", c.fd)
        \/ bad_pointer("read", c.fd)
    BY <1>1, <1>10, MakeCases
  <2>2. read_write_refused("read", c.fd)
    BY <1>4, <1>6, <1>10, <2>1, Zenon DEF read
  <2>. QED BY <1>7, <2>2, Zenon DEF read_write_refused
<1>11. CASE c.op = "write" /\ c.fd # 1
  <2>1. \/ write(c.fd)
        \/ read_write_refused("write", c.fd)
        \/ bad_pointer("write", c.fd)
    BY <1>1, <1>11, MakeCases
  <2>2. read_write_refused("write", c.fd)
    BY <1>5, <1>6, <1>11, <2>1, Zenon DEF write
  <2>. QED BY <1>7, <2>2, Zenon DEF read_write_refused
<1>12. CASE c.op = "vidmap" /\ vidmap(c.fd) = FAIL
  <2>1. NoState("vidmap", vidmap(c.fd))
    BY <1>1, <1>12, MakeCases
  <2>. QED BY <1>7, <1>12, <2>1, Zenon DEF NoState
<1>13. CASE c.op = "number" /\ syscall_number(c.fd) = FAIL
  <2>1. NoState("number", syscall_number(c.fd))
    BY <1>1, <1>13, MakeCases
  <2>. QED BY <1>7, <1>13, <2>1, Zenon DEF NoState
<1>. QED BY <1>8, <1>9, <1>10, <1>11, <1>12, <1>13, Zenon DEF Wrong

\* open takes the lowest descriptor that is not in use.
LEMMA LocationFirst ==
  ASSUME NEW fd \in Fds, ~ check_use(fd)
  PROVE  /\ FreeFds # {} /\ Location \in Fds /\ ~ check_use(Location)
         /\ Location <= fd
<1>1. fd \in FreeFds
  BY Zenon DEF FreeFds
<1>2. FreeFds \subseteq Nat /\ FreeFds # {}
  BY <1>1, FdAssumption DEF FreeFds, Fds
<1>3. \E x \in FreeFds : \A other \in FreeFds : x <= other
  BY <1>2, Smallest
<1>4. \A other \in FreeFds : Location <= other
  BY <1>3, Zenon DEF Location
<1>. QED BY <1>1, <1>2, <1>4, LocationFree, Zenon

\* A call stores the entry of one descriptor of the current process.
LEMMA OneStored ==
  ASSUME Inv, NEW d \in Fds, NEW e, NEW h,
         fde' = [fde EXCEPT ![process_count][d] = e],
         history' = [history EXCEPT ![process_count][d] = h]
  PROVE  /\ fde'[process_count][d] = e /\ history'[process_count][d] = h
         /\ \A fd \in Fds : fd # d => /\ fde'[process_count][fd] = Cur[fd]
                                     /\ history'[process_count][fd] = Hist[fd]
<1>1. /\ process_count \in Procs
      /\ fde \in [Procs -> [Fds -> Entries]]
      /\ history \in [Procs -> [Fds -> Histories]]
  BY TypeParts, Zenon DEF Inv
<1>2. /\ fde'[process_count][d] = e
      /\ \A q \in Procs, b \in Fds : q # process_count \/ b # d =>
           fde'[q][b] = fde[q][b]
  BY <1>1, OthersKept
<1>3. /\ history'[process_count][d] = h
      /\ \A q \in Procs, b \in Fds : q # process_count \/ b # d =>
           history'[q][b] = history[q][b]
  BY <1>1, OthersKept
<1>. QED BY <1>1, <1>2, <1>3, Zenon DEF Cur, Hist

\* An open of err_open_lots takes the next descriptor.
LEMMA LotsOpen ==
  ASSUME Inv, NEW j \in 0 .. OPS_SIZE - 3, CleanAfter(j),
         open(".") \/ open_failed(".")
  PROVE  /\ call'.ret # FAIL /\ cpu' = cpu
         /\ UsedIs(j + 1)'
<1>. DEFINE d == 2 + j
<1>0. OPS_SIZE \in Nat /\ OPS_SIZE > 2
  BY FdAssumption
<1>1. d \in Fds /\ ~ UsedAfter(j, d)
  BY <1>0 DEF Fds, UsedAfter
<1>2. ~ check_use(d)
  BY <1>1, CleanDrivers, Zenon DEF check_use
<1>3. FreeFds # {} /\ Location \in Fds /\ ~ check_use(Location) /\ Location <= d
  BY <1>1, <1>2, LocationFirst
<1>4. ~ UsedAfter(j, Location)
  BY <1>3, CleanDrivers, Zenon DEF check_use
<1>5. Location = d
  BY <1>0, <1>3, <1>4 DEF Fds, UsedAfter
<1>6. open(".")
  BY <1>3, NamesTried, Zenon DEF open_failed
<1>7. PICK type :
        /\ fde' = [fde EXCEPT ![process_count][d] = OpenEntry(d, ".", type)]
        /\ history' = [history EXCEPT ![process_count][d] =
                         [NotOpened EXCEPT !.opened = TRUE]]
        /\ Returns("open", d, ".", d)
        /\ process_count' = process_count /\ cpu' = cpu
  BY <1>5, <1>6, Zenon DEF open
<1>8. call'.ret = d
  BY <1>7, CallFields, Zenon
<1>9. d # FAIL
  BY <1>0 DEF FAIL
<1>10. OpenEntry(d, ".", type).in_use = TRUE
  BY Zenon DEF OpenEntry
<1>11. [NotOpened EXCEPT !.opened = TRUE].leftover = FALSE
  BY Zenon DEF NotOpened
<1>12. /\ \A fd \in Fds : fd # d => (UsedAfter(j + 1, fd) <=> UsedAfter(j, fd))
       /\ UsedAfter(j + 1, d)
  <2>1. \A fd \in Fds : UsedAfter(j + 1, fd) <=> UsedAfter(j, fd) \/ fd = d
    BY UsedOpens, Zenon
  <2>. HIDE DEF d
  <2>. QED BY <1>1, <2>1, Zenon
<1>. HIDE DEF d
<1>13. /\ fde'[process_count][d] = OpenEntry(d, ".", type)
       /\ history'[process_count][d] = [NotOpened EXCEPT !.opened = TRUE]
       /\ \A fd \in Fds : fd # d => /\ fde'[process_count][fd] = Cur[fd]
                                   /\ history'[process_count][fd] = Hist[fd]
  <2>1. PICK e, h : e = OpenEntry(d, ".", type) /\ h = [NotOpened EXCEPT !.opened = TRUE]
    BY Zenon
  <2>2. /\ fde' = [fde EXCEPT ![process_count][d] = e]
        /\ history' = [history EXCEPT ![process_count][d] = h]
    BY <1>7, <2>1, Zenon
  <2>3. /\ fde'[process_count][d] = e /\ history'[process_count][d] = h
        /\ \A fd \in Fds : fd # d => /\ fde'[process_count][fd] = Cur[fd]
                                    /\ history'[process_count][fd] = Hist[fd]
    BY <1>1, <2>2, OneStored, Zenon
  <2>. QED BY <2>1, <2>3, Zenon
<1>14. ASSUME NEW fd \in Fds
       PROVE  /\ ~ history'[process_count][fd].leftover
              /\ fde'[process_count][fd].in_use <=> UsedAfter(j + 1, fd)
  <2>1. CASE fd = d
    BY <1>10, <1>11, <1>12, <1>13, <2>1, Zenon
  <2>2. CASE fd # d
    BY <1>12, <1>13, <2>2, CleanDrivers, Zenon
  <2>. QED BY <2>1, <2>2, Zenon
<1>15. UsedIs(j + 1)'
  BY <1>7, <1>14, Zenon DEF UsedIs, UsedAfter, Cur, Hist
<1>. QED BY <1>7, <1>8, <1>9, <1>15, Zenon

\* The last open finds every descriptor in use.
LEMMA LotsFull ==
  ASSUME Inv, CleanAfter(OPS_SIZE - 2), open(".") \/ open_failed(".")
  PROVE  /\ call'.ret = FAIL
         /\ UNCHANGED <<process_count, fde, dir_read_count, cpu, history>>
<1>1. \A fd \in Fds : Cur[fd].in_use
  BY CleanDrivers, UsedFull, Zenon
<1>2. FreeFds = {}
  BY <1>1, Zenon DEF FreeFds, check_use
<1>3. open_failed(".")
  BY <1>2, Zenon DEF open
<1>4. Returns("open", 0, ".", FAIL)
  BY <1>3, Zenon DEF open_failed
<1>5. call'.ret = FAIL
  BY <1>4, CallFields, Zenon
<1>. QED BY <1>3, <1>5, Zenon DEF open_failed

\* A close of err_open_lots frees the lowest one it opened.
LEMMA LotsClose ==
  ASSUME Inv, NEW j, CleanAfter(j), NEW d \in Fds, d > 1, UsedAfter(j, d),
         \A fd \in Fds : UsedAfter(j + 1, fd) <=> UsedAfter(j, fd) /\ fd # d,
         close(d) \/ close_failed(d) \/ bad_pointer("close", d)
  PROVE  cpu' = cpu /\ UsedIs(j + 1)'
<1>2. Cur[d].in_use /\ Cur[d].fop_ptr \notin {"NULL", "junk", "stale"}
  BY CleanDrivers, Zenon
<1>3. Closable(d)
  BY <1>2, Zenon DEF Closable, check_use
<1>4. ~ bad_pointer("close", d)
  BY CleanNoFault
<1>5. close(d)
  BY <1>3, <1>4, Zenon DEF close_failed
<1>6. /\ fde' = [fde EXCEPT ![process_count][d] = ClosedEntry(d)]
      /\ history' = [history EXCEPT ![process_count][d] = NotOpened]
      /\ process_count' = process_count /\ cpu' = cpu
  BY <1>5, Zenon DEF close
<1>7. ClosedEntry(d).in_use = FALSE
  <2>1. Cur[d] \in Entries
    BY EntryTyped
  <2>. QED BY <2>1, Zenon DEF ClosedEntry, Entries
<1>8. NotOpened.leftover = FALSE
  BY Zenon DEF NotOpened
<1>9. /\ \A fd \in Fds : fd # d => (UsedAfter(j + 1, fd) <=> UsedAfter(j, fd))
      /\ ~ UsedAfter(j + 1, d)
  BY Zenon
<1>10. /\ fde'[process_count][d] = ClosedEntry(d)
       /\ history'[process_count][d] = NotOpened
       /\ \A fd \in Fds : fd # d => /\ fde'[process_count][fd] = Cur[fd]
                                   /\ history'[process_count][fd] = Hist[fd]
  <2>1. PICK e : e = ClosedEntry(d)
    BY Zenon
  <2>2. fde' = [fde EXCEPT ![process_count][d] = e]
    BY <1>6, <2>1, Zenon
  <2>3. /\ fde'[process_count][d] = e /\ history'[process_count][d] = NotOpened
        /\ \A fd \in Fds : fd # d => /\ fde'[process_count][fd] = Cur[fd]
                                    /\ history'[process_count][fd] = Hist[fd]
    BY <1>6, <2>2, OneStored, Zenon
  <2>. QED BY <2>1, <2>3, Zenon
<1>11. ASSUME NEW fd \in Fds
       PROVE  /\ ~ history'[process_count][fd].leftover
              /\ fde'[process_count][fd].in_use <=> UsedAfter(j + 1, fd)
  <2>1. CASE fd = d
    BY <1>7, <1>8, <1>9, <1>10, <2>1, Zenon
  <2>2. CASE fd # d
    BY <1>9, <1>10, <2>2, CleanDrivers, Zenon
  <2>. QED BY <2>1, <2>2, Zenon
<1>12. UsedIs(j + 1)'
  BY <1>6, <1>11, Zenon DEF UsedIs, UsedAfter, Cur, Hist
<1>. QED BY <1>6, <1>12, Zenon

\* The fields of prog, and after a call of the program.
LEMMA ProgFields ==
  ASSUME prog \in Progs, ProgramCall
  PROVE  LET c == Head(prog.script)
         IN  /\ prog.at = "tests" /\ prog.script # <<>> /\ Make(c)
             /\ prog'.at = "tests" /\ prog'.script = Tail(prog.script)
             /\ prog'.clean = prog.clean
             /\ prog'.cnt = IF c.op = "open_count" /\ call'.ret = FAIL
                            THEN prog.cnt + 1 ELSE prog.cnt
             /\ prog'.fail = (\/ prog.fail
                              \/ /\ c.op \in {"open", "close", "read", "write",
                                              "vidmap", "number"}
                                 /\ cpu' = "user" /\ call'.ret # FAIL
                              \/ c.op = "end_lots" /\ prog.cnt # 1)
             /\ prog' = [at |-> prog'.at, script |-> prog'.script,
                         fail |-> prog'.fail, cnt |-> prog'.cnt,
                         clean |-> prog'.clean]
<1>. DEFINE c == Head(prog.script)
            cn == IF c.op = "open_count" /\ call'.ret = FAIL
                  THEN prog.cnt + 1 ELSE prog.cnt
            fl == (\/ prog.fail
                   \/ /\ c.op \in {"open", "close", "read", "write",
                                   "vidmap", "number"}
                      /\ cpu' = "user" /\ call'.ret # FAIL
                   \/ c.op = "end_lots" /\ prog.cnt # 1)
<1>1. /\ prog.at = "tests" /\ prog.script # <<>> /\ Make(c)
      /\ prog' = [prog EXCEPT !.script = Tail(prog.script), !.cnt = cn, !.fail = fl]
  BY Zenon DEF ProgramCall
<1>. HIDE DEF cn, fl, c
<1>2. prog = [at |-> prog.at, script |-> prog.script, fail |-> prog.fail,
              cnt |-> prog.cnt, clean |-> prog.clean]
  BY DEF Progs
<1>3. prog' = [at |-> prog.at, script |-> Tail(prog.script), fail |-> fl,
               cnt |-> cn, clean |-> prog.clean]
  BY <1>1, <1>2
<1>4. /\ prog'.at = prog.at /\ prog'.script = Tail(prog.script)
      /\ prog'.fail = fl /\ prog'.cnt = cn /\ prog'.clean = prog.clean
  BY <1>3, Zenon
<1>. QED BY <1>1, <1>3, <1>4, Zenon DEF cn, fl, c

\* A call of err_open_lots: exactly one of the opens fails.
LEMMA LotsStep ==
  ASSUME Inv, cpu = "user", NEW j \in 0 .. LOTS - 1, CleanAfter(j), NEW c \in Calls,
         c = err_open_lots[j + 1], Make(c)
  PROVE  /\ cpu' = "user" /\ UsedIs(j + 1)'
         /\ c.op = "open_count" /\ call'.ret = FAIL <=> j = OPS_SIZE - 2
         /\ c.op \in {"open_count", "close_any", "end_lots"}
         /\ c.op = "end_lots" => j = LOTS - 1
<1>0. OPS_SIZE \in Nat /\ OPS_SIZE > 2 /\ LOTS \in Nat
  BY FdAssumption, LotsCalls
<1>a. ASSUME UNCHANGED <<process_count, fde, history>>,
             \A fd \in Fds : UsedAfter(j + 1, fd) <=> UsedAfter(j, fd)
      PROVE  UsedIs(j + 1)'
  <2>1. \A fd \in Fds : /\ ~ history'[process_count][fd].leftover
                        /\ fde'[process_count][fd].in_use <=> UsedAfter(j + 1, fd)
    BY <1>a, CleanDrivers, Zenon DEF Cur, Hist
  <2>. QED BY <1>a, <2>1, Zenon DEF UsedIs, UsedAfter, Cur, Hist
<1>1. CASE j <= OPS_SIZE - 3
  <2>1. j + 1 \in 1 .. OPS_SIZE - 1 /\ j \in 0 .. OPS_SIZE - 3 /\ j # OPS_SIZE - 2
    BY <1>0, <1>1
  <2>2. c.op = "open_count" /\ c.name = "."
    BY <2>1, LotsCalls, Zenon
  <2>3. open(".") \/ open_failed(".")
    BY <2>2, MakeCases
  <2>4. call'.ret # FAIL /\ cpu' = cpu /\ UsedIs(j + 1)'
    BY <2>1, <2>3, LotsOpen
  <2>5. "open_count" # "end_lots"
    OBVIOUS
  <2>. QED BY <2>1, <2>2, <2>4, <2>5, Zenon
<1>2. CASE j = OPS_SIZE - 2
  <2>1. j + 1 \in 1 .. OPS_SIZE - 1 /\ j + 1 = OPS_SIZE - 1
    BY <1>0, <1>2
  <2>2. c.op = "open_count" /\ c.name = "."
    BY <2>1, LotsCalls, Zenon
  <2>3. open(".") \/ open_failed(".")
    BY <2>2, MakeCases
  <2>4. /\ call'.ret = FAIL
        /\ UNCHANGED <<process_count, fde, dir_read_count, cpu, history>>
    BY <1>2, <2>3, LotsFull
  <2>5. \A fd \in Fds : UsedAfter(j + 1, fd) <=> UsedAfter(j, fd)
    BY <1>2, <2>1, UsedFull, Zenon
  <2>6. "open_count" # "end_lots"
    OBVIOUS
  <2>. QED BY <1>a, <1>2, <2>2, <2>4, <2>5, <2>6, Zenon
<1>3. CASE j >= OPS_SIZE - 1 /\ j <= LOTS - 2
  <2>. DEFINE d == j - OPS_SIZE + 3
  <2>1. /\ j + 1 \in OPS_SIZE .. LOTS - 1 /\ j \in OPS_SIZE - 1 .. LOTS - 2
        /\ (j + 1) - OPS_SIZE + 2 = d /\ j # OPS_SIZE - 2
        /\ d \in Fds /\ d > 1 /\ UsedAfter(j, d)
    BY <1>0, <1>3 DEF Fds, UsedAfter, LOTS
  <2>2. c.op = "close_any" /\ c.fd = d
    BY <2>1, LotsCalls, Zenon
  <2>3. close(c.fd) \/ close_failed(c.fd) \/ bad_pointer("close", c.fd)
    BY <2>2, MakeCases
  <2>4. \A fd \in Fds : UsedAfter(j + 1, fd) <=> UsedAfter(j, fd) /\ fd # d
    BY <2>1, UsedCloses, Zenon
  <2>. HIDE DEF d
  <2>5. cpu' = cpu /\ UsedIs(j + 1)'
    BY <2>1, <2>2, <2>3, <2>4, LotsClose
  <2>6. "close_any" # "end_lots" /\ "close_any" # "open_count"
    OBVIOUS
  <2>. QED BY <2>1, <2>2, <2>5, <2>6, Zenon
<1>4. CASE j = LOTS - 1
  <2>1. j + 1 = LOTS /\ j # OPS_SIZE - 2
    BY <1>0, <1>4 DEF LOTS
  <2>2. c.op = "end_lots"
    BY <2>1, LotsCalls, Zenon
  <2>3. UNCHANGED vars
    BY <2>2, MakeCases
  <2>4. UNCHANGED <<process_count, fde, history>> /\ cpu' = cpu
    BY <2>3, Zenon DEF vars
  <2>5. \A fd \in Fds : UsedAfter(j + 1, fd) <=> UsedAfter(j, fd)
    BY <1>4, <2>1, UsedEnds, Zenon
  <2>6. "end_lots" # "open_count"
    OBVIOUS
  <2>. QED BY <1>a, <1>4, <2>1, <2>2, <2>4, <2>5, <2>6, Zenon
<1>5. \/ j <= OPS_SIZE - 3 \/ j = OPS_SIZE - 2
      \/ (j >= OPS_SIZE - 1 /\ j <= LOTS - 2) \/ j = LOTS - 1
  BY <1>0
<1>. QED BY <1>1, <1>2, <1>3, <1>4, <1>5, Zenon

\* A wrong call counts nothing.
LEMMA WrongOps ==
  ASSUME NEW c, Wrong(c) PROVE c.op # "open_count" /\ c.op # "end_lots"
  BY DEF Wrong

\* prog keeps its type over a call.
LEMMA ProgTyped ==
  ASSUME prog \in Progs, ProgramCall, Tail(prog.script) \in Seq(Calls)
  PROVE  prog' \in Progs
<1>1. prog.cnt \in Nat /\ prog.clean \in BOOLEAN
  BY Zenon DEF Progs
<1>2. prog.cnt + 1 \in Nat
  BY <1>1
<1>3. /\ prog' = [at |-> prog'.at, script |-> prog'.script, fail |-> prog'.fail,
                  cnt |-> prog'.cnt, clean |-> prog'.clean]
      /\ prog'.at = "tests" /\ prog'.script = Tail(prog.script)
      /\ prog'.clean = prog.clean
      /\ prog'.cnt = prog.cnt + 1 \/ prog'.cnt = prog.cnt
  BY ProgFields, Zenon
<1>4. prog'.fail \in BOOLEAN
  BY ProgFields, Zenon
<1>5. "tests" \in {"off", "select", "tests"}
  OBVIOUS
<1>6. /\ prog'.at \in {"off", "select", "tests"} /\ prog'.script \in Seq(Calls)
      /\ prog'.cnt \in Nat /\ prog'.clean \in BOOLEAN
  BY <1>1, <1>2, <1>3, <1>5, Zenon
<1>. QED BY <1>3, <1>4, <1>6, Zenon DEF Progs

\* A call of a clean syserr does not fail the test and leaves the state the
\* next call expects.
LEMMA CleanCall ==
  ASSUME Inv, SysErrInv, ProgramCall, prog.clean, NEW b \in Int,
         LotsAt(prog.script, b), CleanAfter(Made(b)), NEW nb,
         nb = IF b = -LOTS THEN b ELSE b - 1
  PROVE  ~ prog'.fail /\ cpu' = "user" /\ CleanAfter(Made(nb))'
<1>. DEFINE c == Head(prog.script)
<1>1. /\ prog \in Progs /\ ~ prog.fail /\ cpu = "user"
  BY Zenon DEF SysErrInv, CleanShape
<1>2. /\ prog.script # <<>> /\ Make(c)
      /\ prog'.cnt = IF c.op = "open_count" /\ call'.ret = FAIL
                     THEN prog.cnt + 1 ELSE prog.cnt
      /\ prog'.fail = (\/ prog.fail
                       \/ /\ c.op \in {"open", "close", "read", "write",
                                       "vidmap", "number"}
                          /\ cpu' = "user" /\ call'.ret # FAIL
                       \/ c.op = "end_lots" /\ prog.cnt # 1)
  BY <1>1, ProgFields, Zenon
<1>3. /\ c \in Calls
      /\ IF b <= 0 /\ b > -LOTS THEN c = err_open_lots[1 - b] ELSE Wrong(c)
  BY <1>2, LotsFirst, Zenon
<1>4. LOTS \in Nat /\ OPS_SIZE \in Nat /\ OPS_SIZE > 2 /\ LOTS = 2 * OPS_SIZE - 2
  BY LotsCalls, FdAssumption DEF LOTS
<1>5. -LOTS <= b
  BY Zenon DEF LotsAt
<1>. HIDE DEF c
<1>6. ASSUME NEW k, UsedIs(k)', k = Made(nb), ~ prog'.fail, cpu' = "user",
             k <= OPS_SIZE - 2 => prog'.cnt = 0,
             k >= OPS_SIZE - 1 /\ k < LOTS => prog'.cnt = 1
      PROVE  ~ prog'.fail /\ cpu' = "user" /\ CleanAfter(Made(nb))'
  BY <1>6, Zenon DEF CleanAfter
<1>7. CASE ~(b <= 0 /\ b > -LOTS)
  <2>1. PICK j : j = Made(b)
    BY Zenon
  <2>2. /\ j = Made(nb) /\ j \in {0, LOTS}
    BY <1>4, <1>5, <1>7, <2>1 DEF Made
  <2>3. Wrong(c)
    BY <1>3, <1>7, Zenon
  <2>4. \A fd \in Fds : UsedAfter(j, fd) => fd <= 1
    <3>1. j = 0 \/ j = LOTS
      BY <2>2, Zenon
    <3>. QED BY <3>1, UsedEnds, Zenon
  <2>5. CleanAfter(j)
    BY <2>1, Zenon
  <2>6. call'.ret = FAIL /\ UNCHANGED <<process_count, fde, dir_read_count, cpu, history>>
    BY <1>2, <2>3, <2>4, <2>5, WrongFails, Zenon
  <2>7. c.op # "open_count" /\ c.op # "end_lots"
    BY <2>3, WrongOps, Zenon
  <2>8. prog'.cnt = prog.cnt /\ ~ prog'.fail
    BY <1>1, <1>2, <2>6, <2>7, Zenon
  <2>9. UsedIs(j)'
    BY <2>5, <2>6, Zenon DEF CleanAfter, UsedIs, UsedAfter, Cur, Hist
  <2>10. /\ j <= OPS_SIZE - 2 => prog'.cnt = 0
         /\ j >= OPS_SIZE - 1 /\ j < LOTS => prog'.cnt = 1
    BY <2>5, <2>8, Zenon DEF CleanAfter
  <2>. QED BY <1>1, <1>6, <2>2, <2>6, <2>8, <2>9, <2>10, Zenon
<1>8. CASE b <= 0 /\ b > -LOTS
  <2>1. PICK j : j = -b
    BY Zenon
  <2>2. /\ j = Made(b) /\ j + 1 = Made(nb) /\ j \in 0 .. LOTS - 1 /\ 1 - b = j + 1
    BY <1>4, <1>8, <2>1 DEF Made
  <2>3. c = err_open_lots[j + 1]
    BY <1>3, <1>8, <2>2, Zenon
  <2>4. CleanAfter(j)
    BY <2>2, Zenon
  <2>5. /\ cpu' = "user" /\ UsedIs(j + 1)'
        /\ c.op = "open_count" /\ call'.ret = FAIL <=> j = OPS_SIZE - 2
        /\ c.op \in {"open_count", "close_any", "end_lots"}
        /\ c.op = "end_lots" => j = LOTS - 1
    BY <1>1, <1>2, <1>3, <2>2, <2>3, <2>4, LotsStep, Zenon
  <2>6. prog'.cnt = IF j = OPS_SIZE - 2 THEN prog.cnt + 1 ELSE prog.cnt
    BY <1>2, <2>5, Zenon
  <2>7. /\ j <= OPS_SIZE - 2 => prog.cnt = 0
        /\ j >= OPS_SIZE - 1 /\ j < LOTS => prog.cnt = 1
    BY <2>4, Zenon DEF CleanAfter
  <2>8. /\ j + 1 <= OPS_SIZE - 2 => prog'.cnt = 0
        /\ j + 1 >= OPS_SIZE - 1 /\ j + 1 < LOTS => prog'.cnt = 1
    BY <1>4, <2>2, <2>6, <2>7
  <2>9. c.op = "end_lots" => prog.cnt = 1
    <3>1. j = LOTS - 1 => j >= OPS_SIZE - 1 /\ j < LOTS
      BY <1>4
    <3>. QED BY <2>5, <2>7, <3>1, Zenon
  <2>10. c.op \notin {"open", "close", "read", "write", "vidmap", "number"}
    BY <2>5
  <2>11. ~ prog'.fail
    BY <1>1, <1>2, <2>9, <2>10, Zenon
  <2>. QED BY <1>6, <2>2, <2>5, <2>8, <2>11, Zenon
<1>. QED BY <1>7, <1>8, Zenon

\* A call of the program.
LEMMA CallKeeps == ASSUME Inv, SysErrInv, ProgramCall PROVE SysErrInv'
<1>1. prog \in Progs /\ ScriptShape /\ CleanShape
  BY Zenon DEF SysErrInv
<1>2. /\ prog.at = "tests" /\ prog.script # <<>>
      /\ prog'.at = "tests" /\ prog'.script = Tail(prog.script)
      /\ prog'.clean = prog.clean
  BY <1>1, ProgFields, Zenon
<1>3. PICK b \in Int : /\ LotsAt(prog.script, b)
                       /\ prog.clean => CleanAfter(Made(b))
  BY <1>1, <1>2, Zenon DEF ScriptShape
<1>4. PICK nb : nb = IF b = -LOTS THEN b ELSE b - 1
  BY Zenon
<1>5. nb \in Int
  BY <1>4
<1>6. LotsAt(Tail(prog.script), nb) /\ Tail(prog.script) \in Seq(Calls)
  BY <1>2, <1>3, <1>4, LotsFirst, Zenon
<1>7. prog.clean => ~ prog'.fail /\ cpu' = "user" /\ CleanAfter(Made(nb))'
  BY <1>3, <1>4, CleanCall, Zenon
<1>8. prog' \in Progs
  BY <1>1, <1>6, ProgTyped, Zenon
<1>9. LotsAt(prog.script, nb)'
  BY <1>2, <1>6, Zenon DEF LotsAt, Wrong
<1>10. ScriptShape'
  BY <1>2, <1>5, <1>7, <1>9, Zenon DEF ScriptShape
<1>11. CleanShape'
  <2>1. "tests" # "off" /\ "tests" # "select"
    OBVIOUS
  <2>. QED BY <1>2, <1>7, <2>1, Zenon DEF CleanShape
<1>. QED BY <1>8, <1>10, <1>11, Zenon DEF SysErrInv

\* execute gives syserr stdin and stdout and otherwise what the stack held.
LEMMA StartKeeps == ASSUME Inv, Start PROVE SysErrInv'
<1>. DEFINE cl == \A fd \in Fds : ~ history'[process_count'][fd].leftover
<1>1. execute /\ prog' = [NotRunning EXCEPT !.at = "select", !.clean = cl]
  BY Zenon DEF Start
<1>2. PICK g \in [2 .. OPS_SIZE - 1 -> StackGarbage] :
        /\ fde' = [fde EXCEPT ![process_count'] = NewFds(g)]
        /\ history' = [history EXCEPT ![process_count'] = NewHistory(g)]
  BY <1>1, Zenon DEF execute
<1>3. process_count' = process_count + 1 /\ process_count < MaxDepth /\ cpu' = "user"
  BY <1>1, Zenon DEF execute
<1>4. process_count' \in Procs
  <2>1. process_count \in Procs
    BY TypeParts DEF Inv
  <2>. QED BY <1>3, <2>1, FdAssumption DEF Procs
<1>5. fde'[process_count'] = NewFds(g) /\ history'[process_count'] = NewHistory(g)
  <2>1. fde \in [Procs -> [Fds -> Entries]] /\ history \in [Procs -> [Fds -> Histories]]
    BY TypeParts DEF Inv
  <2>. QED BY <1>2, <1>4, <2>1
<1>6. PICK cb \in BOOLEAN : cb = cl
  BY Zenon
<1>7. prog' = [at |-> "select", script |-> <<>>, fail |-> FALSE, cnt |-> 0,
               clean |-> cb]
  <2>1. prog' = [NotRunning EXCEPT !.at = "select", !.clean = cb]
    BY <1>1, <1>6, Zenon
  <2>. QED BY <2>1 DEF NotRunning
<1>. HIDE DEF cl
<1>8. /\ prog'.at = "select" /\ prog'.fail = FALSE /\ prog'.cnt = 0
      /\ prog'.clean = cb
  BY <1>7, Zenon
<1>9. prog' \in Progs
  <2>1. <<>> \in Seq(Calls) /\ 0 \in Nat /\ "select" \in {"off", "select", "tests"}
    OBVIOUS
  <2>. QED BY <1>7, <2>1, Zenon DEF Progs
<1>10. ScriptShape'
  <2>1. "select" # "tests"
    OBVIOUS
  <2>. QED BY <1>8, <2>1, Zenon DEF ScriptShape
<1>11. ASSUME cb PROVE UsedIs(0)'
  <2>1. ASSUME NEW fd \in Fds
        PROVE  ~ NewHistory(g)[fd].leftover /\ (NewFds(g)[fd].in_use <=> UsedAfter(0, fd))
    <3>1. ~ NewHistory(g)[fd].leftover
      BY <1>5, <1>6, <1>11, Zenon DEF cl
    <3>2. NewHistory(g)[fd].opened = FALSE
      <4>1. PICK left : left = (fd > 1 /\ g[fd] # "free")
        BY Zenon
      <4>2. NewHistory(g)[fd] = [NotOpened EXCEPT !.leftover = left]
        BY <4>1, Zenon DEF NewHistory
      <4>. QED BY <4>2, Zenon DEF NotOpened
    <3>3. EntryFine(fd, NewFds(g)[fd], NewHistory(g)[fd])
      BY NewProcess
    <3>4. NewFds(g)[fd].in_use <=> fd <= 1
      BY <3>1, <3>2, <3>3, Zenon DEF EntryFine
    <3>. QED BY <3>1, <3>4, UsedEnds, Zenon
  <2>. QED BY <1>5, <2>1, Zenon DEF UsedIs, UsedAfter, Cur, Hist
<1>12. fde'[process_count'][0].fop_ptr = "terminal"
  <2>1. 0 \in Fds /\ 0 <= 1
    BY FdAssumption DEF Fds
  <2>2. NewFds(g)[0] = Terminal
    BY <2>1, Zenon DEF NewFds
  <2>3. Terminal.fop_ptr = "terminal"
    BY Zenon DEF Terminal, Unused
  <2>. QED BY <1>5, <2>2, <2>3, Zenon
<1>13. CleanShape'
  <2>1. ~(0 >= OPS_SIZE - 1)
    BY FdAssumption
  <2>2. cb => CleanAfter(0)'
    BY <1>8, <1>11, <2>1, Zenon DEF CleanAfter
  <2>3. "select" # "off"
    OBVIOUS
  <2>. QED BY <1>3, <1>8, <1>12, <2>2, <2>3, Zenon DEF CleanShape, Cur
<1>. QED BY <1>9, <1>10, <1>13, Zenon DEF SysErrInv

\* The number is read from the terminal, which leaves the descriptors alone.
LEMMA ChooseKeeps ==
  ASSUME Inv, SysErrInv, NEW select, Choose(select) PROVE SysErrInv'
<1>1. prog \in Progs /\ ScriptShape /\ CleanShape
  BY Zenon DEF SysErrInv
<1>2. /\ prog.at = "select"
      /\ prog' = [prog EXCEPT !.at = "tests", !.script = Script(select)]
  BY Zenon DEF Choose
<1>3. PICK n \in ReadSizes : read(0, n)
  BY Zenon DEF Choose, Sizes
<1>4. PICK b \in Int : LotsAt(Script(select), b) /\ (b >= 0 \/ b = -LOTS)
  BY ScriptFound
<1>5. Script(select) \in Seq(Calls)
  BY <1>4, Zenon DEF LotsAt
<1>6. prog = [at |-> prog.at, script |-> prog.script, fail |-> prog.fail,
              cnt |-> prog.cnt, clean |-> prog.clean]
  BY <1>1 DEF Progs
<1>7. prog' = [at |-> "tests", script |-> Script(select), fail |-> prog.fail,
               cnt |-> prog.cnt, clean |-> prog.clean]
  BY <1>2, <1>6
<1>8. /\ prog'.at = "tests" /\ prog'.script = Script(select)
      /\ prog'.fail = prog.fail /\ prog'.cnt = prog.cnt /\ prog'.clean = prog.clean
  BY <1>7, Zenon
<1>9. prog' \in Progs
  <2>1. "tests" \in {"off", "select", "tests"}
    OBVIOUS
  <2>2. prog.fail \in BOOLEAN /\ prog.cnt \in Nat /\ prog.clean \in BOOLEAN
    BY <1>1, Zenon DEF Progs
  <2>. QED BY <1>5, <1>7, <2>1, <2>2, Zenon DEF Progs
<1>10. ASSUME prog.clean
       PROVE  /\ UNCHANGED <<process_count, fde, cpu, history>>
              /\ ~ prog.fail /\ cpu = "user" /\ CleanAfter(0)
  <2>1. ~ prog.fail /\ cpu = "user" /\ CleanAfter(0) /\ Cur[0].fop_ptr = "terminal"
    BY <1>1, <1>2, <1>10, Zenon DEF CleanShape
  <2>2. "terminal" # "file" /\ "terminal" # "directory" /\ "terminal" # "stale"
    OBVIOUS
  <2>. QED BY <1>3, <2>1, <2>2, Zenon DEF read, read_file, read_stale, read_directory
<1>11. ASSUME prog.clean PROVE CleanAfter(Made(b))'
  <2>1. PICK j : j = Made(b)
    BY Zenon
  <2>2. OPS_SIZE \in Nat /\ OPS_SIZE > 2 /\ LOTS = 2 * OPS_SIZE - 2 /\ LOTS \in Nat
    BY FdAssumption, LotsCalls DEF LOTS
  <2>3. j \in {0, LOTS}
    BY <1>4, <2>1, <2>2 DEF Made
  <2>4. \A fd \in Fds : UsedAfter(j, fd) <=> UsedAfter(0, fd)
    <3>1. j = 0 \/ j = LOTS
      BY <2>3, Zenon
    <3>. QED BY <3>1, UsedEnds, Zenon
  <2>5. \A fd \in Fds : ~ Hist[fd].leftover /\ (Cur[fd].in_use <=> UsedAfter(j, fd))
    BY <1>10, <1>11, <2>4, CleanDrivers, Zenon
  <2>6. UsedIs(j)'
    BY <1>10, <1>11, <2>5, Zenon DEF UsedIs, UsedAfter, Cur, Hist
  <2>7. 0 <= OPS_SIZE - 2
    BY <2>2
  <2>8. prog.cnt = 0
    BY <1>10, <1>11, <2>7, Zenon DEF CleanAfter
  <2>9. ~(j >= OPS_SIZE - 1 /\ j < LOTS)
    BY <2>2, <2>3
  <2>. QED BY <1>8, <2>1, <2>6, <2>8, <2>9, Zenon DEF CleanAfter
<1>12. LotsAt(prog.script, b)'
  BY <1>4, <1>8, Zenon DEF LotsAt, Wrong
<1>13. ScriptShape'
  BY <1>8, <1>11, <1>12, Zenon DEF ScriptShape
<1>14. CleanShape'
  <2>1. "tests" # "off" /\ "tests" # "select"
    OBVIOUS
  <2>. QED BY <1>8, <1>10, <2>1, Zenon DEF CleanShape
<1>. QED BY <1>9, <1>13, <1>14, Zenon DEF SysErrInv

\* While syserr does not run nothing is said of it.
LEMMA OffKeeps ==
  /\ prog = NotRunning => SysErrInv
  /\ prog' = NotRunning => SysErrInv'
  /\ SysErrInv /\ prog.at = "off" /\ prog' = prog => SysErrInv'
<1>1. NotRunning.at = "off" /\ NotRunning.clean = FALSE
  BY Zenon DEF NotRunning
<1>2. NotRunning \in Progs
  <2>1. <<>> \in Seq(Calls) /\ 0 \in Nat /\ "off" \in {"off", "select", "tests"}
    OBVIOUS
  <2>. QED BY <2>1, Zenon DEF NotRunning, Progs
<1>3. "off" # "tests"
  OBVIOUS
<1>4. prog = NotRunning => SysErrInv
  BY <1>1, <1>2, <1>3, Zenon DEF SysErrInv, ScriptShape, CleanShape
<1>5. prog' = NotRunning => SysErrInv'
  BY <1>1, <1>2, <1>3, Zenon DEF SysErrInv, ScriptShape, CleanShape
<1>6. ASSUME SysErrInv, prog.at = "off", prog' = prog PROVE SysErrInv'
  <2>1. prog' \in Progs /\ prog'.at = "off" /\ ~ prog'.clean
    BY <1>6, Zenon DEF SysErrInv, CleanShape
  <2>. QED BY <1>3, <2>1, Zenon DEF SysErrInv, ScriptShape, CleanShape
<1>. QED BY <1>4, <1>5, <1>6

\* Every step keeps the invariant of syserr.
LEMMA SysErrStep == Inv /\ SysErrInv /\ [SysErrNext]_allVars => SysErrInv'
<1>. SUFFICES ASSUME Inv, SysErrInv, [SysErrNext]_allVars PROVE SysErrInv'
  OBVIOUS
<1>1. CASE prog.at = "off" /\ Next /\ UNCHANGED prog
  BY <1>1, OffKeeps, Zenon
<1>2. CASE Start
  BY <1>2, StartKeeps
<1>3. ASSUME NEW select \in Selects, Choose(select) PROVE SysErrInv'
  BY <1>3, ChooseKeeps, Zenon
<1>4. CASE ProgramCall
  BY <1>4, CallKeeps
<1>5. CASE Finish
  BY <1>5, OffKeeps, Zenon DEF Finish
<1>6. CASE UNCHANGED allVars
  <2>1. /\ prog' = prog /\ process_count' = process_count /\ fde' = fde
        /\ cpu' = cpu /\ history' = history
    BY <1>6, Zenon DEF allVars, vars
  <2>2. prog' \in Progs /\ CleanShape' /\ ScriptShape'
    <3>1. Cur' = Cur /\ Hist' = Hist
      BY <2>1, Zenon DEF Cur, Hist
    <3>2. \A k : CleanAfter(k)' <=> CleanAfter(k)
      BY <2>1, <3>1, Zenon DEF CleanAfter, UsedIs, UsedAfter
    <3>3. ASSUME NEW b \in Int, LotsAt(prog.script, b) PROVE LotsAt(prog.script, b)'
      BY <2>1, <3>3, Zenon DEF LotsAt, Wrong
    <3>4. CleanShape'
      BY <2>1, <3>1, <3>2, Zenon DEF SysErrInv, CleanShape
    <3>5. ScriptShape'
      BY <2>1, <3>2, <3>3, Zenon DEF SysErrInv, ScriptShape, Made
    <3>. QED BY <2>1, <3>4, <3>5, Zenon DEF SysErrInv
  <2>. QED BY <2>2, Zenon DEF SysErrInv
<1>. QED BY <1>1, <1>2, <1>3, <1>4, <1>5, <1>6, Zenon DEF SysErrNext

\* A call of syserr is one any program can make, or one without effect.
LEMMA CallIsStep ==
  ASSUME SysErrInv, ProgramCall PROVE [Next]_vars \/ Harmless
<1>. DEFINE c == Head(prog.script)
<1>1. prog \in Progs /\ ScriptShape
  BY Zenon DEF SysErrInv
<1>2. prog.at = "tests" /\ prog.script # <<>> /\ Make(c)
  BY <1>1, ProgFields, Zenon
<1>3. PICK b \in Int : LotsAt(prog.script, b)
  BY <1>1, <1>2, Zenon DEF ScriptShape
<1>4. /\ c \in Calls
      /\ IF b <= 0 /\ b > -LOTS THEN c = err_open_lots[1 - b] ELSE Wrong(c)
  BY <1>2, <1>3, LotsFirst, Zenon
<1>5. OPS_SIZE \in Nat /\ OPS_SIZE > 2 /\ LOTS = 2 * OPS_SIZE - 2 /\ LOTS \in Nat
  BY LotsCalls, FdAssumption DEF LOTS
<1>. HIDE DEF c
<1>6. \/ Wrong(c)
      \/ c.op = "open_count" /\ c.name = "."
      \/ c.op = "close_any" /\ c.fd \in -1 .. OPS_SIZE
      \/ c.op = "end_lots"
  <2>1. SUFFICES ASSUME b <= 0, b > -LOTS
                 PROVE  \/ c.op = "open_count" /\ c.name = "."
                        \/ c.op = "close_any" /\ c.fd \in -1 .. OPS_SIZE
                        \/ c.op = "end_lots"
    BY <1>4, Zenon
  <2>2. PICK k : k = 1 - b
    BY Zenon
  <2>3. c = err_open_lots[k]
    BY <1>4, <2>1, <2>2, Zenon
  <2>4. k \in 1 .. OPS_SIZE - 1 \/ k \in OPS_SIZE .. LOTS - 1 \/ k = LOTS
    BY <1>5, <2>1, <2>2
  <2>5. k \in OPS_SIZE .. LOTS - 1 => k - OPS_SIZE + 2 \in -1 .. OPS_SIZE
    BY <1>5
  <2>. QED BY <2>3, <2>4, <2>5, LotsCalls, Zenon
<1>7. ASSUME NEW fd \in PassedFds,
             \/ close(fd) \/ close_failed(fd) \/ write(fd)
             \/ \E n \in ReadSizes : read(fd, n)
             \/ read_write_refused("read", fd) \/ read_write_refused("write", fd)
             \/ bad_pointer("read", fd) \/ bad_pointer("write", fd)
             \/ bad_pointer("close", fd)
      PROVE  Next
  BY <1>7, Zenon DEF Next
<1>8. ASSUME NEW op, NEW fd, NEW name, NEW ret, Returns(op, fd, name, ret),
             cpu = "user",
             UNCHANGED <<process_count, fde, dir_read_count, cpu, history>>,
             \/ op = "vidmap" \/ op = "number"
             \/ op = "open" /\ read_dentry_by_name(name) = 0
      PROVE  Harmless
  <2>1. call'.op = op /\ call'.name = name
    BY <1>8, CallFields, Zenon
  <2>. QED BY <1>8, <2>1, Zenon DEF Harmless
<1>9. CASE c.op = "open_count" /\ c.name = "."
  <2>1. open(".") \/ open_failed(".")
    BY <1>2, <1>4, <1>9, MakeCases
  <2>. QED BY <2>1, SysErrAssumption, Zenon DEF Next
<1>a. \A fd \in -1 .. OPS_SIZE : fd \in PassedFds
  BY DEF PassedFds
<1>10. CASE c.op \in {"close", "close_any"} /\ c.fd \in -1 .. OPS_SIZE
  <2>1. close(c.fd) \/ close_failed(c.fd) \/ bad_pointer("close", c.fd)
    BY <1>2, <1>4, <1>10, MakeCases
  <2>. QED BY <1>7, <1>a, <1>10, <2>1, Zenon
<1>11. CASE c.op = "read" /\ c.fd \in -1 .. OPS_SIZE
  <2>1. \/ \E n \in ReadSizes : read(c.fd, n)
        \/ read_write_refused("read", c.fd)
        \/ bad_pointer("read", c.fd)
    BY <1>2, <1>4, <1>11, MakeCases
  <2>. QED BY <1>7, <1>a, <1>11, <2>1, Zenon
<1>12. CASE c.op = "write" /\ c.fd \in -1 .. OPS_SIZE
  <2>1. \/ write(c.fd)
        \/ read_write_refused("write", c.fd)
        \/ bad_pointer("write", c.fd)
    BY <1>2, <1>4, <1>12, MakeCases
  <2>. QED BY <1>7, <1>a, <1>12, <2>1, Zenon
<1>13. CASE c.op = "open" /\ read_dentry_by_name(c.name) = 0
  <2>1. open(c.name) \/ open_failed(c.name)
    BY <1>2, <1>4, <1>13, MakeCases
  <2>2. open_failed(c.name)
    BY <1>13, <2>1, Zenon DEF open
  <2>. QED BY <1>8, <1>13, <2>2, Zenon DEF open_failed
<1>14. CASE c.op = "vidmap"
  <2>1. NoState("vidmap", vidmap(c.fd))
    BY <1>2, <1>4, <1>14, MakeCases
  <2>. QED BY <1>8, <2>1, Zenon DEF NoState
<1>15. CASE c.op = "number"
  <2>1. NoState("number", syscall_number(c.fd))
    BY <1>2, <1>4, <1>15, MakeCases
  <2>. QED BY <1>8, <2>1, Zenon DEF NoState
<1>16. CASE c.op = "end_lots"
  BY <1>2, <1>4, <1>16, MakeCases
<1>17. CASE Wrong(c)
  <2>1. "close" \in {"close", "close_any"}
    OBVIOUS
  <2>. QED BY <1>10, <1>11, <1>12, <1>13, <1>14, <1>15, <1>17, <2>1, Zenon DEF Wrong
<1>18. "close_any" \in {"close", "close_any"}
  OBVIOUS
<1>. QED BY <1>6, <1>9, <1>10, <1>16, <1>17, <1>18, Zenon

\* So is every step with syserr among the programs.
LEMMA StepIsStep ==
  SysErrInv /\ [SysErrNext]_allVars => [Next]_vars \/ Harmless
<1>. SUFFICES ASSUME SysErrInv, [SysErrNext]_allVars PROVE [Next]_vars \/ Harmless
  OBVIOUS
<1>1. CASE prog.at = "off" /\ Next /\ UNCHANGED prog
  BY <1>1
<1>2. CASE Start
  BY <1>2, Zenon DEF Start, Next
<1>3. ASSUME NEW select \in Selects, Choose(select) PROVE Next
  <2>1. 0 \in PassedFds
    BY FdAssumption DEF PassedFds
  <2>2. \E n \in ReadSizes : read(0, n)
    BY <1>3, Zenon DEF Choose, Sizes
  <2>. QED BY <2>1, <2>2, Zenon DEF Next
<1>4. CASE ProgramCall
  BY <1>4, CallIsStep
<1>5. CASE Finish
  BY <1>5, Zenon DEF Finish, Next
<1>6. CASE UNCHANGED allVars
  BY <1>6, Zenon DEF allVars
<1>. QED BY <1>1, <1>2, <1>3, <1>4, <1>5, <1>6, Zenon DEF SysErrNext

\* A call without effect keeps what the other calls keep.
LEMMA HarmlessKeeps ==
  ASSUME Harmless
  PROVE  /\ Inv => Inv'
         /\ OpenFailsOnlyWhenFull'
         /\ ListShape => ListShape'
         /\ ListingInOrder'
<1>1. cpu = "user" /\ UNCHANGED <<process_count, fde, dir_read_count, cpu, history>>
  BY Zenon DEF Harmless
<1>2. Inv => Inv'
  BY <1>1, NoStep
<1>3. OpenFailsOnlyWhenFull'
  <2>1. "vidmap" # "open" /\ "number" # "open"
    OBVIOUS
  <2>2. CASE call'.op \in {"vidmap", "number"}
    BY <2>1, <2>2, Zenon DEF OpenFailsOnlyWhenFull
  <2>3. CASE call'.op = "open" /\ read_dentry_by_name(call'.name) = 0
    <3>1. ~ (\E i \in DOMAIN Dentries : Dentries[i].name = call'.name)
      <4>1. PICK s : s = call'.name
        BY Zenon
      <4>2. read_dentry_by_name(s) = 0
        BY <2>3, <4>1, Zenon
      <4>3. ~ (\E i \in DOMAIN Dentries : Dentries[i].name = s)
        BY <4>2, Found
      <4>. QED BY <4>1, <4>3, Zenon
    <3>. QED BY <3>1, Zenon DEF OpenFailsOnlyWhenFull
  <2>. QED BY <2>2, <2>3, Zenon DEF Harmless
<1>4. ListShape => ListShape'
  BY <1>1, ListNoStep
<1>5. ListingInOrder'
  <2>1. \A op \in {"vidmap", "number", "open"} : op # "read"
    OBVIOUS
  <2>2. call'.op = "vidmap" \/ call'.op = "number" \/ call'.op = "open"
    BY Zenon DEF Harmless
  <2>. QED BY <2>1, <2>2, Zenon DEF ListingInOrder
<1>. QED BY <1>2, <1>3, <1>4, <1>5

\* The invariants hold in every reachable state, with syserr among the
\* programs.
THEOREM SysErrInvTheorem == SysErrSpec => [](Inv /\ SysErrInv)
<1>1. SysErrInit => Inv /\ SysErrInv
  BY InitInv, OffKeeps, Zenon DEF SysErrInit
<1>2. Inv /\ SysErrInv /\ [SysErrNext]_allVars => Inv'
  BY StepIsStep, NextInv, HarmlessKeeps, Zenon
<1>. QED BY <1>1, <1>2, SysErrStep, PTL DEF SysErrSpec

\* syserr passes, for any number of descriptors, any directory and whatever
\* ran before: in a program that starts without leftovers every wrong call is
\* refused, exactly one of the opens of err_open_lots fails, and no call
\* faults.
THEOREM SyserrPassesTheorem == SysErrSpec => []SyserrPasses
<1>1. SysErrInv => SyserrPasses
  BY Zenon DEF SysErrInv, CleanShape, SyserrPasses
<1>. QED BY <1>1, SysErrInvTheorem, PTL

\* The four properties of the descriptors hold with syserr among the programs,
\* its calls out of range and its numbers of no system call included.
THEOREM DescriptorsTheorem ==
  SysErrSpec =>
    [](TypeOK /\ UsedIsOpened /\ FilesReadInOrder /\ OpenFailsOnlyWhenFull)
<1>1. Inv => TypeOK /\ UsedIsOpened /\ FilesReadInOrder
  BY Zenon DEF Inv, EntriesFine, EntryFine, FaultShape, UsedIsOpened, FilesReadInOrder
<1>2. SysErrInit => OpenFailsOnlyWhenFull
  <2>1. ASSUME SysErrInit PROVE call.op # "open"
    <3>1. call = NoCall
      BY <2>1, Zenon DEF SysErrInit, Init
    <3>2. call.op = "none"
      BY <3>1, Zenon DEF NoCall
    <3>3. "none" # "open"
      OBVIOUS
    <3>. QED BY <3>2, <3>3, Zenon
  <2>. QED BY <2>1, Zenon DEF OpenFailsOnlyWhenFull
<1>3. Inv /\ SysErrInv /\ OpenFailsOnlyWhenFull /\ [SysErrNext]_allVars
        => OpenFailsOnlyWhenFull'
  BY StepIsStep, OpenFailsStep, HarmlessKeeps, Zenon
<1>. QED BY <1>1, <1>2, <1>3, SysErrInvTheorem, PTL DEF SysErrSpec

\* The same for the order of listings.
THEOREM ListingAmongTheorem ==
  ASSUME WholeListings PROVE SysErrSpec => []ListingInOrder
<1>1. SysErrInit => ListShape /\ ListingInOrder
  BY ListInit, Zenon DEF SysErrInit
<1>2. Inv /\ SysErrInv /\ ListShape /\ ListingInOrder /\ [SysErrNext]_allVars
        => ListShape' /\ ListingInOrder'
  BY StepIsStep, ListStep, OrderStep, HarmlessKeeps, Zenon
<1>3. SysErrSpec => [](ListShape /\ ListingInOrder)
  BY <1>1, <1>2, SysErrInvTheorem, PTL DEF SysErrSpec
<1>. QED BY <1>3, PTL
=============================================================================
