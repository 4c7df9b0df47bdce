-------------------------- MODULE FileDescriptors --------------------------
(***************************************************************************)
(* The file descriptors of the processes: open, read, write and close of   *)
(* syscalls.c, the part of execute that sets up the descriptor array, and  *)
(* the drivers of filesys_mod.c behind them.                               *)
(*                                                                         *)
(* Processes are stacked as in module Process and the top one makes the    *)
(* calls; none of this state is touched by an interrupt handler, so each   *)
(* call is one action.  What the terminal and the clock do with a read or  *)
(* a write is in modules Console and Rtc.                                  *)
(***************************************************************************)
EXTENDS Integers, Sequences, FiniteSets

CONSTANTS
  OPS_SIZE,        \* descriptors of a process
  MaxDepth,        \* processes that exist at the same time
  Dentries,        \* the directory: a sequence of [name, type, length]
  Names,           \* the names user programs type
  ReadSizes,       \* nbytes of the calls of read: int32_t, and nothing checks it
  FarFds,          \* numbers outside the array for which fde[fd] is not mapped
  StackGarbage,    \* what a descriptor not set up by execute may hold
  WholeListings    \* directories are listed to the end, one at a time

Types == {"rtc", "directory", "file"}

(***************************************************************************)
(* What an entry may be that execute did not set up: not in use, or in use *)
(* with a pointer that is NULL, a wild one, or one to a table of           *)
(* functions.  "stale" is the table of the files with whatever name and    *)
(* position the entry has.                                                 *)
(***************************************************************************)
GarbageKinds == {"free", "null", "junk", "terminal", "rtc", "directory", "stale"}

ASSUME FdAssumption ==
  /\ OPS_SIZE \in Nat /\ OPS_SIZE > 2
  /\ MaxDepth \in Nat \ {0}
  /\ Len(Dentries) \in Nat /\ DOMAIN Dentries = 1 .. Len(Dentries)
  /\ \A i \in DOMAIN Dentries :
       /\ Dentries[i].type \in Types
       /\ Dentries[i].length \in Nat
  /\ ReadSizes \subseteq Int
  /\ FarFds \subseteq Int /\ FarFds \cap (-1 .. OPS_SIZE) = {}
  /\ StackGarbage \subseteq GarbageKinds
  /\ WholeListings \in BOOLEAN

VARIABLES
  process_count,
  fde,              \* of each process: [fop_ptr, file_name, file_pos, in_use]
  dir_read_count,   \* the static variable of read_directory
  cpu,              \* "user", or "fault" after an exception
  call,             \* the last system call and what it returned
  history           \* of each descriptor: [opened, count, leftover], count
                    \* being the bytes read since it was opened, or the
                    \* directory entries since then or since the last 0,
                    \* leftover whether it came into use from stack garbage

vars == <<process_count, fde, dir_read_count, cpu, call, history>>

SUCCESS == 0
FAIL == -1
Fds == 0 .. OPS_SIZE - 1
Procs == 1 .. MaxDepth

PassedFds == (-1 .. OPS_SIZE) \cup FarFds    \* what programs pass for fd

(***************************************************************************)
(* The first entry with this name, or 0.  Lengths and then characters are  *)
(* compared, so only the same name matches; createfs stores at most 31     *)
(* characters, which leaves room for the terminating zero strlen needs.    *)
(* The length of the argument is kept in a byte: names here are shorter    *)
(* than 256 characters.                                                    *)
(***************************************************************************)
read_dentry_by_name(name) ==
  LET match == {i \in DOMAIN Dentries : Dentries[i].name = name}
  IN  IF match = {} THEN 0 ELSE CHOOSE i \in match : \A j \in match : i <= j

----------------------------------------------------------------------------
Unused == [fop_ptr |-> "NULL", file_name |-> "", file_pos |-> 0,
           in_use |-> FALSE]

\* What the kernel stack held where execute has its pcb: init_fd is passed
\* the structure by value and clears a copy.
Garbage(g) ==
  [Unused EXCEPT !.in_use = (g # "free"),
                 !.fop_ptr = IF g \in {"free", "null"} THEN "NULL" ELSE g]

Terminal == [Unused EXCEPT !.fop_ptr = "terminal", !.in_use = TRUE]

NewFds(g) == [fd \in Fds |-> IF fd <= 1 THEN Terminal ELSE Garbage(g[fd])]

NotOpened == [opened |-> FALSE, count |-> 0, leftover |-> FALSE]

NewHistory(g) ==
  [fd \in Fds |-> [NotOpened EXCEPT !.leftover = fd > 1 /\ g[fd] # "free"]]

Cur == fde[process_count]
Hist == history[process_count]

NoCall == [op |-> "none", fd |-> 0, name |-> "", nbytes |-> 0, ret |-> 0]

Quiet == call' = NoCall

\* A directory of which some entries but not its end have been read.
Listing(p, fd) ==
  /\ fde[p][fd].in_use /\ fde[p][fd].fop_ptr = "directory"
  /\ history[p][fd].count > 0

execute ==
  /\ cpu = "user"
  /\ process_count < MaxDepth
  /\ process_count' = process_count + 1
  /\ \E g \in [2 .. OPS_SIZE - 1 -> StackGarbage] :
       /\ fde' = [fde EXCEPT ![process_count'] = NewFds(g)]
       /\ history' = [history EXCEPT ![process_count'] = NewHistory(g)]
  /\ Quiet
  /\ UNCHANGED <<dir_read_count, cpu>>

\* halt leaves the descriptors as they are; the array is then out of use.
halt ==
  /\ cpu = "user"
  /\ process_count > 1
  /\ WholeListings => \A fd \in Fds : ~ Listing(process_count, fd)
  /\ process_count' = process_count - 1
  /\ Quiet
  /\ UNCHANGED <<fde, dir_read_count, cpu, history>>

Returns(op, fd, name, ret) ==
  call' = [op |-> op, fd |-> fd, name |-> name, nbytes |-> 0, ret |-> ret]

\* A call that does not return: every exception but a breakpoint or an
\* overflow ends in idt_handler's hlt.
Exception(op, fd, n) ==
  /\ cpu' = "fault"
  /\ call' = [op |-> op, fd |-> fd, name |-> "", nbytes |-> n, ret |-> 0]

----------------------------------------------------------------------------
(* open *)

check_use(fd) == Cur[fd].in_use

FreeFds_Short == {fd \in Fds : fd < OPS_SIZE - 1 /\ ~ check_use(fd)}

FreeFds == {fd \in Fds : ~ check_use(fd)}

\* The loop of open: the first descriptor not in use.
Location == CHOOSE fd \in FreeFds : \A other \in FreeFds : fd <= other

OpenEntry(fd, name, type) ==
  [fop_ptr |-> type, file_name |-> name, file_pos |-> 0, in_use |-> TRUE]

open(name) ==
  /\ cpu = "user"
  /\ FreeFds # {} /\ read_dentry_by_name(name) # 0
  /\ fde' = [fde EXCEPT ![process_count][Location] =
               OpenEntry(Location, name, Dentries[read_dentry_by_name(name)].type)]
  /\ history' = [history EXCEPT ![process_count][Location] =
                   [NotOpened EXCEPT !.opened = TRUE]]
  /\ Returns("open", Location, name, Location)
  /\ UNCHANGED <<process_count, dir_read_count, cpu>>

open_failed(name) ==
  /\ cpu = "user"
  /\ FreeFds = {} \/ read_dentry_by_name(name) = 0
  /\ Returns("open", 0, name, FAIL)
  /\ UNCHANGED <<process_count, fde, dir_read_count, cpu, history>>

----------------------------------------------------------------------------
(* close *)

ClosedEntry_StillUsed(fd) == [Cur[fd] EXCEPT !.fop_ptr = "NULL", !.file_pos = 0]

ClosedEntry(fd) ==
  [Cur[fd] EXCEPT !.fop_ptr = "NULL", !.file_pos = 0, !.in_use = FALSE]

Closable_Terminal(fd) == /\ fd \in Fds
                         /\ check_use(fd) /\ Cur[fd].fop_ptr # "NULL"

\* The entry is looked at before the number is.
Closable(fd) == /\ fd \in Fds /\ fd > 1
                /\ check_use(fd) /\ Cur[fd].fop_ptr # "NULL"

close(fd) ==
  /\ cpu = "user"
  /\ Closable(fd) /\ Cur[fd].fop_ptr # "junk"
  /\ WholeListings => ~ Listing(process_count, fd)
  /\ fde' = [fde EXCEPT ![process_count][fd] = ClosedEntry(fd)]
  /\ history' = [history EXCEPT ![process_count][fd] = NotOpened]
  /\ Returns("close", fd, "", SUCCESS)
  /\ UNCHANGED <<process_count, dir_read_count, cpu>>

\* For a number outside the array check_use reads memory next to it, and
\* whatever it finds the answer is FAIL.
close_failed(fd) ==
  /\ cpu = "user"
  /\ ~ Closable(fd) /\ fd \notin FarFds
  /\ Returns("close", fd, "", FAIL)
  /\ UNCHANGED <<process_count, fde, dir_read_count, cpu, history>>

\* For a number far outside it there is no memory to read.
close_far(fd) ==
  /\ cpu = "user"
  /\ fd \in FarFds
  /\ Exception("close", fd, 0)
  /\ UNCHANGED <<process_count, fde, dir_read_count, history>>

----------------------------------------------------------------------------
(* read and write *)

Readable(fd) == fd \in Fds /\ check_use(fd) /\ fd # 1
Writable(fd) == fd \in Fds /\ check_use(fd) /\ fd # 0

BytesRead_NoTrim(length, offset, n) == n

\* What read_data returns for a position within the file, where it returns;
\* a negative n is converted to a number longer than any file.
BytesRead(length, offset, n) ==
  IF n < 0 \/ offset + n > length THEN length - offset ELSE n

FileLength(fd) == Dentries[read_dentry_by_name(Cur[fd].file_name)].length

(***************************************************************************)
(* A negative n becomes n + 2^32.  term_read copies that many bytes, and   *)
(* read_data does where the sum of the position and n + 2^32 wraps, which  *)
(* hides it from the trimming: the copy runs into pages that are not       *)
(* mapped.                                                                 *)
(***************************************************************************)
Runaway(fd, n) ==
  /\ n < 0
  /\ \/ Cur[fd].fop_ptr = "terminal"
     \/ /\ Cur[fd].fop_ptr = "file"
        /\ Cur[fd].file_pos + n >= 0
        /\ Cur[fd].file_pos < FileLength(fd)

\* read_data's -1, which would be added to the position, is for files longer
\* than an inode's blocks can hold: createfs makes none.
read_file(fd, n) ==
  LET bytes == BytesRead(FileLength(fd), Cur[fd].file_pos, n)
  IN  /\ Cur[fd].fop_ptr = "file"
      /\ fde' = [fde EXCEPT ![process_count][fd].file_pos = @ + bytes]
      /\ history' = [history EXCEPT ![process_count][fd].count = @ + bytes]
      /\ Returns("read", fd, "", bytes)
      /\ UNCHANGED dir_read_count

\* read_dentry_by_index fails.
AtEnd_Off(count) == count > Len(Dentries)
AtEnd(count) == count >= Len(Dentries)

NextCount_FromOne(count) == IF AtEnd(count) THEN 1 ELSE count + 1
NextCount(count) == IF AtEnd(count) THEN 0 ELSE count + 1

\* read_directory returns the name's length; here the entry's number, from 1.
read_directory(fd) ==
  /\ Cur[fd].fop_ptr = "directory"
  /\ WholeListings =>
       \A p \in 1 .. process_count, other \in Fds :
         Listing(p, other) => p = process_count /\ other = fd
  /\ dir_read_count' = NextCount(dir_read_count)
  /\ IF AtEnd(dir_read_count)
     THEN /\ history' = [history EXCEPT ![process_count][fd].count = 0]
          /\ Returns("read", fd, "", 0)
     ELSE /\ history' = [history EXCEPT ![process_count][fd].count = @ + 1]
          /\ Returns("read", fd, "", dir_read_count + 1)
  /\ UNCHANGED fde

\* read_file with a name that may not be found and a position that may be
\* anywhere: it fails, finds nothing or gives some bytes, of which 1 stands
\* for any number, or faults (bad_pointer).  The position stays unknown.
read_stale(fd) ==
  /\ Cur[fd].fop_ptr = "stale"
  /\ \E ret \in {FAIL, 0, 1} : Returns("read", fd, "", ret)
  /\ UNCHANGED <<fde, dir_read_count, history>>

read(fd, n) ==
  /\ cpu = "user"
  /\ Readable(fd)
  /\ ~ Runaway(fd, n)
  /\ \/ read_file(fd, n)
     \/ read_stale(fd)
     \/ read_directory(fd)
     \/ /\ Cur[fd].fop_ptr \in {"terminal", "rtc"}
        /\ Returns("read", fd, "", 0)
        /\ UNCHANGED <<fde, dir_read_count, history>>
  /\ UNCHANGED <<process_count, cpu>>

read_runaway(fd, n) ==
  /\ cpu = "user"
  /\ Readable(fd)
  /\ Runaway(fd, n)
  /\ Exception("read", fd, n)
  /\ UNCHANGED <<process_count, fde, dir_read_count, history>>

write(fd) ==
  /\ cpu = "user"
  /\ Writable(fd)
  /\ Cur[fd].fop_ptr \notin {"NULL", "junk"}
  /\ Returns("write", fd, "",
             IF Cur[fd].fop_ptr \in {"file", "stale", "directory"}
             THEN FAIL ELSE SUCCESS)
  /\ UNCHANGED <<process_count, fde, dir_read_count, cpu, history>>

read_write_refused(op, fd) ==
  /\ cpu = "user"
  /\ IF op = "read" THEN ~ Readable(fd) ELSE ~ Writable(fd)
  /\ Returns(op, fd, "", FAIL)
  /\ UNCHANGED <<process_count, fde, dir_read_count, cpu, history>>

\* A call through a pointer that is NULL or was never set, or read_data with
\* an inode and a position that were never set.
bad_pointer(op, fd) ==
  /\ cpu = "user"
  /\ CASE op = "read"  -> /\ Readable(fd)
                          /\ Cur[fd].fop_ptr \in {"NULL", "junk", "stale"}
       [] op = "write" -> Writable(fd) /\ Cur[fd].fop_ptr \in {"NULL", "junk"}
       [] op = "close" -> Closable(fd) /\ Cur[fd].fop_ptr = "junk"
  /\ Exception(op, fd, 0)
  /\ UNCHANGED <<process_count, fde, dir_read_count, history>>

----------------------------------------------------------------------------
\* The first shell.
Init ==
  /\ process_count = 1
  /\ \E g \in [2 .. OPS_SIZE - 1 -> StackGarbage] :
       /\ fde = [p \in Procs |->
                   IF p = 1 THEN NewFds(g) ELSE [fd \in Fds |-> Unused]]
       /\ history = [p \in Procs |->
                       IF p = 1 THEN NewHistory(g) ELSE [fd \in Fds |-> NotOpened]]
  /\ dir_read_count = 0
  /\ cpu = "user"
  /\ call = NoCall

Next ==
  \/ execute \/ halt
  \/ \E name \in Names : open(name) \/ open_failed(name)
  \/ \E fd \in PassedFds :
       \/ close(fd) \/ close_failed(fd) \/ close_far(fd) \/ write(fd)
       \/ \E n \in ReadSizes : read(fd, n) \/ read_runaway(fd, n)
       \/ \E op \in {"read", "write"} : read_write_refused(op, fd)
       \/ \E op \in {"read", "write", "close"} : bad_pointer(op, fd)
  \/ cpu = "fault" /\ UNCHANGED vars

Spec == Init /\ [][Next]_vars

----------------------------------------------------------------------------
(* Properties *)

\* Types; read_directory does not count past the last entry.
TypeOK ==
  /\ process_count \in Procs
  /\ fde \in [Procs -> [Fds -> [fop_ptr : Types \cup {"NULL", "junk", "terminal",
                                                   "stale"},
                               file_name : Names \cup {""}, file_pos : Nat,
                               in_use : BOOLEAN]]]
  /\ dir_read_count \in 0 .. Len(Dentries)
  /\ cpu \in {"user", "fault"}
  /\ history \in [Procs -> [Fds -> [opened : BOOLEAN, count : Nat,
                                   leftover : BOOLEAN]]]

(***************************************************************************)
(* In every process that exists the descriptors in use are stdin, stdout,  *)
(* the ones it opened and has not closed, and the ones that came with the  *)
(* kernel stack.  All but the last have a driver, whatever was opened and  *)
(* closed before, and the drivers' code is safe: the calls that stop the   *)
(* machine are the ones on a leftover descriptor, the close of a number    *)
(* whose entry is not mapped, which close looks at before the number, and  *)
(* a read of a negative number of bytes.                                   *)
(***************************************************************************)
UsedIsOpened ==
  /\ \A p \in 1 .. process_count, fd \in Fds :
       LET h == history[p][fd]
       IN  /\ fde[p][fd].in_use = (fd <= 1 \/ h.opened \/ h.leftover)
           /\ fd <= 1 \/ h.opened =>
                fde[p][fd].fop_ptr \notin {"NULL", "junk", "stale"}
  /\ cpu = "fault" =>
       \/ call.fd \in Fds /\ Hist[call.fd].leftover
       \/ call.op = "close" /\ call.fd \in FarFds
       \/ call.op = "read" /\ call.nbytes < 0

(***************************************************************************)
(* An open file is read from its beginning and without gaps, whatever      *)
(* other descriptors, children or earlier users of the descriptor did: its *)
(* position is the number of bytes read since it was opened and never past *)
(* the end.                                                                *)
(***************************************************************************)
FilesReadInOrder ==
  \A p \in 1 .. process_count, fd \in Fds :
    fde[p][fd].in_use /\ fde[p][fd].fop_ptr = "file" =>
      /\ fde[p][fd].file_pos = history[p][fd].count
      /\ fde[p][fd].file_pos <=
           Dentries[read_dentry_by_name(fde[p][fd].file_name)].length

(***************************************************************************)
(* However descriptors were opened and closed before, open refuses a file  *)
(* that is in the directory only when every descriptor is open or came     *)
(* into use with the kernel stack.                                         *)
(***************************************************************************)
OpenFailsOnlyWhenFull ==
  /\ call.op = "open" /\ call.ret = FAIL
  /\ \E i \in DOMAIN Dentries : Dentries[i].name = call.name
  => \A fd \in Fds : fd <= 1 \/ Hist[fd].opened \/ Hist[fd].leftover

(***************************************************************************)
(* filesys_mod.c: consecutive reads of a directory put "consecutive        *)
(* filenames into the buffer", starting with the first: the k-th read      *)
(* since it was opened, or since a read returned 0, gives the k-th entry.  *)
(* That a read after the 0 gives an entry at all is against the same       *)
(* comment: see module FdListingEnd.                                       *)
(***************************************************************************)
ListingInOrder ==
  call.op = "read" /\ call.ret > 0 /\ call.fd \in Fds /\ Hist[call.fd].opened
    /\ Cur[call.fd].fop_ptr = "directory"
    => call.ret = Hist[call.fd].count
=============================================================================
