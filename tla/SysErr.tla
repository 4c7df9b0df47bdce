------------------------------- MODULE SysErr -------------------------------
(***************************************************************************)
(* The program syserr (src/syscalls/ece391syserr.c) on the descriptors of  *)
(* the kernel: eight tests of wrong calls, started from any state the      *)
(* earlier programs have left and with whatever the kernel stack held.     *)
(*                                                                         *)
(* A test is the sequence of its calls; the results of all but             *)
(* err_open_lots should be -1.  NEG_FD and BIG_FD are the nearest numbers  *)
(* outside the array.                                                      *)
(***************************************************************************)
EXTENDS FileDescriptors

CONSTANT Selects        \* the numbers the user types

\* The image has the directory itself, and no file with the names err_open
\* tries.
ASSUME SysErrAssumption ==
  /\ "." \in Names
  /\ \E i \in DOMAIN Dentries : Dentries[i].name = "."
  /\ \A i \in DOMAIN Dentries : Dentries[i].name \notin {"helloo", "shel", ""}

VARIABLE
  prog    \* syserr: [at, script, fail, cnt, clean], script being the calls
          \* still to make, clean whether it started without leftovers

allVars == <<vars, prog>>

NotRunning == [at |-> "off", script |-> <<>>, fail |-> FALSE, cnt |-> 0,
               clean |-> FALSE]

----------------------------------------------------------------------------
(* The tests *)

Call(op, arg) == [op |-> op, fd |-> arg, name |-> ""]
OpenCall(s)   == [op |-> "open", fd |-> 0, name |-> s]

\* Every descriptor of a range in turn.
ForFds(op, from) ==
  [k \in 1 .. OPS_SIZE - from |-> Call(op, from + k - 1)]

BadFd(fd) == <<Call("read", fd), Call("write", fd), Call("close", fd)>>

err_neg_fd == BadFd(-1)
err_big_fd == BadFd(OPS_SIZE)

\* One open more than there are free descriptors, and all are closed again.
\* "end_lots" is the comparison of cnt with 1.
err_open_lots ==
  [k \in 1 .. OPS_SIZE - 1 |-> [OpenCall(".") EXCEPT !.op = "open_count"]]
  \o [k \in 1 .. OPS_SIZE - 2 |-> [Call("close", k + 1) EXCEPT !.op = "close_any"]]
  \o <<Call("end_lots", 0)>>

\* A name with a character more, one less, and none.
err_open == <<OpenCall("helloo"), OpenCall("shel"), OpenCall("")>>

err_unopened == ForFds("close", 0) \o ForFds("read", 2) \o ForFds("write", 2)

\* The addresses 0 and 0x400000.
err_vidmap == <<Call("vidmap", 0), Call("vidmap", 1)>>

err_stdin_out == <<Call("write", 0), Call("read", 1)>>

err_syscall_num == <<Call("number", 11), Call("number", -1), Call("number", 0)>>

Tests == <<err_neg_fd, err_big_fd, err_open_lots, err_open, err_unopened,
           err_vidmap, err_stdin_out, err_syscall_num>>

\* The switch of main.
Script(select) ==
  IF select = 0
  THEN err_neg_fd \o err_big_fd \o err_open_lots \o err_open \o err_unopened
       \o err_vidmap \o err_stdin_out \o err_syscall_num
  ELSE IF select \in DOMAIN Tests THEN Tests[select] ELSE <<>>

----------------------------------------------------------------------------
(* The system calls the descriptors do not cover *)

\* Addresses as they lie: NULL, the kernel, the program's page, above it.
\* BOTTOM_PAGE is the end of the program's page.
NULL_PTR == 0
TOP_PAGE == 2
BOTTOM_PAGE == 3

vidmap(screen_start) ==
  IF screen_start < TOP_PAGE \/ screen_start >= BOTTOM_PAGE
     \/ screen_start = NULL_PTR
  THEN FAIL ELSE SUCCESS

\* handler_syscall refuses a number outside 1 .. 10.
syscall_number(n) == IF n \in 1 .. 10 THEN SUCCESS ELSE FAIL

NoState(op, ret) ==
  /\ cpu = "user"
  /\ Returns(op, 0, "", ret)
  /\ UNCHANGED <<process_count, fde, dir_read_count, cpu, history>>

\* The program asks for no negative number of bytes.
Sizes == {n \in ReadSizes : n >= 0}

\* One call of the program, with all that can come of it.
Make(c) ==
  CASE c.op \in {"open", "open_count"}  -> open(c.name) \/ open_failed(c.name)
    [] c.op \in {"close", "close_any"}  -> close(c.fd) \/ close_failed(c.fd)
                                           \/ bad_pointer("close", c.fd)
    [] c.op = "read"   -> \/ \E n \in Sizes : read(c.fd, n)
                          \/ read_write_refused("read", c.fd)
                          \/ bad_pointer("read", c.fd)
    [] c.op = "write"  -> write(c.fd) \/ read_write_refused("write", c.fd)
                          \/ bad_pointer("write", c.fd)
    [] c.op = "vidmap" -> NoState("vidmap", vidmap(c.fd))
    [] c.op = "number" -> NoState("number", syscall_number(c.fd))
    [] c.op = "end_lots" -> cpu = "user" /\ UNCHANGED vars

----------------------------------------------------------------------------
Start ==
  /\ prog.at = "off"
  /\ execute
  /\ prog' = [NotRunning EXCEPT !.at = "select", !.clean =
                \A fd \in Fds : ~ history'[process_count'][fd].leftover]

\* The number of the test, read from the terminal.
Choose(select) ==
  /\ prog.at = "select"
  /\ \E n \in Sizes : read(0, n)
  /\ prog' = [prog EXCEPT !.at = "tests", !.script = Script(select)]

\* Any result but -1 is a failure, except where the program only counts.
ProgramCall ==
  LET c == Head(prog.script)
  IN  /\ prog.at = "tests"
      /\ prog.script # <<>>
      /\ Make(c)
      /\ prog' = [prog EXCEPT
           !.script = Tail(@),
           !.cnt = IF c.op = "open_count" /\ call'.ret = FAIL THEN @ + 1 ELSE @,
           !.fail = \/ @
                    \/ /\ c.op \in {"open", "close", "read", "write", "vidmap",
                                    "number"}
                       /\ cpu' = "user" /\ call'.ret # FAIL
                    \/ c.op = "end_lots" /\ prog.cnt # 1]

\* return from main.
Finish ==
  /\ prog.at = "tests"
  /\ prog.script = <<>>
  /\ halt
  /\ prog' = NotRunning

SysErrInit == Init /\ prog = NotRunning

\* The other programs make any calls when syserr does not run.
SysErrNext ==
  \/ prog.at = "off" /\ Next /\ UNCHANGED prog
  \/ Start
  \/ \E select \in Selects : Choose(select)
  \/ ProgramCall
  \/ Finish
  \/ prog.at # "off" /\ cpu = "fault" /\ UNCHANGED allVars

SysErrSpec == SysErrInit /\ [][SysErrNext]_allVars

(***************************************************************************)
(* syserr passes: run as a program of its own, with no descriptor left     *)
(* over from the kernel stack, every wrong call returns -1, exactly one of *)
(* the opens of err_open_lots fails, which leaves nothing open for         *)
(* err_unopened to find, and no call faults, whatever other programs did   *)
(* before.                                                                 *)
(***************************************************************************)
SyserrPasses == prog.clean => ~ prog.fail /\ cpu = "user"
=============================================================================
