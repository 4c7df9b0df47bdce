------------------------------ MODULE Programs ------------------------------
(***************************************************************************)
(* Two of the user programs with algorithms of their own, fish and grep,   *)
(* started from the shell one at a time.                                   *)
(***************************************************************************)
EXTENDS Fish, Grep

ProgramsInit == Init /\ GrepInit

ProgramsNext ==
  \/ gpc = "idle" /\ Next /\ UNCHANGED grepVars
  \/ pc = "open" /\ GrepNext /\ UNCHANGED vars

\* The program is scheduled whenever it can run, and the clock ticks.
ProgramsSpec ==
  /\ ProgramsInit /\ [][ProgramsNext]_<<vars, grepVars>>
  /\ WF_<<vars, grepVars>>(ProgramsNext)
=============================================================================
