------------------------------ MODULE Library ------------------------------
(***************************************************************************)
(* The kernel's library as its callers meet it: read_data, the memory and  *)
(* string routines and printf, one call at a time.                         *)
(***************************************************************************)
EXTENDS ReadData, Printf

LibraryInit == Init /\ PrintfInit

LibraryNext ==
  \/ at = "idle" /\ Next /\ UNCHANGED printfVars
  \/ /\ pc = "idle"
     /\ \/ PrintfStep
        \/ at = "idle" /\ \E c \in PrintCalls : printf(c)
     /\ UNCHANGED vars

LibrarySpec == LibraryInit /\ [][LibraryNext]_<<vars, printfVars>>
=============================================================================
