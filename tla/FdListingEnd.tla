---------------------------- MODULE FdListingEnd ----------------------------
(***************************************************************************)
(* FileDescriptors with a memory of the ends of listings: which of the     *)
(* descriptors have, since they were opened, given a 0 for the end of the  *)
(* directory.                                                              *)
(***************************************************************************)
EXTENDS FileDescriptors

VARIABLE ended      \* pairs of a process and a descriptor

TwoEntries ==
  <<[name |-> ".", type |-> "directory", length |-> 0],
    [name |-> "shell", type |-> "file", length |-> 3]>>

IsListing(c) ==
  /\ c.op = "read" /\ c.fd \in Fds
  /\ Hist[c.fd].opened /\ Cur[c.fd].fop_ptr = "directory"

EndedInit == Init /\ ended = {}

EndedNext ==
  /\ Next
  /\ ended' = IF call'.op \in {"open", "close"}
              THEN ended \ {<<process_count, call'.fd>>}
              ELSE IF IsListing(call') /\ call'.ret = 0
              THEN ended \cup {<<process_count, call'.fd>>}
              ELSE ended

EndedSpec == EndedInit /\ [][EndedNext]_<<vars, ended>>

(***************************************************************************)
(* filesys_mod.c: "After the last child is reached, further calls to the   *)
(* function return 0", as long as the directory stays open.  The code      *)
(* starts again with the first entry.                                      *)
(***************************************************************************)
FurtherReadsReturnZero ==
  IsListing(call) /\ <<process_count, call.fd>> \in ended => call.ret = 0
=============================================================================
