----------------------------- MODULE MCConsole -----------------------------
(***************************************************************************)
(* Sizes of reads and writes for the runs of Console, negative ones too.   *)
(***************************************************************************)
EXTENDS Console

MCReadSizes == {-1, 2}
MCWriteSizes == {-1, 1}
=============================================================================
