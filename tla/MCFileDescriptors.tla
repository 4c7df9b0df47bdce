------------------------- MODULE MCFileDescriptors -------------------------
(***************************************************************************)
(* A directory with a file and itself, for the runs of FileDescriptors.     *)
(***************************************************************************)
EXTENDS SysErr

Entry(name, type, length) == [name |-> name, type |-> type, length |-> length]

MCDentries ==
  <<Entry(".", "directory", 0), Entry("shell", "file", 3)>>

\* A read of two bytes, and one of -1.
MCReadSizes == {-1, 2}
=============================================================================
