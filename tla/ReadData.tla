------------------------------ MODULE ReadData ------------------------------
(***************************************************************************)
(* read_data of filesys_mod.c: copying part of a file, whose blocks lie    *)
(* anywhere in the image, into a contiguous buffer, by calls of memcpy.    *)
(* One action for each iteration of a loop.                                *)
(*                                                                         *)
(* The image lies above the addresses of Lib's memory, which holds the     *)
(* caller's buffer.  Unsigned arithmetic wraps at WORD.                    *)
(***************************************************************************)
EXTENDS Lib

CONSTANTS
  KB4,                    \* bytes of a block
  MAX_DBLOCKS_PER_FILE,
  WORD,                   \* 2^32
  Inodes,                 \* the inodes: [file_length, dblock_numbers]
  Lengths                 \* values of the parameter length

ASSUME ReadDataAssumption ==
  /\ KB4 \in Nat \ {0} /\ MAX_DBLOCKS_PER_FILE \in Nat \ {0}
  /\ TOP >= KB4 * MAX_DBLOCKS_PER_FILE + 7
  /\ WORD \in Nat /\ WORD > 2 * KB4 * MAX_DBLOCKS_PER_FILE
  /\ Lengths \subseteq 0 .. WORD - 1
  /\ \A inode \in Inodes :
       /\ inode.file_length \in 0 .. WORD - 1
       /\ inode.dblock_numbers \in Seq(Nat)
       /\ inode.file_length <= KB4 * MAX_DBLOCKS_PER_FILE =>
            KB4 * Len(inode.dblock_numbers) >= inode.file_length

VARIABLES
  inode, start, length,   \* the parameters
  buf,                    \* the address of the caller's buffer
  offset, check,          \* position in a block, and which block
  block_ct, read_bytes,   \* blocks and bytes still to copy
  buffer                  \* where the next block goes

params == <<inode, start, length, buf>>
locals == <<offset, check, block_ct, read_bytes, buffer>>
rdVars == <<params, locals>>
vars == <<pc, rdVars, libVars, memory, ret>>

SizeLimit == KB4 * MAX_DBLOCKS_PER_FILE

data_blocks == TOP + 1

----------------------------------------------------------------------------
\* "Ensure file fits or trim".
Adjusted(file, off, len) ==
  IF (off + len) % WORD > file.file_length THEN (file.file_length - off) % WORD
                                           ELSE len

\* read_file reads from a position up to the end, execute from 0.
Call(file, off, len, address) ==
  /\ off <= file.file_length
  /\ inode' = file /\ start' = off /\ length' = len /\ buf' = address
  /\ LET adjusted == Adjusted(file, off, len)
     IN  IF file.file_length > SizeLimit
         THEN pc' = "done" /\ ret' = -1 /\ UNCHANGED locals
         ELSE IF file.file_length - off = 0
         THEN pc' = "done" /\ ret' = 0 /\ UNCHANGED locals
         ELSE /\ pc' = "skip"
              /\ ret' = adjusted
              /\ offset' = off /\ check' = 0
              /\ block_ct' = ((off + adjusted) % WORD) \div KB4
              /\ read_bytes' = adjusted
              /\ buffer' = address
  /\ UNCHANGED <<libVars, memory>>

\* while (offset > KB4): the blocks before the first byte.
SkipBlock ==
  /\ pc = "skip"
  /\ offset > KB4
  /\ offset' = offset - KB4
  /\ check' = check + 1
  /\ block_ct' = block_ct - 1
  /\ UNCHANGED <<pc, params, read_bytes, buffer, libVars, memory, ret>>

EndSkip ==
  /\ pc = "skip"
  /\ offset <= KB4
  /\ pc' = "copy"
  /\ UNCHANGED <<params, locals, libVars, memory, ret>>

\* offset_pointer
Source == data_blocks + KB4 * inode.dblock_numbers[check + 1] + offset

CallMemcpy(dest, source, n) ==
  /\ call' = [NoCall EXCEPT !.fn = "memcpy", !.dest = dest, !.src = source,
                            !.n = n]
  /\ back' = "copy"
  /\ Enter("memcpy", dest, source, n)
  /\ UNCHANGED i

\* "Copy the end".  A copy longer than any file runs into unmapped pages.
CopyEnd ==
  /\ pc = "copy"
  /\ read_bytes > 0 /\ block_ct <= 0
  /\ IF read_bytes > SizeLimit
     THEN pc' = "overrun" /\ UNCHANGED libVars
     ELSE CallMemcpy(buffer, Source, read_bytes)
  /\ read_bytes' = 0
  /\ UNCHANGED <<params, offset, check, block_ct, buffer, memory, ret>>

AfterBlock_KeepOffset == offset
AfterBlock == 0

CopyBlock ==
  /\ pc = "copy"
  /\ read_bytes > 0 /\ block_ct > 0
  /\ block_ct' = block_ct - 1
  /\ CallMemcpy(buffer, Source, KB4 - offset)
  /\ buffer' = buffer + KB4 - offset
  /\ read_bytes' = (read_bytes - (KB4 - offset)) % WORD
  /\ offset' = AfterBlock
  /\ check' = check + 1
  /\ UNCHANGED <<params, memory, ret>>

Return ==
  /\ pc = "copy"
  /\ read_bytes = 0
  /\ pc' = "done"
  /\ UNCHANGED <<params, locals, libVars, memory, ret>>

----------------------------------------------------------------------------
NoInode == [file_length |-> 0, dblock_numbers |-> << >>]

\* The caller has the result; the local variables are gone.
Leave ==
  /\ pc = "done"
  /\ pc' = "idle"
  /\ inode' = NoInode /\ start' = 0 /\ length' = 0 /\ buf' = 0
  /\ offset' = 0 /\ check' = 0 /\ block_ct' = 0 /\ read_bytes' = 0
  /\ buffer' = 0
  /\ memory' = Laid(NoCall)
  /\ ret' = 0
  /\ UNCHANGED libVars

Init ==
  /\ LibInit
  /\ inode = NoInode /\ start = 0 /\ length = 0 /\ buf = 0
  /\ offset = 0 /\ check = 0 /\ block_ct = 0 /\ read_bytes = 0
  /\ buffer = 0

ReadDataStep ==
  \/ SkipBlock \/ EndSkip \/ CopyEnd \/ CopyBlock \/ Return \/ Leave

\* read_data and the routines of lib.c, called one at a time.
Next ==
  \/ /\ pc = "idle"
     /\ \E file \in Inodes, len \in Lengths, off \in 0 .. SizeLimit, address \in 0 .. 3 :
          Call(file, off, len, address)
  \/ ReadDataStep
  \/ (LibCall \/ LibStep \/ LibLeave) /\ UNCHANGED rdVars
  \/ pc = "overrun" /\ UNCHANGED vars

Spec == Init /\ [][Next]_vars

----------------------------------------------------------------------------
(* Properties *)

(***************************************************************************)
(* What the caller should find at an address: in its buffer the bytes of   *)
(* the file from start on, as many as asked for and as there are; around   *)
(* it nothing new.                                                         *)
(***************************************************************************)
Count == IF length > inode.file_length - start
         THEN inode.file_length - start ELSE length

FileByte(k) ==
  data_blocks + KB4 * inode.dblock_numbers[(k \div KB4) + 1] + (k % KB4)

Wanted(a) == IF a \in buf .. buf + Count - 1 THEN FileByte(start + a - buf)
                                             ELSE Old(a)

(***************************************************************************)
(* Unless the sum of offset and length wraps, the copying by blocks, with  *)
(* its special cases at block boundaries and at the alignment of memcpy's  *)
(* destination, never stores a wrong byte or one outside the part asked    *)
(* for, and when read_data returns the buffer and the returned number are  *)
(* what the caller asked for.                                              *)
(***************************************************************************)
ReadsWanted ==
  start + length < WORD =>
    /\ pc # "overrun"
    /\ inode # NoInode /\ inode.file_length <= SizeLimit =>
         /\ \A a \in Addresses : memory[a] \in {Old(a), Wanted(a)}
         /\ pc = "done" => /\ ret = Count
                           /\ \A a \in Addresses : memory[a] = Wanted(a)
=============================================================================
