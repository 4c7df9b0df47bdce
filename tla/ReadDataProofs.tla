--------------------------- MODULE ReadDataProofs ---------------------------
(***************************************************************************)
(* Proof that read_data of filesys_mod.c, with the memcpy it calls, stores *)
(* the wanted bytes of the file.  ReadsWanted does not say where in the    *)
(* file the next byte comes from; Position does, in blocks and bytes, and  *)
(* CopyCall says that the bytes a call of memcpy is given lie in one block *)
(* and are the next ones of the file.                                      *)
(***************************************************************************)
EXTENDS LibProofs

\* memcpy runs for read_data.
Copying == pc \in MemPc /\ back = "copy"

\* read_data has passed its tests.
Active == pc \in {"skip", "copy"} \/ Copying

\* The unsigned sum of offset and length does not wrap.
NoWrap == start + length < WORD

\* The parameters after the tests.
Params ==
  /\ inode \in Inodes /\ inode.file_length <= SizeLimit
  /\ start \in Nat /\ start < inode.file_length
  /\ length \in Nat /\ length < WORD /\ buf \in 0 .. 3

\* The bytes of the result that are stored, or handed to memcpy.
Copied == Count - read_bytes

\* What is left to read, and where in the file it begins.
Position ==
  /\ ret = Count
  /\ read_bytes \in Nat /\ read_bytes <= Count
  /\ check \in Nat /\ offset \in Nat
  /\ block_ct = (start + Count) \div KB4 - check
  /\ read_bytes > 0 => /\ buffer = buf + Copied
                       /\ start + Copied = KB4 * check + offset
  /\ pc # "skip" => offset <= KB4
  /\ pc = "skip" => read_bytes = Count

\* The buffer is right up to an address, and nothing else is stored.
FileUpTo(last) ==
  memory = [a \in Addresses |->
              IF a \in buf .. last THEN FileByte(start + (a - buf)) ELSE Old(a)]

\* The pointers of memcpy by the bytes that are left.
CopyRegisters ==
  /\ edi \in Int /\ ecx \in Nat /\ edx \in Nat /\ unit = 4
  /\ pc = "rep" => df = FALSE
  /\ Left <= call.n
  /\ edi = call.dest + call.n - Left
  /\ esi = call.src + call.n - Left

\* The bytes memcpy copies are the next ones of the file.
CopyCall ==
  /\ call.fn = "memcpy"
  /\ call.dest \in Nat /\ call.src \in Nat /\ call.n \in Nat
  /\ call.dest >= buf /\ call.src > TOP
  /\ call.dest + call.n = buf + Copied
  /\ \A k \in 0 .. call.n - 1 :
       FileByte(start + (call.dest - buf) + k) = call.src + k

\* The state of a read that is under way.
ActiveRight ==
  /\ Params
  /\ NoWrap => /\ Position
               /\ pc = "skip" => OldMemory
               /\ pc = "copy" => FileUpTo(buf + Copied - 1)
               /\ Copying => CopyRegisters /\ CopyCall /\ FileUpTo(edi - 1)

\* The result of a finished one.
ReadDone ==
  NoWrap /\ inode # NoInode /\ inode.file_length <= SizeLimit =>
    ret = Count /\ memory = [a \in Addresses |-> Wanted(a)]

\* The inductive invariant of read_data.
ReadInv ==
  /\ inode = NoInode \/ Active \/ pc \in {"done", "overrun"}
  /\ Active => ActiveRight
  /\ pc = "done" => ReadDone
  /\ pc = "idle" => OldMemory
  /\ pc = "overrun" => ~ NoWrap
----------------------------------------------------------------------------
\* The sizes.
LEMMA Sizes ==
  /\ KB4 \in Nat /\ KB4 > 0 /\ SizeLimit \in Nat /\ TOP \in Nat
  /\ TOP >= SizeLimit + 7 /\ WORD \in Nat /\ WORD > 2 * SizeLimit
<1>1. /\ KB4 \in Nat /\ KB4 > 0 /\ MAX_DBLOCKS_PER_FILE \in Nat
      /\ TOP >= KB4 * MAX_DBLOCKS_PER_FILE + 7 /\ WORD \in Nat
      /\ WORD > 2 * KB4 * MAX_DBLOCKS_PER_FILE /\ TOP \in Nat
  BY ReadDataAssumption, LibAssumption
<1>2. KB4 * MAX_DBLOCKS_PER_FILE \in Nat
  BY <1>1
<1>3. 2 * KB4 * MAX_DBLOCKS_PER_FILE = 2 * (KB4 * MAX_DBLOCKS_PER_FILE)
  BY <1>1
<1>. QED BY <1>1, <1>2, <1>3 DEF SizeLimit

\* The block and the place in it of a position.
LEMMA DivMod ==
  ASSUME NEW b \in Nat, b > 0, NEW c \in Nat, NEW r \in Nat, r < b
  PROVE  (b * c + r) \div b = c /\ (b * c + r) % b = r
  OBVIOUS

\* More blocks, more bytes.
LEMMA Monotonic ==
  ASSUME NEW b \in Nat, b > 0, NEW c \in Nat, NEW d \in Nat, b * d > b * c
  PROVE  d > c
  OBVIOUS

\* A file that passes the tests, and the part of it that is read.
LEMMA FileFacts ==
  ASSUME Params
  PROVE  /\ inode.file_length \in Nat /\ inode.file_length <= SizeLimit
         /\ inode.dblock_numbers \in Seq(Nat)
         /\ KB4 * Len(inode.dblock_numbers) >= inode.file_length
         /\ Count \in Nat /\ start + Count <= inode.file_length
         /\ start \in Nat /\ start < inode.file_length
         /\ buf \in Nat /\ buf <= 3 /\ length \in Nat
<1>1. /\ inode \in Inodes /\ inode.file_length <= SizeLimit
      /\ start \in Nat /\ start < inode.file_length
      /\ length \in Nat /\ buf \in 0 .. 3
  BY Zenon DEF Params
<1>2. /\ inode.file_length \in 0 .. WORD - 1
      /\ inode.dblock_numbers \in Seq(Nat)
      /\ inode.file_length <= KB4 * MAX_DBLOCKS_PER_FILE =>
           KB4 * Len(inode.dblock_numbers) >= inode.file_length
  BY <1>1, ReadDataAssumption, Zenon
<1>3. inode.file_length \in Nat
  BY <1>2, Sizes
<1>4. KB4 * Len(inode.dblock_numbers) >= inode.file_length
  BY <1>1, <1>2, Zenon DEF SizeLimit
<1>5. Count \in Nat /\ start + Count <= inode.file_length
  BY <1>1, <1>3 DEF Count
<1>. QED BY <1>1, <1>2, <1>3, <1>4, <1>5

\* "Ensure file fits or trim": without a wrap, what is left of the file.
LEMMA AdjustedCount ==
  ASSUME NEW file, NEW off \in Nat, NEW len \in Nat, off + len < WORD,
         file.file_length \in Nat, file.file_length <= SizeLimit,
         off <= file.file_length
  PROVE  Adjusted(file, off, len) = IF len > file.file_length - off
                                    THEN file.file_length - off ELSE len
<1>1. (off + len) % WORD = off + len
  BY Sizes
<1>2. (file.file_length - off) % WORD = file.file_length - off
  BY Sizes
<1>. QED BY <1>1, <1>2, Sizes DEF Adjusted

\* A file has the numbers of the blocks it reaches into.
LEMMA BlockNumber ==
  ASSUME Params, NEW c \in Nat, KB4 * c < inode.file_length
  PROVE  inode.dblock_numbers[c + 1] \in Nat
<1>1. KB4 * Len(inode.dblock_numbers) > KB4 * c
  <2>1. KB4 * c \in Nat
    BY Sizes
  <2>2. KB4 * Len(inode.dblock_numbers) \in Int
    BY FileFacts, Sizes
  <2>. QED BY FileFacts, <2>1, <2>2
<1>2. c + 1 \in 1 .. Len(inode.dblock_numbers)
  <2>1. Len(inode.dblock_numbers) \in Nat
    BY FileFacts
  <2>2. Len(inode.dblock_numbers) > c
    BY <1>1, <2>1, Monotonic, Sizes
  <2>. QED BY <2>1, <2>2
<1>. QED BY <1>2, FileFacts

\* Within a block the bytes of the file lie one behind the other.
LEMMA BlockBytes ==
  ASSUME NEW c \in Nat, NEW r \in Nat, r < KB4
  PROVE  FileByte(KB4 * c + r)
           = data_blocks + KB4 * inode.dblock_numbers[c + 1] + r
<1>1. (KB4 * c + r) \div KB4 = c /\ (KB4 * c + r) % KB4 = r
  BY DivMod, Sizes
<1>. QED BY <1>1 DEF FileByte

----------------------------------------------------------------------------
\* The definitions over the parameters keep their values.
LEMMA SameParams ==
  ASSUME UNCHANGED params
  PROVE  /\ Params' <=> Params
         /\ NoWrap' <=> NoWrap
         /\ Count' = Count
         /\ \A k : FileByte(k)' = FileByte(k)
         /\ \A a : Wanted(a)' = Wanted(a)
  BY Zenon DEF params, Params, NoWrap, Count, FileByte, Wanted

\* A call that passes the tests starts at its first byte.
LEMMA CallActive ==
  ASSUME OldMemory, NEW file \in Inodes, NEW len \in Lengths,
         NEW off \in 0 .. SizeLimit, NEW address \in 0 .. 3,
         Call(file, off, len, address)
  PROVE  ReadInv'
<1>1. /\ off <= file.file_length
      /\ inode' = file /\ start' = off /\ length' = len /\ buf' = address
      /\ memory' = memory /\ back' = back
  BY Zenon DEF Call, libVars
<1>2. /\ file.file_length \in Nat /\ off \in Nat /\ len \in Nat /\ len < WORD
  <2>1. /\ file.file_length \in 0 .. WORD - 1 /\ len \in 0 .. WORD - 1
    BY ReadDataAssumption
  <2>. QED BY <2>1, Sizes
<1>3. OldMemory'
  BY <1>1, Zenon DEF OldMemory
<1>4. CASE file.file_length > SizeLimit
  <2>1. pc' = "done"
    BY <1>4 DEF Call
  <2>2. ReadDone'
    BY <1>1, <1>2, <1>4, Sizes DEF ReadDone
  <2>. QED BY <2>1, <2>2 DEF ReadInv, Active, Copying, MemPc
<1>5. CASE file.file_length <= SizeLimit /\ file.file_length - off = 0
  <2>1. pc' = "done" /\ ret' = 0
    BY <1>2, <1>5, Sizes DEF Call
  <2>2. Count' = 0
    BY <1>1, <1>2, <1>5 DEF Count
  <2>3. \A a : Wanted(a)' = Old(a)
    <3>1. buf' .. buf' + Count' - 1 = {}
      BY <1>1, <2>2
    <3>. QED BY <3>1, Zenon DEF Wanted
  <2>4. ReadDone'
    BY <1>3, <2>1, <2>2, <2>3, Zenon DEF ReadDone, OldMemory
  <2>. QED BY <2>1, <2>4 DEF ReadInv, Active, Copying, MemPc
<1>6. CASE file.file_length <= SizeLimit /\ file.file_length - off # 0
  <2>1. /\ pc' = "skip" /\ ret' = Adjusted(file, off, len)
        /\ offset' = off /\ check' = 0
        /\ block_ct' = ((off + Adjusted(file, off, len)) % WORD) \div KB4
        /\ read_bytes' = Adjusted(file, off, len) /\ buffer' = address
    BY <1>2, <1>6, Sizes DEF Call
  <2>2. Params'
    BY <1>1, <1>2, <1>6, Sizes DEF Params
  <2>3. ASSUME NoWrap' PROVE Position'
    <3>1. Adjusted(file, off, len) = Count'
      <4>1. off + len < WORD
        BY <1>1, <2>3 DEF NoWrap
      <4>. QED BY <1>1, <1>2, <1>6, <4>1, AdjustedCount DEF Count
    <3>2. Count' \in Nat /\ off + Count' <= file.file_length
      BY <1>1, <1>2, <1>6 DEF Count
    <3>3. (off + Count') % WORD = off + Count'
      BY <1>2, <1>6, <3>2, Sizes
    <3>4. /\ ret' = Count' /\ read_bytes' = Count' /\ Copied' = 0
          /\ block_ct' = (off + Count') \div KB4 - 0
      <4>1. (off + Count') \div KB4 \in Int
        BY <1>2, <3>2, Sizes
      <4>2. ret' = Count' /\ read_bytes' = Count'
        BY <2>1, <3>1
      <4>3. Copied' = 0
        <5>1. Copied' = Count' - Count'
          BY <4>2, Zenon DEF Copied
        <5>2. \A n \in Nat : n - n = 0
          OBVIOUS
        <5>. QED BY <3>2, <5>1, <5>2, Zenon
      <4>4. block_ct' = (off + Count') \div KB4
        BY <2>1, <3>1, <3>3, Zenon
      <4>. QED BY <4>1, <4>2, <4>3, <4>4
    <3>5. /\ off = KB4 * 0 + off /\ address + 0 = address /\ off + 0 = off
      BY <1>2, Sizes
    <3>. QED BY <1>1, <1>2, <2>1, <3>2, <3>4, <3>5 DEF Position
  <2>4. ActiveRight'
    BY <1>3, <2>1, <2>2, <2>3 DEF ActiveRight, Copying, MemPc
  <2>. QED BY <2>1, <2>4 DEF ReadInv, Active
<1>. QED BY <1>2, <1>4, <1>5, <1>6, Sizes

\* The blocks before the first byte.
LEMMA SkipActive ==
  ASSUME pc = "skip", ActiveRight, SkipBlock \/ EndSkip PROVE ReadInv'
<1>1. /\ UNCHANGED params /\ memory' = memory /\ ret' = ret
      /\ read_bytes' = read_bytes /\ buffer' = buffer /\ Params
  BY Zenon DEF SkipBlock, EndSkip, locals, ActiveRight
<1>2. /\ Params' /\ (NoWrap' <=> NoWrap) /\ Count' = Count /\ Copied' = Copied
      /\ start' = start /\ buf' = buf
  BY <1>1, SameParams, Zenon DEF Copied, params
<1>3. (OldMemory' <=> OldMemory) /\ (\A l : FileUpTo(l)' <=> FileUpTo(l))
  BY <1>1, <1>2, SameParams, Zenon DEF OldMemory, FileUpTo
<1>4. CASE SkipBlock
  <2>1. /\ pc' = "skip" /\ offset > KB4 /\ offset' = offset - KB4
        /\ check' = check + 1 /\ block_ct' = block_ct - 1
    BY <1>4 DEF SkipBlock
  <2>2. ASSUME NoWrap' PROVE Position' /\ OldMemory'
    <3>1. Position /\ OldMemory
      BY <1>2, <2>2, Zenon DEF ActiveRight
    <3>2. /\ check \in Nat /\ offset \in Nat /\ ret = Count /\ read_bytes \in Nat
          /\ read_bytes <= Count /\ read_bytes = Count
          /\ block_ct = (start + Count) \div KB4 - check
      BY <3>1 DEF Position
    <3>3. offset' \in Nat /\ check' \in Nat
      BY <2>1, <3>2, Sizes
    <3>4. KB4 * check' + offset' = KB4 * check + offset
      <4>1. KB4 * (check + 1) = KB4 * check + KB4 /\ KB4 * check \in Int
        BY <3>2, Sizes
      <4>. QED BY <2>1, <3>2, <4>1, Sizes
    <3>5. block_ct' = (start' + Count') \div KB4 - check'
      <4>1. (start + Count) \div KB4 \in Int
        BY <1>1, FileFacts, Sizes
      <4>. QED BY <1>2, <2>1, <3>2, <4>1
    <3>6. read_bytes' > 0 => /\ buffer' = buf' + Copied'
                             /\ start' + Copied' = KB4 * check' + offset'
      BY <1>1, <1>2, <3>1, <3>4 DEF Position
    <3>. QED BY <1>1, <1>2, <1>3, <2>1, <3>1, <3>2, <3>3, <3>5, <3>6 DEF Position
  <2>3. ActiveRight'
    BY <1>2, <2>1, <2>2 DEF ActiveRight, Copying, MemPc
  <2>. QED BY <2>1, <2>3 DEF ReadInv, Active
<1>5. CASE EndSkip
  <2>1. /\ pc' = "copy" /\ offset <= KB4 /\ offset' = offset /\ check' = check
        /\ block_ct' = block_ct
    BY <1>5 DEF EndSkip, locals
  <2>2. ASSUME NoWrap' PROVE Position' /\ FileUpTo(buf + Copied - 1)'
    <3>1. Position /\ OldMemory
      BY <1>2, <2>2, Zenon DEF ActiveRight
    <3>2. Position'
      BY <1>1, <1>2, <2>1, <3>1 DEF Position
    <3>3. buf .. buf + Copied - 1 = {}
      <4>1. Copied = 0
        BY <1>1, <3>1, FileFacts DEF Copied, Position
      <4>. QED BY <1>1, <4>1, FileFacts
    <3>4. FileUpTo(buf + Copied - 1)
      BY <3>1, <3>3, Zenon DEF OldMemory, FileUpTo
    <3>. QED BY <1>2, <1>3, <3>2, <3>4, Zenon
  <2>3. ActiveRight'
    BY <1>2, <2>1, <2>2 DEF ActiveRight, Copying, MemPc
  <2>. QED BY <2>1, <2>3 DEF ReadInv, Active
<1>. QED BY <1>4, <1>5

\* The end of the copying: everything asked for is stored.
LEMMA ReturnDone ==
  ASSUME pc = "copy", ActiveRight, Return PROVE ReadInv'
<1>1. /\ UNCHANGED params /\ memory' = memory /\ ret' = ret /\ pc' = "done"
      /\ read_bytes = 0 /\ Params
  BY Zenon DEF Return, ActiveRight
<1>2. ASSUME NoWrap' PROVE ret' = Count' /\ memory' = [a \in Addresses |-> Wanted(a)']
  <2>1. Position /\ FileUpTo(buf + Copied - 1)
    BY <1>1, <1>2, SameParams, Zenon DEF ActiveRight
  <2>2. ret = Count
    BY <2>1, Zenon DEF Position
  <2>3. Copied = Count
    BY <1>1, FileFacts DEF Copied
  <2>4. memory = [a \in Addresses |-> IF a \in buf .. buf + Count - 1
                                      THEN FileByte(start + (a - buf)) ELSE Old(a)]
    BY <2>1, <2>3, Zenon DEF FileUpTo
  <2>5. ASSUME NEW a \in Addresses
        PROVE  Wanted(a) = IF a \in buf .. buf + Count - 1
                           THEN FileByte(start + (a - buf)) ELSE Old(a)
    BY Zenon DEF Wanted
  <2>6. memory = [a \in Addresses |-> Wanted(a)]
    BY <2>4, <2>5, Zenon
  <2>. QED BY <1>1, <2>2, <2>6, SameParams, Zenon
<1>3. ReadDone'
  BY <1>2, Zenon DEF ReadDone
<1>. QED BY <1>1, <1>3 DEF ReadInv, Active, Copying, MemPc

\* A call of memcpy for m bytes from the place reached, m of which lie in this
\* block of the file.
LEMMA MemcpyActive ==
  ASSUME pc = "copy", ActiveRight, NEW m \in Nat, offset + m <= KB4,
         m <= read_bytes, NoWrap, read_bytes > 0,
         CallMemcpy(buffer, Source, m), UNCHANGED params, ret' = ret,
         memory' = memory, read_bytes' = read_bytes - m
  PROVE  /\ pc' = "top" /\ back' = "copy"
         /\ CopyRegisters' /\ CopyCall' /\ FileUpTo(edi - 1)'
<1>1. Params /\ Position /\ FileUpTo(buf + Copied - 1)
  BY Zenon DEF ActiveRight
<1>2. /\ read_bytes \in Nat /\ read_bytes <= Count /\ check \in Nat
      /\ offset \in Nat /\ buffer = buf + Copied
      /\ start + Copied = KB4 * check + offset
  BY <1>1 DEF Position
<1>3. /\ call' = [NoCall EXCEPT !.fn = "memcpy", !.dest = buffer, !.src = Source,
                                !.n = m]
      /\ back' = "copy" /\ Enter("memcpy", buffer, Source, m)
  BY Zenon DEF CallMemcpy
<1>4. /\ call'.fn = "memcpy" /\ call'.dest = buffer /\ call'.src = Source
      /\ call'.n = m
  BY <1>3 DEF NoCall
<1>5. /\ pc' = "top" /\ edi' = buffer + 0 /\ esi' = Source + 0 /\ edx' = 0
      /\ ecx' = m /\ unit' = 4
  BY <1>3, Zenon DEF Enter
<1>6. /\ Copied \in Nat /\ Copied = Count - read_bytes /\ buffer \in Nat
      /\ buf \in Nat /\ start \in Nat /\ Count \in Nat
      /\ start + Count <= inode.file_length /\ inode.file_length \in Nat
  <2>1. /\ buf \in Nat /\ start \in Nat /\ Count \in Nat
        /\ start + Count <= inode.file_length /\ inode.file_length \in Nat
    BY <1>1, FileFacts, Zenon
  <2>2. Copied = Count - read_bytes
    BY Zenon DEF Copied
  <2>. QED BY <1>2, <2>1, <2>2
<1>7. KB4 * check \in Nat /\ KB4 * check + offset + m <= inode.file_length
  <2>1. KB4 * check \in Nat
    BY <1>2, Sizes
  <2>. QED BY <1>2, <1>6, <2>1
<1>8. inode.dblock_numbers[check + 1] \in Nat
  BY <1>1, <1>2, <1>6, <1>7, BlockNumber
<1>9. Source \in Nat /\ Source > TOP
  <2>1. KB4 * inode.dblock_numbers[check + 1] \in Nat
    BY <1>8, Sizes
  <2>. QED BY <1>2, <2>1, Sizes DEF Source, data_blocks
<1>10. ASSUME NEW k \in 0 .. m - 1
       PROVE  FileByte(start + (buffer - buf) + k) = Source + k
  <2>1. /\ offset + k \in Nat /\ offset + k < KB4
        /\ start + (buffer - buf) + k = KB4 * check + (offset + k)
    BY <1>2, <1>6, <1>7, Sizes
  <2>2. FileByte(KB4 * check + (offset + k))
          = data_blocks + KB4 * inode.dblock_numbers[check + 1] + (offset + k)
    BY <1>2, <2>1, BlockBytes
  <2>3. KB4 * inode.dblock_numbers[check + 1] \in Nat /\ data_blocks \in Nat
    BY <1>8, Sizes DEF data_blocks
  <2>4. data_blocks + KB4 * inode.dblock_numbers[check + 1] + (offset + k)
          = Source + k
    BY <1>2, <2>3 DEF Source
  <2>. QED BY <2>1, <2>2, <2>4
<1>11. Left' = m
  BY <1>5 DEF Left
<1>12. CopyRegisters'
  <2>1. m <= m /\ buffer + 0 = buffer + m - m /\ Source + 0 = Source + m - m
        /\ buffer + 0 \in Int
    BY <1>6, <1>9
  <2>. QED BY <1>4, <1>5, <1>11, <2>1 DEF CopyRegisters
<1>13. /\ Count' = Count /\ start' = start /\ buf' = buf
       /\ (\A k : FileByte(k)' = FileByte(k))
  BY SameParams, Zenon DEF params
<1>14. CopyCall'
  <2>1. Copied' = Copied + m
    <3>1. Copied' = Count - (read_bytes - m)
      BY <1>13, Zenon DEF Copied
    <3>. QED BY <1>2, <1>6, <3>1
  <2>2. buffer >= buf /\ buffer + m = buf + (Copied + m)
    BY <1>2, <1>6
  <2>3. (\A k \in 0 .. call.n - 1 :
          FileByte(start + (call.dest - buf) + k) = call.src + k)'
    BY <1>4, <1>10, <1>13, Zenon
  <2>. QED BY <1>4, <1>6, <1>9, <1>13, <2>1, <2>2, <2>3, Zenon DEF CopyCall
<1>15. FileUpTo(edi - 1)'
  <2>1. buf + Copied - 1 = edi' - 1
    BY <1>2, <1>5, <1>6
  <2>2. FileUpTo(edi' - 1)
    BY <1>1, <2>1
  <2>. QED BY <1>13, <2>2, Zenon DEF FileUpTo
<1>. QED BY <1>3, <1>5, <1>12, <1>14, <1>15

\* A position at or behind the end of the block lies in a later one.
LEMMA LaterBlock ==
  ASSUME NEW b \in Nat, b > 0, NEW c \in Nat, NEW r \in Nat
  PROVE  (b * c + r) \div b > c <=> r >= b
  OBVIOUS

\* Where read_bytes are left, in this block or in it and later ones.
LEMMA InBlock ==
  ASSUME Params, Position, pc = "copy", read_bytes > 0
  PROVE  /\ read_bytes \in Nat /\ offset \in Nat /\ offset <= KB4
         /\ check \in Nat /\ block_ct \in Int
         /\ Count \in Nat /\ read_bytes <= Count /\ Count <= SizeLimit
         /\ block_ct > 0 <=> offset + read_bytes >= KB4
<1>1. /\ read_bytes \in Nat /\ read_bytes <= Count /\ check \in Nat
      /\ offset \in Nat /\ block_ct = (start + Count) \div KB4 - check
      /\ start + Copied = KB4 * check + offset /\ offset <= KB4
  BY DEF Position
<1>2. /\ start \in Nat /\ Count \in Nat /\ inode.file_length \in Nat
      /\ start + Count <= inode.file_length /\ inode.file_length <= SizeLimit
  BY FileFacts, Zenon
<1>3. start + Count = KB4 * check + (offset + read_bytes)
  <2>1. KB4 * check \in Nat
    BY <1>1, Sizes
  <2>. QED BY <1>1, <1>2, <2>1 DEF Copied
<1>4. (start + Count) \div KB4 \in Int
  BY <1>2, Sizes
<1>5. (start + Count) \div KB4 > check <=> offset + read_bytes >= KB4
  <2>1. offset + read_bytes \in Nat
    BY <1>1
  <2>. QED BY <1>1, <1>3, <2>1, LaterBlock, Sizes
<1>. QED BY <1>1, <1>2, <1>4, <1>5, Sizes

\* "Copy the end".
LEMMA CopyEndActive ==
  ASSUME pc = "copy", ActiveRight, CopyEnd PROVE ReadInv'
<1>1. /\ read_bytes > 0 /\ block_ct <= 0 /\ read_bytes' = 0
      /\ UNCHANGED params /\ memory' = memory /\ ret' = ret
      /\ offset' = offset /\ check' = check /\ block_ct' = block_ct
      /\ Params
      /\ IF read_bytes > SizeLimit THEN pc' = "overrun"
         ELSE CallMemcpy(buffer, Source, read_bytes)
  BY Zenon DEF CopyEnd, ActiveRight
<1>2. /\ Params' /\ (NoWrap' <=> NoWrap) /\ Count' = Count
      /\ start' = start /\ buf' = buf
  BY <1>1, SameParams, Zenon DEF params
<1>3. CASE ~ NoWrap
  <2>1. pc' = "overrun" \/ (pc' = "top" /\ back' = "copy")
    BY <1>1, Zenon DEF CallMemcpy, Enter
  <2>2. ActiveRight'
    BY <1>2, <1>3, Zenon DEF ActiveRight
  <2>. QED BY <1>2, <1>3, <2>1, <2>2 DEF ReadInv, Active, Copying, MemPc
<1>4. CASE NoWrap
  <2>1. Position
    BY <1>4, Zenon DEF ActiveRight
  <2>2. /\ read_bytes \in Nat /\ offset \in Nat /\ offset <= KB4 /\ check \in Nat
        /\ Count \in Nat /\ read_bytes <= Count /\ Count <= SizeLimit
        /\ block_ct \in Int /\ (block_ct > 0 <=> offset + read_bytes >= KB4)
    BY <1>1, <2>1, InBlock, Zenon
  <2>3. /\ ~ (read_bytes > SizeLimit) /\ offset + read_bytes <= KB4
        /\ read_bytes <= read_bytes /\ read_bytes' = read_bytes - read_bytes
    BY <1>1, <2>2, Sizes
  <2>4. CallMemcpy(buffer, Source, read_bytes)
    BY <1>1, <2>3, Zenon
  <2>5. /\ pc' = "top" /\ back' = "copy"
        /\ CopyRegisters' /\ CopyCall' /\ FileUpTo(edi - 1)'
    BY <1>1, <1>4, <2>2, <2>3, <2>4, MemcpyActive, Zenon
  <2>6. Position'
    <3>1. ret = Count /\ block_ct = (start + Count) \div KB4 - check
      BY <2>1, Zenon DEF Position
    <3>2. 0 \in Nat /\ 0 <= Count /\ ~ (0 > 0)
      BY <2>2
    <3>. QED BY <1>1, <1>2, <2>2, <2>5, <3>1, <3>2 DEF Position
  <2>7. ActiveRight'
    BY <1>2, <2>5, <2>6 DEF ActiveRight
  <2>. QED BY <2>5, <2>7 DEF ReadInv, Active, Copying, MemPc
<1>. QED BY <1>3, <1>4

\* The rest of a block, and the next one from its start.
LEMMA CopyBlockActive ==
  ASSUME pc = "copy", ActiveRight, CopyBlock PROVE ReadInv'
<1>1. /\ read_bytes > 0 /\ block_ct > 0 /\ block_ct' = block_ct - 1
      /\ CallMemcpy(buffer, Source, KB4 - offset)
      /\ buffer' = buffer + KB4 - offset
      /\ read_bytes' = (read_bytes - (KB4 - offset)) % WORD
      /\ offset' = 0 /\ check' = check + 1
      /\ UNCHANGED params /\ memory' = memory /\ ret' = ret /\ Params
  BY Zenon DEF CopyBlock, AfterBlock, ActiveRight
<1>2. /\ Params' /\ (NoWrap' <=> NoWrap) /\ Count' = Count
      /\ start' = start /\ buf' = buf
  BY <1>1, SameParams, Zenon DEF params
<1>3. CASE ~ NoWrap
  <2>1. pc' = "top" /\ back' = "copy"
    BY <1>1, Zenon DEF CallMemcpy, Enter
  <2>2. ActiveRight'
    BY <1>2, <1>3, Zenon DEF ActiveRight
  <2>. QED BY <1>2, <1>3, <2>1, <2>2 DEF ReadInv, Active, Copying, MemPc
<1>4. CASE NoWrap
  <2>1. Position
    BY <1>4, Zenon DEF ActiveRight
  <2>2. /\ read_bytes \in Nat /\ offset \in Nat /\ offset <= KB4 /\ check \in Nat
        /\ Count \in Nat /\ read_bytes <= Count /\ Count <= SizeLimit
        /\ block_ct \in Int /\ (block_ct > 0 <=> offset + read_bytes >= KB4)
    BY <1>1, <2>1, InBlock, Zenon
  <2>3. /\ KB4 - offset \in Nat /\ offset + (KB4 - offset) <= KB4
        /\ KB4 - offset <= read_bytes
    BY <1>1, <2>2, Sizes
  <2>4. read_bytes' = read_bytes - (KB4 - offset) /\ read_bytes' \in Nat
    <3>1. /\ read_bytes - (KB4 - offset) \in Nat
          /\ read_bytes - (KB4 - offset) < WORD
      BY <2>2, <2>3, Sizes
    <3>2. \A n \in Nat : n < WORD => n % WORD = n
      BY Sizes
    <3>. QED BY <1>1, <3>1, <3>2
  <2>5. /\ pc' = "top" /\ back' = "copy"
        /\ CopyRegisters' /\ CopyCall' /\ FileUpTo(edi - 1)'
    BY <1>1, <1>4, <2>2, <2>3, <2>4, MemcpyActive, Zenon
  <2>6. Position'
    <3>1. /\ ret = Count /\ block_ct = (start + Count) \div KB4 - check
          /\ buffer = buf + Copied /\ start + Copied = KB4 * check + offset
      BY <1>1, <2>1 DEF Position
    <3>2. /\ buf \in Nat /\ start \in Nat /\ (start + Count) \div KB4 \in Int
      BY <1>1, <2>2, FileFacts, Sizes
    <3>3. Copied = Count - read_bytes /\ Copied' = Count - read_bytes'
      BY <1>2, Zenon DEF Copied
    <3>4. /\ KB4 * (check + 1) = KB4 * check + KB4 /\ KB4 * check \in Int
      BY <2>2, Sizes
    <3>5. /\ block_ct' = (start + Count) \div KB4 - (check + 1)
      BY <1>1, <2>2, <3>1, <3>2
    <3>6. buffer' = buf + Copied'
      BY <1>1, <2>2, <2>4, <3>1, <3>2, <3>3, Sizes
    <3>7. start + Copied' = KB4 * (check + 1) + 0
      BY <2>2, <2>4, <3>1, <3>2, <3>3, <3>4, Sizes
    <3>8. read_bytes' <= Count /\ check + 1 \in Nat /\ 0 \in Nat /\ 0 <= KB4
      BY <2>2, <2>3, <2>4, Sizes
    <3>. QED BY <1>1, <1>2, <2>4, <2>5, <3>1, <3>5, <3>6, <3>7, <3>8 DEF Position
  <2>7. ActiveRight'
    BY <1>2, <2>5, <2>6 DEF ActiveRight
  <2>. QED BY <2>5, <2>7 DEF ReadInv, Active, Copying, MemPc
<1>. QED BY <1>3, <1>4

\* A transfer of u bytes stores the next bytes of the file: the image lies
\* above the memory that is stored to.
LEMMA CopyForward ==
  ASSUME Params, CopyCall, CopyRegisters, FileUpTo(edi - 1), UNCHANGED params,
         call' = call, NEW u \in Nat, 1 <= u, u <= Left, Left \in Nat,
         Transfer(u, FALSE)
  PROVE  FileUpTo(edi - 1)'
<1>1. /\ edi \in Int /\ Left <= call.n /\ edi = call.dest + call.n - Left
      /\ esi = call.src + call.n - Left
      /\ call.dest \in Nat /\ call.src \in Nat /\ call.n \in Nat
      /\ call.dest >= buf /\ call.src > TOP /\ Copies
  BY DEF CopyCall, CopyRegisters, Copies
<1>2. \A k \in 0 .. call.n - 1 :
        FileByte(start + (call.dest - buf) + k) = call.src + k
  BY Zenon DEF CopyCall
<1>3. memory = [a \in Addresses |-> IF a \in buf .. edi - 1
                                    THEN FileByte(start + (a - buf)) ELSE Old(a)]
  BY Zenon DEF FileUpTo
<1>4. /\ edi' = edi + u
      /\ memory' = [a \in Addresses |->
                  IF a \notin edi .. edi + u - 1 THEN memory[a]
                  ELSE IF Copies THEN Load(esi + a - edi) ELSE eax[a - edi + 1]]
  BY DEF Transfer
<1>5. buf \in Nat /\ start \in Nat /\ TOP \in Nat
  BY FileFacts, Sizes, Zenon
<1>6. ASSUME NEW a \in Addresses, a \in edi .. edi + u - 1
      PROVE  memory'[a] = FileByte(start + (a - buf))
  <2>1. /\ a \in Nat /\ a - call.dest \in 0 .. call.n - 1
        /\ esi + a - edi = call.src + (a - call.dest)
        /\ start + (call.dest - buf) + (a - call.dest) = start + (a - buf)
    BY <1>1, <1>5, <1>6 DEF Addresses
  <2>2. FileByte(start + (a - buf)) = call.src + (a - call.dest)
    BY <1>2, <2>1
  <2>3. call.src + (a - call.dest) \notin Addresses
    BY <1>1, <1>5, <2>1 DEF Addresses
  <2>. QED BY <1>1, <1>4, <1>6, <2>1, <2>2, <2>3 DEF Load
<1>7. ASSUME NEW a \in Addresses
      PROVE  memory'[a] = IF a \in buf .. edi' - 1
                          THEN FileByte(start + (a - buf)) ELSE Old(a)
  <2>1. CASE a \in edi .. edi + u - 1
    <3>1. edi >= buf /\ edi' = edi + u
      BY <1>1, <1>4, <1>5
    <3>2. a \in buf .. edi' - 1
      BY <1>1, <1>5, <2>1, <3>1
    <3>. QED BY <1>6, <2>1, <3>2
  <2>2. CASE a \notin edi .. edi + u - 1
    <3>1. a \in Nat /\ edi \in Int /\ buf \in Nat /\ edi' = edi + u
      BY <1>1, <1>4, <1>5 DEF Addresses
    <3>2. a < edi \/ a > edi + u - 1
      BY <2>2, <3>1
    <3>3. edi >= buf
      BY <1>1, <1>5
    <3>4. a \in buf .. (edi + u) - 1 <=> a \in buf .. edi - 1
      BY <3>1, <3>2, <3>3
    <3>5. a \in buf .. edi' - 1 <=> a \in buf .. edi - 1
      BY <3>1, <3>4
    <3>. QED BY <1>3, <1>4, <2>2, <3>5
  <2>. QED BY <2>1, <2>2
<1>8. memory' = [a \in Addresses |-> IF a \in buf .. edi' - 1
                                     THEN FileByte(start + (a - buf)) ELSE Old(a)]
  BY <1>4, <1>7
<1>9. start' = start /\ buf' = buf /\ \A k : FileByte(k)' = FileByte(k)
  BY SameParams, Zenon DEF params
<1>. QED BY <1>8, <1>9, Zenon DEF FileUpTo

\* The steps of memcpy for read_data.
LEMMA CopyStep ==
  ASSUME Copying, ActiveRight, UNCHANGED rdVars, ret' = ret,
         TopByte \/ Aligned \/ Rep \/ RepEnd \/ BottomByte
  PROVE  ReadInv'
<1>1. /\ UNCHANGED params /\ Params /\ pc \in MemPc /\ back = "copy"
      /\ inode' = inode /\ start' = start /\ length' = length /\ buf' = buf
      /\ offset' = offset /\ check' = check /\ block_ct' = block_ct
      /\ read_bytes' = read_bytes /\ buffer' = buffer
  BY Zenon DEF rdVars, params, locals, ActiveRight, Copying
<1>2. /\ Params' /\ (NoWrap' <=> NoWrap) /\ Count' = Count /\ Copied' = Copied
      /\ \A k : FileByte(k)' = FileByte(k)
  BY <1>1, SameParams, Zenon DEF Copied
<1>3. pc' \in MemPc /\ back' = "copy" /\ call' = call
  BY <1>1, Zenon DEF TopByte, Aligned, Rep, RepEnd, BottomByte, MemPc, libVars
<1>4. ASSUME NoWrap
      PROVE  Position' /\ CopyRegisters' /\ CopyCall' /\ FileUpTo(edi - 1)'
  <2>1. Position /\ CopyRegisters /\ CopyCall /\ FileUpTo(edi - 1)
    BY <1>4, Zenon DEF ActiveRight
  <2>2. Position'
    <3>1. pc # "skip" /\ pc' # "skip"
      BY <1>1, <1>3 DEF MemPc
    <3>. QED BY <1>1, <1>2, <2>1, <3>1, Zenon DEF Position
  <2>3. CopyCall'
    BY <1>1, <1>2, <1>3, <2>1, Zenon DEF CopyCall
  <2>4. /\ edi \in Int /\ ecx \in Nat /\ edx \in Nat /\ unit = 4
        /\ (pc = "rep" => df = FALSE) /\ Left <= call.n
        /\ edi = call.dest + call.n - Left /\ esi = call.src + call.n - Left
        /\ call.dest \in Nat /\ call.src \in Nat /\ call.n \in Nat /\ Copies
    BY <2>1 DEF CopyRegisters, CopyCall, Copies
  <2>5. CASE Aligned \/ RepEnd
    <3>1. /\ edi' = edi /\ esi' = esi /\ unit' = unit /\ memory' = memory
      BY <2>5 DEF Aligned, RepEnd, libVars, registers
    <3>2. Left' = Left /\ ecx' \in Nat /\ edx' \in Nat /\ (pc' = "rep" => df' = FALSE)
      <4>1. CASE Aligned
        <5>1. /\ pc = "top" /\ pc' = "rep" /\ ecx' = ecx \div 4
              /\ edx' = ecx % 4 /\ df' = FALSE
          BY <4>1 DEF Aligned, Cld
        <5>2. ecx' \in Nat /\ edx' \in Nat /\ 4 * ecx' + edx' = ecx
          BY <2>4, <5>1
        <5>3. Left = ecx /\ Left' = 4 * ecx' + edx'
          BY <2>4, <3>1, <5>1 DEF Left
        <5>. QED BY <5>1, <5>2, <5>3
      <4>2. CASE RepEnd
        <5>1. /\ pc = "rep" /\ pc' = "bottom" /\ ecx = 0 /\ ecx' = ecx
              /\ edx' = edx
          BY <4>2 DEF RepEnd, libVars, registers
        <5>. QED BY <2>4, <3>1, <5>1 DEF Left
      <4>. QED BY <2>5, <4>1, <4>2
    <3>3. CopyRegisters'
      BY <1>3, <2>4, <3>1, <3>2, Zenon DEF CopyRegisters
    <3>4. FileUpTo(edi - 1)'
      BY <1>1, <1>2, <2>1, <3>1, Zenon DEF FileUpTo
    <3>. QED BY <2>2, <2>3, <3>3, <3>4
  <2>6. CASE TopByte \/ Rep \/ BottomByte
    <3>1. PICK u \in Nat : /\ 1 <= u /\ u <= Left /\ Left \in Nat
                           /\ Left' = Left - u /\ Transfer(u, FALSE)
                           /\ ecx' \in Nat /\ edx' \in Nat /\ pc' = pc
                           /\ df' = df /\ unit' = unit
      <4>1. CASE TopByte
        <5>1. /\ pc = "top" /\ pc' = pc /\ df' = df /\ unit' = unit /\ edx' = edx
              /\ ecx # 0 /\ ecx' = ecx - 1 /\ Transfer(1, FALSE)
          BY <4>1, Zenon DEF TopByte
        <5>2. Left = ecx /\ Left' = ecx - 1
          BY <5>1 DEF Left
        <5>3. /\ 1 \in Nat /\ 1 <= 1 /\ 1 <= Left /\ Left \in Nat
              /\ Left' = Left - 1 /\ ecx' \in Nat /\ edx' \in Nat
          BY <2>4, <5>1, <5>2
        <5>. QED BY <5>1, <5>3, Zenon
      <4>2. CASE BottomByte
        <5>1. /\ pc = "bottom" /\ pc' = pc /\ df' = df /\ unit' = unit
              /\ ecx' = ecx /\ edx # 0 /\ edx' = edx - 1 /\ Transfer(1, FALSE)
          BY <4>2, Zenon DEF BottomByte
        <5>2. Left = edx /\ Left' = edx - 1
          BY <5>1 DEF Left
        <5>3. /\ 1 \in Nat /\ 1 <= 1 /\ 1 <= Left /\ Left \in Nat
              /\ Left' = Left - 1 /\ ecx' \in Nat /\ edx' \in Nat
          BY <2>4, <5>1, <5>2
        <5>. QED BY <5>1, <5>3, Zenon
      <4>3. CASE Rep
        <5>1. /\ pc = "rep" /\ pc' = pc /\ df' = df /\ unit' = unit
              /\ edx' = edx /\ ecx # 0 /\ ecx' = ecx - 1 /\ Transfer(unit, df)
          BY <4>3, Zenon DEF Rep
        <5>2. Left = 4 * ecx + edx /\ Left' = 4 * (ecx - 1) + edx
          BY <2>4, <5>1 DEF Left
        <5>3. /\ 4 \in Nat /\ 1 <= 4 /\ 4 <= Left /\ Left \in Nat
              /\ Left' = Left - 4 /\ ecx' \in Nat /\ edx' \in Nat
          BY <2>4, <5>1, <5>2
        <5>4. Transfer(4, FALSE)
          BY <2>4, <5>1, Zenon
        <5>. QED BY <5>1, <5>3, <5>4, Zenon
      <4>. QED BY <2>6, <4>1, <4>2, <4>3
    <3>2. FileUpTo(edi - 1)'
      BY <1>1, <1>3, <2>1, <3>1, CopyForward, Zenon
    <3>3. edi' = edi + u /\ esi' = esi + u
      BY <2>4, <3>1 DEF Transfer
    <3>4. /\ edi' \in Int /\ Left' <= call'.n
          /\ edi' = call'.dest + call'.n - Left'
          /\ esi' = call'.src + call'.n - Left'
      BY <1>3, <2>4, <3>1, <3>3
    <3>5. CopyRegisters'
      BY <2>4, <3>1, <3>4, Zenon DEF CopyRegisters
    <3>. QED BY <2>2, <2>3, <3>2, <3>5
  <2>. QED BY <2>5, <2>6
<1>5. Copying' /\ pc' # "skip" /\ pc' # "copy"
  BY <1>3 DEF Copying, MemPc
<1>6. ActiveRight'
  BY <1>2, <1>4, <1>5, Zenon DEF ActiveRight
<1>7. Active' /\ pc' \notin {"done", "idle", "overrun"}
  BY <1>3, <1>5 DEF Active, MemPc
<1>. QED BY <1>6, <1>7 DEF ReadInv

\* memcpy returns to read_data.
LEMMA CopyDone ==
  ASSUME Copying, ActiveRight, UNCHANGED rdVars, Done PROVE ReadInv'
<1>1. /\ UNCHANGED params /\ Params /\ pc \in MemPc
      /\ start' = start /\ buf' = buf
      /\ offset' = offset /\ check' = check /\ block_ct' = block_ct
      /\ read_bytes' = read_bytes /\ buffer' = buffer
      /\ pc' = "copy" /\ memory' = memory /\ ret' = ret
  BY Zenon DEF rdVars, params, locals, ActiveRight, Copying, Done
<1>2. /\ Params' /\ (NoWrap' <=> NoWrap) /\ Count' = Count /\ Copied' = Copied
      /\ \A k : FileByte(k)' = FileByte(k)
  BY <1>1, SameParams, Zenon DEF Copied
<1>3. Left = 0
  BY DEF Done, Left
<1>4. ASSUME NoWrap PROVE Position' /\ FileUpTo(buf + Copied - 1)'
  <2>1. Position /\ CopyRegisters /\ CopyCall /\ FileUpTo(edi - 1)
    BY <1>4, Zenon DEF ActiveRight
  <2>2. Position'
    <3>1. pc # "skip" /\ pc' # "skip"
      BY <1>1 DEF MemPc
    <3>. QED BY <1>1, <1>2, <2>1, <3>1, Zenon DEF Position
  <2>3. edi - 1 = buf + Copied - 1
    <3>1. /\ edi = call.dest + call.n - 0 /\ call.dest \in Nat /\ call.n \in Nat
          /\ call.dest + call.n = buf + Copied
      BY <1>3, <2>1 DEF CopyRegisters, CopyCall
    <3>2. buf \in Nat /\ Copied \in Int
      BY <1>1, <2>1, FileFacts DEF Copied, Position
    <3>. QED BY <3>1, <3>2
  <2>4. FileUpTo(buf + Copied - 1)
    BY <2>1, <2>3
  <2>. QED BY <1>1, <1>2, <2>2, <2>4, Zenon DEF FileUpTo
<1>5. ActiveRight'
  BY <1>1, <1>2, <1>4 DEF ActiveRight, Copying, MemPc
<1>. QED BY <1>1, <1>5 DEF ReadInv, Active

----------------------------------------------------------------------------
\* Every step keeps the invariant.
LEMMA ReadStep == MemInv /\ ReadInv /\ [Next]_vars => ReadInv'
<1>. SUFFICES ASSUME MemInv, ReadInv, [Next]_vars PROVE ReadInv'
  OBVIOUS
<1>0. /\ inode = NoInode \/ Active \/ pc \in {"done", "overrun"}
      /\ Active => ActiveRight
      /\ pc = "done" => ReadDone
      /\ pc = "idle" => OldMemory
      /\ pc = "overrun" => ~ NoWrap
  BY Zenon DEF ReadInv
<1>1. CASE UNCHANGED vars
  <2>1. /\ pc' = pc /\ call' = call /\ back' = back /\ edi' = edi /\ esi' = esi
        /\ ecx' = ecx /\ edx' = edx /\ unit' = unit /\ df' = df
        /\ memory' = memory /\ ret' = ret /\ UNCHANGED params
        /\ inode' = inode /\ start' = start /\ length' = length /\ buf' = buf
        /\ offset' = offset /\ check' = check /\ block_ct' = block_ct
        /\ read_bytes' = read_bytes /\ buffer' = buffer
    BY <1>1, Zenon DEF vars, rdVars, params, locals, libVars, registers
  <2>2. /\ (Params' <=> Params) /\ (NoWrap' <=> NoWrap) /\ Count' = Count
        /\ Copied' = Copied /\ (\A k : FileByte(k)' = FileByte(k))
        /\ (\A a : Wanted(a)' = Wanted(a))
    BY <2>1, SameParams, Zenon DEF Copied
  <2>3. (Active' <=> Active) /\ (Copying' <=> Copying) /\ Left' = Left
    BY <2>1, Zenon DEF Active, Copying, Left
  <2>4. /\ (Position' <=> Position) /\ (CopyRegisters' <=> CopyRegisters)
        /\ (CopyCall' <=> CopyCall) /\ (\A l : FileUpTo(l)' <=> FileUpTo(l))
        /\ (OldMemory' <=> OldMemory)
    <3>1. Position' <=> Position
      BY <2>1, <2>2, Zenon DEF Position
    <3>2. CopyRegisters' <=> CopyRegisters
      BY <2>1, <2>3, Zenon DEF CopyRegisters
    <3>3. CopyCall' <=> CopyCall
      BY <2>1, <2>2, Zenon DEF CopyCall
    <3>4. (\A l : FileUpTo(l)' <=> FileUpTo(l)) /\ (OldMemory' <=> OldMemory)
      BY <2>1, <2>2, Zenon DEF FileUpTo, OldMemory
    <3>. QED BY <3>1, <3>2, <3>3, <3>4
  <2>5. Active' => ActiveRight'
    BY <1>0, <2>1, <2>2, <2>3, <2>4, Zenon DEF ActiveRight
  <2>6. pc' = "done" => ReadDone'
    BY <1>0, <2>1, <2>2, Zenon DEF ReadDone
  <2>. QED BY <1>0, <2>1, <2>2, <2>3, <2>4, <2>5, <2>6, Zenon DEF ReadInv
<1>2. CASE pc = "idle" /\ \E file \in Inodes, len \in Lengths, off \in 0 .. SizeLimit,
                             address \in 0 .. 3 : Call(file, off, len, address)
  BY <1>0, <1>2, CallActive
<1>3. CASE ReadDataStep
  <2>1. CASE SkipBlock \/ EndSkip
    <3>1. pc = "skip" /\ Active
      BY <2>1 DEF SkipBlock, EndSkip, Active
    <3>. QED BY <1>0, <2>1, <3>1, SkipActive
  <2>2. CASE CopyEnd \/ CopyBlock \/ Return
    <3>1. pc = "copy" /\ Active
      BY <2>2 DEF CopyEnd, CopyBlock, Return, Active
    <3>. QED BY <1>0, <2>2, <3>1, CopyEndActive, CopyBlockActive, ReturnDone
  <2>3. CASE Leave
    <3>1. pc' = "idle" /\ inode' = NoInode /\ OldMemory'
      BY <2>3, LaidNone, Zenon DEF Leave, OldMemory
    <3>. QED BY <3>1 DEF ReadInv, Active, Copying, MemPc
  <2>. QED BY <1>3, <2>1, <2>2, <2>3 DEF ReadDataStep
\* A call of the library for another part of the kernel.
<1>4. ASSUME inode' = NoInode, ~ Active', pc' \notin {"done", "idle", "overrun"}
      PROVE  ReadInv'
  BY <1>4 DEF ReadInv
<1>5. CASE LibCall /\ UNCHANGED rdVars
  <2>1. pc = "idle" /\ inode' = inode
    BY <1>5, Zenon DEF LibCall, rdVars, params
  <2>2. inode = NoInode
    BY <1>0, <2>1 DEF Active, Copying, MemPc
  <2>3. back' = "returned" /\ pc' \in MemPc \cup StrRoutines
    <3>1. CASE \E fn \in MemRoutines, dest, src \in 0 .. MAX_ADDRESS,
                  n \in 0 .. MAX_N : CallMem(fn, dest, src, n)
      <4>1. PICK fn, dest, src, n : CallMem(fn, dest, src, n)
        BY <3>1
      <4>. QED BY <4>1 DEF CallMem, Enter, MemPc
    <3>2. CASE \E fn \in StrRoutines, s1, s2 \in Strings, n \in 0 .. MAX_STR :
                 CallStr(fn, s1, s2, n)
      BY <3>2 DEF CallStr
    <3>. QED BY <1>5, <3>1, <3>2 DEF LibCall
  <2>. QED BY <1>4, <2>1, <2>2, <2>3 DEF Active, Copying, MemPc, StrRoutines
<1>6. CASE LibStep /\ UNCHANGED rdVars
  <2>1. inode' = inode
    BY <1>6, Zenon DEF rdVars, params
  <2>2. CASE strlen \/ strcpy \/ strncpy_copy \/ strncpy_pad \/ strncmp
    <3>1. /\ pc \in StrRoutines \cup {"strncpy_pad"}
          /\ pc' \in StrRoutines \cup {"strncpy_pad", "returned"}
      BY <2>2 DEF strlen, strcpy, strncpy_copy, strncpy_pad, strncmp, StrLoop,
         StrReturn, StrRoutines
    <3>2. inode = NoInode
      BY <1>0, <3>1 DEF Active, Copying, MemPc, StrRoutines
    <3>. QED BY <1>4, <2>1, <3>1, <3>2 DEF Active, Copying, MemPc, StrRoutines
  <2>3. CASE TopByte \/ Aligned \/ Rep \/ RepEnd \/ BottomByte
    <3>1. pc \in MemPc /\ pc' \in MemPc /\ back' = back /\ ret' = ret
      BY <2>3 DEF TopByte, Aligned, Rep, RepEnd, BottomByte, MemPc, libVars
    <3>2. CASE Copying
      BY <1>0, <1>6, <2>3, <3>1, <3>2, CopyStep DEF Active
    <3>3. CASE ~ Copying
      <4>1. inode = NoInode
        BY <1>0, <3>1, <3>3 DEF Active, MemPc
      <4>. QED BY <1>4, <2>1, <3>1, <3>3, <4>1 DEF Active, Copying, MemPc
    <3>. QED BY <3>2, <3>3
  <2>4. CASE Done
    <3>1. pc \in MemPc /\ pc' = back
      BY <2>4 DEF Done, MemPc
    <3>2. CASE Copying
      BY <1>0, <1>6, <2>4, <3>2, CopyDone DEF Active
    <3>3. CASE ~ Copying
      <4>1. inode = NoInode
        BY <1>0, <3>1, <3>3 DEF Active, MemPc
      <4>2. back \in {"none", "returned"}
        BY <3>1, <3>3 DEF MemInv, Copying
      <4>. QED BY <1>4, <2>1, <3>1, <3>3, <4>1, <4>2 DEF Active, Copying, MemPc
    <3>. QED BY <3>2, <3>3
  <2>. QED BY <1>6, <2>2, <2>3, <2>4 DEF LibStep
<1>7. CASE LibLeave /\ UNCHANGED rdVars
  <2>1. pc = "returned" /\ pc' = "idle" /\ OldMemory' /\ inode' = inode
    BY <1>7, LaidNone, Zenon DEF LibLeave, OldMemory, rdVars, params
  <2>2. inode = NoInode
    BY <1>0, <2>1 DEF Active, Copying, MemPc
  <2>. QED BY <2>1, <2>2 DEF ReadInv, Active, Copying, MemPc
<1>. QED BY <1>1, <1>2, <1>3, <1>5, <1>6, <1>7, Zenon DEF Next

\* The library at rest.
LEMMA ReadInit == Init => ReadInv
<1>. SUFFICES ASSUME Init PROVE ReadInv
  OBVIOUS
<1>1. pc = "idle" /\ inode = NoInode /\ OldMemory
  BY LaidNone, Zenon DEF Init, LibInit, OldMemory
<1>. QED BY <1>1 DEF ReadInv, Active, Copying, MemPc

\* What has been stored so far is part of what is wanted.
LEMMA PartWanted ==
  ASSUME Params, NEW last \in Int, last < buf + Count, FileUpTo(last)
  PROVE  \A a \in Addresses : memory[a] \in {Old(a), Wanted(a)}
<1>. SUFFICES ASSUME NEW a \in Addresses PROVE memory[a] \in {Old(a), Wanted(a)}
  OBVIOUS
<1>1. memory[a] = IF a \in buf .. last THEN FileByte(start + (a - buf)) ELSE Old(a)
  BY Zenon DEF FileUpTo
<1>2. a \in buf .. last => a \in buf .. buf + Count - 1
  BY FileFacts, Sizes DEF Addresses
<1>3. a \in buf .. buf + Count - 1 => Wanted(a) = FileByte(start + (a - buf))
  BY Zenon DEF Wanted
<1>. QED BY <1>1, <1>2, <1>3, Zenon

\* The invariant says what the caller gets.
LEMMA InvWanted == ReadInv => ReadsWanted
<1>. SUFFICES ASSUME ReadInv, NoWrap PROVE ReadsWanted
  BY DEF ReadsWanted, NoWrap
<1>1. pc # "overrun"
  BY Zenon DEF ReadInv
<1>2. ASSUME inode # NoInode, inode.file_length <= SizeLimit
      PROVE  /\ \A a \in Addresses : memory[a] \in {Old(a), Wanted(a)}
             /\ pc = "done" => /\ ret = Count
                               /\ \A a \in Addresses : memory[a] = Wanted(a)
  <2>1. CASE pc = "done"
    <3>1. ret = Count /\ memory = [a \in Addresses |-> Wanted(a)]
      BY <1>2, <2>1, Zenon DEF ReadInv, ReadDone
    <3>. QED BY <3>1, Zenon
  <2>2. CASE Active
    <3>1. /\ Params /\ Position /\ (pc = "skip" => OldMemory)
          /\ pc = "copy" => FileUpTo(buf + Copied - 1)
          /\ Copying => CopyRegisters /\ CopyCall /\ FileUpTo(edi - 1)
      BY <2>2, Zenon DEF ReadInv, ActiveRight
    <3>2. pc # "done"
      BY <2>2 DEF Active, Copying, MemPc
    <3>3. buf \in Nat /\ Count \in Nat /\ Copied \in Nat /\ Copied <= Count
      BY <3>1, FileFacts DEF Copied, Position
    <3>4. CASE pc = "skip"
      BY <3>1, <3>2, <3>4, Zenon DEF OldMemory
    <3>5. CASE pc = "copy"
      <4>1. buf + Copied - 1 \in Int /\ buf + Copied - 1 < buf + Count
        BY <3>3
      <4>. QED BY <3>1, <3>2, <3>5, <4>1, PartWanted, Zenon
    <3>6. CASE Copying
      <4>1. /\ edi \in Int /\ Left <= call.n /\ edi = call.dest + call.n - Left
            /\ call.dest \in Nat /\ call.n \in Nat /\ Left \in Nat
            /\ call.dest + call.n = buf + Copied
        BY <3>1, <3>6 DEF CopyRegisters, CopyCall, Left
      <4>2. edi - 1 \in Int /\ edi - 1 < buf + Count
        BY <3>3, <4>1
      <4>. QED BY <3>1, <3>2, <3>6, <4>2, PartWanted, Zenon
    <3>. QED BY <2>2, <3>4, <3>5, <3>6, Zenon DEF Active
  <2>. QED BY <1>1, <1>2, <2>1, <2>2 DEF ReadInv
<1>. QED BY <1>1, <1>2, Zenon DEF ReadsWanted

(***************************************************************************)
(* read_data gives its caller the bytes of the file that were asked for,   *)
(* as many as there are, and stores nothing else: for every block size,    *)
(* number of blocks, arrangement of a file's blocks in the image, offset,  *)
(* length and alignment of the buffer, as long as the sum of offset and    *)
(* length does not wrap.                                                   *)
(***************************************************************************)
THEOREM ReadDataTheorem == LibrarySpec => []ReadsWanted
<1>1. LibraryInit => MemInv /\ ReadInv
  BY MemInit, ReadInit, Zenon DEF LibraryInit
<1>2. MemInv /\ ReadInv /\ [LibraryNext]_<<vars, printfVars>> => MemInv' /\ ReadInv'
  BY MemStep, ReadStep, LibraryStep
<1>. QED BY <1>1, <1>2, InvWanted, PTL DEF LibrarySpec

=============================================================================
