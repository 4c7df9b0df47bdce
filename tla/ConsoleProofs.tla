--------------------------- MODULE ConsoleProofs ---------------------------
(***************************************************************************)
(* Proofs about Console for any number of terminals, buffer size and       *)
(* screen.                                                                 *)
(*                                                                         *)
(* The bounds of the keyboard buffers hold for every user (BufferInv).     *)
(* What is true of the cursor depends on where the process was stopped in  *)
(* putc: CursorInv says for each label how far the cursor that putc works  *)
(* on may be out, and that every other cursor is on the screen.  It needs  *)
(* that terminals are not switched during a write, since that would turn   *)
(* the cursor of a half-finished putc into another terminal's.             *)
(***************************************************************************)
EXTENDS Console, TLAPS

\* The numbers, terminals and pages of TypeOK, the length of a copy, which is
\* in loc between its load and the copy, and nbytes as a number of 32 bits.
Ranges ==
  /\ display_terminal \in Terms
  /\ screen_x \in Int /\ screen_y \in Int
  /\ virtual_x \in [Terms -> Int] /\ virtual_y \in [Terms -> Int]
  /\ page \in [0 .. NUM_TERMINALS -> SUBSET Terms]
  /\ pc \in {"user", "fault", "overrun"} \cup ReadLabels \cup WriteLabels
  /\ arg \in Int /\ loc \in Int
  /\ got \in [length : Nat, count : Nat]
  /\ pc = "copy" => loc \in Nat
  /\ pc \in {"wait", "test"} => 2 * arg >= - WORD

Flags ==
  /\ ready_to_read \in [Terms -> BOOLEAN]
  /\ alt_on \in BOOLEAN /\ ctrl_on \in BOOLEAN
  /\ newline \in BOOLEAN /\ toVideo \in BOOLEAN

Buffers ==
  /\ kb_buf_index \in [Terms -> 0 .. MAX_KB_BUF]
  /\ pc = "copy" => loc <= MAX_KB_BUF
  /\ got.length > MAX_KB_BUF <=> pc = "overrun"
  /\ pc = "overrun" => arg < 0

Inv == Ranges /\ Flags /\ Buffers

\* A cursor in the columns up to maxX and the rows up to maxY; a backspace
\* before the first column has moved to a new line before.
Within(x, y, maxX, maxY) ==
  x \in -1 .. maxX /\ y \in 0 .. maxY /\ (x = -1 => y >= 1)

OnScreen(x, y) == Within(x, y, NUM_COLS - 1, NUM_ROWS - 1)

\* How far out the cursor of putc may be when a key finds the process at pc.
PastLastColumn ==
  \/ pc \in {"testX", "wrapX"}
  \/ pc \in {"loadY", "storeY", "testY", "lastY"} /\ ~ newline
PastLastRow == pc \in {"newlineX", "testY", "lastY"}

MaxX == IF PastLastColumn THEN NUM_COLS ELSE NUM_COLS - 1
MaxY == IF PastLastRow THEN NUM_ROWS ELSE NUM_ROWS - 1

Cursors ==
  /\ IF toVideo THEN Within(screen_x, screen_y, MaxX, MaxY)
                ELSE OnScreen(screen_x, screen_y)
  /\ \A t \in Terms :
       IF ~ toVideo /\ t = ActiveTerm
       THEN Within(virtual_x[t], virtual_y[t], MaxX, MaxY)
       ELSE OnScreen(virtual_x[t], virtual_y[t])

\* What putc has loaded, and which of its branches it is in.
PutcInv ==
  /\ pc = "storeX" => loc \in -1 .. NUM_COLS - 1
  /\ pc = "storeY" => loc \in 0 .. NUM_ROWS - 1
  /\ pc \in {"loadX", "storeX", "testX", "wrapX"} => ~ newline
  /\ pc = "newlineX" => newline
  /\ pc # "fault"

CursorInv == Cursors /\ PutcInv

\* term_write works on the cursor and the page of its own terminal.
BranchInv == pc \in WriteLabels => (toVideo <=> ActiveTerm = display_terminal)

----------------------------------------------------------------------------
(* The operators of the model. *)

\* The handler enters with room for one character: the test at its top.
LEMMA IndexType ==
  ASSUME Inv
  PROVE  /\ IndexAtEntry \in [Terms -> 0 .. MAX_KB_BUF]
         /\ IndexAtEntry[display_terminal] < MAX_KB_BUF
         /\ display_terminal \in Terms
<1>1. /\ display_terminal \in Terms /\ kb_buf_index \in [Terms -> 0 .. MAX_KB_BUF]
      /\ MAX_KB_BUF \in Nat /\ MAX_KB_BUF > 0
  BY ConsoleAssumption DEF Inv, Ranges, Buffers
<1>. QED BY <1>1 DEF IndexAtEntry

\* A character stored in a page.
LEMMA PutType ==
  ASSUME NEW pages \in [0 .. NUM_TERMINALS -> SUBSET Terms], NEW p, NEW t \in Terms
  PROVE  Put(pages, p, t) \in [0 .. NUM_TERMINALS -> SUBSET Terms]
  BY DEF Put, Mapped

\* What putc does to a cursor.
LEMMA AfterCharType ==
  ASSUME NEW x \in Int, NEW y \in Int
  PROVE  /\ AfterChar([x |-> x, y |-> y]).x \in Int
         /\ AfterChar([x |-> x, y |-> y]).y \in Int
         /\ AfterNewline([x |-> x, y |-> y]).x \in Int
         /\ AfterNewline([x |-> x, y |-> y]).y \in Int
  BY ConsoleAssumption DEF AfterChar, AfterNewline, NextLine

\* A change of the displayed terminal exchanges pages.
LEMMA ChangeType ==
  ASSUME Ranges, NEW t \in Terms, change_display_term(t)
  PROVE  /\ page' \in [0 .. NUM_TERMINALS -> SUBSET Terms]
         /\ display_terminal' \in Terms
<1>1. 0 \in 0 .. NUM_TERMINALS /\ \A u \in Terms : u + 1 \in 0 .. NUM_TERMINALS
  BY ConsoleAssumption DEF Terms
<1>2. page \in [0 .. NUM_TERMINALS -> SUBSET Terms] /\ display_terminal \in Terms
  BY DEF Ranges
<1>. QED BY <1>1, <1>2 DEF change_display_term

----------------------------------------------------------------------------
(* The invariant of the buffers and the types. *)

\* The boot state has the invariant.
LEMMA InitInv == Init => Inv
<1>. SUFFICES ASSUME Init PROVE Inv
  OBVIOUS
<1>1. 0 \in Terms /\ 0 \in 0 .. MAX_KB_BUF
  BY ConsoleAssumption DEF Terms
<1>2. NothingRead \in [length : Nat, count : Nat]
      /\ NothingRead.length = 0
  BY ConsoleAssumption DEF NothingRead
<1>3. Ranges
  BY <1>1, <1>2 DEF Init, Ranges
<1>4. Flags
  BY Zenon DEF Init, Flags
<1>5. Buffers
  BY <1>1, <1>2, ConsoleAssumption DEF Init, Buffers
<1>. QED BY <1>3, <1>4, <1>5 DEF Inv

\* A key leaves the process where it is and stores an index within the buffer.
LEMMA KeyFrame ==
  ASSUME Inv, UNCHANGED proc, kb_buf_index' \in [Terms -> 0 .. MAX_KB_BUF]
  PROVE  Buffers'
  BY DEF Inv, Buffers, proc

\* A character enters the buffer only below its limit, after the index was
\* reset by a key that follows an enter.
LEMMA TypeCharInv ==
  ASSUME Inv, TypeChar, UNCHANGED <<display_terminal, flags, proc>> PROVE Inv'
<1>1. kb_buf_index' \in [Terms -> 0 .. MAX_KB_BUF]
  <2>1. CASE kb_buf_index' = IndexAtEntry
    BY <2>1, IndexType
  <2>2. CASE kb_buf_index' = [IndexAtEntry EXCEPT ![display_terminal] = @ + 1]
    BY <2>2, IndexType, ConsoleAssumption
  <2>. QED BY <2>1, <2>2 DEF TypeChar
<1>2. Buffers'
  BY <1>1, KeyFrame
<1>3. Flags'
  <2>1. ready_to_read' = ready_to_read
    BY Zenon DEF TypeChar
  <2>. QED BY <2>1, Zenon DEF Inv, Flags, flags, proc
<1>4. /\ screen_x' \in Int /\ screen_y' \in Int
      /\ page' \in [0 .. NUM_TERMINALS -> SUBSET Terms]
      /\ virtual_x' = virtual_x /\ virtual_y' = virtual_y
  <2>1. CASE UNCHANGED <<screen, ready_to_read>>
    BY <2>1 DEF screen, Inv, Ranges
  <2>2. CASE /\ page' = Put(page, PageOf(0, screen_x, screen_y), display_terminal)
             /\ SetCursor(AfterChar(Cursor))
             /\ UNCHANGED <<virtual_x, virtual_y, ready_to_read>>
    BY <2>2, PutType, AfterCharType DEF SetCursor, Cursor, Inv, Ranges
  <2>. QED BY <2>1, <2>2 DEF TypeChar
<1>5. Ranges'
  BY <1>4 DEF Inv, Ranges, proc
<1>. QED BY <1>2, <1>3, <1>5 DEF Inv

\* Every key keeps the invariant.
LEMMA KeyInv == Inv /\ KeyPress => Inv'
<1>. SUFFICES ASSUME Inv, KeyPress PROVE Inv'
  OBVIOUS
<1>0. 0 \in 0 .. NUM_TERMINALS
  BY ConsoleAssumption
<1>1. CASE KeyChar
  BY <1>1, TypeCharInv DEF KeyChar
<1>2. CASE KeyL
  <2>1. CASE TypeChar
    BY <1>2, <2>1, TypeCharInv DEF KeyL
  <2>2. CASE /\ kb_buf_index' = IndexAtEntry
             /\ SetCursor([x |-> 0, y |-> 0])
             /\ page' = [page EXCEPT ![0] = {}]
             /\ UNCHANGED <<virtual_x, virtual_y, ready_to_read>>
    <3>1. UNCHANGED <<display_terminal, flags, proc>>
      BY <1>2 DEF KeyL
    <3>2. Buffers'
      BY <2>2, <3>1, IndexType, KeyFrame
    <3>3. Flags'
      BY <2>2, <3>1, Zenon DEF Inv, Flags, flags, proc
    <3>4. screen_x' \in Int /\ screen_y' \in Int
      BY <2>2 DEF SetCursor
    <3>5. Ranges'
      BY <1>0, <2>2, <3>1, <3>4 DEF Inv, Ranges, proc
    <3>. QED BY <3>2, <3>3, <3>5 DEF Inv
  <2>. QED BY <1>2, <2>1, <2>2 DEF KeyL
<1>3. CASE KeyDead
  <2>1. Buffers'
    BY <1>3, IndexType, KeyFrame DEF KeyDead
  <2>2. Flags'
    BY <1>3, Zenon DEF KeyDead, Inv, Flags, flags, proc
  <2>3. Ranges'
    BY <1>3 DEF KeyDead, Inv, Ranges, proc, screen
  <2>. QED BY <2>1, <2>2, <2>3 DEF Inv
<1>4. CASE KeyEnter
  <2>1. kb_buf_index' \in [Terms -> 0 .. MAX_KB_BUF]
    BY <1>4, IndexType, ConsoleAssumption DEF KeyEnter
  <2>2. Buffers'
    BY <1>4, <2>1, KeyFrame DEF KeyEnter
  <2>3. Flags'
    BY <1>4, Zenon DEF KeyEnter, Inv, Flags, flags, proc
  <2>4. screen_x' \in Int /\ screen_y' \in Int
    BY <1>4, AfterCharType DEF KeyEnter, SetCursor, Cursor, Inv, Ranges
  <2>5. Ranges'
    BY <1>4, <2>4 DEF KeyEnter, Inv, Ranges, proc
  <2>. QED BY <2>2, <2>3, <2>5 DEF Inv
<1>5. CASE KeyBackspace
  <2>1. kb_buf_index' \in [Terms -> 0 .. MAX_KB_BUF]
    BY <1>5, IndexType, ConsoleAssumption DEF KeyBackspace, EraseIndex
  <2>2. Buffers'
    BY <1>5, <2>1, KeyFrame DEF KeyBackspace
  <2>3. Flags'
    BY <1>5, Zenon DEF KeyBackspace, Inv, Flags, flags, proc
  <2>4. screen_x' \in Int /\ screen_y' \in Int
    <3>. DEFINE after == AfterChar([x |-> screen_x - 1, y |-> screen_y])
    <3>1. after.x \in Int /\ after.y \in Int
      BY AfterCharType DEF Inv, Ranges
    <3>2. [after EXCEPT !.x = @ - 1].x = after.x - 1
          /\ [after EXCEPT !.x = @ - 1].y = after.y
      BY DEF AfterChar
    <3>. HIDE DEF after
    <3>3. \/ screen_x' = after.x - 1 /\ screen_y' = after.y
          \/ screen_x' = screen_x /\ screen_y' = screen_y
      BY <1>5, <3>2, Zenon DEF KeyBackspace, SetCursor, after
    <3>. QED BY <3>1, <3>3 DEF Inv, Ranges
  <2>5. Ranges'
    BY <1>5, <2>4 DEF KeyBackspace, Inv, Ranges, proc
  <2>. QED BY <2>2, <2>3, <2>5 DEF Inv
<1>6. ASSUME NEW f \in FKeys, KeyF(f) PROVE Inv'
  <2>1. Buffers'
    BY <1>6, IndexType, KeyFrame DEF KeyF
  <2>2. Flags'
    BY <1>6, Zenon DEF KeyF, Inv, Flags, flags, proc
  <2>3. CASE UNCHANGED <<display_terminal, screen>>
    <3>1. Ranges'
      BY <1>6, <2>3 DEF KeyF, Inv, Ranges, proc, screen
    <3>. QED BY <2>1, <2>2, <3>1 DEF Inv
  <2>4. CASE /\ virtual_x' = [virtual_x EXCEPT ![display_terminal] = screen_x]
             /\ virtual_y' = [virtual_y EXCEPT ![display_terminal] = screen_y]
             /\ IF f \in Terms THEN change_display_term(f)
                               ELSE UNCHANGED <<page, display_terminal>>
             /\ screen_x' = virtual_x'[display_terminal']
             /\ screen_y' = virtual_y'[display_terminal']
    <3>1. /\ page' \in [0 .. NUM_TERMINALS -> SUBSET Terms]
          /\ display_terminal' \in Terms
      BY <2>4, ChangeType DEF Inv, Ranges
    <3>2. virtual_x' \in [Terms -> Int] /\ virtual_y' \in [Terms -> Int]
      BY <2>4 DEF Inv, Ranges
    <3>3. Ranges'
      BY <1>6, <2>4, <3>1, <3>2 DEF KeyF, Inv, Ranges, proc
    <3>. QED BY <2>1, <2>2, <3>3 DEF Inv
  <2>. QED BY <1>6, <2>3, <2>4, Zenon DEF KeyF
<1>7. ASSUME NEW k, NEW alt \in BOOLEAN, NEW ctrl \in BOOLEAN, Modifier(k, alt, ctrl)
      PROVE  Inv'
  <2>1. Buffers'
    BY <1>7, IndexType, KeyFrame DEF Modifier
  <2>2. Flags'
    BY <1>7, Zenon DEF Modifier, Inv, Flags, flags, proc
  <2>3. Ranges'
    BY <1>7 DEF Modifier, Inv, Ranges, proc, screen
  <2>. QED BY <2>1, <2>2, <2>3 DEF Inv
<1>8. CASE AltMake \/ AltBreak \/ CtrlMake \/ CtrlBreak
  BY <1>7, <1>8, Zenon DEF AltMake, AltBreak, CtrlMake, CtrlBreak, Inv, Flags
<1>. QED BY <1>1, <1>2, <1>3, <1>4, <1>5, <1>6, <1>8 DEF KeyPress

\* The calls and term_read: the length copied is one that an index had.
LEMMA ReadInv ==
  ASSUME Inv,
         \/ ReadCall \/ WriteCall \/ ReadWait \/ ReadTest \/ ReadLen \/ ReadCopy
         \/ ReadCount \/ ClearReady \/ ClearIndex
  PROVE  Inv'
<1>0. /\ NothingRead \in [length : Nat, count : Nat]
      /\ NothingRead.length <= MAX_KB_BUF /\ MAX_KB_BUF \in Nat
  BY ConsoleAssumption DEF NothingRead
<1>a. kb_buf_index[display_terminal] \in 0 .. MAX_KB_BUF
  BY DEF Inv, Ranges, Buffers
<1>b. kb_buf_index[display_terminal] \in Nat
      /\ kb_buf_index[display_terminal] <= MAX_KB_BUF
  BY <1>a, <1>0
<1>1. CASE ReadCall
  <2>1. Ranges'
    BY <1>1, ConsoleAssumption DEF ReadCall, Goto, Inv, Ranges, screen, ReadLabels
  <2>2. Flags'
    BY <1>1, Zenon DEF ReadCall, Inv, Flags, flags, buffer
  <2>3. Buffers'
    BY <1>1 DEF ReadCall, Goto, Inv, Buffers, buffer
  <2>. QED BY <2>1, <2>2, <2>3 DEF Inv
<1>2. CASE WriteCall
  <2>1. Ranges'
    BY <1>2, ConsoleAssumption DEF WriteCall, Goto, Inv, Ranges, screen, WriteLabels
  <2>2. Flags'
    BY <1>2, Zenon DEF WriteCall, Inv, Flags, flags, buffer
  <2>3. Buffers'
    BY <1>2 DEF WriteCall, Goto, Inv, Buffers, buffer
  <2>. QED BY <2>1, <2>2, <2>3 DEF Inv
<1>3. CASE ReadWait
  <2>1. Ranges'
    BY <1>3 DEF ReadWait, Goto, Inv, Ranges, screen, ReadLabels
  <2>2. Flags'
    BY <1>3, Zenon DEF ReadWait, Inv, Flags, flags, buffer
  <2>3. Buffers'
    BY <1>3 DEF ReadWait, Goto, Inv, Buffers, buffer
  <2>. QED BY <2>1, <2>2, <2>3 DEF Inv
<1>4. CASE ReadTest
  <2>0. /\ pc = "test" /\ arg \in Int /\ 2 * arg >= - WORD
        /\ WORD \in Nat /\ WORD > 2 * MAX_KB_BUF /\ display_terminal \in Terms
    BY <1>4, ConsoleAssumption DEF ReadTest, Inv, Ranges
  <2>a. /\ Unsigned(arg) \in Nat
        /\ arg < 0 => Unsigned(arg) > MAX_KB_BUF
        /\ arg >= 0 => Unsigned(arg) = arg
    BY <1>0, <2>0 DEF Unsigned
  <2>b. ASSUME arg > kb_buf_index[display_terminal]
        PROVE  Ranges' /\ Buffers'
    <3>1. pc' = "len" /\ got' = got /\ loc' = loc /\ arg' = arg
      BY <1>4, <2>b DEF ReadTest, Goto
    <3>2. Ranges'
      BY <1>4, <2>0, <3>1 DEF ReadTest, Inv, Ranges, screen, ReadLabels
    <3>3. Buffers'
      BY <1>4, <2>0, <3>1 DEF ReadTest, Inv, Buffers, buffer
    <3>. QED BY <3>2, <3>3
  <2>c. ASSUME ~ (arg > kb_buf_index[display_terminal])
        PROVE  Ranges' /\ Buffers'
    <3>1. /\ pc' = IF arg < 0 THEN "overrun" ELSE "clearReady"
          /\ loc' = 0 /\ arg' = arg
          /\ got' = [length |-> Unsigned(arg), count |-> 0]
      BY <1>4, <2>c DEF ReadTest, Goto
    <3>2. /\ pc' \in {"overrun", "clearReady"} /\ (pc' = "overrun" <=> arg < 0)
          /\ got'.length = Unsigned(arg)
          /\ got' \in [length : Nat, count : Nat]
      BY <2>0, <2>a, <3>1
    <3>3. Ranges'
      BY <1>4, <2>0, <3>1, <3>2 DEF ReadTest, Inv, Ranges, screen, ReadLabels
    <3>4. got'.length > MAX_KB_BUF <=> pc' = "overrun"
      BY <1>0, <1>b, <2>0, <2>a, <2>c, <3>2
    <3>5. Buffers'
      BY <1>4, <3>1, <3>2, <3>4 DEF ReadTest, Inv, Buffers, buffer
    <3>. QED BY <3>3, <3>5
  <2>1. Ranges'
    BY <2>b, <2>c
  <2>2. Flags'
    BY <1>4, Zenon DEF ReadTest, Inv, Flags, flags, buffer
  <2>3. Buffers'
    BY <2>b, <2>c
  <2>. QED BY <2>1, <2>2, <2>3 DEF Inv
<1>5. CASE ReadLen
  <2>1. Ranges'
    BY <1>b, <1>5 DEF ReadLen, Goto, Inv, Ranges, screen, ReadLabels
  <2>2. Flags'
    BY <1>5, Zenon DEF ReadLen, Inv, Flags, flags, buffer
  <2>3. Buffers'
    BY <1>b, <1>5 DEF ReadLen, Goto, Inv, Buffers, buffer
  <2>. QED BY <2>1, <2>2, <2>3 DEF Inv
<1>6. CASE ReadCopy
  <2>1. Ranges'
    BY <1>6 DEF ReadCopy, Goto, Inv, Ranges, screen, ReadLabels
  <2>2. Flags'
    BY <1>6, Zenon DEF ReadCopy, Inv, Flags, flags, buffer
  <2>3. Buffers'
    BY <1>0, <1>6 DEF ReadCopy, Goto, Inv, Ranges, Buffers, buffer
  <2>. QED BY <2>1, <2>2, <2>3 DEF Inv
<1>7. CASE ReadCount
  <2>0. got' = [got EXCEPT !.count = kb_buf_index[display_terminal]]
        /\ got \in [length : Nat, count : Nat]
    BY <1>7 DEF ReadCount, Inv, Ranges
  <2>1. got' \in [length : Nat, count : Nat] /\ got'.length = got.length
    BY <1>b, <2>0
  <2>2. Ranges'
    BY <1>7, <2>1 DEF ReadCount, Goto, Inv, Ranges, screen, ReadLabels
  <2>3. Flags'
    BY <1>7, Zenon DEF ReadCount, Inv, Flags, flags, buffer
  <2>4. Buffers'
    BY <1>7, <2>1 DEF ReadCount, Goto, Inv, Buffers, buffer
  <2>. QED BY <2>2, <2>3, <2>4 DEF Inv
<1>8. CASE ClearReady
  <2>1. Ranges'
    BY <1>8 DEF ClearReady, Goto, Inv, Ranges, screen, ReadLabels
  <2>2. Flags'
    BY <1>8, Zenon DEF ClearReady, Inv, Flags, flags
  <2>3. Buffers'
    BY <1>8 DEF ClearReady, Goto, Inv, Buffers
  <2>. QED BY <2>1, <2>2, <2>3 DEF Inv
<1>9. CASE ClearIndex
  <2>1. Ranges'
    <3>0. Ranges /\ pc = "clearIndex" /\ UNCHANGED <<display_terminal, screen>>
      BY <1>9 DEF ClearIndex, Inv
    <3>1. CASE loc + 1 < NUM_TERMINALS
      <4>1. loc' = loc + 1 /\ pc' = "clearReady" /\ UNCHANGED <<arg, got>>
        BY <1>9, <3>1 DEF ClearIndex, Goto
      <4>. QED BY <3>0, <4>1 DEF Ranges, screen, ReadLabels
    <3>2. CASE ~ (loc + 1 < NUM_TERMINALS)
      <4>1. loc' = 0 /\ pc' = "user" /\ arg' = 0 /\ got' = NothingRead
        BY <1>9, <3>2 DEF ClearIndex, Goto
      <4>. QED BY <1>0, <3>0, <4>1 DEF Ranges, screen
    <3>. QED BY <3>1, <3>2
  <2>2. Flags'
    BY <1>9, Zenon DEF ClearIndex, Inv, Flags, flags
  <2>3. kb_buf_index' \in [Terms -> 0 .. MAX_KB_BUF]
    <3>1. kb_buf_index \in [Terms -> 0 .. MAX_KB_BUF] /\ 0 \in 0 .. MAX_KB_BUF
      BY <1>0 DEF Inv, Buffers
    <3>2. kb_buf_index' = [kb_buf_index EXCEPT ![loc] = 0]
      BY <1>9, Zenon DEF ClearIndex
    <3>. QED BY <3>1, <3>2, Zenon
  <2>4. Buffers'
    BY <1>0, <1>9, <2>3 DEF ClearIndex, Goto, Inv, Buffers
  <2>. QED BY <2>1, <2>2, <2>4 DEF Inv
<1>. QED BY <1>1, <1>2, <1>3, <1>4, <1>5, <1>6, <1>7, <1>8, <1>9

\* The cursors that putc and term_putc read and write.
LEMMA CursorType ==
  ASSUME Inv
  PROVE  /\ X \in Int /\ Y \in Int
         /\ \A v \in Int : SetX(v) =>
              /\ screen_x' \in Int /\ screen_y' = screen_y /\ page' = page
              /\ virtual_x' \in [Terms -> Int] /\ virtual_y' = virtual_y
         /\ \A v \in Int : SetY(v) =>
              /\ screen_y' \in Int /\ screen_x' = screen_x /\ page' = page
              /\ virtual_y' \in [Terms -> Int] /\ virtual_x' = virtual_x
<1>1. /\ screen_x \in Int /\ screen_y \in Int /\ ActiveTerm \in Terms
      /\ virtual_x \in [Terms -> Int] /\ virtual_y \in [Terms -> Int]
  BY ConsoleAssumption DEF Inv, Ranges
<1>2. X \in Int /\ Y \in Int
  BY <1>1 DEF X, Y
<1>3. ASSUME NEW v \in Int, SetX(v)
      PROVE  /\ screen_x' \in Int /\ screen_y' = screen_y /\ page' = page
             /\ virtual_x' \in [Terms -> Int] /\ virtual_y' = virtual_y
  BY <1>1, <1>3 DEF SetX
<1>4. ASSUME NEW v \in Int, SetY(v)
      PROVE  /\ screen_y' \in Int /\ screen_x' = screen_x /\ page' = page
             /\ virtual_y' \in [Terms -> Int] /\ virtual_x' = virtual_x
  BY <1>1, <1>4 DEF SetY
<1>. QED BY <1>2, <1>3, <1>4

\* A step of putc that keeps the page, with the cursors still integers.
LEMMA PutcKeepsInv ==
  ASSUME Inv, WriteKeeps, pc \in WriteLabels, pc' \in WriteLabels,
         loc' \in Int, page' = page,
         screen_x' \in Int, screen_y' \in Int,
         virtual_x' \in [Terms -> Int], virtual_y' \in [Terms -> Int]
  PROVE  Inv'
<1>1. /\ pc' \notin {"copy", "overrun", "wait", "test"} /\ pc # "overrun"
      /\ pc' \in {"user", "fault", "overrun"} \cup ReadLabels \cup WriteLabels
  BY DEF WriteLabels
<1>2. Ranges'
  BY <1>1 DEF WriteKeeps, Inv, Ranges
<1>3. Flags'
  BY Zenon DEF WriteKeeps, Inv, Flags, flags, buffer
<1>4. Buffers'
  BY <1>1 DEF WriteKeeps, Inv, Buffers, buffer
<1>. QED BY <1>2, <1>3, <1>4 DEF Inv

\* term_write.
LEMMA WriteInv ==
  ASSUME Inv,
         \/ WriteNext \/ LoadX \/ StoreX \/ TestX \/ LoadY \/ StoreY \/ NewlineX
         \/ TestY \/ LastY \/ WrapX
  PROVE  Inv'
<1>0. /\ X \in Int /\ Y \in Int /\ loc \in Int /\ loc + 1 \in Int
      /\ NUM_ROWS - 1 \in Int /\ 0 \in Int
      /\ screen_x \in Int /\ screen_y \in Int
      /\ virtual_x \in [Terms -> Int] /\ virtual_y \in [Terms -> Int]
  BY CursorType, ConsoleAssumption DEF Inv, Ranges
<1>e. EndOfLine \in WriteLabels
  BY DEF EndOfLine, WriteLabels
<1>1. CASE WriteNext
  <2>1. page' \in [0 .. NUM_TERMINALS -> SUBSET Terms]
    <3>1. page \in [0 .. NUM_TERMINALS -> SUBSET Terms] /\ ActiveTerm \in Terms
      BY ConsoleAssumption DEF Inv, Ranges
    <3>2. page' = page \/ \E p : page' = Put(page, p, ActiveTerm)
      BY <1>1, Zenon DEF WriteNext
    <3>. QED BY <3>1, <3>2, PutType
  <2>2. arg' \in Int
    BY <1>1 DEF WriteNext, Inv, Ranges
  <2>3. pc' \in {"user", "loadY", "loadX", "fault"}
    BY <1>1 DEF WriteNext, Goto
  <2>4. /\ pc' \notin {"copy", "overrun", "wait", "test"} /\ pc # "overrun"
        /\ pc' \in {"user", "fault", "overrun"} \cup ReadLabels \cup WriteLabels
    BY <1>1, <2>3 DEF WriteNext, WriteLabels
  <2>5. Ranges'
    BY <1>1, <2>1, <2>2, <2>4 DEF WriteNext, Inv, Ranges
  <2>6. Flags'
    BY <1>1, Zenon DEF WriteNext, Inv, Flags, flags, buffer
  <2>7. Buffers'
    BY <1>1, <2>4 DEF WriteNext, Inv, Buffers, buffer
  <2>. QED BY <2>5, <2>6, <2>7 DEF Inv
<1>2. CASE LoadX
  BY <1>0, <1>2, PutcKeepsInv DEF LoadX, Goto, screen, WriteLabels
<1>3. CASE StoreX
  BY <1>0, <1>3, CursorType, PutcKeepsInv DEF StoreX, Goto, WriteLabels
<1>4. CASE TestX
  BY <1>0, <1>4, PutcKeepsInv DEF TestX, Goto, screen, WriteLabels
<1>5. CASE LoadY
  BY <1>0, <1>5, PutcKeepsInv DEF LoadY, Goto, screen, WriteLabels
<1>6. CASE StoreY
  BY <1>0, <1>6, CursorType, PutcKeepsInv DEF StoreY, Goto, WriteLabels
<1>7. CASE NewlineX
  BY <1>0, <1>7, CursorType, PutcKeepsInv DEF NewlineX, Goto, WriteLabels
<1>8. CASE TestY
  <2>1. pc \in WriteLabels /\ pc' \in WriteLabels
    BY <1>e, <1>8 DEF TestY, Goto, WriteLabels
  <2>. QED BY <1>0, <1>8, <2>1, PutcKeepsInv DEF TestY, screen
<1>9. CASE LastY
  <2>1. pc \in WriteLabels /\ pc' \in WriteLabels
    BY <1>e, <1>9 DEF LastY, Goto, WriteLabels
  <2>. QED BY <1>0, <1>9, <2>1, CursorType, PutcKeepsInv DEF LastY
<1>10. CASE WrapX
  BY <1>0, <1>10, CursorType, PutcKeepsInv DEF WrapX, Goto, WriteLabels
<1>. QED
  BY <1>1, <1>2, <1>3, <1>4, <1>5, <1>6, <1>7, <1>8, <1>9, <1>10

\* Every step keeps the invariant.
LEMMA NextInv == Inv /\ [Next]_vars => Inv'
<1>. SUFFICES ASSUME Inv, [Next]_vars PROVE Inv'
  OBVIOUS
<1>1. CASE KeyPress
  BY <1>1, KeyInv
<1>2. CASE ReadCall \/ WriteCall \/ ProcessStep
  BY <1>2, ReadInv, WriteInv DEF ProcessStep
<1>3. CASE UNCHANGED vars
  <2>1. Ranges' /\ Buffers'
    BY <1>3 DEF vars, screen, buffer, flags, proc, Inv, Ranges, Buffers
  <2>2. Flags'
    BY <1>3, Zenon DEF vars, buffer, flags, proc, Inv, Flags
  <2>. QED BY <2>1, <2>2 DEF Inv
<1>. QED BY <1>1, <1>2, <1>3 DEF Next

\* The buffers' invariant holds in every reachable state, with keys between
\* any two loads and stores of term_read, term_write and putc.
THEOREM ConsoleInvTheorem == Spec => []Inv
  BY InitInv, NextInv, PTL DEF Spec

\* The types of the keyboard's and the terminals' state, for every user and
\* with terminals switched at any time.
THEOREM ConsoleTypeTheorem == Spec => []TypeOK
<1>1. Inv => TypeOK
  <2>. SUFFICES ASSUME Inv PROVE TypeOK
    OBVIOUS
  <2>1. kb_buf_index \in [Terms -> Nat]
    BY ConsoleAssumption DEF Inv, Buffers
  <2>. QED BY <2>1, Zenon DEF Inv, Ranges, Flags, TypeOK
<1>. QED BY <1>1, ConsoleInvTheorem, PTL

\* No access of the keyboard handler or of term_read goes outside kb_buf, for
\* any size of the buffer and any interleaving of keys, switches and the reads
\* of the process.
THEOREM KbBufTheorem == Spec => []KbBufInBounds
<1>1. Inv => KbBufInBounds
  <2>. SUFFICES ASSUME Inv PROVE KbBufInBounds
    OBVIOUS
  <2>1. \A t \in Terms : kb_buf_index[t] \in 0 .. MAX_KB_BUF
    BY DEF Inv, Buffers
  <2>. QED BY <2>1, IndexType DEF Inv, Buffers, KbBufInBounds
<1>. QED BY <1>1, ConsoleInvTheorem, PTL

----------------------------------------------------------------------------
(* The cursor. *)

\* A character or a newline leaves a cursor as far out as it was at most.
LEMMA CharWithin ==
  ASSUME NEW maxX \in {NUM_COLS - 1, NUM_COLS}, NEW maxY \in {NUM_ROWS - 1, NUM_ROWS},
         NEW x, NEW y, Within(x, y, maxX, maxY)
  PROVE  /\ Within(AfterChar([x |-> x, y |-> y]).x, AfterChar([x |-> x, y |-> y]).y,
                   maxX, maxY)
         /\ Within(AfterNewline([x |-> x, y |-> y]).x,
                   AfterNewline([x |-> x, y |-> y]).y, maxX, maxY)
         /\ Within(0, 0, maxX, maxY)
<1>1. /\ x \in Int /\ y \in Int /\ x >= -1 /\ y >= 0 /\ x <= maxX /\ y <= maxY
      /\ maxX \in Nat /\ maxY \in Nat /\ maxX >= NUM_COLS - 1 /\ maxY >= NUM_ROWS - 1
      /\ NUM_COLS \in Nat /\ NUM_ROWS \in Nat /\ NUM_COLS >= 2 /\ NUM_ROWS >= 2
  BY ConsoleAssumption DEF Within
<1>2. NextLine(y) \in 1 .. NUM_ROWS - 1
  BY <1>1 DEF NextLine
<1>3. Within(0, NextLine(y), maxX, maxY) /\ Within(0, 0, maxX, maxY)
  BY <1>1, <1>2 DEF Within
<1>4. AfterNewline([x |-> x, y |-> y]) = [x |-> 0, y |-> NextLine(y)]
  BY DEF AfterNewline
<1>5. CASE x + 1 >= NUM_COLS
  <2>1. AfterChar([x |-> x, y |-> y]) = [x |-> 0, y |-> NextLine(y)]
    BY <1>5 DEF AfterChar
  <2>. QED BY <1>3, <1>4, <2>1
<1>6. CASE ~(x + 1 >= NUM_COLS)
  <2>1. AfterChar([x |-> x, y |-> y]) = [x |-> x + 1, y |-> y]
    BY <1>6 DEF AfterChar
  <2>2. Within(x + 1, y, maxX, maxY)
    BY <1>1, <1>6 DEF Within
  <2>. QED BY <1>3, <1>4, <2>1, <2>2
<1>. QED BY <1>5, <1>6

\* A backspace: at worst one before the first column of a later line.
LEMMA BackWithin ==
  ASSUME NEW maxX \in {NUM_COLS - 1, NUM_COLS}, NEW maxY \in {NUM_ROWS - 1, NUM_ROWS},
         NEW x, NEW y, Within(x, y, maxX, maxY), x > 0
  PROVE  Within(AfterChar([x |-> x - 1, y |-> y]).x - 1,
                AfterChar([x |-> x - 1, y |-> y]).y, maxX, maxY)
<1>1. /\ x \in Int /\ y \in Int /\ y >= 0 /\ x <= maxX /\ y <= maxY
      /\ maxX \in Nat /\ maxY \in Nat /\ maxY >= NUM_ROWS - 1
      /\ NUM_COLS \in Nat /\ NUM_ROWS \in Nat /\ NUM_COLS >= 2 /\ NUM_ROWS >= 2
  BY ConsoleAssumption DEF Within
<1>2. NextLine(y) \in 1 .. NUM_ROWS - 1
  BY <1>1 DEF NextLine
<1>3. (x - 1) + 1 = x
  BY <1>1
<1>4. CASE x >= NUM_COLS
  <2>1. AfterChar([x |-> x - 1, y |-> y]) = [x |-> 0, y |-> NextLine(y)]
    BY <1>3, <1>4 DEF AfterChar
  <2>2. Within(0 - 1, NextLine(y), maxX, maxY)
    BY <1>1, <1>2 DEF Within
  <2>. QED BY <2>1, <2>2
<1>5. CASE ~(x >= NUM_COLS)
  <2>1. AfterChar([x |-> x - 1, y |-> y]) = [x |-> x, y |-> y]
    BY <1>3, <1>5 DEF AfterChar
  <2>2. Within(x - 1, y, maxX, maxY)
    BY <1>1, <1>5 DEF Within
  <2>. QED BY <2>1, <2>2
<1>. QED BY <1>4, <1>5

\* The bounds at any label.
LEMMA MaxType ==
  /\ MaxX \in {NUM_COLS - 1, NUM_COLS} /\ MaxY \in {NUM_ROWS - 1, NUM_ROWS}
  /\ pc \notin WriteLabels \ {"loop"} => MaxX = NUM_COLS - 1 /\ MaxY = NUM_ROWS - 1
  BY DEF MaxX, MaxY, PastLastColumn, PastLastRow, WriteLabels

\* Outside a write and between two characters every cursor is on the screen.
LEMMA IdleCursors ==
  ASSUME Cursors, pc \notin WriteLabels \ {"loop"}
  PROVE  /\ OnScreen(screen_x, screen_y)
         /\ \A t \in Terms : OnScreen(virtual_x[t], virtual_y[t])
  BY MaxType, Zenon DEF Cursors, OnScreen

\* Cursors on the screen are right before the first character of a write.
LEMMA IdleInv ==
  ASSUME pc' \notin WriteLabels \ {"loop"}, pc' # "fault",
         OnScreen(screen_x', screen_y'),
         \A t \in Terms : OnScreen(virtual_x'[t], virtual_y'[t])
  PROVE  CursorInv'
<1>1. ~ PastLastColumn' /\ ~ PastLastRow'
  BY DEF PastLastColumn, PastLastRow, WriteLabels
<1>2. MaxX' = NUM_COLS - 1 /\ MaxY' = NUM_ROWS - 1
  BY <1>1, Zenon DEF MaxX, MaxY
<1>3. Cursors'
  BY <1>2, Zenon DEF Cursors, OnScreen
<1>4. PutcInv'
  BY DEF PutcInv, WriteLabels
<1>. QED BY <1>3, <1>4, Zenon DEF CursorInv

\* A key that moves the cursor of the screen and no further out.
LEMMA KeyCursor ==
  ASSUME CursorInv, UNCHANGED <<virtual_x, virtual_y, proc>>,
         \A maxX \in {NUM_COLS - 1, NUM_COLS}, maxY \in {NUM_ROWS - 1, NUM_ROWS} :
           Within(screen_x, screen_y, maxX, maxY) =>
             Within(screen_x', screen_y', maxX, maxY)
  PROVE  CursorInv'
<1>1. UNCHANGED <<pc, arg, loc, newline, toVideo, got>>
  BY Zenon DEF proc
<1>2. MaxX' = MaxX /\ MaxY' = MaxY
  BY <1>1, Zenon DEF MaxX, MaxY, PastLastColumn, PastLastRow
<1>3. PutcInv'
  BY <1>1, Zenon DEF CursorInv, PutcInv
<1>4. NUM_COLS - 1 \in {NUM_COLS - 1, NUM_COLS} /\ NUM_ROWS - 1 \in {NUM_ROWS - 1, NUM_ROWS}
  BY Zenon
<1>5. IF toVideo THEN Within(screen_x', screen_y', MaxX, MaxY)
                 ELSE OnScreen(screen_x', screen_y')
  BY <1>4, MaxType, Zenon DEF CursorInv, Cursors, OnScreen
<1>6. Cursors'
  BY <1>1, <1>2, <1>5, Zenon DEF CursorInv, Cursors, OnScreen
<1>. QED BY <1>3, <1>6, Zenon DEF CursorInv

\* The keys.
LEMMA KeysCursor ==
  ASSUME ~ SwitchInWrite, Inv, CursorInv, KeyPress PROVE CursorInv'
<1>0. UNCHANGED proc
  BY Zenon DEF KeyPress, KeyChar, KeyL, KeyDead, KeyEnter, KeyBackspace, KeyF,
               AltMake, AltBreak, CtrlMake, CtrlBreak, Modifier
<1>a. CASE UNCHANGED screen
  <2>1. UNCHANGED <<screen_x, screen_y, virtual_x, virtual_y, page>>
    BY <1>a, Zenon DEF screen
  <2>. QED BY <1>0, <2>1, KeyCursor, Zenon
<1>b. CASE TypeChar
  <2>1. CASE UNCHANGED <<screen, ready_to_read>>
    BY <1>a, <2>1
  <2>2. CASE SetCursor(AfterChar(Cursor)) /\ UNCHANGED <<virtual_x, virtual_y, ready_to_read>>
    <3>1. /\ screen_x' = AfterChar([x |-> screen_x, y |-> screen_y]).x
          /\ screen_y' = AfterChar([x |-> screen_x, y |-> screen_y]).y
          /\ UNCHANGED <<virtual_x, virtual_y>>
      BY <2>2, Zenon DEF SetCursor, Cursor
    <3>2. \A maxX \in {NUM_COLS - 1, NUM_COLS}, maxY \in {NUM_ROWS - 1, NUM_ROWS} :
            Within(screen_x, screen_y, maxX, maxY) =>
              Within(screen_x', screen_y', maxX, maxY)
      BY <3>1, CharWithin, Zenon
    <3>. QED BY <1>0, <3>1, <3>2, KeyCursor, Zenon
  <2>. QED BY <1>b, <2>1, <2>2, Zenon DEF TypeChar
<1>1. CASE KeyChar
  BY <1>b, <1>1, Zenon DEF KeyChar
<1>2. CASE KeyL
  <2>1. CASE SetCursor([x |-> 0, y |-> 0]) /\ UNCHANGED <<virtual_x, virtual_y>>
    <3>1. screen_x' = 0 /\ screen_y' = 0
      BY <2>1 DEF SetCursor
    <3>2. \A maxX \in {NUM_COLS - 1, NUM_COLS}, maxY \in {NUM_ROWS - 1, NUM_ROWS} :
            Within(screen_x, screen_y, maxX, maxY) =>
              Within(screen_x', screen_y', maxX, maxY)
      BY <3>1, CharWithin, Zenon
    <3>. QED BY <1>0, <2>1, <3>2, KeyCursor, Zenon
  <2>. QED BY <1>b, <1>2, <2>1, Zenon DEF KeyL
<1>3. CASE KeyDead
  BY <1>a, <1>3, Zenon DEF KeyDead
<1>4. CASE KeyEnter
  <2>1. /\ screen_x' = AfterNewline([x |-> screen_x, y |-> screen_y]).x
        /\ screen_y' = AfterNewline([x |-> screen_x, y |-> screen_y]).y
        /\ UNCHANGED <<virtual_x, virtual_y>>
    BY <1>4, Zenon DEF KeyEnter, SetCursor, Cursor
  <2>2. \A maxX \in {NUM_COLS - 1, NUM_COLS}, maxY \in {NUM_ROWS - 1, NUM_ROWS} :
          Within(screen_x, screen_y, maxX, maxY) =>
            Within(screen_x', screen_y', maxX, maxY)
    BY <2>1, CharWithin, Zenon
  <2>. QED BY <1>0, <2>1, <2>2, KeyCursor, Zenon
<1>5. CASE KeyBackspace
  <2>. DEFINE after == AfterChar([x |-> screen_x - 1, y |-> screen_y])
  <2>1. [after EXCEPT !.x = @ - 1].x = after.x - 1
        /\ [after EXCEPT !.x = @ - 1].y = after.y
    BY DEF AfterChar
  <2>. HIDE DEF after
  <2>2. /\ \/ screen_x > 0 /\ screen_x' = after.x - 1 /\ screen_y' = after.y
           \/ screen_x' = screen_x /\ screen_y' = screen_y
        /\ UNCHANGED <<virtual_x, virtual_y>>
    BY <1>5, <2>1, Zenon DEF KeyBackspace, SetCursor, after
  <2>3. \A maxX \in {NUM_COLS - 1, NUM_COLS}, maxY \in {NUM_ROWS - 1, NUM_ROWS} :
          Within(screen_x, screen_y, maxX, maxY) =>
            Within(screen_x', screen_y', maxX, maxY)
    BY <2>2, BackWithin, Zenon DEF after
  <2>. QED BY <1>0, <2>2, <2>3, KeyCursor, Zenon
<1>6. ASSUME NEW f \in FKeys, KeyF(f) PROVE CursorInv'
  <2>1. CASE UNCHANGED <<display_terminal, screen>>
    BY <1>a, <2>1
  <2>2. CASE /\ virtual_x' = [virtual_x EXCEPT ![display_terminal] = screen_x]
             /\ virtual_y' = [virtual_y EXCEPT ![display_terminal] = screen_y]
             /\ IF f \in Terms THEN change_display_term(f)
                               ELSE UNCHANGED <<page, display_terminal>>
             /\ screen_x' = virtual_x'[display_terminal']
             /\ screen_y' = virtual_y'[display_terminal']
    <3>1. pc \notin WriteLabels /\ pc' = pc
      BY <1>0, <1>6, Zenon DEF KeyF, proc
    <3>2. /\ OnScreen(screen_x, screen_y)
          /\ \A t \in Terms : OnScreen(virtual_x[t], virtual_y[t])
      BY <3>1, IdleCursors, Zenon DEF CursorInv
    <3>3. /\ virtual_x \in [Terms -> Int] /\ virtual_y \in [Terms -> Int]
          /\ display_terminal \in Terms
      BY Zenon DEF Inv, Ranges
    <3>4. \A t \in Terms :
            \/ virtual_x'[t] = virtual_x[t] /\ virtual_y'[t] = virtual_y[t]
            \/ virtual_x'[t] = screen_x /\ virtual_y'[t] = screen_y
      BY <2>2, <3>3
    <3>5. \A t \in Terms : OnScreen(virtual_x'[t], virtual_y'[t])
      BY <3>2, <3>4, Zenon
    <3>6. display_terminal' \in Terms
      BY <2>2, <3>3, Zenon DEF change_display_term
    <3>7. OnScreen(screen_x', screen_y')
      BY <2>2, <3>5, <3>6, Zenon
    <3>8. pc' # "fault" /\ pc' \notin WriteLabels \ {"loop"}
      BY <3>1, Zenon DEF CursorInv, PutcInv
    <3>. QED BY <3>5, <3>7, <3>8, IdleInv, Zenon
  <2>. QED BY <1>6, <2>1, <2>2, Zenon DEF KeyF
<1>7. CASE AltMake \/ AltBreak \/ CtrlMake \/ CtrlBreak
  BY <1>a, <1>7, Zenon DEF AltMake, AltBreak, CtrlMake, CtrlBreak, Modifier
<1>. QED BY <1>1, <1>2, <1>3, <1>4, <1>5, <1>6, <1>7, Zenon DEF KeyPress

\* The calls and term_read leave the cursors alone.
LEMMA ReadCursor ==
  ASSUME CursorInv,
         \/ ReadCall \/ WriteCall \/ ReadWait \/ ReadTest \/ ReadLen \/ ReadCopy
         \/ ReadCount \/ ClearReady \/ ClearIndex
  PROVE  CursorInv'
<1>1. pc \in {"user"} \cup ReadLabels /\ pc' \in {"user", "loop", "overrun"} \cup ReadLabels
  BY DEF ReadCall, WriteCall, ReadWait, ReadTest, ReadLen, ReadCopy, ReadCount,
         ClearReady, ClearIndex, Goto, ReadLabels
<1>2. /\ pc \notin WriteLabels
      /\ pc' # "fault" /\ pc' \notin WriteLabels \ {"loop"}
  BY <1>1 DEF ReadLabels, WriteLabels
<1>3. UNCHANGED screen
  BY Zenon DEF ReadCall, WriteCall, ReadWait, ReadTest, ReadLen, ReadCopy,
               ReadCount, ClearReady, ClearIndex
<1>4. UNCHANGED <<screen_x, screen_y, virtual_x, virtual_y, page>>
  BY <1>3, Zenon DEF screen
<1>5. /\ OnScreen(screen_x, screen_y)
      /\ \A t \in Terms : OnScreen(virtual_x[t], virtual_y[t])
  BY <1>2, IdleCursors, Zenon DEF CursorInv
<1>. QED BY <1>2, <1>4, <1>5, IdleInv, Zenon

\* The cursor that putc works on.
LEMMA OwnCursor ==
  ASSUME Cursors PROVE Within(X, Y, MaxX, MaxY)
<1>1. ActiveTerm \in Terms
  BY ConsoleAssumption
<1>. QED BY <1>1, Zenon DEF Cursors, X, Y

\* A step of putc moves its own cursor to x, y and leaves the others alone.
Moved(x, y) ==
  IF toVideo
  THEN screen_x' = x /\ screen_y' = y /\ UNCHANGED <<virtual_x, virtual_y>>
  ELSE /\ UNCHANGED <<screen_x, screen_y>>
       /\ virtual_x'[ActiveTerm] = x /\ virtual_y'[ActiveTerm] = y
       /\ \A t \in Terms : t # ActiveTerm =>
            virtual_x'[t] = virtual_x[t] /\ virtual_y'[t] = virtual_y[t]

\* An assignment to a coordinate moves the cursor of the writer only.
LEMMA MovedBy ==
  ASSUME Inv
  PROVE  /\ \A v : SetX(v) => Moved(v, Y)
         /\ \A v : SetY(v) => Moved(X, v)
         /\ UNCHANGED screen => Moved(X, Y)
<1>1. /\ virtual_x \in [Terms -> Int] /\ virtual_y \in [Terms -> Int]
      /\ ActiveTerm \in Terms
  BY ConsoleAssumption DEF Inv, Ranges
<1>2. ASSUME NEW v, NEW f \in [Terms -> Int], NEW g,
             g = [f EXCEPT ![ActiveTerm] = v]
      PROVE  g[ActiveTerm] = v /\ \A t \in Terms : t # ActiveTerm => g[t] = f[t]
  BY <1>1, <1>2
<1>3. ASSUME NEW v, SetX(v) PROVE Moved(v, Y)
  <2>1. CASE toVideo
    BY <1>3, <2>1, Zenon DEF SetX, Moved, Y
  <2>2. CASE ~ toVideo
    <3>1. /\ virtual_x' = [virtual_x EXCEPT ![ActiveTerm] = v]
          /\ UNCHANGED <<screen_x, screen_y, virtual_y>>
      BY <1>3, <2>2, Zenon DEF SetX
    <3>2. virtual_x'[ActiveTerm] = v
          /\ \A t \in Terms : t # ActiveTerm => virtual_x'[t] = virtual_x[t]
      BY <1>1, <1>2, <3>1
    <3>. QED BY <2>2, <3>1, <3>2, Zenon DEF Moved, Y
  <2>. QED BY <2>1, <2>2, Zenon
<1>4. ASSUME NEW v, SetY(v) PROVE Moved(X, v)
  <2>1. CASE toVideo
    BY <1>4, <2>1, Zenon DEF SetY, Moved, X
  <2>2. CASE ~ toVideo
    <3>1. /\ virtual_y' = [virtual_y EXCEPT ![ActiveTerm] = v]
          /\ UNCHANGED <<screen_x, screen_y, virtual_x>>
      BY <1>4, <2>2, Zenon DEF SetY
    <3>2. virtual_y'[ActiveTerm] = v
          /\ \A t \in Terms : t # ActiveTerm => virtual_y'[t] = virtual_y[t]
      BY <1>1, <1>2, <3>1
    <3>. QED BY <2>2, <3>1, <3>2, Zenon DEF Moved, X
  <2>. QED BY <2>1, <2>2, Zenon
<1>5. ASSUME UNCHANGED screen PROVE Moved(X, Y)
  BY <1>5, Zenon DEF screen, Moved, X, Y
<1>. QED BY <1>3, <1>4, <1>5, Zenon

\* Cursors stay in their bounds when the writer's moves within its own.
LEMMA MovedCursors ==
  ASSUME Cursors, toVideo' = toVideo, NEW x, NEW y, Moved(x, y),
         Within(x, y, MaxX', MaxY')
  PROVE  Cursors'
<1>1. CASE toVideo
  BY <1>1, Zenon DEF Cursors, Moved, OnScreen
<1>2. CASE ~ toVideo
  <2>1. OnScreen(screen_x', screen_y')
    BY <1>2, Zenon DEF Cursors, Moved, OnScreen
  <2>2. \A t \in Terms : IF t = ActiveTerm
                         THEN Within(virtual_x'[t], virtual_y'[t], MaxX', MaxY')
                         ELSE OnScreen(virtual_x'[t], virtual_y'[t])
    BY <1>2, Zenon DEF Cursors, Moved, OnScreen
  <2>. QED BY <1>2, <2>1, <2>2, Zenon DEF Cursors, OnScreen
<1>. QED BY <1>1, <1>2, Zenon

\* A step to label l with the own cursor at x, y.
LEMMA PutcStep ==
  ASSUME CursorInv, toVideo' = toVideo, NEW x, NEW y, Moved(x, y),
         Within(x, y, MaxX', MaxY'), PutcInv'
  PROVE  CursorInv'
  BY MovedCursors, Zenon DEF CursorInv

\* Where the cell of a cursor on the screen lies.
LEMMA CellOnScreen ==
  ASSUME NEW x, NEW y, OnScreen(x, y), NEW base \in Int
  PROVE  PageOf(base, x, y) = base
<1>1. x \in Int /\ y \in Nat /\ y <= NUM_ROWS - 1 /\ x <= NUM_COLS - 1
  BY ConsoleAssumption DEF OnScreen, Within
<1>2. \A b, c \in Nat : b <= c => NUM_COLS * b <= NUM_COLS * c
  BY ConsoleAssumption
<1>3. NUM_COLS * y <= NUM_COLS * (NUM_ROWS - 1)
  BY <1>1, <1>2, ConsoleAssumption
<1>4. NUM_COLS * (NUM_ROWS - 1) = NUM_COLS * NUM_ROWS - NUM_COLS
  BY ConsoleAssumption
<1>5. NUM_COLS * y \in Nat /\ (y >= 1 => NUM_COLS * y >= NUM_COLS)
      /\ NUM_COLS * NUM_ROWS \in Nat
  BY <1>1, ConsoleAssumption
<1>6. /\ NUM_COLS * y + x \in Int /\ 0 <= NUM_COLS * y + x
      /\ NUM_COLS * y + x < PageCells
  BY <1>1, <1>3, <1>4, <1>5, ConsoleAssumption DEF OnScreen, Within
<1>7. \A k \in Int : 0 <= k /\ k < PageCells => k \div PageCells = 0
  BY ConsoleAssumption
<1>8. (NUM_COLS * y + x) \div PageCells = 0
  BY <1>6, <1>7
<1>. QED BY <1>8 DEF PageOf

\* And where that of one past the last row or column does.
LEMMA CellNear ==
  ASSUME NEW x, NEW y, Within(x, y, NUM_COLS, NUM_ROWS)
  PROVE  PageOf(0, x, y) \in {0, 1}
<1>1. x \in Int /\ y \in Nat /\ y <= NUM_ROWS /\ x <= NUM_COLS
  BY ConsoleAssumption DEF Within
<1>2. \A b, c \in Nat : b <= c => NUM_COLS * b <= NUM_COLS * c
  BY ConsoleAssumption
<1>3. NUM_COLS * y <= NUM_COLS * NUM_ROWS /\ NUM_COLS * 2 <= NUM_COLS * NUM_ROWS
  BY <1>1, <1>2, ConsoleAssumption
<1>4. NUM_COLS * y \in Nat /\ (y >= 1 => NUM_COLS * y >= NUM_COLS)
      /\ NUM_COLS * NUM_ROWS \in Nat
  BY <1>1, ConsoleAssumption
<1>5. /\ NUM_COLS * y + x \in Int /\ 0 <= NUM_COLS * y + x
      /\ NUM_COLS * y + x < PageCells + PageCells
  BY <1>1, <1>3, <1>4, ConsoleAssumption DEF Within
<1>6. \A k \in Int : 0 <= k /\ k < PageCells => k \div PageCells = 0
  BY ConsoleAssumption
<1>7. \A k \in Int : PageCells <= k /\ k < PageCells + PageCells
                     => k \div PageCells = 1
  BY ConsoleAssumption
<1>8. (NUM_COLS * y + x) \div PageCells \in {0, 1}
  BY <1>5, <1>6, <1>7, ConsoleAssumption
<1>. QED BY <1>8 DEF PageOf

\* The store of a character goes to a mapped page, the one of its terminal.
LEMMA StorePage ==
  ASSUME CursorInv, pc = "loop"
  PROVE  /\ PageOf(WriteBase, X, Y) = WriteBase /\ Mapped(WriteBase)
<1>1. Within(X, Y, MaxX, MaxY)
  BY OwnCursor, Zenon DEF CursorInv
<1>2. MaxX = NUM_COLS - 1 /\ MaxY = NUM_ROWS - 1
  BY DEF MaxX, MaxY, PastLastColumn, PastLastRow
<1>3. OnScreen(X, Y)
  BY <1>1, <1>2, Zenon DEF OnScreen
<1>4. WriteBase \in 0 .. NUM_TERMINALS /\ WriteBase \in Int
  BY ConsoleAssumption DEF WriteBase, Terms
<1>. QED BY <1>3, <1>4, CellOnScreen DEF Mapped

\* The steps of putc and term_putc, one label after the other.
LEMMA WriteCursor ==
  ASSUME Inv, CursorInv,
         \/ WriteNext \/ LoadX \/ StoreX \/ TestX \/ LoadY \/ StoreY \/ NewlineX
         \/ TestY \/ LastY \/ WrapX
  PROVE  CursorInv'
<1>. USE DEF Goto
<1>0. /\ NUM_COLS \in Nat /\ NUM_ROWS \in Nat /\ NUM_COLS >= 2 /\ NUM_ROWS >= 2
      /\ loc \in Int
  BY ConsoleAssumption DEF Inv, Ranges
<1>a. Within(X, Y, MaxX, MaxY)
  BY OwnCursor, Zenon DEF CursorInv
<1>b. X \in Int /\ Y \in Int
  BY CursorType, Zenon
<1>c. newline \in BOOLEAN
  BY Zenon DEF Inv, Flags
<1>1. CASE WriteNext
  <2>1. pc = "loop"
    BY <1>1, Zenon DEF WriteNext
  <2>2. MaxX = NUM_COLS - 1 /\ MaxY = NUM_ROWS - 1
    BY <2>1, MaxType
  <2>3. UNCHANGED <<screen_x, screen_y, virtual_x, virtual_y>>
    BY <1>1, Zenon DEF WriteNext
  <2>4. Moved(X, Y)
    BY <2>3, Zenon DEF Moved, X, Y
  <2>5. CASE pc' = "user"
    <3>1. /\ OnScreen(screen_x, screen_y)
          /\ \A t \in Terms : OnScreen(virtual_x[t], virtual_y[t])
      BY <2>1, IdleCursors DEF CursorInv
    <3>2. pc' # "fault" /\ pc' \notin WriteLabels \ {"loop"}
      BY <2>5 DEF WriteLabels
    <3>. QED BY <2>3, <3>1, <3>2, IdleInv, Zenon
  <2>6. CASE newline' = TRUE /\ pc' = "loadY" /\ toVideo' = toVideo
    <3>1. ~ PastLastColumn' /\ ~ PastLastRow'
      BY <2>6 DEF PastLastColumn, PastLastRow
    <3>2. Within(X, Y, MaxX', MaxY')
      BY <1>a, <2>2, <3>1, Zenon DEF MaxX, MaxY
    <3>3. PutcInv'
      BY <2>6 DEF PutcInv
    <3>. QED BY <2>4, <2>6, <3>2, <3>3, PutcStep, Zenon
  <2>7. CASE newline' = FALSE /\ pc' = "loadX" /\ toVideo' = toVideo
    <3>1. ~ PastLastColumn' /\ ~ PastLastRow'
      BY <2>7 DEF PastLastColumn, PastLastRow
    <3>2. Within(X, Y, MaxX', MaxY')
      BY <1>a, <2>2, <3>1, Zenon DEF MaxX, MaxY
    <3>3. PutcInv'
      BY <2>7 DEF PutcInv
    <3>. QED BY <2>4, <2>7, <3>2, <3>3, PutcStep, Zenon
  <2>8. Mapped(PageOf(WriteBase, X, Y))
    BY <2>1, StorePage, Zenon
  <2>. QED BY <1>1, <2>5, <2>6, <2>7, <2>8, Zenon DEF WriteNext
<1>2. CASE LoadX
  <2>1. /\ pc = "loadX" /\ pc' = "storeX" /\ loc' = X /\ UNCHANGED screen
        /\ newline' = newline /\ toVideo' = toVideo
    BY <1>2, Zenon DEF LoadX, WriteKeeps
  <2>2. ~ PastLastColumn /\ ~ PastLastRow /\ ~ PastLastColumn' /\ ~ PastLastRow'
    BY <2>1 DEF PastLastColumn, PastLastRow
  <2>3. Within(X, Y, NUM_COLS - 1, NUM_ROWS - 1)
    BY <1>a, <2>2, Zenon DEF MaxX, MaxY
  <2>4. Within(X, Y, MaxX', MaxY')
    BY <2>2, <2>3, Zenon DEF MaxX, MaxY
  <2>5. loc' \in -1 .. NUM_COLS - 1
    BY <2>1, <2>3, Zenon DEF Within
  <2>6. ~ newline'
    <3>1. pc \in {"loadX", "storeX", "testX", "wrapX"}
      BY <2>1
    <3>. QED BY <2>1, <3>1, Zenon DEF CursorInv, PutcInv
  <2>7. PutcInv'
    BY <2>1, <2>5, <2>6 DEF PutcInv
  <2>. QED BY <2>1, <2>4, <2>7, MovedBy, PutcStep, Zenon
<1>3. CASE StoreX
  <2>1. /\ pc = "storeX" /\ pc' = "testX" /\ SetX(loc + 1)
        /\ newline' = newline /\ toVideo' = toVideo
    BY <1>3, Zenon DEF StoreX, WriteKeeps
  <2>2. ~ PastLastRow /\ PastLastColumn' /\ ~ PastLastRow'
    BY <2>1 DEF PastLastColumn, PastLastRow
  <2>3. loc \in -1 .. NUM_COLS - 1 /\ ~ newline
    <3>1. pc \in {"loadX", "storeX", "testX", "wrapX"}
      BY <2>1
    <3>. QED BY <2>1, <3>1, Zenon DEF CursorInv, PutcInv
  <2>4. Within(loc + 1, Y, NUM_COLS, NUM_ROWS - 1)
    <3>1. Y \in 0 .. NUM_ROWS - 1
      BY <1>a, <2>2, Zenon DEF Within, MaxY
    <3>. QED BY <1>0, <2>3, <3>1 DEF Within
  <2>5. Within(loc + 1, Y, MaxX', MaxY')
    BY <2>2, <2>4, Zenon DEF MaxX, MaxY
  <2>6. PutcInv'
    <3>1. ~ newline'
      BY <2>1, <2>3, Zenon
    <3>. QED BY <2>1, <3>1 DEF PutcInv
  <2>. QED BY <2>1, <2>5, <2>6, MovedBy, PutcStep, Zenon
<1>4. CASE TestX
  <2>1. /\ pc = "testX" /\ pc' = (IF X >= NUM_COLS THEN "loadY" ELSE "loop")
        /\ UNCHANGED screen /\ newline' = newline /\ toVideo' = toVideo
    BY <1>4, Zenon DEF TestX, WriteKeeps
  <2>2. PastLastColumn /\ ~ PastLastRow /\ ~ PastLastRow'
    BY <2>1 DEF PastLastColumn, PastLastRow
  <2>3. ~ newline /\ ~ newline'
    <3>1. pc \in {"loadX", "storeX", "testX", "wrapX"}
      BY <2>1
    <3>. QED BY <2>1, <3>1, Zenon DEF CursorInv, PutcInv
  <2>4. Within(X, Y, NUM_COLS, NUM_ROWS - 1)
    BY <1>a, <2>2, Zenon DEF MaxX, MaxY
  <2>5. Within(X, Y, MaxX', MaxY')
    <3>1. CASE X >= NUM_COLS
      <4>1. PastLastColumn'
        BY <2>1, <2>3, <3>1 DEF PastLastColumn
      <4>. QED BY <2>2, <2>4, <4>1, Zenon DEF MaxX, MaxY
    <3>2. CASE ~(X >= NUM_COLS)
      <4>1. ~ PastLastColumn'
        BY <2>1, <3>2 DEF PastLastColumn
      <4>2. Within(X, Y, NUM_COLS - 1, NUM_ROWS - 1)
        BY <1>0, <1>b, <2>4, <3>2 DEF Within
      <4>. QED BY <2>2, <4>1, <4>2, Zenon DEF MaxX, MaxY
    <3>. QED BY <3>1, <3>2
  <2>6. PutcInv'
    BY <2>1 DEF PutcInv
  <2>. QED BY <2>1, <2>5, <2>6, MovedBy, PutcStep, Zenon
<1>5. CASE LoadY
  <2>1. /\ pc = "loadY" /\ pc' = "storeY" /\ loc' = Y /\ UNCHANGED screen
        /\ newline' = newline /\ toVideo' = toVideo
    BY <1>5, Zenon DEF LoadY, WriteKeeps
  <2>2. ~ PastLastRow /\ ~ PastLastRow' /\ (PastLastColumn' <=> PastLastColumn)
    BY <2>1 DEF PastLastColumn, PastLastRow
  <2>3. Within(X, Y, MaxX', MaxY')
    BY <1>a, <2>2, Zenon DEF MaxX, MaxY
  <2>4. loc' \in 0 .. NUM_ROWS - 1
    BY <1>a, <2>1, <2>2, Zenon DEF Within, MaxY
  <2>5. PutcInv'
    BY <2>1, <2>4 DEF PutcInv
  <2>. QED BY <2>1, <2>3, <2>5, MovedBy, PutcStep, Zenon
<1>6. CASE StoreY
  <2>1. /\ pc = "storeY" /\ pc' = (IF newline THEN "newlineX" ELSE "testY")
        /\ SetY(loc + 1) /\ newline' = newline /\ toVideo' = toVideo
    BY <1>6, Zenon DEF StoreY, WriteKeeps
  <2>2. PastLastRow'
    BY <2>1 DEF PastLastRow
  <2>3. PastLastColumn' <=> PastLastColumn
    BY <1>c, <2>1 DEF PastLastColumn
  <2>4. loc + 1 \in 1 .. NUM_ROWS
    <3>1. loc \in 0 .. NUM_ROWS - 1
      BY <2>1, Zenon DEF CursorInv, PutcInv
    <3>. QED BY <1>0, <3>1
  <2>5. Within(X, loc + 1, MaxX', MaxY')
    <3>1. X \in -1 .. MaxX
      BY <1>a, Zenon DEF Within
    <3>2. MaxX' = MaxX /\ MaxY' = NUM_ROWS
      BY <2>2, <2>3, Zenon DEF MaxX, MaxY
    <3>. QED BY <1>0, <2>4, <3>1, <3>2 DEF Within
  <2>6. PutcInv'
    BY <1>c, <2>1 DEF PutcInv
  <2>. QED BY <2>1, <2>5, <2>6, MovedBy, PutcStep, Zenon
<1>7. CASE NewlineX
  <2>1. /\ pc = "newlineX" /\ pc' = "testY" /\ SetX(0)
        /\ newline' = newline /\ toVideo' = toVideo
    BY <1>7, Zenon DEF NewlineX, WriteKeeps
  <2>2. PastLastRow /\ PastLastRow'
    BY <2>1 DEF PastLastRow
  <2>3. Within(0, Y, MaxX', MaxY')
    <3>1. Y \in 0 .. NUM_ROWS
      BY <1>a, <2>2, Zenon DEF Within, MaxY
    <3>2. MaxY' = NUM_ROWS /\ MaxX' \in {NUM_COLS - 1, NUM_COLS}
      BY <2>2, Zenon DEF MaxX, MaxY
    <3>. QED BY <1>0, <3>1, <3>2 DEF Within
  <2>4. PutcInv'
    BY <2>1 DEF PutcInv
  <2>. QED BY <2>1, <2>3, <2>4, MovedBy, PutcStep, Zenon
<1>8. CASE TestY
  <2>1. /\ pc = "testY" /\ pc' = (IF Y >= NUM_ROWS THEN "lastY" ELSE EndOfLine)
        /\ UNCHANGED screen /\ newline' = newline /\ toVideo' = toVideo
    BY <1>8, Zenon DEF TestY, WriteKeeps
  <2>2. PastLastRow
    BY <2>1 DEF PastLastRow
  <2>3. PastLastColumn' <=> PastLastColumn
    BY <1>c, <2>1 DEF PastLastColumn, EndOfLine
  <2>4. MaxX' = MaxX /\ X \in -1 .. MaxX /\ Y \in 0 .. NUM_ROWS /\ (X = -1 => Y >= 1)
    BY <1>a, <2>2, <2>3, Zenon DEF MaxX, MaxY, Within
  <2>5. Within(X, Y, MaxX', MaxY')
    <3>1. CASE Y >= NUM_ROWS
      <4>1. PastLastRow'
        BY <2>1, <3>1 DEF PastLastRow
      <4>. QED BY <2>4, <4>1, Zenon DEF Within, MaxY
    <3>2. CASE ~(Y >= NUM_ROWS)
      <4>1. ~ PastLastRow'
        BY <2>1, <3>2 DEF PastLastRow, EndOfLine
      <4>2. Y \in 0 .. NUM_ROWS - 1
        BY <1>0, <1>b, <2>4, <3>2
      <4>. QED BY <2>4, <4>1, <4>2, Zenon DEF Within, MaxY
    <3>. QED BY <3>1, <3>2
  <2>6. PutcInv'
    BY <1>c, <2>1 DEF PutcInv, EndOfLine
  <2>. QED BY <2>1, <2>5, <2>6, MovedBy, PutcStep, Zenon
<1>9. CASE LastY
  <2>1. /\ pc = "lastY" /\ pc' = EndOfLine /\ SetY(NUM_ROWS - 1)
        /\ newline' = newline /\ toVideo' = toVideo
    BY <1>9, Zenon DEF LastY, WriteKeeps
  <2>2. ~ PastLastRow'
    BY <2>1 DEF PastLastRow, EndOfLine
  <2>3. PastLastColumn' <=> PastLastColumn
    BY <1>c, <2>1 DEF PastLastColumn, EndOfLine
  <2>4. Within(X, NUM_ROWS - 1, MaxX', MaxY')
    <3>1. X \in -1 .. MaxX
      BY <1>a, Zenon DEF Within
    <3>2. MaxX' = MaxX /\ MaxY' = NUM_ROWS - 1
      BY <2>2, <2>3, Zenon DEF MaxX, MaxY
    <3>. QED BY <1>0, <3>1, <3>2 DEF Within
  <2>5. PutcInv'
    BY <1>c, <2>1 DEF PutcInv, EndOfLine
  <2>. QED BY <2>1, <2>4, <2>5, MovedBy, PutcStep, Zenon
<1>10. CASE WrapX
  <2>1. /\ pc = "wrapX" /\ pc' = "loop" /\ SetX(0)
        /\ newline' = newline /\ toVideo' = toVideo
    BY <1>10, Zenon DEF WrapX, WriteKeeps
  <2>2. ~ PastLastRow /\ ~ PastLastRow' /\ ~ PastLastColumn'
    BY <2>1 DEF PastLastRow, PastLastColumn
  <2>3. Within(0, Y, MaxX', MaxY')
    <3>1. Y \in 0 .. NUM_ROWS - 1
      BY <1>a, <2>2, Zenon DEF Within, MaxY
    <3>2. MaxY' = NUM_ROWS - 1 /\ MaxX' = NUM_COLS - 1
      BY <2>2, Zenon DEF MaxX, MaxY
    <3>. QED BY <1>0, <3>1, <3>2 DEF Within
  <2>4. PutcInv'
    BY <2>1 DEF PutcInv
  <2>. QED BY <2>1, <2>3, <2>4, MovedBy, PutcStep, Zenon
<1>. QED
  BY <1>1, <1>2, <1>3, <1>4, <1>5, <1>6, <1>7, <1>8, <1>9, <1>10

----------------------------------------------------------------------------
(* The text on the pages. *)

\* term_write started in the branch of the displayed terminal or in the other,
\* and stays right while terminals are not switched.
LEMMA BranchStep ==
  ASSUME ~ SwitchInWrite PROVE BranchInv /\ [Next]_vars => BranchInv'
<1>. SUFFICES ASSUME BranchInv, [Next]_vars PROVE BranchInv'
  OBVIOUS
<1>1. CASE KeyPress
  <2>1. UNCHANGED <<pc, toVideo>>
    BY <1>1, Zenon DEF KeyPress, KeyChar, KeyL, KeyDead, KeyEnter, KeyBackspace,
         KeyF, AltMake, AltBreak, CtrlMake, CtrlBreak, Modifier, proc
  <2>2. display_terminal' = display_terminal \/ pc \notin WriteLabels
    BY <1>1, Zenon DEF KeyPress, KeyChar, KeyL, KeyDead, KeyEnter, KeyBackspace,
         KeyF, AltMake, AltBreak, CtrlMake, CtrlBreak, Modifier
  <2>. QED BY <2>1, <2>2, Zenon DEF BranchInv
<1>2. CASE \/ ReadCall \/ ReadWait \/ ReadTest \/ ReadLen \/ ReadCopy
           \/ ReadCount \/ ClearReady \/ ClearIndex
  <2>1. pc' \in {"user", "overrun"} \cup ReadLabels
    BY <1>2 DEF ReadCall, ReadWait, ReadTest, ReadLen, ReadCopy, ReadCount,
                ClearReady, ClearIndex, Goto, ReadLabels
  <2>2. pc' \notin WriteLabels
    BY <2>1 DEF ReadLabels, WriteLabels
  <2>. QED BY <2>2, Zenon DEF BranchInv
<1>3. CASE WriteCall
  BY <1>3, Zenon DEF WriteCall, BranchInv
<1>4. CASE WriteNext
  <2>1. pc = "loop" /\ (pc' = "user" \/ toVideo' = toVideo)
        /\ display_terminal' = display_terminal
    BY <1>4, Zenon DEF WriteNext, Goto
  <2>2. pc \in WriteLabels /\ (pc' = "user" => pc' \notin WriteLabels)
    BY <2>1 DEF WriteLabels
  <2>. QED BY <2>1, <2>2, Zenon DEF BranchInv
<1>5. CASE \/ LoadX \/ StoreX \/ TestX \/ LoadY \/ StoreY \/ NewlineX
           \/ TestY \/ LastY \/ WrapX
  <2>1. pc \in {"loadX", "storeX", "testX", "loadY", "storeY", "newlineX",
                "testY", "lastY", "wrapX"}
    BY <1>5 DEF LoadX, StoreX, TestX, LoadY, StoreY, NewlineX, TestY, LastY, WrapX
  <2>2. pc \in WriteLabels
    BY <2>1 DEF WriteLabels
  <2>3. UNCHANGED <<toVideo, display_terminal>>
    BY <1>5, Zenon DEF LoadX, StoreX, TestX, LoadY, StoreY, NewlineX, TestY,
                       LastY, WrapX, WriteKeeps
  <2>. QED BY <2>2, <2>3, Zenon DEF BranchInv
<1>6. CASE UNCHANGED vars
  <2>1. pc' = pc /\ toVideo' = toVideo /\ display_terminal' = display_terminal
    BY <1>6, Zenon DEF vars, proc
  <2>. QED BY <2>1, Zenon DEF BranchInv
<1>. QED BY <1>1, <1>2, <1>3, <1>4, <1>5, <1>6, Zenon DEF Next, ProcessStep

\* A character stored in its own terminal's place.
LEMMA PutText ==
  ASSUME Ranges, TextInPlace, display_terminal' = display_terminal,
         NEW t \in Terms, NEW p, p = t + 1 \/ (p = 0 /\ t = display_terminal),
         page' = Put(page, p, t)
  PROVE  TextInPlace'
<1>1. page \in [0 .. NUM_TERMINALS -> SUBSET Terms] /\ display_terminal \in Terms
      /\ Terms \subseteq Int /\ NUM_TERMINALS \in Nat
      /\ \A u \in Terms : u + 1 \in 0 .. NUM_TERMINALS /\ u + 1 # 0
  BY ConsoleAssumption DEF Ranges, Terms
<1>2. p \in 0 .. NUM_TERMINALS
  BY <1>1
<1>3. page' = [page EXCEPT ![p] = @ \cup {t}]
  BY <1>2 DEF Put, Mapped
<1>4. page'[0] \subseteq {display_terminal}
  BY <1>1, <1>2, <1>3 DEF TextInPlace
<1>5. ASSUME NEW u \in Terms \ {display_terminal} PROVE page'[u + 1] \subseteq {u}
  <2>1. CASE p = u + 1
    <3>1. t = u
      BY <1>1, <2>1
    <3>2. page'[u + 1] = page[u + 1] \cup {u}
      BY <1>1, <1>3, <2>1, <3>1
    <3>. QED BY <3>2, Zenon DEF TextInPlace
  <2>2. CASE p # u + 1
    <3>1. page'[u + 1] = page[u + 1]
      BY <1>1, <1>3, <2>2
    <3>. QED BY <3>1, Zenon DEF TextInPlace
  <2>. QED BY <2>1, <2>2
<1>. QED BY <1>4, <1>5 DEF TextInPlace

\* A switch brings each text to the page where it belongs.
LEMMA ChangeText ==
  ASSUME Ranges, TextInPlace, NEW f \in Terms, change_display_term(f)
  PROVE  TextInPlace'
<1>1. page \in [0 .. NUM_TERMINALS -> SUBSET Terms] /\ display_terminal \in Terms
      /\ Terms \subseteq Int /\ 0 \in 0 .. NUM_TERMINALS
      /\ \A u \in Terms : u + 1 \in 0 .. NUM_TERMINALS /\ u + 1 # 0
  BY ConsoleAssumption DEF Ranges, Terms
<1>. DEFINE saved == [page EXCEPT ![display_terminal + 1] = page[0]]
<1>2. page' = [saved EXCEPT ![0] = saved[f + 1]] /\ display_terminal' = f
  BY DEF change_display_term
<1>3. \A u \in Terms : saved[u + 1] \subseteq {u}
  <2>. SUFFICES ASSUME NEW u \in Terms PROVE saved[u + 1] \subseteq {u}
    OBVIOUS
  <2>1. CASE u = display_terminal
    <3>1. saved[u + 1] = page[0]
      BY <1>1, <2>1
    <3>. QED BY <2>1, <3>1 DEF TextInPlace
  <2>2. CASE u # display_terminal
    <3>1. u + 1 # display_terminal + 1
      BY <1>1, <2>2
    <3>2. saved[u + 1] = page[u + 1]
      BY <1>1, <3>1
    <3>. QED BY <2>2, <3>2 DEF TextInPlace
  <2>. QED BY <2>1, <2>2
<1>4. saved \in [0 .. NUM_TERMINALS -> SUBSET Terms]
  BY <1>1
<1>. HIDE DEF saved
<1>5. page'[0] = saved[f + 1] /\ \A u \in Terms : page'[u + 1] = saved[u + 1]
  BY <1>1, <1>2, <1>4
<1>. QED BY <1>2, <1>3, <1>5 DEF TextInPlace

\* The echo of a key lands below the screen only when the process was stopped
\* at the end of its last row, in the branch of the displayed terminal.
LEMMA EchoPage ==
  ASSUME Inv, CursorInv, BranchInv
  PROVE  \/ PageOf(0, screen_x, screen_y) = 0
         \/ PageOf(0, screen_x, screen_y) = 1 /\ display_terminal = ActiveTerm
<1>1. CASE OnScreen(screen_x, screen_y)
  BY <1>1, CellOnScreen
<1>2. CASE ~ OnScreen(screen_x, screen_y)
  <2>1. toVideo /\ Within(screen_x, screen_y, MaxX, MaxY)
    BY <1>2, Zenon DEF CursorInv, Cursors
  <2>2. pc \in WriteLabels
    <3>. SUFFICES ASSUME pc \notin WriteLabels PROVE FALSE
      OBVIOUS
    <3>1. MaxX = NUM_COLS - 1 /\ MaxY = NUM_ROWS - 1
      BY MaxType, Zenon
    <3>. QED BY <1>2, <2>1, <3>1, Zenon DEF OnScreen
  <2>3. display_terminal = ActiveTerm
    BY <2>1, <2>2, Zenon DEF BranchInv
  <2>4. Within(screen_x, screen_y, NUM_COLS, NUM_ROWS)
    <3>1. MaxX \in {NUM_COLS - 1, NUM_COLS} /\ MaxY \in {NUM_ROWS - 1, NUM_ROWS}
      BY MaxType, Zenon
    <3>2. Within(screen_x, screen_y, MaxX, MaxY)
      BY <2>1, Zenon
    <3>. HIDE DEF MaxX, MaxY
    <3>. QED BY <3>1, <3>2, ConsoleAssumption DEF Within
  <2>5. PageOf(0, screen_x, screen_y) \in {0, 1}
    BY <2>4, CellNear
  <2>. QED BY <2>3, <2>5
<1>. QED BY <1>1, <1>2

\* No step puts text on another terminal's page: keys store on the displayed
\* page or swap pages with the display, a write stores on its own.
LEMMA TextStep ==
  ASSUME ~ SwitchInWrite, ActiveTerm = 0
  PROVE  Inv /\ CursorInv /\ BranchInv /\ TextInPlace /\ [Next]_vars => TextInPlace'
<1>. SUFFICES ASSUME Inv, CursorInv, BranchInv, TextInPlace, [Next]_vars
              PROVE  TextInPlace'
  OBVIOUS
<1>0. UNCHANGED <<page, display_terminal>> => TextInPlace'
  BY Zenon DEF TextInPlace
<1>a. Ranges /\ display_terminal \in Terms
  BY Zenon DEF Inv, Ranges
<1>b. ASSUME TypeChar, display_terminal' = display_terminal PROVE TextInPlace'
  <2>1. CASE page' = page
    BY <1>0, <1>b, <2>1, Zenon
  <2>2. CASE page' = Put(page, PageOf(0, screen_x, screen_y), display_terminal)
    <3>1. \/ PageOf(0, screen_x, screen_y) = 0
          \/ PageOf(0, screen_x, screen_y) = display_terminal + 1
      BY EchoPage
    <3>. QED BY <1>a, <1>b, <2>2, <3>1, PutText, Zenon
  <2>. QED BY <1>b, <2>1, <2>2, Zenon DEF TypeChar, screen
<1>1. CASE KeyChar
  BY <1>b, <1>1, Zenon DEF KeyChar
<1>2. CASE KeyL
  <2>1. CASE page' = [page EXCEPT ![0] = {}]
    <3>1. display_terminal' = display_terminal
      BY <1>2, Zenon DEF KeyL
    <3>2. page \in [0 .. NUM_TERMINALS -> SUBSET Terms] /\ Terms \subseteq Int
          /\ \A u \in Terms : u + 1 \in 0 .. NUM_TERMINALS /\ u + 1 # 0
      BY <1>a, ConsoleAssumption DEF Ranges, Terms
    <3>3. page'[0] \subseteq {display_terminal}
      BY <2>1, <3>2, ConsoleAssumption
    <3>4. \A u \in Terms : page'[u + 1] = page[u + 1]
      BY <2>1, <3>2
    <3>. QED BY <3>1, <3>3, <3>4, Zenon DEF TextInPlace
  <2>. QED BY <1>b, <1>2, <2>1, Zenon DEF KeyL
<1>3. CASE KeyDead \/ KeyEnter \/ KeyBackspace \/ AltMake \/ AltBreak \/ CtrlMake
           \/ CtrlBreak
  BY <1>0, <1>3, Zenon DEF KeyDead, KeyEnter, KeyBackspace, AltMake, AltBreak,
     CtrlMake, CtrlBreak, Modifier, screen
<1>4. ASSUME NEW f \in FKeys, KeyF(f) PROVE TextInPlace'
  <2>1. CASE UNCHANGED <<page, display_terminal>>
    BY <1>0, <2>1
  <2>2. CASE f \in Terms /\ change_display_term(f)
    BY <1>a, <2>2, ChangeText
  <2>. QED BY <1>4, <2>1, <2>2, Zenon DEF KeyF, screen
<1>5. CASE \/ ReadCall \/ WriteCall \/ ReadWait \/ ReadTest \/ ReadLen \/ ReadCopy
           \/ ReadCount \/ ClearReady \/ ClearIndex
  BY <1>0, <1>5, Zenon DEF ReadCall, WriteCall, ReadWait, ReadTest, ReadLen,
     ReadCopy, ReadCount, ClearReady, ClearIndex, screen
<1>6. CASE WriteNext
  <2>1. pc = "loop" /\ display_terminal' = display_terminal
        /\ (page' = page \/ page' = Put(page, PageOf(WriteBase, X, Y), ActiveTerm))
    BY <1>6, Zenon DEF WriteNext
  <2>2. CASE page' = page
    BY <1>0, <2>1, <2>2, Zenon
  <2>3. CASE page' = Put(page, WriteBase, ActiveTerm)
    <3>1. pc \in WriteLabels
      BY <2>1 DEF WriteLabels
    <3>2. WriteBase = ActiveTerm + 1 \/ (WriteBase = 0 /\ ActiveTerm = display_terminal)
      BY <3>1, Zenon DEF WriteBase, BranchInv
    <3>3. ActiveTerm \in Terms
      BY ConsoleAssumption
    <3>. QED BY <1>a, <2>1, <2>3, <3>2, <3>3, PutText, Zenon
  <2>. QED BY <2>1, <2>2, <2>3, StorePage, Zenon
<1>7. CASE \/ LoadX \/ StoreX \/ TestX \/ LoadY \/ StoreY \/ NewlineX
           \/ TestY \/ LastY \/ WrapX
  BY <1>0, <1>7, Zenon DEF LoadX, StoreX, TestX, LoadY, StoreY, NewlineX, TestY,
     LastY, WrapX, WriteKeeps, SetX, SetY, screen
<1>8. CASE UNCHANGED vars
  BY <1>0, <1>8, Zenon DEF vars, screen
<1>. QED
  BY <1>1, <1>2, <1>3, <1>4, <1>5, <1>6, <1>7, <1>8, Zenon
  DEF Next, ProcessStep, KeyPress

----------------------------------------------------------------------------
\* Every step keeps the bounds of the cursors.
LEMMA CursorStep ==
  ASSUME ~ SwitchInWrite PROVE Inv /\ CursorInv /\ [Next]_vars => CursorInv'
<1>. SUFFICES ASSUME Inv, CursorInv, [Next]_vars PROVE CursorInv'
  OBVIOUS
<1>1. CASE KeyPress
  BY <1>1, KeysCursor
<1>2. CASE ReadCall \/ WriteCall \/ ProcessStep
  BY <1>2, ReadCursor, WriteCursor DEF ProcessStep
<1>3. CASE UNCHANGED vars
  <2>1. UNCHANGED <<virtual_x, virtual_y, screen_x, screen_y, proc>>
    BY <1>3, Zenon DEF vars, screen
  <2>. QED BY <2>1, KeyCursor, Zenon
<1>. QED BY <1>1, <1>2, <1>3, Zenon DEF Next

\* The boot state has the invariants of the screen.
LEMMA ScreenInit == Init => CursorInv /\ BranchInv /\ TextInPlace
<1>. SUFFICES ASSUME Init PROVE CursorInv /\ BranchInv /\ TextInPlace
  OBVIOUS
<1>1. /\ pc = "user" /\ screen_x = 0 /\ screen_y = 0
      /\ virtual_x = [t \in Terms |-> 0] /\ virtual_y = [t \in Terms |-> 0]
      /\ page = [p \in 0 .. NUM_TERMINALS |-> {}]
  BY Zenon DEF Init
<1>2. pc \notin WriteLabels /\ pc # "fault"
  BY <1>1 DEF WriteLabels
<1>3. OnScreen(0, 0)
  BY ConsoleAssumption DEF OnScreen, Within
<1>4. Cursors
  BY <1>1, <1>2, <1>3, MaxType, Zenon DEF Cursors, OnScreen
<1>5. PutcInv
  BY <1>1 DEF PutcInv
<1>6. TextInPlace
  <2>1. 0 \in 0 .. NUM_TERMINALS /\ \A u \in Terms : u + 1 \in 0 .. NUM_TERMINALS
    BY ConsoleAssumption DEF Terms
  <2>. QED BY <1>1, <2>1, Zenon DEF TextInPlace
<1>. QED BY <1>2, <1>4, <1>5, <1>6, Zenon DEF CursorInv, BranchInv

\* While terminals are not switched during a write, keys that are handled in
\* the middle of putc move the cursor off the screen by one column and one row
\* at most, and neither their echo nor the process's text goes outside the
\* mapped video pages: for every size of the screen, however long it runs.
THEOREM VideoTheorem == ASSUME ~ SwitchInWrite PROVE Spec => []VideoWritesMapped
<1>1. Spec => [](Inv /\ CursorInv /\ BranchInv)
  BY ScreenInit, CursorStep, BranchStep, ConsoleInvTheorem, PTL DEF Spec
<1>2. Inv /\ CursorInv /\ BranchInv => VideoWritesMapped
  <2>. SUFFICES ASSUME Inv, CursorInv, BranchInv PROVE VideoWritesMapped
    OBVIOUS
  <2>1. pc # "fault"
    BY Zenon DEF CursorInv, PutcInv
  <2>2. Mapped(PageOf(0, screen_x, screen_y))
    BY EchoPage, ConsoleAssumption DEF Mapped
  <2>3. \E maxX \in {NUM_COLS - 1, NUM_COLS}, maxY \in {NUM_ROWS - 1, NUM_ROWS} :
          Within(screen_x, screen_y, maxX, maxY)
    BY MaxType, Zenon DEF CursorInv, Cursors, OnScreen
  <2>4. screen_x \in -1 .. NUM_COLS /\ screen_y \in 0 .. NUM_ROWS
    BY <2>3, ConsoleAssumption DEF Within
  <2>. QED BY <2>1, <2>2, <2>4 DEF VideoWritesMapped
<1>. QED BY <1>1, <1>2, PTL

\* Every terminal shows its own text only, when terminals are not switched
\* during a write and the running process is one of terminal 0, as it always is
\* (TerminalsTheorem of ProcessRefinement): the cells below the screen lie in
\* terminal 0's backing page.
THEOREM TextTheorem ==
  ASSUME ~ SwitchInWrite, ActiveTerm = 0 PROVE Spec => []TextInPlace
<1>1. Spec => [](Inv /\ CursorInv /\ BranchInv /\ TextInPlace)
  BY ScreenInit, CursorStep, BranchStep, TextStep, ConsoleInvTheorem, PTL DEF Spec
<1>. QED BY <1>1, PTL
=============================================================================
