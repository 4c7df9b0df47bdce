------------------------------ MODULE Console ------------------------------
(***************************************************************************)
(* The keyboard and the three terminals: keyboard.c, terminal.c and the    *)
(* putc of lib.c.                                                          *)
(*                                                                         *)
(* Two actors share the buffers, the cursor and the video pages.  The      *)
(* keyboard interrupt handler runs to completion: interrupts are masked,   *)
(* and where it calls sti the end-of-interrupt has not been sent, so the   *)
(* controller holds back the lines below it.  The running process executes *)
(* term_read and term_write with interrupts enabled (handler_syscall calls *)
(* sti), so a key can be handled between any two of its accesses to a      *)
(* shared variable; the build does not optimise, so every mention of a     *)
(* variable is a load or a store of its own and x++ is a load and a store. *)
(* A handler that finds more scancodes waiting repeats its loop: that is   *)
(* several of the key actions below, one after the other.                  *)
(*                                                                         *)
(* Characters are abstracted to their owner, the terminal they were typed  *)
(* at or written for; a video page is the set of owners of the text it has *)
(* received.  Caps lock and shift choose between four key tables that have *)
(* their empty entries in the same places, and update_cursor only moves    *)
(* the blinking hardware cursor: neither changes the state below.          *)
(***************************************************************************)
EXTENDS Integers, FiniteSets

CONSTANTS
  NUM_TERMINALS, MAX_KB_BUF, NUM_COLS, NUM_ROWS,
  PageCells,       \* character cells of a 4KB page, some below the screen
  ActiveTerm,      \* pq_get_active_term(): the terminal of the running process
  Keys,            \* the keys the user presses
  SwitchInWrite,   \* whether the user may switch terminals during a write
  WORD,            \* 2^32
  ReadSizes,       \* nbytes of the calls of term_read
  WriteSizes       \* nbytes of the calls of term_write

Terms == 0 .. NUM_TERMINALS - 1
FKeys == 0 .. NUM_TERMINALS   \* F1, F2, ...; the last stands for F4 .. F10

ASSUME ConsoleAssumption ==
  /\ NUM_TERMINALS \in Nat \ {0} /\ ActiveTerm \in Terms
  /\ MAX_KB_BUF \in Nat /\ MAX_KB_BUF >= 2
  /\ NUM_COLS \in Nat /\ NUM_COLS >= 2
  /\ NUM_ROWS \in Nat /\ NUM_ROWS >= 2
  /\ PageCells \in Nat /\ PageCells >= NUM_COLS * NUM_ROWS
  /\ Keys \subseteq {"char", "l", "dead", "enter", "backspace", "alt", "ctrl", "F"}
  /\ SwitchInWrite \in BOOLEAN
  /\ WORD \in Nat /\ WORD > 2 * MAX_KB_BUF
  /\ \A n \in ReadSizes : n \in Int /\ 2 * n >= - WORD /\ 2 * n < WORD
  /\ WriteSizes \subseteq Int

VARIABLES
  display_terminal,
  screen_x, screen_y,        \* the cursor of the displayed terminal
  virtual_x, virtual_y,      \* the cursor of each terminal while not displayed
  page,                      \* 0: video memory, t + 1: terminal t's backing page
  kb_buf_index, ready_to_read,
  alt_on, ctrl_on,           \* the handler's modifier flags
  pc,                        \* where the running process is
  arg,                       \* nbytes, or the characters still to write
  loc,                       \* the process's register or local value
  newline,                   \* the character being written is a newline
  toVideo,                   \* the branch term_write took
  got                        \* term_read: the length of the copy, and the
                             \* number of bytes reported

screen == <<screen_x, screen_y, virtual_x, virtual_y, page>>
buffer == <<kb_buf_index, ready_to_read>>
flags == <<alt_on, ctrl_on>>
proc == <<pc, arg, loc, newline, toVideo, got>>
vars == <<display_terminal, screen, buffer, flags, proc>>

ReadLabels == {"wait", "test", "len", "copy", "count", "clearReady", "clearIndex"}
WriteLabels == {"loop", "loadX", "storeX", "testX", "loadY", "storeY", "newlineX",
                "testY", "lastY", "wrapX"}

----------------------------------------------------------------------------
(* Video memory. *)

(***************************************************************************)
(* The page a cell lies in, counted from page base.  Video memory and the  *)
(* backing pages follow one another; what lies around them is not mapped.  *)
(***************************************************************************)
PageOf(base, x, y) == base + (NUM_COLS * y + x) \div PageCells

Mapped(p) == p \in 0 .. NUM_TERMINALS

\* One character of owner t; a page that is not mapped is left to the caller.
Put(pages, p, t) == IF Mapped(p) THEN [pages EXCEPT ![p] = @ \cup {t}] ELSE pages

(***************************************************************************)
(* The cursor after putc, as the handler runs it: a newline or a character *)
(* in the last column starts a new line, scrolling at the bottom.          *)
(***************************************************************************)
NextLine(y) == IF y + 1 >= NUM_ROWS THEN NUM_ROWS - 1 ELSE y + 1

AfterNewline(c) == [x |-> 0, y |-> NextLine(c.y)]

AfterChar(c) ==
  IF c.x + 1 >= NUM_COLS THEN [x |-> 0, y |-> NextLine(c.y)]
                         ELSE [x |-> c.x + 1, y |-> c.y]

Cursor == [x |-> screen_x, y |-> screen_y]

SetCursor(c) == screen_x' = c.x /\ screen_y' = c.y

----------------------------------------------------------------------------
(* keyboard_handler *)

IndexAtEntry_NoReset == kb_buf_index

\* The state of the buffer index after the test at the top of the handler.
IndexAtEntry ==
  [kb_buf_index EXCEPT ![display_terminal] = IF @ = MAX_KB_BUF THEN 0 ELSE @]

\* A character key: dropped when the buffer has room for the newline only.
TypeChar ==
  LET index == IndexAtEntry
  IN  IF index[display_terminal] = MAX_KB_BUF - 1
      THEN /\ kb_buf_index' = index
           /\ UNCHANGED <<screen, ready_to_read>>
      ELSE /\ kb_buf_index' = [index EXCEPT ![display_terminal] = @ + 1]
           /\ page' = Put(page, PageOf(0, screen_x, screen_y), display_terminal)
           /\ SetCursor(AfterChar(Cursor))
           /\ UNCHANGED <<virtual_x, virtual_y, ready_to_read>>

KeyChar ==
  /\ "char" \in Keys
  /\ TypeChar
  /\ UNCHANGED <<display_terminal, flags, proc>>

\* The L key clears the screen with ctrl down, and is a character without.
KeyL ==
  /\ "l" \in Keys
  /\ IF ctrl_on
     THEN /\ kb_buf_index' = IndexAtEntry
          /\ SetCursor([x |-> 0, y |-> 0])
          /\ page' = [page EXCEPT ![0] = {}]
          /\ UNCHANGED <<virtual_x, virtual_y, ready_to_read>>
     ELSE TypeChar
  /\ UNCHANGED <<display_terminal, flags, proc>>

\* A key without a character in the tables.
KeyDead ==
  /\ "dead" \in Keys
  /\ kb_buf_index' = IndexAtEntry
  /\ UNCHANGED <<display_terminal, screen, ready_to_read, flags, proc>>

KeyEnter_DropWhenFull ==
  /\ "enter" \in Keys
  /\ LET index == IndexAtEntry
     IN IF index[display_terminal] = MAX_KB_BUF - 1
        THEN kb_buf_index' = index /\ UNCHANGED <<screen_x, screen_y, ready_to_read>>
        ELSE /\ kb_buf_index' = [index EXCEPT ![display_terminal] = @ + 1]
             /\ SetCursor(AfterNewline(Cursor))
             /\ ready_to_read' = [ready_to_read EXCEPT ![display_terminal] = TRUE]
  /\ UNCHANGED <<display_terminal, virtual_x, virtual_y, page, flags, proc>>

KeyEnter ==
  /\ "enter" \in Keys
  /\ kb_buf_index' = [IndexAtEntry EXCEPT ![display_terminal] = @ + 1]
  /\ SetCursor(AfterNewline(Cursor))
  /\ ready_to_read' = [ready_to_read EXCEPT ![display_terminal] = TRUE]
  /\ UNCHANGED <<display_terminal, virtual_x, virtual_y, page, flags, proc>>

EraseIndex_NoGuard(i) == i - 1

EraseIndex(i) == IF i > 0 THEN i - 1 ELSE i

\* Steps back, puts a space, steps back again: a space in the last column
\* moves to the next line in between.
KeyBackspace ==
  /\ "backspace" \in Keys
  /\ LET index == IndexAtEntry
         after == AfterChar([x |-> screen_x - 1, y |-> screen_y])
     IN  IF screen_x > 0
         THEN /\ SetCursor([after EXCEPT !.x = @ - 1])
              /\ kb_buf_index' = [index EXCEPT ![display_terminal] =
                                    EraseIndex(@)]
         ELSE kb_buf_index' = index /\ UNCHANGED <<screen_x, screen_y>>
  /\ UNCHANGED <<display_terminal, virtual_x, virtual_y, page, ready_to_read,
                 flags, proc>>

change_display_term_LateSave(t) ==
  /\ display_terminal' = t
  /\ page' = [page EXCEPT ![t + 1] = page[0], ![0] = page[t + 1]]

\* change_display_term: video memory to the old page, the new page to video.
change_display_term(t) ==
  LET saved == [page EXCEPT ![display_terminal + 1] = page[0]]
  IN  /\ page' = [saved EXCEPT ![0] = saved[t + 1]]
      /\ display_terminal' = t

\* A function key: with alt the cursor is saved, F1 .. F3 change the display,
\* and the cursor of what is then displayed is restored.
KeyF(f) ==
  /\ "F" \in Keys
  /\ SwitchInWrite \/ pc \notin WriteLabels
  /\ kb_buf_index' = IndexAtEntry
  /\ IF alt_on
     THEN /\ virtual_x' = [virtual_x EXCEPT ![display_terminal] = screen_x]
          /\ virtual_y' = [virtual_y EXCEPT ![display_terminal] = screen_y]
          /\ IF f \in Terms THEN change_display_term(f)
                            ELSE UNCHANGED <<page, display_terminal>>
          /\ screen_x' = virtual_x'[display_terminal']
          /\ screen_y' = virtual_y'[display_terminal']
     ELSE UNCHANGED <<display_terminal, screen>>
  /\ UNCHANGED <<ready_to_read, flags, proc>>

Modifier(k, alt, ctrl) ==
  /\ k \in Keys
  /\ alt_on' = alt /\ ctrl_on' = ctrl
  /\ kb_buf_index' = IndexAtEntry
  /\ UNCHANGED <<display_terminal, screen, ready_to_read, proc>>

\* The break code of alt clears the flag of ctrl, and alt_on stays set.
AltMake   == Modifier("alt", TRUE, ctrl_on)
AltBreak  == Modifier("alt", alt_on, FALSE)
CtrlMake  == Modifier("ctrl", alt_on, TRUE)
CtrlBreak == Modifier("ctrl", alt_on, FALSE)

KeyPress ==
  \/ KeyChar \/ KeyL \/ KeyDead \/ KeyEnter \/ KeyBackspace
  \/ \E f \in FKeys : KeyF(f)
  \/ AltMake \/ AltBreak \/ CtrlMake \/ CtrlBreak

----------------------------------------------------------------------------
(* term_read *)

Goto(label) == pc' = label

NothingRead == [length |-> 0, count |-> 0]

\* read(0, buf, nbytes) from a user program; a null buffer returns at once.
ReadCall ==
  /\ pc = "user"
  /\ \E n \in ReadSizes : arg' = n
  /\ Goto("wait")
  /\ UNCHANGED <<display_terminal, screen, buffer, flags, loc, newline,
                 toVideo, got>>

\* while (!ready_to_read[display_terminal]) {}.  A comment of term_read says
\* "read from active buf"; the code reads the displayed terminal's, which may
\* be another one and may change between two of the steps below.
ReadWait ==
  /\ pc = "wait"
  /\ ready_to_read[display_terminal]
  /\ Goto("test")
  /\ UNCHANGED <<display_terminal, screen, buffer, flags, arg, loc, newline,
                 toVideo, got>>

\* An int passed for the uint32_t length of memcpy.
Unsigned(n) == IF n < 0 THEN n + WORD ELSE n

\* if (nbytes > kb_buf_index[display_terminal]) compares signed numbers: a
\* negative nbytes, which nothing refuses, is copied as one near 2^32, until
\* the copy runs into a page that is not mapped.
ReadTest ==
  /\ pc = "test"
  /\ IF arg > kb_buf_index[display_terminal]
     THEN Goto("len") /\ UNCHANGED <<got, loc>>
     ELSE /\ Goto(IF arg < 0 THEN "overrun" ELSE "clearReady")
          /\ loc' = 0
          /\ got' = [length |-> Unsigned(arg), count |-> 0]
  /\ UNCHANGED <<display_terminal, screen, buffer, flags, arg, newline, toVideo>>

\* memcpy(buf, kb_buf[display_terminal], kb_buf_index[display_terminal]):
\* the length is evaluated first, then the source.
ReadLen ==
  /\ pc = "len"
  /\ loc' = kb_buf_index[display_terminal]
  /\ Goto("copy")
  /\ UNCHANGED <<display_terminal, screen, buffer, flags, arg, newline, toVideo,
                 got>>

ReadCopy ==
  /\ pc = "copy"
  /\ got' = [length |-> loc, count |-> 0]
  /\ Goto("count")
  /\ loc' = 0
  /\ UNCHANGED <<display_terminal, screen, buffer, flags, arg, newline, toVideo>>

\* num_bytes_read; the rest of the caller's buffer is then zeroed.
ReadCount ==
  /\ pc = "count"
  /\ got' = [got EXCEPT !.count = kb_buf_index[display_terminal]]
  /\ Goto("clearReady")
  /\ UNCHANGED <<display_terminal, screen, buffer, flags, arg, loc, newline,
                 toVideo>>

\* clear_keyboard_buf: both fields of every terminal, one after the other.
ClearReady ==
  /\ pc = "clearReady"
  /\ ready_to_read' = [ready_to_read EXCEPT ![loc] = FALSE]
  /\ Goto("clearIndex")
  /\ UNCHANGED <<display_terminal, screen, kb_buf_index, flags, arg, loc,
                 newline, toVideo, got>>

ClearIndex ==
  /\ pc = "clearIndex"
  /\ kb_buf_index' = [kb_buf_index EXCEPT ![loc] = 0]
  /\ IF loc + 1 < NUM_TERMINALS
     THEN loc' = loc + 1 /\ Goto("clearReady") /\ UNCHANGED <<arg, got>>
     ELSE loc' = 0 /\ Goto("user") /\ arg' = 0
          /\ got' = NothingRead
  /\ UNCHANGED <<display_terminal, screen, ready_to_read, flags, newline,
                 toVideo>>

----------------------------------------------------------------------------
(* term_write *)

WriteCall ==
  /\ pc = "user"
  /\ \E n \in WriteSizes : arg' = n
  /\ toVideo' = (ActiveTerm = display_terminal)
  /\ Goto("loop")
  /\ UNCHANGED <<display_terminal, screen, buffer, flags, loc, newline, got>>

\* putc works on the screen's cursor, term_putc on the active terminal's.
X == IF toVideo THEN screen_x ELSE virtual_x[ActiveTerm]
Y == IF toVideo THEN screen_y ELSE virtual_y[ActiveTerm]

SetX(v) ==
  /\ IF toVideo
     THEN screen_x' = v /\ UNCHANGED virtual_x
     ELSE virtual_x' = [virtual_x EXCEPT ![ActiveTerm] = v] /\ UNCHANGED screen_x
  /\ UNCHANGED <<screen_y, virtual_y, page>>

SetY(v) ==
  /\ IF toVideo
     THEN screen_y' = v /\ UNCHANGED virtual_y
     ELSE virtual_y' = [virtual_y EXCEPT ![ActiveTerm] = v] /\ UNCHANGED screen_y
  /\ UNCHANGED <<screen_x, virtual_x, page>>

WriteBase == IF toVideo THEN 0 ELSE ActiveTerm + 1

(***************************************************************************)
(* One character of the loop: the store to the page, then x++, then the    *)
(* end of the line.  A newline starts with y++.                            *)
(***************************************************************************)
WriteNext ==
  /\ pc = "loop"
  /\ IF arg <= 0
     THEN Goto("user") /\ toVideo' = TRUE /\ newline' = FALSE
          /\ UNCHANGED <<arg, page>>
     ELSE /\ arg' = arg - 1
          /\ UNCHANGED toVideo
          /\ \/ newline' = TRUE /\ Goto("loadY") /\ UNCHANGED page
             \/ /\ newline' = FALSE
                /\ LET p == PageOf(WriteBase, X, Y)
                   IN  /\ Goto(IF Mapped(p) THEN "loadX" ELSE "fault")
                       /\ page' = Put(page, p, ActiveTerm)
  /\ UNCHANGED <<display_terminal, screen_x, screen_y, virtual_x, virtual_y,
                 buffer, flags, loc, got>>

WriteKeeps == UNCHANGED <<display_terminal, buffer, flags, arg, newline,
                          toVideo, got>>

LoadX ==
  /\ pc = "loadX" /\ loc' = X /\ Goto("storeX")
  /\ UNCHANGED screen /\ WriteKeeps

StoreX ==
  /\ pc = "storeX" /\ SetX(loc + 1) /\ loc' = 0 /\ Goto("testX")
  /\ WriteKeeps

TestX ==
  /\ pc = "testX" /\ Goto(IF X >= NUM_COLS THEN "loadY" ELSE "loop")
  /\ UNCHANGED <<screen, loc>> /\ WriteKeeps

LoadY ==
  /\ pc = "loadY" /\ loc' = Y /\ Goto("storeY")
  /\ UNCHANGED screen /\ WriteKeeps

StoreY ==
  /\ pc = "storeY" /\ SetY(loc + 1) /\ loc' = 0
  /\ Goto(IF newline THEN "newlineX" ELSE "testY")
  /\ WriteKeeps

NewlineX ==
  /\ pc = "newlineX" /\ SetX(0) /\ Goto("testY")
  /\ UNCHANGED loc /\ WriteKeeps

EndOfLine == IF newline THEN "loop" ELSE "wrapX"

TestY_Off ==
  /\ pc = "testY" /\ Goto(IF Y > NUM_ROWS THEN "lastY" ELSE EndOfLine)
  /\ UNCHANGED <<screen, loc>> /\ WriteKeeps

TestY ==
  /\ pc = "testY" /\ Goto(IF Y >= NUM_ROWS THEN "lastY" ELSE EndOfLine)
  /\ UNCHANGED <<screen, loc>> /\ WriteKeeps

\* scroll_down moves text within its page; then the last row.
LastY ==
  /\ pc = "lastY" /\ SetY(NUM_ROWS - 1) /\ Goto(EndOfLine)
  /\ UNCHANGED loc /\ WriteKeeps

WrapX ==
  /\ pc = "wrapX" /\ SetX(0) /\ Goto("loop")
  /\ UNCHANGED loc /\ WriteKeeps

ProcessStep ==
  \/ ReadWait \/ ReadTest \/ ReadLen \/ ReadCopy \/ ReadCount
  \/ ClearReady \/ ClearIndex
  \/ WriteNext \/ LoadX \/ StoreX \/ TestX \/ LoadY \/ StoreY \/ NewlineX
  \/ TestY \/ LastY \/ WrapX

----------------------------------------------------------------------------
\* After term_open at boot.
Init ==
  /\ display_terminal = 0
  /\ screen_x = 0 /\ screen_y = 0
  /\ virtual_x = [t \in Terms |-> 0] /\ virtual_y = [t \in Terms |-> 0]
  /\ page = [p \in 0 .. NUM_TERMINALS |-> {}]
  /\ kb_buf_index = [t \in Terms |-> 0]
  /\ ready_to_read = [t \in Terms |-> FALSE]
  /\ alt_on = FALSE /\ ctrl_on = FALSE
  /\ pc = "user" /\ arg = 0 /\ loc = 0 /\ newline = FALSE /\ toVideo = TRUE
  /\ got = NothingRead

Next == KeyPress \/ ReadCall \/ WriteCall \/ ProcessStep

Spec == Init /\ [][Next]_vars

(***************************************************************************)
(* The processor keeps executing the running process between interrupts,   *)
(* and the user keeps pressing enter.                                      *)
(***************************************************************************)
FairSpec == Spec /\ WF_vars(ProcessStep) /\ WF_vars(KeyEnter)

----------------------------------------------------------------------------
(* Properties *)

\* Types; no buffer index falls below zero.
TypeOK ==
  /\ display_terminal \in Terms
  /\ screen_x \in Int /\ screen_y \in Int
  /\ virtual_x \in [Terms -> Int] /\ virtual_y \in [Terms -> Int]
  /\ page \in [0 .. NUM_TERMINALS -> SUBSET Terms]
  /\ kb_buf_index \in [Terms -> Nat]
  /\ ready_to_read \in [Terms -> BOOLEAN]
  /\ alt_on \in BOOLEAN /\ ctrl_on \in BOOLEAN
  /\ pc \in {"user", "fault", "overrun"} \cup ReadLabels \cup WriteLabels
  /\ arg \in Int /\ loc \in Int
  /\ newline \in BOOLEAN /\ toVideo \in BOOLEAN
  /\ got \in [length : Nat, count : Nat]

(***************************************************************************)
(* No access goes outside kb_buf[t], unless a program asks for a negative  *)
(* number of bytes.  The handler stores at kb_buf_index[t]: the index      *)
(* reaches MAX_KB_BUF when enter is pressed on a full line, stays there    *)
(* while another terminal is displayed or a read clears the fields one by  *)
(* one, and is brought back before the next store.  term_read copies from  *)
(* one terminal's buffer with a length it may have loaded when another one *)
(* was displayed; the only copy longer than the buffer is the one for a    *)
(* negative nbytes.                                                        *)
(***************************************************************************)
KbBufInBounds ==
  /\ \A t \in Terms : kb_buf_index[t] \in 0 .. MAX_KB_BUF
  /\ IndexAtEntry[display_terminal] < MAX_KB_BUF
  /\ got.length > MAX_KB_BUF <=> pc = "overrun"
  /\ pc = "overrun" => arg < 0

(***************************************************************************)
(* A process may be stopped in the middle of putc with the cursor past the *)
(* last column or row, where a key is then echoed or erased.  Still, when  *)
(* terminals are not switched during a write, no character is stored       *)
(* outside the mapped video pages, which would stop the machine with a     *)
(* page fault, and the error in the cursor does not add up over time.      *)
(***************************************************************************)
VideoWritesMapped ==
  /\ pc # "fault"
  /\ Mapped(PageOf(0, screen_x, screen_y))
  /\ screen_x \in -1 .. NUM_COLS /\ screen_y \in 0 .. NUM_ROWS

(***************************************************************************)
(* Text is shown only where it belongs: video memory holds text of the     *)
(* displayed terminal and each backing page text of its own.  This is what *)
(* switching terminals promises; it holds when terminals are not switched  *)
(* in the middle of a term_write.                                          *)
(***************************************************************************)
TextInPlace ==
  /\ page[0] \subseteq {display_terminal}
  /\ \A t \in Terms \ {display_terminal} : page[t + 1] \subseteq {t}

(***************************************************************************)
(* Once the user stays on one terminal and keeps pressing enter, every     *)
(* system call on the terminal returns, whatever fills the buffer, unless  *)
(* it is the read of a negative number of bytes.                           *)
(***************************************************************************)
CallsReturn ==
  \A t \in Terms :
    <>[](display_terminal = t) => []<>(pc \in {"user", "overrun"})
=============================================================================
