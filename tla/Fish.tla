-------------------------------- MODULE Fish --------------------------------
(***************************************************************************)
(* The fish program (src/fish/fish.c): it reads two frames from files,     *)
(* makes a blinker of every position that is not blank in both, and then   *)
(* drives the blinkers from the real-time clock, adding, synchronising and *)
(* removing one on the way.                                                *)
(*                                                                         *)
(* The program runs alone on its mapped screen; what another process can   *)
(* do to it is in the modules of the kernel.  vidmap is given the address  *)
(* of a variable of the program, which lies in its page: it succeeds.      *)
(*                                                                         *)
(* Files and clock are opened, read and closed by descriptor number.  Some *)
(* numbers are in use before the program opens anything: the kernel does   *)
(* not clear the descriptors of a new process (module FileDescriptors).    *)
(***************************************************************************)
EXTENDS Blink, FiniteSetsExt

CONSTANTS Frames,        \* the contents a frame's file can have
          NoFile,        \* in place of the contents: there is no such file
          OPS_SIZE,      \* 8: descriptors of a process
          LeftoverSets,  \* the numbers that may be in use at the start
          OFFSET,        \* 40: the column where the frames are drawn
          WAIT,          \* 200 ticks
          FRAME_LENGTH,  \* 15 ticks on, 15 off
          ADD_LOCATION,  \* 6*80+60: where 'I' and 'M' blink
          ADD_ON,        \* 7 ticks on
          ADD_OFF        \* 6 ticks off

ASSUME FishAssumption ==
  /\ Frames \subseteq Seq(STRING)
  /\ OFFSET \in 1 .. CELLS - 1 /\ ADD_LOCATION \in 1 .. CELLS - 1
  /\ {WAIT, FRAME_LENGTH, ADD_ON, ADD_OFF} \subseteq Nat \ {0}
  /\ ADD_ON # FRAME_LENGTH
  /\ OPS_SIZE \in Nat /\ OPS_SIZE > 2

\* The location of a blinker is an unsigned short: a file has so few lines,
\* and so short ones, that no location is cut to 16 bits.
ASSUME LocationAssumption ==
  \A f, g \in Frames :
    Cardinality({k \in DOMAIN f : f[k] = "\n"}) * COLS + Len(g) + OFFSET < 2 ^ 16

\* RTC_REMOVE is not given the place of 'I' and 'M', and by then the frames
\* have changed at least once.
ASSUME ScreenAssumption ==
  /\ WAIT # ADD_LOCATION
  /\ FRAME_LENGTH <= 3 * WAIT

VARIABLES
  pc,        \* "open", "opened", "frames", "read", "tasklet", "done" or "halted"
  frame,     \* the contents of frame0.txt and frame1.txt
  ops,       \* what each descriptor from 2 on is open for, if anything
  fd,        \* rtc_fd, fd0 and fd1
  pos,       \* bytes of each file read so far
  c,         \* c0 and c1
  eof,       \* eof0 and eof1
  row, col,
  stage,     \* which of main's four loops runs, in 1 .. 4
  i,         \* the counter of that loop
  ebx        \* the structure the tasklet has reached

framesVars == <<frame, ops, fd, pos, c, eof, row, col>>
loopVars   == <<stage, i, ebx>>
vars == <<blinkVars, pc, framesVars, loopVars>>

File    == {"frame0", "frame1"}
Numbers == 2 .. OPS_SIZE - 1

Init ==
  /\ BlinkInit
  /\ pc = "open"
  /\ frame = [f \in File |-> NoFile]
  /\ ops = [n \in Numbers |-> "free"]
  /\ fd = [x \in File \cup {"rtc"} |-> -1]
  /\ pos = [f \in File |-> 0]
  /\ c = [f \in File |-> "0"]
  /\ eof = [f \in File |-> FALSE]
  /\ row = 0 /\ col = 0
  /\ stage = 1 /\ i = 0 /\ ebx = NULL

(***************************************************************************)
(* The opens of main and add_frames, each of which gets the lowest free    *)
(* number or -1.  main does not look at what the clock's gave; add_frames  *)
(* halts when one of its two fails, and the descriptors go with the        *)
(* process.                                                                *)
(***************************************************************************)
FreeNumbers(table) == {n \in Numbers : table[n] = "free"}
LowestFree(table)  == IF FreeNumbers(table) = {} THEN -1
                      ELSE Min(FreeNumbers(table))
Opened(table, x)   == LET lowest == LowestFree(table)
                      IN  [n \in Numbers |-> IF n = lowest THEN x ELSE table[n]]

OpenClock ==
  /\ pc = "open"
  /\ \E used \in LeftoverSets :
       LET given == [n \in Numbers |-> IF n \in used THEN "leftover" ELSE "free"]
       IN  /\ ops' = Opened(given, "rtc")
           /\ fd' = [fd EXCEPT !["rtc"] = LowestFree(given)]
  /\ pc' = "opened"
  /\ UNCHANGED <<blinkVars, frame, pos, c, eof, row, col, loopVars>>

OpenFrames ==
  LET fd0  == LowestFree(ops)
      ops0 == Opened(ops, "frame0")
      fd1  == LowestFree(ops0)
  IN  /\ pc = "opened"
      /\ frame' \in [File -> Frames \cup {NoFile}]
      /\ IF fd0 = -1 \/ fd1 = -1 \/ \E f \in File : frame'[f] = NoFile
         THEN /\ pc' = "halted"
              /\ UNCHANGED <<ops, fd>>
         ELSE /\ pc' = "frames"
              /\ ops' = Opened(ops0, "frame1")
              /\ fd' = [fd EXCEPT !["frame0"] = fd0, !["frame1"] = fd1]
      /\ UNCHANGED <<blinkVars, pos, c, eof, row, col, loopVars>>

(***************************************************************************)
(* add_frames.                                                             *)
(***************************************************************************)
\* One ece391_read of a byte, unless the line of that file is finished.
LineDone(f) == c[f] = "\n"
AtEnd(f)    == ~LineDone(f) /\ pos[f] = Len(frame[f])
NextChar(f) == IF LineDone(f) \/ AtEnd(f) THEN "\n" ELSE frame[f][pos[f] + 1]

ReadChars ==
  /\ pos' = [f \in File |-> IF LineDone(f) \/ AtEnd(f) THEN pos[f]
                            ELSE pos[f] + 1]
  /\ eof' = [f \in File |-> eof[f] \/ AtEnd(f)]

Location_Rows(r, k) == r * ROWS + k + OFFSET

Location(r, k) == r * COLS + k + OFFSET

\* The inner loop, while one of the lines goes on.
FrameCell ==
  LET char == [f \in File |-> NextChar(f)]
      Drawn(f) == IF char[f] = "\n" THEN " " ELSE char[f]
  IN  /\ pc = "frames"
      /\ \E f \in File : char[f] # "\n"
      /\ ReadChars
      /\ c' = char
      /\ col' = col + 1
      /\ IF \E f \in File : char[f] \notin {" ", "\n"}
         THEN mp1_ioctl_add(Location(row, col), Drawn("frame0"),
                            Drawn("frame1"), FRAME_LENGTH, FRAME_LENGTH)
         ELSE UNCHANGED blinkVars
      /\ UNCHANGED <<pc, frame, ops, fd, row, loopVars>>

\* What ece391_close leaves of the table, for a set of numbers; a number that
\* is not in use stays free.
Closed(numbers) == [n \in Numbers |-> IF n \in numbers THEN "free" ELSE ops[n]]

CloseEnded_Clock(ended) ==
  Closed({IF f = "frame1" THEN fd["rtc"] ELSE fd[f] : f \in ended})

CloseEnded(ended) == Closed({fd[f] : f \in ended})

\* Both lines are finished.  A file at its end is closed, again in every
\* further line of the other.
FrameRow ==
  /\ pc = "frames"
  /\ \A f \in File : NextChar(f) = "\n"
  /\ ReadChars
  /\ c' = [f \in File |-> IF eof'[f] THEN "\n" ELSE "0"]
  /\ ops' = CloseEnded({f \in File : eof'[f]})
  /\ row' = row + 1
  /\ col' = 0
  /\ pc' = IF \A f \in File : eof'[f] THEN "read" ELSE "frames"
  /\ UNCHANGED <<blinkVars, frame, fd, loopVars>>

(***************************************************************************)
(* The loops of main: every read of the clock returns at a tick, and the   *)
(* tasklet runs once for it.                                               *)
(***************************************************************************)
Ticks(s) == IF s = 4 THEN CELLS ELSE WAIT

ReadClock ==
  /\ pc = "read"
  /\ i < Ticks(stage)
  /\ pc' = "tasklet"
  /\ ebx' = mp1_list_head
  /\ UNCHANGED <<blinkVars, framesVars, stage, i>>

mp1_rtc_tasklet ==
  /\ pc = "tasklet"
  /\ ebx # NULL
  /\ tasklet_loop(ebx)
  /\ ebx' = blink_array[ebx].next
  /\ UNCHANGED <<pc, framesVars, stage, i>>

TaskletEnd ==
  /\ pc = "tasklet"
  /\ ebx = NULL
  /\ pc' = "read"
  /\ i' = i + 1
  /\ UNCHANGED <<blinkVars, framesVars, stage, ebx>>

\* What main does between its loops.  RTC_REMOVE is given the loop counter,
\* which is WAIT there.
Between ==
  /\ pc = "read"
  /\ i = Ticks(stage)
  /\ CASE stage = 1 -> mp1_ioctl_add(ADD_LOCATION, "I", "M", ADD_ON, ADD_OFF)
       [] stage = 2 -> mp1_ioctl_sync(OFFSET, ADD_LOCATION)
       [] stage = 3 -> mp1_ioctl_remove(i)
       [] stage = 4 -> UNCHANGED blinkVars
  /\ IF stage = 4
     THEN /\ pc' = "done"
          /\ ops' = Closed({fd["rtc"]})
          /\ UNCHANGED <<stage, i>>
     ELSE /\ stage' = stage + 1
          /\ i' = 0
          /\ UNCHANGED <<pc, ops>>
  /\ UNCHANGED <<frame, fd, pos, c, eof, row, col, ebx>>

Next ==
  \/ OpenClock \/ OpenFrames \/ FrameCell \/ FrameRow
  \/ ReadClock \/ mp1_rtc_tasklet \/ TaskletEnd \/ Between

(***************************************************************************)
(* Properties.                                                             *)
(***************************************************************************)
Chars == {" ", "\n", "0", "I", "M"} \cup
         UNION {Range(s) : s \in Frames}

\* The type invariant of the program and of its blinkers.
TypeOK ==
  /\ blink_array \in [Slots ->
       [location : 0 .. CELLS - 1, on_char : Chars, off_char : Chars,
        on_length : Nat, off_length : Nat, countdown : Nat,
        status : {0, 1}, next : Slots \cup {NULL}]]
  /\ mp1_list_head \in Slots \cup {NULL}
  /\ video \in [0 .. CELLS - 1 -> Chars]
  /\ pc \in {"open", "opened", "frames", "read", "tasklet", "done", "halted"}
  /\ ops \in [Numbers -> {"free", "leftover", "rtc"} \cup File]
  /\ fd \in [File \cup {"rtc"} -> Numbers \cup {-1}]
  /\ \A f \in File : c[f] \in Chars /\ eof[f] \in BOOLEAN
  /\ stage \in 1 .. 4 /\ i \in 0 .. Ticks(stage) /\ ebx \in Slots \cup {NULL}

\* The character of a file in a line and a column, both from 0; a blank
\* where the line is shorter or the file has no such line.
CharAt(file, line, column) ==
  LET newlines(k) == {j \in 1 .. k - 1 : file[j] = "\n"}
      at == {k \in DOMAIN file : /\ file[k] # "\n"
                                 /\ Cardinality(newlines(k)) = line
                                 /\ k - Max(newlines(k) \cup {0}) = column + 1}
  IN  IF at = {} THEN " " ELSE file[CHOOSE k \in at : TRUE]

\* The blinkers of two files, in the order of reading: one for each position
\* that is not blank in both and lies on the screen.
Drawing(file0, file1) ==
  LET n == Len(file0) + Len(file1) + 1
      At(p) == [location |-> ((p - 1) \div n) * COLS + ((p - 1) % n) + OFFSET,
                on_char  |-> CharAt(file0, (p - 1) \div n, (p - 1) % n),
                off_char |-> CharAt(file1, (p - 1) \div n, (p - 1) % n)]
  IN  SelectSeq([p \in 1 .. n * n |-> At(p)],
                LAMBDA b : /\ b.location < CELLS
                           /\ b.on_char # " " \/ b.off_char # " ")

\* add_frames, which reads the two files in step, one byte of each at a time,
\* and waits at the end of the shorter line and of the shorter file, draws
\* what the files show line by line: the list holds the blinkers of Drawing,
\* the latest first, up to the size of the array.
FramesDrawn ==
  (pc = "read" /\ stage = 1 /\ i = 0) =>
    LET wanted == Drawing(frame["frame0"], frame["frame1"])
        kept   == SubSeq(wanted, 1, Min({Len(wanted), CELLS}))
    IN  [k \in DOMAIN BlinkList |->
           LET b == blink_array[BlinkList[k]]
           IN  [location |-> b.location, on_char |-> b.on_char,
                off_char |-> b.off_char]] = Reverse(kept)

\* The ticks since the program began to wait for them.
Elapsed == (stage - 1) * WAIT + i

\* The status and the countdown after t ticks of a blinker that started on.
Phase(on, off, t) ==
  LET r == t % (on + off)
  IN  IF r < on THEN <<1, on - r>> ELSE <<0, on + off - r>>

\* Between two tasklets every blinker is exactly as far in its period as the
\* ticks since it was added say, however the list was edited meanwhile; the
\* one that RTC_SYNC adjusted keeps time with the frames.
BlinksOnTime ==
  pc \in {"read", "done"} =>
    \A s \in Range(BlinkList) :
      LET b == blink_array[s]
          t == IF b.on_length = FRAME_LENGTH THEN Elapsed ELSE Elapsed - WAIT
      IN  <<b.status, b.countdown>> = Phase(b.on_length, b.off_length, t)

\* The screen shows a blinker's character for its status at every location
\* with one blinker, at every step of the tasklet too; the one that RTC_SYNC
\* adjusted may show its OFF_CHAR instead.
ScreenFollows ==
  \A s \in Range(BlinkList) :
    LET b == blink_array[s]
    IN  (\A t \in Range(BlinkList) \ {s} : blink_array[t].location # b.location)
        => \/ video[b.location] = IF b.status = 1 THEN b.on_char ELSE b.off_char
           \/ /\ stage >= 3 /\ b.location = ADD_LOCATION
              /\ video[b.location] = b.off_char

\* add_frames closes fd0 and fd1 at the end of their files, and again in every
\* further line of the other file, when the number is no longer its own.  No
\* close takes what is still in use: a file is open under its number until its
\* end has been read, the clock at every read of it.  Nothing stays open: both
\* files are closed when the clock is first read, and at the end the table
\* holds only what was left over at the start.
ClockStaysOpen ==
  /\ pc = "frames" => \A f \in File : eof[f] \/ ops[fd[f]] = f
  /\ pc \in {"frames", "read", "tasklet"} => ops[fd["rtc"]] = "rtc"
  /\ pc \in {"read", "tasklet"} => \A n \in Numbers : ops[n] \notin File
  /\ pc = "done" => \A n \in Numbers : ops[n] \in {"free", "leftover"}

\* The program ends, whatever the frames are: reading them ends, and no
\* edit of the list makes the tasklet's walk a cycle.
FishEnds == pc = "frames" ~> pc = "done"
=============================================================================
