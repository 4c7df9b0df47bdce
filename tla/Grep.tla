-------------------------------- MODULE Grep --------------------------------
(***************************************************************************)
(* do_one_file of the program grep (src/syscalls/ece391grep.c): a file is  *)
(* read through a buffer of BUFSIZE bytes, the lines in it are searched,   *)
(* and the part of a line at its end is moved to the front to be completed *)
(* by the next read.                                                       *)
(*                                                                         *)
(* data has one byte more than is ever read into it, and begins as what    *)
(* was on the stack: one value of garbage in all bytes.  read gives less   *)
(* than it is asked for only at the end of the file (module ReadData), and *)
(* fails as open and close may.  The file is any of the directory, programs*)
(* included: NUL is a byte like the others to read, and ends a string.     *)
(***************************************************************************)
EXTENDS Integers, Sequences, SequencesExt, FiniteSetsExt

CONSTANTS BUFSIZE,       \* 1024
          Texts,         \* the contents of the file
          Patterns,      \* what is searched for
          StackBytes     \* what the buffer may hold before it is used

ASSUME GrepAssumption ==
  /\ BUFSIZE \in Nat /\ BUFSIZE > 1
  /\ \A s \in Patterns : s # <<>>

VARIABLES
  gpc,           \* "idle", "read", "line", "close", and how it returned:
                 \* "closed" for 0, "failed" for -1
  text, s,       \* the file and the pattern
  garbage,       \* what the buffer held
  file_pos,      \* of the open file
  data,          \* the buffer, by index
  last,          \* bytes in it
  line_start,
  cnt,           \* of the last read
  printed        \* the lines printed

grepVars == <<gpc, text, s, garbage, file_pos, data, last, line_start, cnt,
              printed>>

Ended == "NUL"

GrepInit ==
  /\ gpc = "idle"
  /\ text = <<>> /\ s = <<>> /\ garbage = Ended /\ file_pos = 0
  /\ data = [k \in 0 .. BUFSIZE |-> Ended]
  /\ last = 0 /\ line_start = 0 /\ cnt = 0 /\ printed = <<>>

OpenFile ==
  /\ gpc = "idle"
  /\ gpc' = "read"
  /\ text' \in Texts /\ s' \in Patterns /\ garbage' \in StackBytes
  /\ data' = [k \in 0 .. BUFSIZE |-> garbage']
  /\ UNCHANGED <<file_pos, last, line_start, cnt, printed>>

\* A call that returns -1 ends do_one_file with a message; after a read the
\* file is not closed, and main returns, which ends the program.
CallFails ==
  /\ gpc \in {"idle", "read", "close"}
  /\ gpc' = "failed"
  /\ UNCHANGED <<text, s, garbage, file_pos, data, last, line_start, cnt,
                 printed>>

CloseFile ==
  /\ gpc = "close"
  /\ gpc' = "closed"
  /\ UNCHANGED <<text, s, garbage, file_pos, data, last, line_start, cnt,
                 printed>>

ReadMore ==
  /\ gpc = "read"
  /\ cnt' = Min({BUFSIZE - last, Len(text) - file_pos})
  /\ data' = [k \in 0 .. BUFSIZE |-> IF k \in last .. last + cnt' - 1
                                     THEN text[file_pos + k - last + 1]
                                     ELSE data[k]]
  /\ file_pos' = file_pos + cnt'
  /\ last' = last + cnt'
  /\ line_start' = 0
  /\ gpc' = "line"
  /\ UNCHANGED <<text, s, garbage, printed>>

\* The end of the line: a newline, or the end of what has been read.
line_end == Min({k \in line_start .. last : k = last \/ data[k] = "\n"})

\* ece391_strcpy down to index 0, up to the first terminator.
MovedDown(buffer, from) ==
  LET stop == Min({k \in from .. BUFSIZE : buffer[k] = Ended})
  IN  [k \in 0 .. BUFSIZE |-> IF k <= stop - from THEN buffer[from + k]
                              ELSE buffer[k]]

Kept_All == last
Kept == last - line_start

\* The byte at line_end is looked at even when it was never read.
IncompleteLine == data[line_end] # "\n" /\ cnt # 0 /\ line_start # 0

MoveDown ==
  /\ gpc = "line"
  /\ IncompleteLine
  /\ data' = MovedDown([data EXCEPT ![line_end] = Ended], line_start)
  /\ last' = Kept
  /\ gpc' = "read"
  /\ UNCHANGED <<text, s, garbage, file_pos, line_start, cnt, printed>>

\* What ece391_fdputs writes: the bytes up to the first terminator.
CString(buffer, from) ==
  LET stop == Min({k \in from .. BUFSIZE : buffer[k] = Ended})
  IN  [k \in 1 .. stop - from |-> buffer[from + k - 1]]

\* The loop over check, which goes on past a terminator in the line: the
\* pattern is in the buffer at check, before line_end.
Found(buffer, from, to) ==
  \E check \in from .. to - Len(s) :
    \A k \in 1 .. Len(s) : buffer[check + k - 1] = s[k]

SearchLine ==
  LET cut  == [data EXCEPT ![line_end] = Ended]
      done == line_end + 1 >= last
  IN  /\ gpc = "line"
      /\ ~ IncompleteLine
      /\ data' = cut
      /\ printed' = IF Found(cut, line_start, line_end)
                    THEN Append(printed, CString(cut, line_start))
                    ELSE printed
      /\ line_start' = line_end + 1
      /\ last' = IF done THEN 0 ELSE last
      /\ gpc' = CASE ~ done            -> "line"
                  [] done /\ cnt # 0   -> "read"
                  [] done /\ cnt = 0   -> "close"
      /\ UNCHANGED <<text, s, garbage, file_pos, cnt>>

GrepNext ==
  \/ OpenFile \/ ReadMore \/ MoveDown \/ SearchLine
  \/ CloseFile \/ CallFails

----------------------------------------------------------------------------
\* The lines of a text, cut at its newlines.
Lines(t) ==
  LET starts == SelectSeq([k \in 1 .. Len(t) + 1 |-> k],
                          LAMBDA k : k = 1 \/ t[k - 1] = "\n")
      End(k) == Min({j \in k .. Len(t) : t[j] = "\n"} \cup {Len(t) + 1})
  IN  [n \in DOMAIN starts |-> SubSeq(t, starts[n], End(starts[n]) - 1)]

\* The part of a line that can be printed, and whether a pattern is in it.
Printable(line) ==
  SubSeq(line, 1, Min({k \in DOMAIN line : line[k] = Ended}
                      \cup {Len(line) + 1}) - 1)

HasPattern(line, pattern) ==
  \E k \in 1 .. Len(line) - Len(pattern) + 1 :
    SubSeq(line, k, k + Len(pattern) - 1) = pattern

(***************************************************************************)
(* However the reads cut the lines of a text, each line that contains the  *)
(* pattern is printed once, whole and in order, and no other, as long as   *)
(* no line is longer than the buffer and the byte behind it was not a      *)
(* newline left on the stack, which would pass for the end of a line that  *)
(* is not complete.  A line with a NUL byte is shown up to the first, and  *)
(* is sure to be printed only when the pattern is in that part: strcpy     *)
(* moves no more of it, so what is searched behind the NUL may be what an  *)
(* earlier line left in the buffer.  When a read fails, what was printed   *)
(* is what belongs to the first lines of the text.                         *)
(***************************************************************************)
GrepPrintsMatches ==
  LET lines  == Lines(text)
      sure   == {n \in DOMAIN lines : HasPattern(Printable(lines[n]), s)}
      unsure == {n \in DOMAIN lines : Ended \in Range(lines[n])} \ sure
      Output(chosen, upto) ==
        LET order == SelectSeq([n \in 1 .. upto |-> n], LAMBDA n : n \in chosen)
        IN  [k \in DOMAIN order |-> Printable(lines[order[k]])]
  IN  /\ gpc \in {"closed", "failed"} /\ garbage # "\n"
      /\ \A n \in DOMAIN lines : Len(lines[n]) <= BUFSIZE
      => \E found \in SUBSET unsure, upto \in 0 .. Len(lines) :
           /\ printed = Output(sure \cup found, upto)
           /\ gpc = "closed" => upto = Len(lines)
=============================================================================
