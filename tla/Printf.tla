------------------------------- MODULE Printf -------------------------------
(***************************************************************************)
(* printf of lib.c with itoa, strrev and puts: the scan of the format, the *)
(* conversion of a number digit by digit into a local buffer from its low  *)
(* end, the reversal in place, and the padding of %#x in front of it.      *)
(*                                                                         *)
(* A word of the argument list is a number in 0 .. UINT - 1, and the       *)
(* character or the string a %c or %s takes it for.                        *)
(***************************************************************************)
EXTENDS Integers, Sequences, FiniteSetsExt

CONSTANTS UINT,         \* 2^32
          HEX_DIGITS,   \* 8: hexadecimal digits of a word
          PrintCalls    \* the calls: [format, args]

ASSUME PrintfAssumption == HEX_DIGITS \in Nat \ {0} /\ UINT = 16 ^ HEX_DIGITS

VARIABLES
  at,         \* where printf is
  job,        \* the call: its format and its arguments
  pos,        \* buf: position in the format, from 1
  esp,        \* the next argument
  alternate,
  conv_buf,   \* by index
  base,       \* index of the number in conv_buf
  value,      \* newval
  newbuf,     \* index of the next digit; then the right end of strrev
  beg,        \* left end of strrev
  screen      \* the characters given to putc

printfVars == <<at, job, pos, esp, alternate, conv_buf, base, value, newbuf,
                beg, screen>>

lookup == <<"0", "1", "2", "3", "4", "5", "6", "7", "8", "9",
            "A", "B", "C", "D", "E", "F">>
NUL == "NUL"
NoJob == [format |-> <<>>, args |-> <<>>]

ConvBuf == 0 .. 4 * HEX_DIGITS + 1
EmptyBuf == [k \in ConvBuf |-> "?"]

Radix(spec) == IF spec = "x" THEN 16 ELSE 10
Fmt(k) == job.format[k]

PrintfInit ==
  /\ at = "idle" /\ job = NoJob /\ pos = 1 /\ esp = 1 /\ alternate = FALSE
  /\ conv_buf = EmptyBuf /\ base = 0 /\ value = 0 /\ newbuf = 0 /\ beg = 0
  /\ screen = <<>>

printf(call) ==
  /\ at' = "format"
  /\ job' = call
  /\ UNCHANGED <<pos, esp, alternate, conv_buf, base, value, newbuf, beg, screen>>

\* The loop over the format, outside a conversion.
FormatChar ==
  /\ at = "format"
  /\ pos <= Len(job.format)
  /\ IF Fmt(pos) = "%"
     THEN at' = "spec" /\ alternate' = FALSE /\ UNCHANGED screen
     ELSE screen' = Append(screen, Fmt(pos)) /\ UNCHANGED <<at, alternate>>
  /\ pos' = pos + 1
  /\ UNCHANGED <<job, esp, conv_buf, base, value, newbuf, beg>>

FormatEnd ==
  /\ at = "format"
  /\ pos > Len(job.format)
  /\ at' = "printed"
  /\ UNCHANGED <<job, pos, esp, alternate, conv_buf, base, value, newbuf, beg,
                 screen>>

\* The format ends inside a conversion: printf steps over the terminator and
\* prints what lies behind it.  No format of the kernel is like that.
SpecMissing ==
  /\ at = "spec"
  /\ pos > Len(job.format)
  /\ at' = "beyond"
  /\ UNCHANGED <<job, pos, esp, alternate, conv_buf, base, value, newbuf, beg,
                 screen>>

\* A conversion without a number: %%, %#, %c, %s and what is not one.
SpecText ==
  /\ at = "spec"
  /\ pos <= Len(job.format)
  /\ Fmt(pos) \notin {"x", "u", "d"}
  /\ screen' = screen \o
       (CASE Fmt(pos) = "%" -> <<"%">>
          [] Fmt(pos) = "c" -> <<job.args[esp].char>>
          [] Fmt(pos) = "s" -> job.args[esp].str
          [] OTHER           -> <<>>)
  /\ esp' = IF Fmt(pos) \in {"c", "s"} THEN esp + 1 ELSE esp
  /\ IF Fmt(pos) = "#" THEN alternate' = TRUE /\ UNCHANGED at
                        ELSE at' = "format" /\ UNCHANGED alternate
  /\ pos' = pos + 1
  /\ UNCHANGED <<job, conv_buf, base, value, newbuf, beg>>

IsNegative(v) == v >= UINT \div 2

\* The call of itoa, with the sign of %d stored and the room for the zeros
\* of %#x left in front.
SpecNumber ==
  LET v == job.args[esp].num
      minus == Fmt(pos) = "d" /\ IsNegative(v)
  IN  /\ at = "spec"
      /\ pos <= Len(job.format)
      /\ Fmt(pos) \in {"x", "u", "d"}
      /\ base' = CASE minus                        -> 1
                   [] Fmt(pos) = "x" /\ alternate -> HEX_DIGITS
                   [] OTHER                        -> 0
      /\ conv_buf' = IF minus THEN [EmptyBuf EXCEPT ![0] = "-"] ELSE EmptyBuf
      /\ value' = IF minus THEN UINT - v ELSE v
      /\ newbuf' = base'
      /\ at' = "itoa"
      /\ UNCHANGED <<job, pos, esp, alternate, beg, screen>>

\* The special case for zero.
itoa_zero ==
  /\ at = "itoa"
  /\ value = 0 /\ newbuf = base
  /\ conv_buf' = [conv_buf EXCEPT ![base] = "0", ![base + 1] = NUL]
  /\ at' = "puts"
  /\ UNCHANGED <<job, pos, esp, alternate, base, value, newbuf, beg, screen>>

\* One digit, the lowest of what is left.
itoa_digit ==
  /\ at = "itoa"
  /\ value > 0
  /\ conv_buf' = [conv_buf EXCEPT ![newbuf] =
                    lookup[(value % Radix(Fmt(pos))) + 1]]
  /\ newbuf' = newbuf + 1
  /\ value' = value \div Radix(Fmt(pos))
  /\ UNCHANGED <<at, job, pos, esp, alternate, base, beg, screen>>

itoa_end ==
  /\ at = "itoa"
  /\ value = 0 /\ newbuf > base
  /\ conv_buf' = [conv_buf EXCEPT ![newbuf] = NUL]
  /\ beg' = base /\ newbuf' = newbuf - 1
  /\ at' = "strrev"
  /\ UNCHANGED <<job, pos, esp, alternate, base, value, screen>>

RevMore_Short(b, e) == b < e - 1
RevMore(b, e) == b < e

\* One exchange of strrev, or its end.
strrev ==
  /\ at = "strrev"
  /\ IF RevMore(beg, newbuf)
     THEN /\ conv_buf' = [conv_buf EXCEPT ![beg] = conv_buf[newbuf],
                                          ![newbuf] = conv_buf[beg]]
          /\ beg' = beg + 1 /\ newbuf' = newbuf - 1
          /\ UNCHANGED at
     ELSE /\ at' = "puts"
          /\ UNCHANGED <<conv_buf, beg, newbuf>>
  /\ UNCHANGED <<job, pos, esp, alternate, base, value, screen>>

\* The characters of a buffer from an index up to the terminator.
puts(b, from) ==
  LET end == Min({k \in ConvBuf : k >= from /\ b[k] = NUL})
  IN  [k \in 1 .. end - from |-> b[from + k - 1]]

\* The zeros of %#x stand before the digits: strlen(&conv_buf[8]) is where
\* they start.
Puts ==
  LET padded == Fmt(pos) = "x" /\ alternate
      start  == IF padded THEN Len(puts(conv_buf, base)) ELSE 0
      filled == [k \in ConvBuf |-> IF padded /\ k \in start .. HEX_DIGITS - 1
                                   THEN "0" ELSE conv_buf[k]]
  IN  /\ at = "puts"
      /\ screen' = screen \o puts(filled, start)
      /\ at' = "format"
      /\ esp' = esp + 1
      /\ pos' = pos + 1
      /\ conv_buf' = EmptyBuf
      /\ base' = 0 /\ value' = 0 /\ newbuf' = 0 /\ beg' = 0
      /\ UNCHANGED <<job, alternate>>

PrintfReturn ==
  /\ at \in {"printed", "beyond"}
  /\ at' = "idle" /\ job' = NoJob /\ pos' = 1 /\ esp' = 1 /\ alternate' = FALSE
  /\ screen' = <<>>
  /\ UNCHANGED <<conv_buf, base, value, newbuf, beg>>

PrintfStep ==
  \/ FormatChar \/ FormatEnd \/ SpecMissing \/ SpecText \/ SpecNumber
  \/ itoa_zero \/ itoa_digit \/ itoa_end \/ strrev \/ Puts \/ PrintfReturn

----------------------------------------------------------------------------
(* Properties *)

\* A number in positional notation with n digits, and with no more than it
\* needs.
Digits(v, radix, n) ==
  [k \in 1 .. n |-> lookup[((v \div radix ^ (n - k)) % radix) + 1]]

Numeral(v, radix) ==
  Digits(v, radix, Min({n \in 1 .. 2 * HEX_DIGITS : v < radix ^ n}))

\* What a format prints with its arguments, by the table of lib.c.
Printed(format, args) ==
  LET n == Len(format)
      Last(k) == Min({e \in k + 1 .. n : format[e] # "#"})
      Conversion(s, alt, word) ==
        CASE s = "x" -> IF alt THEN Digits(word.num, 16, HEX_DIGITS)
                        ELSE Numeral(word.num, 16)
          [] s = "u" -> Numeral(word.num, 10)
          [] s = "d" -> IF IsNegative(word.num)
                        THEN <<"-">> \o Numeral(UINT - word.num, 10)
                        ELSE Numeral(word.num, 10)
          [] s = "c" -> <<word.char>>
          [] s = "s" -> word.str
      text[k \in 1 .. n + 1, a \in 1 .. n + 1] ==
        IF k > n THEN <<>>
        ELSE IF format[k] # "%" THEN <<format[k]>> \o text[k + 1, a]
        ELSE LET e == Last(k)
                 s == format[e]
             IN  IF s \in {"x", "u", "d", "c", "s"}
                 THEN Conversion(s, e > k + 1, args[a]) \o text[e + 1, a + 1]
                 ELSE (IF s = "%" THEN <<"%">> ELSE <<>>) \o text[e + 1, a]
  IN  text[1, 1]

(***************************************************************************)
(* printf prints every conversion as its table says, with the argument     *)
(* that belongs to it: all digits, in order, the sign of a negative number *)
(* down to the most negative one, eight digits for %#x, and no argument    *)
(* used twice or skipped by %%, %# or an unknown conversion.               *)
(***************************************************************************)
PrintsRight == at = "printed" => screen = Printed(job.format, job.args)
=============================================================================
