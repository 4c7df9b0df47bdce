---------------------------- MODULE MCReadData -----------------------------
(***************************************************************************)
(* Files of every length up to three blocks of five bytes, scattered over  *)
(* the image, and one inode with a length beyond the limit; all strings of *)
(* up to three of two characters; printf with words of twelve bits around  *)
(* every change of sign and length, and formats of up to three characters. *)
(***************************************************************************)
EXTENDS Library, SequencesExt

MCInodes ==
  {[file_length |-> n, dblock_numbers |-> <<2, 0, 3>>] : n \in 0 .. 16}

MCStrings == SeqOf({1, 2}, 3)

Word(v) == [num |-> v, char |-> "c", str |-> <<"s", "t">>]

MCPrintCalls ==
  {[format |-> f, args |-> <<Word(v), Word(16)>>] :
     f \in {<<"%", "d">>, <<"%", "u">>, <<"%", "x">>, <<"%", "#", "x">>},
     v \in 0 .. 20 \cup {99, 100, 255, 256, 999, 1000, 2047, 2048, 2049,
                        3096, 3097, 4095}}
  \cup
  {[format |-> f, args |-> <<Word(v), Word(w)>>] :
     f \in SeqOf({"%", "#", "x", "d", "c", "s", "a"}, 3)
           \cup {<<"%", "d", "%", "#", "x">>, <<"%", "%", "x", "%", "u", "%", "s">>},
     v \in {0, 3000}, w \in {9, 2048}}
=============================================================================
