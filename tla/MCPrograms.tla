----------------------------- MODULE MCPrograms -----------------------------
(***************************************************************************)
(* A screen of three lines of two characters.  The frames are all files of *)
(* up to three bytes, one whose lines run into each other and past the end *)
(* of the screen and ask for more structures than there are, and one with  *)
(* two characters at the location that is removed.  grep has a buffer of   *)
(* four bytes, all texts of up to five, and over three letters longer ones.*)
(***************************************************************************)
EXTENDS Programs

MCFrames == SeqOf({" ", "a", "\n"}, 3)
            \cup {<<"a", "a", "a", "a", "a", "a", "\n", "a", "a">>,
                  <<" ", " ", " ", " ", "a", "\n", " ", " ", "b">>}

\* Room for all three, for two of them, and for none.
MCLeftoverSets == {{3, 6}, {2, 4, 5, 6}, 2 .. 7}

MCTexts == SeqOf({"a", "b", "\n", "NUL"}, 5)
           \cup SeqOf({"a", "\n", "NUL"}, 6) \cup SeqOf({"a", "b", "\n"}, 7)
MCPatterns == {<<"a">>, <<"a", "b">>}
MCStackBytes == {"a", "\n"}
=============================================================================
