----------------------------- MODULE MCProcess -----------------------------
(***************************************************************************)
(* Files and commands for the model-checking runs of Process: two          *)
(* programs, with no argument, an argument and a trailing space, and one   *)
(* command for every way execute refuses one.                              *)
(***************************************************************************)
EXTENDS Process

MCWords == {"", "shell", "cat", "frame0", "broken", "nosuch"}

MCFileKind == [w \in MCWords |->
  CASE w \in {"shell", "cat"} -> "elf"
    [] w = "frame0"           -> "data"
    [] w = "broken"           -> "unreadable"
    [] OTHER                  -> "absent"]

MCWordLength == [w \in MCWords |->
  CASE w = ""                         -> 0
    [] w = "cat"                      -> 3
    [] w = "shell"                    -> 5
    [] OTHER                          -> 6]

MCCommands ==
  {<<p>> : p \in {"shell", "cat", "frame0", "broken", "nosuch", ""}}
  \cup {<<p, a>> : p \in {"shell", "cat"}, a \in {"", "frame0"}}
  \cup {<<"", "cat">>, <<"cat", "frame0", "frame0">>}

\* A negative size, none, and those on both sides of the argument's length.
MCBufferSizes == {-1, 0, 1, 6, 7}
=============================================================================
