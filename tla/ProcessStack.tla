---------------------------- MODULE ProcessStack ----------------------------
(***************************************************************************)
(* What execute, halt and getargs promise to user programs: the processes  *)
(* form a stack.  The top one runs.  execute puts a program on top, in the *)
(* terminal of the one that started it; halt takes the top one away and    *)
(* the one below continues as it was left; getargs gives the top one the   *)
(* argument it was started with.  At the bottom is one shell for each      *)
(* terminal, put there by the boot code.                                   *)
(***************************************************************************)
EXTENDS Integers, Sequences

CONSTANTS MAX_PROCESSES, NUM_TERMINALS, Words, EmptyWord, Shell

VARIABLES
  stack,   \* the processes, the running one last
  state,   \* "booting", "running", or "stopped" for good
  got      \* the argument a program was last given

vars == <<stack, state, got>>

Process == [program : Words, argument : Words, terminal : Int]

Init == stack = << >> /\ state = "booting" /\ got = EmptyWord

Boot ==
  /\ state = "booting"
  /\ stack' = Append(stack, [program  |-> Shell,
                             argument |-> EmptyWord,
                             terminal |-> NUM_TERMINALS - Len(stack) - 1])
  /\ state' = IF Len(stack) + 1 < NUM_TERMINALS THEN "booting" ELSE "running"
  /\ UNCHANGED got

Start(program, argument) ==
  /\ state = "running"
  /\ Len(stack) < MAX_PROCESSES
  /\ stack' = Append(stack, [program  |-> program,
                             argument |-> argument,
                             terminal |-> stack[Len(stack)].terminal])
  /\ UNCHANGED <<state, got>>

\* The program on top exits; one that ruined its stack takes the machine along.
Exit ==
  /\ state = "running"
  /\ Len(stack) > NUM_TERMINALS
  /\ stack' = SubSeq(stack, 1, Len(stack) - 1)
  /\ state' \in {"running", "stopped"}
  /\ UNCHANGED got

\* A primary shell exits: nothing runs any more.
ExitPrimary ==
  /\ state = "running"
  /\ Len(stack) = NUM_TERMINALS
  /\ state' = "stopped"
  /\ UNCHANGED <<stack, got>>

\* A program asks for its argument and has one: it gets its own.
GetArgument ==
  /\ state = "running"
  /\ stack[Len(stack)].argument # EmptyWord
  /\ got' = stack[Len(stack)].argument
  /\ UNCHANGED <<stack, state>>

\* It asks with a negative size: the machine stops.
Overrun ==
  /\ state = "running"
  /\ stack[Len(stack)].argument # EmptyWord
  /\ state' = "stopped"
  /\ UNCHANGED <<stack, got>>

Next ==
  \/ Boot
  \/ \E program, argument \in Words : Start(program, argument)
  \/ Exit
  \/ ExitPrimary
  \/ GetArgument
  \/ Overrun

Spec == Init /\ [][Next]_vars
=============================================================================
