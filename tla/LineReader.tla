----------------------------- MODULE LineReader -----------------------------
(***************************************************************************)
(* What a program that reads a line from the keyboard may think of: a line *)
(* grows by the keys typed and shrinks by the ones erased from when the    *)
(* program asks until Enter, and is then given to the program as it is.    *)
(***************************************************************************)
EXTENDS Naturals, Sequences

CONSTANTS
  Chars,
  Limit   \* lines of this length and more are not given whole

VARIABLES
  state,    \* "idle", "reading", "done"
  line,
  given,    \* the line the program got last
  damaged   \* nothing is promised any more

vars == <<state, line, given, damaged>>

Init == state = "idle" /\ line = <<>> /\ given = <<>> /\ damaged = FALSE

Begin == state = "idle" /\ state' = "reading" /\ line' = <<>> /\ UNCHANGED given

Add == state = "reading" /\ (\E c \in Chars : line' = Append(line, c)) /\ UNCHANGED <<state, given>>

Erase == /\ state = "reading" /\ line # <<>>
         /\ line' = SubSeq(line, 1, Len(line) - 1)
         /\ UNCHANGED <<state, given>>

EndLine == state = "reading" /\ state' = "done" /\ UNCHANGED <<line, given>>

Take == /\ state = "done" /\ state' = "idle" /\ line' = <<>>
        /\ Len(line) < Limit => given' = line

(* The program has done with its line. *)
Forget == state = "idle" /\ given' = <<>> /\ UNCHANGED <<state, line>>

Next == \/ (Forget \/ Begin \/ Add \/ Erase \/ EndLine \/ Take) /\ UNCHANGED damaged
        \/ damaged'

(* Once Enter is pressed the program gets its line. *)
Spec == Init /\ [][Next]_vars /\ (state = "done" ~> state = "idle")
=============================================================================
