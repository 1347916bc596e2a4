----------------------------- MODULE Workspace -----------------------------
(***************************************************************************)
(* What the arena of FOCAL holds for its user: the lines of a program, by  *)
(* number, and strings, by name (focal.s STORE, DOSET, ERASE; README       *)
(* "FOCAL").  A line is filed in place of the one with its number, or does *)
(* not fit, and then the old one is gone too.                              *)
(***************************************************************************)
EXTENDS Sequences

CONSTANTS Keys, Vars

VARIABLES
  program,     \* the lines there are: a function on their numbers
  strings      \* what each name holds, empty when it has not been set

workspace == <<program, strings>>

WorkInit == program = << >> /\ strings = [v \in Vars |-> << >>]

File(k, body) ==
  /\ program' = [j \in DOMAIN program \cup {k} |-> IF j = k THEN body ELSE program[j]]
  /\ UNCHANGED strings

Drop(k) ==
  /\ program' = [j \in DOMAIN program \ {k} |-> program[j]]
  /\ UNCHANGED strings

Assign(v, s) ==
  /\ strings' = [strings EXCEPT ![v] = s]
  /\ UNCHANGED program

Copy(v, w) == Assign(v, strings[w])

Forget ==
  /\ strings' = [v \in Vars |-> << >>]
  /\ UNCHANGED program
=============================================================================
