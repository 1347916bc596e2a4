----------------------------- MODULE MCTerminal -----------------------------
(* Two rows of three, a scroll of three timer units, one keystroke with    *)
(* control and one with shift.                                             *)
EXTENDS Terminal

MCKeystrokes == {<< <<99, 2>>, <<97, 1>>, <<97, 0>> >>}
=============================================================================
