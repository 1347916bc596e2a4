----------------------------- MODULE MCKeyboard -----------------------------
(* A queue of four slots and seven characters: it fills, holds a keystroke *)
(* and wraps around.                                                       *)
EXTENDS Keyboard

=============================================================================
