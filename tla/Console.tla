------------------------------ MODULE Console ------------------------------
(***************************************************************************)
(* What a console promises: the unbuffered one, reference in model.py.     *)
(*                                                                         *)
(* Characters are asked for and shown, each once and in the order they     *)
(* were asked for.  When a character is shown is left open, so a console   *)
(* that keeps some back for a while is one too.                            *)
(***************************************************************************)
EXTENDS Integers, Sequences

CONSTANTS
  Cols, Rows,    \* the screen (32 by 16)
  Chars,         \* what may be asked for
  Space, NL      \* the blank, which is no character, and the newline

VARIABLES
  cells,         \* the screen
  row, place,    \* the row being written, the cell the next character goes to
  asked, shown   \* the characters asked for, and how many of them are shown

consoleVars == <<cells, row, place, asked, shown>>

Cells   == 0 .. Rows * Cols - 1
LastRow == Rows - 1
Blanked(scr, r) == [k \in Cells |-> IF k \div Cols = r THEN Space ELSE scr[k]]

\* Every row moves up by one and the last keeps what it held.
Scrolled(scr) == [k \in Cells |-> IF k + Cols \in Cells THEN scr[k + Cols] ELSE scr[k]]

ConsoleInit ==
  /\ cells = [k \in Cells |-> Space]
  /\ row = 0 /\ place = 0
  /\ asked = << >> /\ shown = 0

Ask(c) == asked' = Append(asked, c) /\ UNCHANGED <<cells, row, place, shown>>

Glyph(c) ==
  /\ c # NL
  /\ cells' = [cells EXCEPT ![place] = c]
  /\ place' = place + 1
  /\ UNCHANGED row

NewLine(c) ==
  /\ c = NL
  /\ IF row < LastRow
     THEN row' = row + 1 /\ UNCHANGED cells
     ELSE cells' = Blanked(Scrolled(cells), LastRow) /\ UNCHANGED row
  /\ place' = Cols * row'

Show ==
  /\ shown < Len(asked)
  /\ Glyph(asked[shown + 1]) \/ NewLine(asked[shown + 1])
  /\ shown' = shown + 1
  /\ UNCHANGED asked

ConsoleNext == Show \/ \E c \in Chars : Ask(c)

ConsoleSpec == ConsoleInit /\ [][ConsoleNext]_consoleVars
=============================================================================
