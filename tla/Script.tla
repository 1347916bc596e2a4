------------------------------- MODULE Script -------------------------------
(***************************************************************************)
(* What a FOCAL program means, command by command: the order in which its  *)
(* commands are done and how the line typed at the prompt ends.  Written   *)
(* from the commands' own promises, with no text pointer, no stack and no  *)
(* flags; Flow has to arrive at the same order.                            *)
(***************************************************************************)
EXTENDS Flow

\* What running a piece of program comes to: the commands done, and the way
\* it ends.
Ran(ids, how) == [ids |-> ids, how |-> how]
Then(first, second) == [second EXCEPT !.ids = first.ids \o @]
Goto(n) == [k |-> "goto", to |-> n]
Plainly(k) == [k |-> k, to |-> 0]
Next     == Plainly("next")
Finished == Plainly("end")

RECURSIVE Rest(_, _, _), Each(_, _), Times(_, _, _, _), From(_, _)

\* The commands of a line from the j-th on.
Rest(s, line, j) ==
  IF j > Len(line[2]) THEN Ran(<< >>, Next)
  ELSE
    LET c == line[2][j]
        after == Rest(s, line, j + 1)
        LineAt(n) == s[CHOOSE k \in DOMAIN s : s[k][1] = n]
        Exists(n) == \E k \in DOMAIN s : s[k][1] = n
        Jump(n) == IF Exists(n) THEN Ran(<< >>, Goto(n)) ELSE Ran(<< >>, Plainly("error"))
        \* A DO ends with its lines, however the last of them ended.
        Called(r) == IF r.how.k \in {"error", "quit"} THEN r ELSE Then(r, after)
        Group(g) == SelectSeq(s, LAMBDA l : l[1] >= g /\ l[1] <= g + 999)
    IN CASE c.op = "x"      -> Then(Ran(<< <<line[1], j>> >>, Next), after)
         [] c.op = "fail"   -> Ran(<< >>, Plainly("error"))
         [] c.op = "goto"   -> Jump(c.to)
         [] c.op = "if"     -> IF c.arm > Len(c.targets) THEN after ELSE Jump(c.targets[c.arm])
         [] c.op = "do"     -> IF Exists(c.to) THEN Called(Rest(s, LineAt(c.to), 1))
                               ELSE Ran(<< >>, Plainly("error"))
         [] c.op = "group"  -> IF Group(c.to) = << >> THEN Ran(<< >>, Plainly("error"))
                               ELSE Called(Each(s, Group(c.to)))
         [] c.op = "return" -> Ran(<< >>, Plainly("return"))
         [] c.op = "quit"   -> Ran(<< >>, Plainly("quit"))
         [] c.op = "for"    -> Times(s, line, j + 1, c.limit)

\* The lines of a group in order; only RETURN leaves it early.
Each(s, lines) ==
  IF lines = << >> THEN Ran(<< >>, Next)
  ELSE LET first == Rest(s, Head(lines), 1)
       IN  IF first.how.k \in {"return", "error", "quit"} THEN first
           ELSE Then(first, Each(s, Tail(lines)))

\* The rest of a line n times, and then the next line.
Times(s, line, j, n) ==
  IF n = 0 THEN Ran(<< >>, Next)
  ELSE LET first == Rest(s, line, j)
       IN  IF first.how.k = "next" THEN Then(first, Times(s, line, j, n - 1)) ELSE first

\* The program from its k-th line on.
From(s, k) ==
  IF k > Len(s) THEN Ran(<< >>, Finished)
  ELSE LET r == Rest(s, s[k], 1)
       IN  CASE r.how.k = "goto" -> Then(r, From(s, CHOOSE i \in DOMAIN s : s[i][1] = r.how.to))
             [] r.how.k \in {"error", "quit"} -> r
             [] OTHER -> Then(r, From(s, k + 1))

\* A line typed at the prompt; a GOTO starts the program.  QUIT stops the
\* machine only when it was typed.
FromPrompt(s, line) ==
  LET r == Rest(s, <<0, line>>, 1)
  IN  IF r.how.k = "goto" THEN Then(r, From(s, CHOOSE i \in DOMAIN s : s[i][1] = r.how.to))
      ELSE r
Meaning == IF batch THEN From(stored, 1) ELSE FromPrompt(stored, typed)
TypedQuit ==
  /\ ~batch
  /\ LET r == Rest(stored, <<0, typed>>, 1) IN r.how.k = "quit"

-----------------------------------------------------------------------------
(* Properties.                                                             *)

\* A line ends with the commands done that it asked for, in that order, each
\* as often as it asked: DO comes back to the statement after it, a group runs
\* its lines once each, RETURN leaves the innermost DO, FOR repeats the rest of
\* its line; and the machine stops only for a QUIT that was typed, or in a
\* batch image.  After control C it is a beginning of them.
RunsAsWritten ==
  (\/ at = "CMDL" /\ prompts > 0
   \/ at = "STOP") /\ ~strayed =>
     IF broken THEN IsPrefix(done, Meaning.ids)
     ELSE done = Meaning.ids /\ (at = "STOP" => batch \/ TypedQuit)

\* Every line typed ends.
Ends == at \notin {"CMDL", "STOP"} ~> at \in {"CMDL", "STOP", "LOST"}
=============================================================================
