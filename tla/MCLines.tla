------------------------------ MODULE MCLines ------------------------------
(* Every line of up to four tokens, with a number in front and without;     *)
(* every condition of up to six tokens, its parentheses in any order, in    *)
(* and out of quotes and across semicolons; and lines of one or two         *)
(* statements with the longest of what COMP counts: nested parentheses,     *)
(* three line numbers and one more, a quoted semicolon.                     *)
EXTENDS Lines

Other == Char("other")
GO    == Letters("GOTO", 2, FALSE)
G     == Letters("GOTO", 1, TRUE)
DO    == Letters("DO", 2, FALSE)
COND  == Letters("IF", 2, FALSE)
TYPE  == Letters("TYPE", 4, FALSE)
XY    == Letters("none", 2, FALSE)
Two   == Num(<<2>>, << >>)
TwoPt == Num(<<2>>, <<0>>)
Small == Num(<<1, 2>>, <<0, 5>>)
Zero  == Num(<<0>>, <<1>>)
Wide  == Num(<<0, 0, 2>>, << >>)    \* 002

Alphabet == {SPC, Other, QUOTE, SEMI, LPAR, RPAR, GO, G, DO, COND, Two, TwoPt, Small}
\* Two numbers, or two runs of letters, would be one.
Lexed(s) == \A i \in 1 .. Len(s) - 1 : s[i].t \in {"num", "word"} => s[i + 1].t # s[i].t

Statements ==
  {<<COND, SPC, LPAR, LPAR, Two, RPAR, Other, Small, RPAR, Small, Other, Two, Other, Small, Other, Two>>,
   <<COND, LPAR, Other, RPAR, SPC, Small, Other, Zero>>,
   <<TYPE, SPC, QUOTE, Two, SEMI, Small, QUOTE, Other, Two>>,
   <<COND, Other, RPAR, LPAR, Other, RPAR, Small>>, <<DO, SPC, Wide>>,
   <<G, SPC, Small, Other, Two>>, <<SPC, DO, SPC, TwoPt>>, <<DO, Two>>, <<XY, SPC, Two>>}

Conditions == {s \in BoundedSeq({LPAR, RPAR, Two, SEMI, QUOTE}, 6) : Lexed(s)}

MCTypedLines ==
  {s \in BoundedSeq(Alphabet, 4) : Lexed(s)}
    \cup {<<COND>> \o c : c \in Conditions}
    \cup {<<n, SPC>> \o a \o t : n \in {Two, Small}, a \in Statements,
                                 t \in {<< >>} \cup {<<SEMI>> \o b : b \in Statements}}
=============================================================================
