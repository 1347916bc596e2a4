------------------------------- MODULE MCFlow -------------------------------
(* Two groups, two lines and one.  A line jumps only forward, so that every *)
(* program ends; between them the programs hold every command before and    *)
(* after every other.                                                       *)
EXTENDS Script

X == [op |-> "x"]
FAIL == [op |-> "fail"]
RET == [op |-> "return"]
QUIT == [op |-> "quit"]
GO(n) == [op |-> "goto", to |-> n]
DOL(n) == [op |-> "do", to |-> n]
DOG(n) == [op |-> "group", to |-> n]
IFA(arm, targets) == [op |-> "if", arm |-> arm, targets |-> targets]
FOR(n) == [op |-> "for", limit |-> n]

Leaf   == {X, RET, QUIT}
Second == {DOL(2010), DOG(2000), GO(2010), IFA(2, <<2010>>)}
First  == {DOL(1020), GO(1020), GO(1030), DOG(3000), IFA(2, <<2010, 1020, 2010>>)}

Line3 == {<<X>>, <<X, RET, X>>, <<QUIT>>, <<FOR(2), X>>}
Line2 == {<<c, X>> : c \in Leaf \cup Second} \cup {<<FOR(2), c>> : c \in Second}
Line1 == {<<c, d>> : c \in Leaf \cup Second \cup First, d \in {X, DOG(2000)}}
           \cup {<<FOR(n), c, X>> : n \in {0, 2}, c \in {X, DOL(1020), DOG(2000)}}

MCScripts ==
  {<< <<1010, a>>, <<1020, b>>, <<2010, c>> >> : a \in Line1, b \in Line2, c \in Line3}
MCTyped ==
  {<<GO(1010)>>, <<DOG(1000), X>>, <<DOL(1010), X>>, <<FOR(2), DOG(1000), X>>, <<X, FAIL, X>>, <<X, QUIT>>}
=============================================================================
