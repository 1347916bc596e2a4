----------------------------- MODULE Flow_proofs -----------------------------
(***************************************************************************)
(* The hardware stack of FOCAL's interpreter is in order wherever control  *)
(* is, for every program, every line typed and every place a control C     *)
(* comes.                                                                  *)
(*                                                                         *)
(* Balanced says what is on top at five places and that nothing is left at *)
(* three of them; it is not inductive, because a return takes a word off   *)
(* and uncovers the next.  StackInv describes the whole stack by what may  *)
(* lie under each word.  The description is short because the two          *)
(* questions are one: under the address of a place lies what that place    *)
(* expects to find on top.                                                 *)
(***************************************************************************)
EXTENDS Flow, SequenceTheorems, TLAPS

Returns == {"RUNL", "NEXT", "DODOD", "DOGRPN", "FORN"}
Tags    == Returns \cup {"kept", "walk"}
Halted  == {"STOP", "LOST"}
Places  == {"CMDL", "RUNL", "NEXT", "STEP", "BODY", "FORL", "FORN",
            "DODOD", "DOGRPL", "DOGRPN"} \cup Halted

\* What lies on top at a place; what lies under a word.
Expected(p) ==
  CASE p \in {"CMDL", "RUNL", "NEXT"}         -> {"end"}
    [] p \in {"STEP", "BODY", "FORL", "FORN"} -> Returns
    [] p = "DODOD"                            -> {"kept"}
    [] p \in {"DOGRPL", "DOGRPN"}             -> {"walk"}
    [] OTHER                                  -> {}
Under(t) ==
  CASE t = "kept" -> Returns
    [] t = "walk" -> {"kept"}
    [] OTHER      -> Expected(t)

TagAt(s, k) == IF k \in 1 .. Len(s) THEN s[k].to ELSE "end"
WordsOf(s)  == {s[k] : k \in DOMAIN s}
Proper(s) ==
  /\ s \in Seq(WordsOf(s))
  /\ \A k \in 1 .. Len(s) : s[k].to \in Tags /\ TagAt(s, k + 1) \in Under(s[k].to)

StackInv ==
  /\ at \in Places
  /\ at \notin Halted => Proper(stack) /\ TagAt(stack, 1) \in Expected(at)

-----------------------------------------------------------------------------
(* Stacks.                                                                 *)

\* Nothing lies on the empty stack, and it is in order.
LEMMA EmptyStack == Proper(<< >>) /\ TagAt(<< >>, 1) = "end"
BY DEF Proper, TagAt, WordsOf

\* A sequence is one over the words in it.
LEMMA OverItsWords ==
  ASSUME NEW S, NEW t \in Seq(S)
  PROVE  t \in Seq(WordsOf(t))
<1>1. Len(t) \in Nat /\ DOMAIN t = 1 .. Len(t) /\ t = [k \in 1 .. Len(t) |-> t[k]]
  OBVIOUS
<1>2. \A k \in 1 .. Len(t) : t[k] \in WordsOf(t)
  BY <1>1 DEF WordsOf
<1>3. t \in [1 .. Len(t) -> WordsOf(t)]
  BY <1>1, <1>2
<1> QED BY <1>1, <1>3, SeqDef

\* A word may be pushed on what may lie under it.
LEMMA Push ==
  ASSUME NEW s, NEW x, Proper(s), x.to \in Tags, TagAt(s, 1) \in Under(x.to)
  PROVE  Proper(<<x>> \o s) /\ TagAt(<<x>> \o s, 1) = x.to
<1> DEFINE t == <<x>> \o s
<1>1. s \in Seq(WordsOf(s) \cup {x}) /\ <<x>> \in Seq(WordsOf(s) \cup {x})
  BY DEF Proper
<1>2. /\ t \in Seq(WordsOf(s) \cup {x}) /\ Len(t) = Len(s) + 1
      /\ t[1] = x /\ \A k \in 1 .. Len(s) : t[k + 1] = s[k]
  BY <1>1
<1>3. Len(s) \in Nat
  BY <1>1
<1>4. t \in Seq(WordsOf(t))
  BY <1>2, OverItsWords
<1>5. TagAt(t, 1) = x.to
  BY <1>2, <1>3 DEF TagAt
<1>6. \A k \in 1 .. Len(s) : TagAt(t, k + 1) = TagAt(s, k)
  BY <1>2, <1>3 DEF TagAt
<1>7. TagAt(t, Len(t) + 1) = "end" /\ TagAt(s, Len(s) + 1) = "end"
  BY <1>2, <1>3 DEF TagAt
<1>8. ASSUME NEW k \in 1 .. Len(t)
      PROVE  t[k].to \in Tags /\ TagAt(t, k + 1) \in Under(t[k].to)
  <2>1. CASE k = 1
    <3>1. TagAt(t, 2) = TagAt(s, 1)
      BY <1>2, <1>3 DEF TagAt
    <3> QED BY <2>1, <3>1, <1>2
  <2>2. CASE k > 1
    <3> DEFINE j == k - 1
    <3>1. j \in 1 .. Len(s) /\ k = j + 1
      BY <2>2, <1>2, <1>3
    <3> HIDE DEF j
    <3>2. t[k] = s[j] /\ s[j].to \in Tags /\ TagAt(s, j + 1) \in Under(s[j].to)
      BY <3>1, <1>2 DEF Proper
    <3>3. TagAt(t, k + 1) = TagAt(s, j + 1)
      BY <3>1, <1>2, <1>3 DEF TagAt
    <3> QED BY <3>2, <3>3
  <2> QED BY <2>1, <2>2
<1> QED BY <1>4, <1>5, <1>8 DEF Proper

\* Under the word on top lies what may lie there, in order.
LEMMA Pop ==
  ASSUME NEW s, Proper(s), TagAt(s, 1) # "end"
  PROVE  /\ Proper(Tail(s)) /\ Head(s).to = TagAt(s, 1) /\ Head(s).to \in Tags
         /\ TagAt(Tail(s), 1) \in Under(Head(s).to)
<1> DEFINE t == Tail(s)
<1>1. s \in Seq(WordsOf(s)) /\ Len(s) \in Nat /\ Len(s) > 0
  BY DEF Proper, TagAt
<1>2. s # << >>
  BY <1>1
<1>3. /\ t \in Seq(WordsOf(s)) /\ Len(t) = Len(s) - 1 /\ Head(s) = s[1]
      /\ \A k \in 1 .. Len(t) : t[k] = s[k + 1]
  BY <1>1, <1>2
<1>4. t \in Seq(WordsOf(t))
  BY <1>3, OverItsWords
<1>5. \A k \in 1 .. Len(s) : TagAt(t, k) = TagAt(s, k + 1)
  BY <1>1, <1>3 DEF TagAt
<1>6. \A k \in 1 .. Len(t) : t[k].to \in Tags /\ TagAt(t, k + 1) \in Under(t[k].to)
  <2> TAKE k \in 1 .. Len(t)
  <2>1. k + 1 \in 1 .. Len(s)
    BY <1>1, <1>3
  <2>2. s[k + 1].to \in Tags /\ TagAt(s, k + 1 + 1) \in Under(s[k + 1].to)
    BY <2>1 DEF Proper
  <2> QED BY <2>1, <2>2, <1>3, <1>5
<1>7. s[1].to \in Tags /\ TagAt(s, 2) \in Under(s[1].to) /\ TagAt(s, 1) = s[1].to
  BY <1>1 DEF Proper, TagAt
<1> QED BY <1>1, <1>3, <1>4, <1>5, <1>6, <1>7 DEF Proper

-----------------------------------------------------------------------------
(* Ways to go on.                                                          *)

\* Through the address on top, to the place that expects what lay under it.
LEMMA Returned ==
  ASSUME NEW s, Proper(s), TagAt(s, 1) \in Returns, RETURNS(s)
  PROVE  StackInv'
<1>1. /\ Proper(Tail(s)) /\ Head(s).to = TagAt(s, 1)
      /\ TagAt(Tail(s), 1) \in Under(Head(s).to)
  BY Pop DEF Returns
<1>2. at' \in Returns /\ stack' = Tail(s) /\ at' = Head(s).to
  BY <1>1 DEF RETURNS
<1>3. Under(at') = Expected(at') /\ at' \in Places
  BY <1>2 DEF Under, Returns, Places
<1> QED BY <1>1, <1>2, <1>3 DEF StackInv

\* To a place that expects what is on top.
LEMMA Stayed ==
  ASSUME NEW s, Proper(s), stack' = s, at' \in Places, TagAt(s, 1) \in Expected(at')
  PROVE  StackInv'
BY DEF StackInv

\* Into BODY or STEP, with the way back pushed on what that way back expects.
LEMMA Called ==
  ASSUME NEW s, Proper(s), NEW p \in Returns, TagAt(s, 1) \in Expected(p),
         stack' = <<Ret(p)>> \o s, at' \in {"STEP", "BODY"}
  PROVE  StackInv'
<1>1. Ret(p).to = p /\ p \in Tags /\ Under(p) = Expected(p)
  BY DEF Ret, Tags, Returns, Under
<1>2. Proper(<<Ret(p)>> \o s) /\ TagAt(<<Ret(p)>> \o s, 1) = p
  BY <1>1, Push
<1> QED BY <1>2, Stayed DEF Places, Expected

\* Another command of the line, or back to the caller of BODY.
LEMMA Resumed ==
  ASSUME NEW s, NEW more, Proper(s), TagAt(s, 1) \in Returns, Resume(s, more)
  PROVE  StackInv'
<1>1. CASE more
  BY <1>1, Stayed DEF Resume, Places, Expected
<1>2. CASE ~more
  BY <1>2, Returned DEF Resume
<1> QED BY <1>1, <1>2

\* Nowhere, or to the prompt with the stack thrown away.
LEMMA Abandoned ==
  ASSUME ERROR
  PROVE  StackInv'
<1>1. CASE batch
  BY <1>1 DEF ERROR, StackInv, Places, Halted
<1>2. CASE ~batch
  BY <1>2, EmptyStack, Stayed DEF ERROR, Places, Expected
<1> QED BY <1>1, <1>2

\* Where a command is under way the address of its caller is on top.
LEMMA InCommand ==
  ASSUME StackInv, at \in {"STEP", "BODY", "FORL", "FORN"}
  PROVE  Proper(stack) /\ TagAt(stack, 1) \in Returns
BY DEF StackInv, Halted, Expected

\* A jump goes by way of the caller, or is an error.
LEMMA Jumped ==
  ASSUME StackInv, at = "BODY", NEW n, JumpTo(n)
  PROVE  StackInv'
BY InCommand, Returned, Abandoned DEF JumpTo

-----------------------------------------------------------------------------

LEMMA StackInit == FlowInit => StackInv
<1> SUFFICES ASSUME FlowInit PROVE StackInv
  OBVIOUS
<1>1. at \in {"NEXT", "CMDL"} /\ stack = << >>
  BY DEF FlowInit
<1> QED BY <1>1, EmptyStack DEF StackInv, Places, Expected

LEMMA StackStep == StackInv /\ [FlowNext]_flowVars => StackInv'
<1> SUFFICES ASSUME StackInv, [FlowNext]_flowVars PROVE StackInv'
  OBVIOUS
<1>1. CASE CMDL
  <2>1. Proper(stack) /\ TagAt(stack, 1) \in Expected("RUNL")
    BY <1>1 DEF CMDL, StackInv, Halted, Expected
  <2> QED BY <1>1, <2>1, Called DEF CMDL, Returns
<1>2. CASE RUNL
  <2>1. at \in Returns /\ Proper(stack) /\ TagAt(stack, 1) \in Expected(at)
    BY <1>2 DEF RUNL, StackInv, Halted, Returns
  <2>2. CASE inprog
    BY <1>2, <2>1, <2>2, Called DEF RUNL
  <2>3. CASE ~inprog
    BY <1>2, <2>1, <2>3, Stayed DEF RUNL, StackInv, Places, Halted, Expected
  <2> QED BY <2>2, <2>3
<1>3. CASE STEP
  <2>1. Proper(stack) /\ TagAt(stack, 1) \in Returns
    BY <1>3, InCommand DEF STEP
  <2>2. CASE brk
    BY <1>3, <2>2, Abandoned DEF STEP
  <2>3. CASE ~brk /\ InLine
    BY <1>3, <2>1, <2>3, Stayed DEF STEP, Places, Expected
  <2>4. CASE ~brk /\ ~InLine
    BY <1>3, <2>1, <2>4, Returned DEF STEP
  <2> QED BY <2>2, <2>3, <2>4
<1>4. CASE Plain
  BY <1>4, InCommand, Resumed DEF Plain, At
<1>5. CASE Fail
  BY <1>5, Abandoned DEF Fail
<1>6. CASE DOGOTO
  BY <1>6, Jumped DEF DOGOTO, At
<1>7. CASE DOIF
  <2>1. at = "BODY" /\ Proper(stack) /\ TagAt(stack, 1) \in Returns
    BY <1>7, InCommand DEF DOIF, At
  <2>2. CASE Command.arm <= Len(Command.targets) /\ JumpTo(Command.targets[Command.arm])
    BY <2>1, <2>2, Jumped
  <2>3. CASE Resume(stack, More(ix))
    BY <2>1, <2>3, Resumed
  <2> QED BY <1>7, <2>2, <2>3 DEF DOIF
<1>8. CASE DODO
  <2>1. Proper(stack) /\ TagAt(stack, 1) \in Returns
    BY <1>8, InCommand DEF DODO, At
  <2>2. CASE ERROR
    BY <2>2, Abandoned
  <2>3. CASE at' = "STEP" /\ stack' = <<Ret("DODOD"), Kept>> \o stack
    <3>1. Proper(<<Kept>> \o stack) /\ TagAt(<<Kept>> \o stack, 1) = "kept"
      BY <2>1, Push DEF Kept, Tags, Under
    <3>2. stack' = <<Ret("DODOD")>> \o (<<Kept>> \o stack)
      BY <2>1, <2>3 DEF Proper
    <3> QED BY <2>3, <3>1, <3>2, Called DEF Returns, Expected
  <2> QED BY <1>8, <2>2, <2>3 DEF DODO
<1>9. CASE DOGRP
  <2>1. Proper(stack) /\ TagAt(stack, 1) \in Returns
    BY <1>9, InCommand DEF DOGRP, At
  <2> DEFINE w == Walk(Command.to, Command.to + 999)
  <2>2. at' = "DOGRPL" /\ stack' = <<w, Kept>> \o stack
    BY <1>9 DEF DOGRP
  <2>3. w.to = "walk" /\ Kept.to = "kept"
    BY DEF Walk, Kept
  <2> HIDE DEF w
  <2>4. Proper(<<Kept>> \o stack) /\ TagAt(<<Kept>> \o stack, 1) = "kept"
    BY <2>1, <2>3, Push DEF Tags, Under
  <2>5. Proper(<<w>> \o (<<Kept>> \o stack)) /\ TagAt(<<w>> \o (<<Kept>> \o stack), 1) = "walk"
    BY <2>3, <2>4, Push DEF Tags, Under
  <2>6. stack' = <<w>> \o (<<Kept>> \o stack)
    BY <2>1, <2>2 DEF Proper
  <2> QED BY <2>2, <2>5, <2>6, Stayed DEF Places, Expected
<1>10. CASE DOGRPL
  <2>1. at = "DOGRPL" /\ Proper(stack) /\ TagAt(stack, 1) = "walk"
    BY <1>10 DEF DOGRPL, StackInv, Halted, Expected
  <2>2. Proper(Tail(stack)) /\ TagAt(Tail(stack), 1) = "kept"
    BY <2>1, Pop DEF Under
  <2>3. CASE ERROR
    BY <2>3, Abandoned
  <2>4. CASE at' = "DODOD" /\ stack' = Tail(stack)
    BY <2>2, <2>4, Stayed DEF Places, Expected
  <2>5. ASSUME NEW c, NEW h, at' = "STEP", stack' = <<Ret("DOGRPN"), Walk(c, h)>> \o Tail(stack)
        PROVE  StackInv'
    <3> DEFINE w == Walk(c, h)
    <3>1. w.to = "walk"
      BY DEF Walk
    <3>2. stack' = <<Ret("DOGRPN")>> \o (<<w>> \o Tail(stack))
      BY <2>2, <2>5 DEF Proper
    <3> HIDE DEF w
    <3>3. Proper(<<w>> \o Tail(stack)) /\ TagAt(<<w>> \o Tail(stack), 1) = "walk"
      BY <2>2, <3>1, Push DEF Tags, Under
    <3> QED BY <2>5, <3>2, <3>3, Called DEF Returns, Expected
  <2> QED BY <1>10, <2>3, <2>4, <2>5 DEF DOGRPL
<1>11. CASE DOGRPN
  <2>1. at = "DOGRPN" /\ Proper(stack) /\ TagAt(stack, 1) = "walk"
    BY <1>11 DEF DOGRPN, StackInv, Halted, Expected
  <2>2. CASE dorf
    <3>1. Proper(Tail(stack)) /\ TagAt(Tail(stack), 1) = "kept"
      BY <2>1, Pop DEF Under
    <3> QED BY <1>11, <2>2, <3>1, Stayed DEF DOGRPN, Unwound, Places, Expected
  <2>3. CASE ~dorf
    BY <1>11, <2>1, <2>3, Stayed DEF DOGRPN, Places, Expected
  <2> QED BY <2>2, <2>3
<1>12. CASE DODOD
  <2>1. Proper(stack) /\ TagAt(stack, 1) = "kept"
    BY <1>12 DEF DODOD, StackInv, Halted, Expected
  <2>2. Proper(Tail(stack)) /\ TagAt(Tail(stack), 1) \in Returns
    BY <2>1, Pop DEF Under
  <2>3. PICK more : Resume(Tail(stack), more)
    BY <1>12 DEF DODOD
  <2> QED BY <2>2, <2>3, Resumed
<1>13. CASE DORET
  BY <1>13, InCommand, Returned DEF DORET, At
<1>14. CASE DOQUIT
  <2>1. CASE at' = "STOP"
    BY <2>1 DEF StackInv, Places, Halted
  <2>2. CASE RETURNS(stack)
    BY <1>14, <2>2, InCommand, Returned DEF DOQUIT, At
  <2> QED BY <1>14, <2>1, <2>2 DEF DOQUIT
<1>15. CASE DOFOR
  BY <1>15, InCommand, Stayed DEF DOFOR, At, Places, Expected
<1>16. CASE FORL
  <2>1. Proper(stack) /\ TagAt(stack, 1) \in Returns
    BY <1>16, InCommand DEF FORL
  <2>2. CASE at' = "LOST"
    BY <2>2 DEF StackInv, Places, Halted
  <2>3. CASE at' = "BODY" /\ stack' = <<Ret("FORN")>> \o stack
    BY <2>1, <2>3, Called DEF Returns, Expected
  <2>4. CASE RETURNS(stack)
    BY <2>1, <2>4, Returned
  <2> QED BY <1>16, <2>2, <2>3, <2>4 DEF FORL
<1>17. CASE FORN
  BY <1>17, InCommand, Stayed DEF FORN, Places, Expected
<1>18. CASE Break
  BY <1>18 DEF Break, StackInv
<1>19. CASE UNCHANGED flowVars
  BY <1>19 DEF flowVars, StackInv
<1> QED BY <1>1, <1>2, <1>3, <1>4, <1>5, <1>6, <1>7, <1>8, <1>9, <1>10, <1>11, <1>12,
           <1>13, <1>14, <1>15, <1>16, <1>17, <1>18, <1>19 DEF FlowNext, Interpret

LEMMA StackImplies == StackInv => Balanced
<1> SUFFICES ASSUME StackInv PROVE Balanced
  OBVIOUS
<1>1. ASSUME at \in {"CMDL", "RUNL", "NEXT"} PROVE stack = << >>
  <2>1. Proper(stack) /\ TagAt(stack, 1) = "end"
    BY <1>1 DEF StackInv, Halted, Expected
  <2>2. Len(stack) \in Nat /\ stack \in Seq(WordsOf(stack))
    BY <2>1 DEF Proper
  <2>3. Len(stack) = 0
    BY <2>1, <2>2 DEF Proper, TagAt, Tags, Returns
  <2> QED BY <2>2, <2>3
<1>2. ASSUME at \in {"DODOD", "DOGRPL"}
      PROVE  /\ Proper(stack) /\ TagAt(stack, 1) \in Expected(at)
             /\ Head(stack).to = TagAt(stack, 1)
  <2>1. Proper(stack) /\ TagAt(stack, 1) \in Expected(at)
    BY <1>2 DEF StackInv, Halted
  <2> QED BY <1>2, <2>1, Pop DEF Expected
<1>3. ASSUME at = "DOGRPL" PROVE stack[2].to = "kept"
  <2>1. Proper(stack) /\ TagAt(stack, 1) = "walk"
    BY <1>2, <1>3 DEF Expected
  <2>2. 1 \in 1 .. Len(stack) /\ stack[1].to = "walk"
    BY <2>1 DEF TagAt
  <2>3. TagAt(stack, 1 + 1) \in Under("walk")
    BY <2>1, <2>2 DEF Proper
  <2> QED BY <2>3 DEF Under, TagAt
<1> QED BY <1>1, <1>2, <1>3 DEF Balanced, Expected

\* DO, the group walk, FOR and BODY leave nothing on the stack between lines,
\* and what DODOD and the walk take off is what was put there for them.
THEOREM StackBalanced == FlowSpec => []Balanced
BY StackInit, StackStep, StackImplies, PTL DEF FlowSpec
=============================================================================
