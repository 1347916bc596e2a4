-------------------------------- MODULE Flow --------------------------------
(***************************************************************************)
(* How FOCAL finds its way through a program (focal.s: CMDL, RUN, STEP,    *)
(* BODY and the commands that move the text pointer).                      *)
(*                                                                         *)
(* There is one stack, the hardware's.  BODY calls a command, DO calls     *)
(* STEP, FOR calls BODY, and what DO has to come back to lies between the  *)
(* return addresses.  A command is a record: what it does to the pointer   *)
(* is kept, what it computes is not ("x" stands for SET, TYPE and the      *)
(* like).  The text pointer is TXTP, which text, and IX, how far into it:  *)
(* a line and a command of that line.                                      *)
(*                                                                         *)
(* Four steps have no provision: a group DO with a RETURN still unspent    *)
(* (DORF is cleared at the prompt and by a DO that ends, nowhere else), a  *)
(* jump, RETURN or QUIT out of a FOR's body, a QUIT inside a DO, and a FOR *)
(* inside a FOR.  strayed says that one was taken.                         *)
(***************************************************************************)
EXTENDS Integers, SequencesExt

CONSTANTS
  Scripts,     \* stored programs: lines <<key, commands>>, keys ascending
  Typed,       \* lines typed at the prompt
  Modes,       \* BATCH: was a program assembled in
  MaxTyped     \* bound: lines typed

Ops == {"x", "fail", "goto", "if", "do", "group", "for", "return", "quit"}

ASSUME FlowAssumption ==
  /\ \A s \in Scripts : \A i, j \in DOMAIN s : i < j => s[i][1] < s[j][1]
  /\ \A s \in Scripts : \A i \in DOMAIN s : \A j \in DOMAIN s[i][2] : s[i][2][j].op \in Ops
  /\ \A t \in Typed : \A j \in DOMAIN t : t[j].op \in Ops
  /\ Modes \subseteq BOOLEAN /\ MaxTyped \in Nat

VARIABLES
  stored, typed,             \* the program; the line in CBUF
  batch,                     \* BATCH
  txtp, ix,                  \* TXTP and IX
  inprog, dorf, brk,         \* INPROG, DORF, BRK
  fcur, flim, fbody,         \* FCUR, FLIM, FBODY: one FOR, not one for each
  stack,                     \* the hardware stack, its top first
  at,                        \* where the interpreter is
  prompts,                   \* lines typed so far
  done,                      \* history: commands done since the prompt
  ftxt,                      \* history: the text FBODY is a place in
  broken,                    \* history: control C was pressed
  strayed                    \* history: one of the four steps the interpreter has
                             \* no provision for was taken

flowVars == <<stored, typed, batch, txtp, ix, inprog, dorf, brk, fcur, flim, fbody,
              stack, at, prompts, done, ftxt, broken, strayed>>
text    == <<stored, typed, batch, prompts>>
loop    == <<fcur, flim, fbody, ftxt>>
pointer == <<txtp, ix>>

Lines == IF txtp = "stored" THEN stored ELSE << <<0, typed>> >>
Place(l, c) == [ln |-> l, cm |-> c]
Command == Lines[ix.ln][2][ix.cm]
InLine  == ix.ln <= Len(Lines)

-----------------------------------------------------------------------------
(* Words on the stack: where to return to, and what DO and the group walk  *)
(* keep there.                                                             *)

Ret(where)  == [to |-> where]
Kept        == [to |-> "kept", inprog |-> inprog, txtp |-> txtp, ix |-> ix]
Walk(l, h)  == [to |-> "walk", cursor |-> l, top |-> h]

Loops == {"FORN"}
Calls == {"DODOD", "DOGRPN"}
Open(kinds) == \E k \in DOMAIN stack : stack[k].to \in kinds
\* The innermost of the DOs and FORs being run.
Innermost(kinds) ==
  \E k \in DOMAIN stack : /\ stack[k].to \in kinds
                          /\ \A j \in 1 .. k - 1 : stack[j].to \notin Loops \cup Calls

RETURNS(stk) == at' = Head(stk).to /\ stack' = Tail(stk)
\* Back in BODY: another command on this line, or return to its caller.
Resume(stk, more) ==
  IF more THEN at' = "BODY" /\ stack' = stk ELSE RETURNS(stk)

\* EOS, EOL: to the next command of the line or past its end; past its end.
More(p) == p.cm < Len(Lines[p.ln][2])
EOS(p)  == IF More(p) THEN Place(p.ln, p.cm + 1) ELSE Place(p.ln + 1, 1)
EOL(p)  == Place(p.ln + 1, 1)

\* ERROR: in a batch image stop, else abandon the stack.
ERROR ==
  /\ at' = IF batch THEN "STOP" ELSE "CMDL"
  /\ stack' = IF batch THEN stack ELSE << >>
  /\ UNCHANGED <<text, pointer, inprog, dorf, brk, loop, done, broken, strayed>>

Keys      == {stored[k][1] : k \in DOMAIN stored}
LineOf(n) == CHOOSE k \in DOMAIN stored : stored[k][1] = n
\* LIGE: the smallest line number at or above a bound.
AtOrAbove(n) == {k \in Keys : k >= n}
LIGE(n) == CHOOSE k \in AtOrAbove(n) : \A j \in AtOrAbove(n) : k <= j

\* FINDP: a jump always lands in the stored program.
FINDP(n) == txtp' = "stored" /\ ix' = Place(LineOf(n), 1) /\ inprog' = TRUE

-----------------------------------------------------------------------------
(* The prompt and the loop over lines.                                     *)

CMDL ==
  /\ at = "CMDL" /\ prompts < MaxTyped
  /\ \E t \in Typed : typed' = t
  /\ brk' = FALSE /\ dorf' = FALSE /\ inprog' = FALSE
  /\ txtp' = "typed" /\ ix' = Place(1, 1)
  /\ at' = "BODY" /\ stack' = <<Ret("RUNL")>> \o stack
  /\ prompts' = prompts + 1 /\ done' = << >> /\ broken' = FALSE /\ strayed' = FALSE
  /\ UNCHANGED <<stored, batch, loop>>

\* CMDEX, RUNL and NEXT: a line has been run.
RUNL ==
  /\ at \in {"RUNL", "NEXT"}
  /\ IF inprog THEN at' = "STEP" /\ stack' = <<Ret(at)>> \o stack
     ELSE at' = (IF at = "NEXT" THEN "STOP" ELSE "CMDL") /\ UNCHANGED stack
  /\ UNCHANGED <<text, pointer, inprog, dorf, brk, loop, done, broken, strayed>>

\* ENDRUN, past the last line.
StillRuns == inprog' = inprog
ENDRUN == inprog' = FALSE
STEP ==
  /\ at = "STEP"
  /\ \/ brk /\ ERROR
     \/ /\ ~brk /\ InLine /\ at' = "BODY"
        /\ UNCHANGED <<text, pointer, inprog, dorf, brk, loop, stack, done, broken, strayed>>
     \/ /\ ~brk /\ ~InLine /\ ENDRUN /\ RETURNS(stack)
        /\ UNCHANGED <<text, pointer, dorf, brk, loop, done, broken, strayed>>

-----------------------------------------------------------------------------
(* The commands, each to its return into BODY.                             *)

At(op) == at = "BODY" /\ Command.op = op

Plain ==
  /\ At("x")
  /\ done' = Append(done, <<Lines[ix.ln][1], ix.cm>>)
  /\ ix' = EOS(ix) /\ Resume(stack, More(ix))
  /\ UNCHANGED <<text, txtp, inprog, dorf, brk, loop, broken, strayed>>

Fail == At("fail") /\ ERROR

\* GOTO, and the arm IF selects.
JumpTo(n) ==
  IF n \in Keys
  THEN /\ FINDP(n) /\ RETURNS(stack)
       /\ strayed' = (strayed \/ Innermost(Loops))
       /\ UNCHANGED <<text, dorf, brk, loop, done, broken>>
  ELSE ERROR

DOGOTO == At("goto") /\ JumpTo(Command.to)

\* Fewer targets than arms: the rest of the line.
DOIF ==
  /\ At("if")
  /\ \/ Command.arm <= Len(Command.targets) /\ JumpTo(Command.targets[Command.arm])
     \/ /\ Command.arm > Len(Command.targets)
        /\ ix' = EOS(ix) /\ Resume(stack, More(ix))
        /\ UNCHANGED <<text, txtp, inprog, dorf, brk, loop, done, broken, strayed>>

DODO ==
  /\ At("do")
  /\ \/ Command.to \notin Keys /\ ERROR
     \/ /\ Command.to \in Keys /\ FINDP(Command.to)
        /\ at' = "STEP" /\ stack' = <<Ret("DODOD"), Kept>> \o stack
        /\ UNCHANGED <<text, dorf, brk, loop, done, broken, strayed>>

DOGRP ==
  /\ At("group")
  /\ stack' = <<Walk(Command.to, Command.to + 999), Kept>> \o stack
  /\ at' = "DOGRPL"
  /\ strayed' = (strayed \/ dorf)
  /\ UNCHANGED <<text, pointer, inprog, dorf, brk, loop, done, broken>>

\* The next line of the group, or its end; a group without a line is an error.
OneOn(k) == k + 1
DOGRPL ==
  LET walk == Head(stack)
      within == AtOrAbove(walk.cursor) # {} /\ LIGE(walk.cursor) <= walk.top
  IN  /\ at = "DOGRPL"
      /\ \/ /\ within /\ FINDP(LIGE(walk.cursor))
            /\ at' = "STEP"
            /\ stack' = <<Ret("DOGRPN"), Walk(OneOn(LIGE(walk.cursor)), walk.top)>> \o Tail(stack)
            /\ UNCHANGED <<text, dorf, brk, loop, done, broken, strayed>>
         \/ ~within /\ walk.cursor = walk.top - 999 /\ ERROR
         \/ /\ ~within /\ walk.cursor # walk.top - 999
            /\ at' = "DODOD" /\ stack' = Tail(stack)
            /\ UNCHANGED <<text, pointer, inprog, dorf, brk, loop, done, broken, strayed>>

\* RETURN unwinds the group, not just the line.
LeftOn(stk) == stk
Unwound(stk) == Tail(stk)
DOGRPN ==
  /\ at = "DOGRPN"
  /\ at' = IF dorf THEN "DODOD" ELSE "DOGRPL"
  /\ stack' = IF dorf THEN Unwound(stack) ELSE stack
  /\ UNCHANGED <<text, pointer, inprog, dorf, brk, loop, done, broken, strayed>>

NotSpent == dorf
Spent == FALSE
DODOD ==
  LET kept == Head(stack)
      home == IF kept.txtp = "stored" THEN stored ELSE << <<0, typed>> >>
      more == kept.ix.cm < Len(home[kept.ix.ln][2])
  IN  /\ at = "DODOD"
      /\ txtp' = kept.txtp /\ inprog' = kept.inprog /\ dorf' = Spent
      /\ ix' = IF more THEN Place(kept.ix.ln, kept.ix.cm + 1) ELSE EOL(kept.ix)
      /\ Resume(Tail(stack), more)
      /\ UNCHANGED <<text, brk, loop, done, broken, strayed>>

DORET ==
  /\ At("return")
  /\ ix' = EOL(ix) /\ dorf' = TRUE /\ RETURNS(stack)
  /\ strayed' = (strayed \/ Innermost(Loops))
  /\ UNCHANGED <<text, txtp, inprog, brk, loop, done, broken>>

\* Typed at command level: really stop.  Inside a program: back to it.
ByHand == ~inprog
DOQUIT ==
  /\ At("quit")
  /\ \/ /\ ByHand /\ at' = "STOP"
        /\ UNCHANGED <<inprog, stack>>
     \/ ~ByHand /\ inprog' = FALSE /\ RETURNS(stack)
  /\ strayed' = (strayed \/ Open(Loops \cup Calls))
  /\ UNCHANGED <<text, pointer, dorf, brk, loop, done, broken>>

\* FOR v = 1, limit; body.  The body is the rest of the line.
DOFOR ==
  /\ At("for") /\ More(ix)
  /\ fcur' = 1 /\ flim' = Command.limit /\ fbody' = EOS(ix) /\ ftxt' = txtp
  /\ at' = "FORL"
  /\ strayed' = (strayed \/ Open(Loops))
  /\ UNCHANGED <<text, pointer, inprog, dorf, brk, stack, done, broken>>

FORL ==
  /\ at = "FORL"
  /\ IF txtp # ftxt                    \* FBODY is a place in the other text
     THEN at' = "LOST" /\ UNCHANGED <<ix, stack>>
     ELSE IF fcur <= flim
     THEN ix' = fbody /\ at' = "BODY" /\ stack' = <<Ret("FORN")>> \o stack
     ELSE ix' = EOL(fbody) /\ RETURNS(stack)
  /\ UNCHANGED <<text, txtp, inprog, dorf, brk, loop, done, broken, strayed>>

FORN ==
  /\ at = "FORN"
  /\ fcur' = fcur + 1 /\ at' = "FORL"
  /\ UNCHANGED <<text, pointer, inprog, dorf, brk, flim, fbody, ftxt, stack, done, broken, strayed>>

-----------------------------------------------------------------------------

\* KBRK, while a command runs.
Break ==
  /\ at \notin {"CMDL", "STOP", "LOST"} /\ ~brk
  /\ brk' = TRUE /\ broken' = TRUE
  /\ UNCHANGED <<text, pointer, inprog, dorf, loop, stack, at, done, strayed>>

FlowInit ==
  /\ stored \in Scripts /\ batch \in Modes /\ (batch => stored # << >>)
  /\ typed = << >> /\ prompts = 0
  /\ txtp = "stored" /\ ix = Place(1, 1) /\ inprog = batch
  /\ at = (IF batch THEN "NEXT" ELSE "CMDL") /\ stack = << >>
  /\ dorf = FALSE /\ brk = FALSE
  /\ fcur = 0 /\ flim = 0 /\ fbody = Place(1, 1) /\ ftxt = "stored"
  /\ done = << >> /\ broken = FALSE /\ strayed = FALSE

Interpret ==
  \/ RUNL \/ STEP \/ Plain \/ Fail \/ DOGOTO \/ DOIF
  \/ DODO \/ DOGRP \/ DOGRPL \/ DOGRPN \/ DODOD
  \/ DORET \/ DOQUIT \/ DOFOR \/ FORL \/ FORN

FlowNext == CMDL \/ Interpret \/ Break

FlowSpec == FlowInit /\ [][FlowNext]_flowVars

\* The interpreter goes on; nobody has to type.
FairFlow == FlowSpec /\ WF_flowVars(Interpret)

-----------------------------------------------------------------------------

\* Between lines the stack holds nothing: what DO, the group walk and FOR put
\* there is gone, whichever way the line ended.
Balanced ==
  /\ at \in {"CMDL", "RUNL", "NEXT"} => stack = << >>
  /\ at = "DODOD" => Head(stack).to = "kept"
  /\ at = "DOGRPL" => Head(stack).to = "walk" /\ stack[2].to = "kept"
=============================================================================
