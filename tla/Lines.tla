-------------------------------- MODULE Lines --------------------------------
(***************************************************************************)
(* A line of FOCAL on its way from characters to words and back: COMP,     *)
(* which compiles what is typed, WRITE, which lists what is stored, and    *)
(* compile_line of mkprog.py, which does COMP's work for a program that is *)
(* assembled in.                                                           *)
(*                                                                         *)
(* COMP reads left to right with one counter and one flag (CTGT, CPQ);     *)
(* compile_line cuts the line into segments first and then looks at each.  *)
(* COMP is the state machine here, compile_line a definition.              *)
(*                                                                         *)
(* A line is a sequence of tokens, none of which can be split or run into  *)
(* the next: a number (its digits are kept, 2.1 and 02.100 are two         *)
(* spellings; a point has digits after it), a run of letters with its      *)
(* point, a space, a quote, a semicolon, a parenthesis, or another         *)
(* character, neither a tab nor a point of its own.  Stored text is the    *)
(* token it was; the length counts tokens.                                 *)
(***************************************************************************)
EXTENDS Integers, SequencesExt, FiniteSetsExt, TLC

CONSTANT TypedLines     \* what may be typed at the prompt

Num(group, step)     == [t |-> "num", group |-> group, step |-> step]
Letters(name, n, dot) == [t |-> "word", name |-> name, n |-> n, dot |-> dot]
Char(c)              == [t |-> c]
SPC == Char("space")
QUOTE == Char("quote")
SEMI == Char("semi")
LPAR == Char("lpar")
RPAR == Char("rpar")

\* The commands and the letters of their names; how many line numbers follow.
COMMANDS ==
  ("IF" :> 2) @@ [ASK |-> 3, COMMENT |-> 7, DO |-> 2, ERASE |-> 5, FOR |-> 3, GOTO |-> 4,
                  QUIT |-> 4, RETURN |-> 6, SET |-> 3, TYPE |-> 4, WRITE |-> 5]
JUMPS(name) == CASE name = "IF" -> 3 [] name \in {"GOTO", "DO"} -> 1 [] OTHER -> 0

\* A name written out, or a beginning of it and a point.
IsCommand(w) ==
  /\ w.t = "word" /\ w.name \in DOMAIN COMMANDS
  /\ w.n = COMMANDS[w.name] \/ (w.dot /\ w.n < COMMANDS[w.name])

\* The words of a compiled line that are not characters.
Cmd(w)      == [t |-> "cmd", name |-> w.name, n |-> w.n % 8, dot |-> w.dot]
Marker(g)   == [t |-> "lnum", g |-> g]
Value(v)    == [t |-> "value", v |-> v]
NL          == [t |-> "newline"]

VARIABLES
  line,              \* LBUF: what was typed
  txtp,              \* the text pointer: the next token, or the next word
  cbuf,              \* CBUF: the words made so far
  ckey,              \* CKEY
  ctgt, cpq, cdep,   \* CTGT, CPQ, CDEP
  at,
  listed,            \* what WRITE has printed
  stored             \* the words of the line as it was first compiled

lineVars == <<line, txtp, cbuf, ckey, ctgt, cpq, cdep, at, listed, stored>>

-----------------------------------------------------------------------------
(* Line numbers.                                                           *)

Decimal(digits) == FoldLeft(LAMBDA v, d : 10 * v + d, 0, digits)
\* Padded on the right: the step is a fraction of a thousand.
Padded(digits) == Decimal(digits) * 10 ^ (3 - Len(digits))

\* RDLNT: the group is below a hundred and not zero, the step at most three
\* digits long.
Refused(num)  == Decimal(num.group) \notin 1 .. 99 \/ Len(num.step) > 3
RDLNT(num)    == Decimal(num.group) * 1000 + Padded(num.step)
\* LSOR is the sum of the step's digits.
LSOR(num)     == FoldLeft(LAMBDA s, d : s + d, 0, num.step)
NamesByPoint(num) == num.step = << >>
NamesGroup(num) == LSOR(num) = 0

\* WKEYP: two digits, a point and three digits unless the step is zero.
WKEYP(v) ==
  LET g == v \div 1000
      s == v % 1000
  IN  Num(<<g \div 10, g % 10>>,
          IF s = 0 THEN << >> ELSE <<s \div 100, s \div 10 % 10, s % 10>>)

-----------------------------------------------------------------------------
(* COMP.                                                                   *)

Here    == line[txtp]
Ended   == txtp > Len(line)
Is(t)   == ~Ended /\ Here.t = t
Emit(words) == cbuf' = cbuf \o words
Copy    == Emit(<<Here>>) /\ txtp' = txtp + 1
ToError == at' = "REFUSED" /\ UNCHANGED <<txtp, cbuf, ckey, ctgt, cpq, cdep>>

\* Indentation is not kept; the key and room for the length.
Indent ==
  /\ at = "COMP" /\ Is("space") /\ txtp' = txtp + 1
  /\ UNCHANGED <<cbuf, ckey, ctgt, cpq, cdep, at>>
Key ==
  /\ at = "COMP" /\ ~Is("space")
  /\ \/ /\ Is("num") /\ ~Refused(Here)
        /\ ckey' = RDLNT(Here) /\ Emit(<<Value(RDLNT(Here)), Value(0)>>) /\ txtp' = txtp + 1
        /\ at' = "COMPS" /\ UNCHANGED <<ctgt, cpq, cdep>>
     \/ Is("num") /\ Refused(Here) /\ ToError
     \/ /\ ~Is("num") /\ at' = "COMPS"
        /\ UNCHANGED <<txtp, cbuf, ckey, ctgt, cpq, cdep>>

COMPS ==
  /\ at = "COMPS" /\ Is("space") /\ Copy
  /\ UNCHANGED <<ckey, ctgt, cpq, cdep, at>>

\* CCMD: a command word, or nothing consumed.
Targets(w)   == IF IsCommand(w) THEN JUMPS(w.name) ELSE 0
CCMD ==
  /\ at = "COMPS" /\ ~Is("space")
  /\ IF ~Ended /\ IsCommand(Here)
     THEN Emit(<<Cmd(Here)>>) /\ txtp' = txtp + 1
     ELSE UNCHANGED <<cbuf, txtp>>
  /\ ctgt' = IF Ended THEN 0 ELSE Targets(Here)
  /\ IF ~Ended /\ IsCommand(Here) /\ Here.name = "IF"
     THEN at' = "CCOND" /\ cdep' = 0
     ELSE at' = "COMPB" /\ UNCHANGED cdep
  /\ UNCHANGED <<ckey, cpq>>

\* CCOND: IF's condition, to the parenthesis that closes it.
ClosesAny == Is("rpar")
Closes == Is("rpar") /\ cdep = 1
CCOND ==
  /\ at = "CCOND"
  /\ IF Ended
     THEN at' = "COMPB" /\ UNCHANGED <<txtp, cbuf, cdep>>
     ELSE /\ Copy
          /\ cdep' = CASE Is("lpar") -> cdep + 1 [] Is("rpar") -> cdep - 1 [] OTHER -> cdep
          /\ at' = IF Closes THEN "COMPB" ELSE "CCOND"
  /\ UNCHANGED <<ckey, ctgt, cpq>>

\* The rest, token by token.
Quote ==
  /\ at = "COMPB" /\ Is("quote") /\ Copy /\ cpq' = ~cpq
  /\ UNCHANGED <<ckey, ctgt, cdep, at>>
Separator == Is("semi") /\ ~cpq
Semicolon ==
  /\ at = "COMPB" /\ Separator /\ Copy /\ at' = "COMPS"
  /\ UNCHANGED <<ckey, ctgt, cpq, cdep>>
IsTarget == Is("num") /\ ctgt > 0 /\ ~cpq
CLNUM ==
  /\ at = "COMPB" /\ IsTarget
  /\ \/ Refused(Here) /\ ToError
     \/ /\ ~Refused(Here)
        /\ Emit(<<Marker(NamesGroup(Here)), Value(RDLNT(Here))>>) /\ txtp' = txtp + 1
        /\ ctgt' = ctgt - 1
        /\ UNCHANGED <<ckey, cpq, cdep, at>>
Verbatim ==
  /\ at = "COMPB" /\ ~Ended /\ ~Is("quote") /\ ~Separator /\ ~IsTarget
  /\ Copy
  /\ UNCHANGED <<ckey, ctgt, cpq, cdep, at>>

\* COMPD: the newline, and the length of a line that has a key.
LengthOf(words) == Len(words) + 1
COMPD ==
  /\ at = "COMPB" /\ Ended /\ at' = "COMPILED"
  /\ cbuf' = Append(IF ckey = 0 THEN cbuf ELSE [cbuf EXCEPT ![2] = Value(LengthOf(cbuf))], NL)
  /\ UNCHANGED <<txtp, ckey, ctgt, cpq, cdep>>

COMP ==
  /\ Indent \/ Key \/ COMPS \/ CCMD \/ CCOND \/ Quote \/ Semicolon \/ CLNUM \/ Verbatim \/ COMPD
  /\ UNCHANGED <<line, listed, stored>>

-----------------------------------------------------------------------------
(* WRITE, from the length on; and the listing typed again.                 *)

DOWRIT ==
  /\ at = "COMPILED" /\ ckey # 0 /\ stored = << >>
  /\ at' = "DOWR3" /\ txtp' = 3 /\ stored' = cbuf
  /\ listed' = <<WKEYP(ckey)>>
  /\ UNCHANGED <<line, cbuf, ckey, ctgt, cpq, cdep>>

\* WCMD spells the name its letter selects.
NoPoint(w) == Letters(w.name, w.n, FALSE)
WCMD(w)    == Letters(w.name, w.n, w.dot)
DOWR3 ==
  LET w == cbuf[txtp]
  IN  /\ at = "DOWR3" /\ w # NL
      /\ listed' = Append(listed, CASE w.t = "lnum" -> WKEYP(cbuf[txtp + 1].v)
                                    [] w.t = "cmd"  -> WCMD(w)
                                    [] OTHER        -> w)
      /\ txtp' = IF w.t = "lnum" THEN txtp + 2 ELSE txtp + 1
      /\ UNCHANGED <<line, cbuf, ckey, ctgt, cpq, cdep, at, stored>>

Retype ==
  /\ at = "DOWR3" /\ cbuf[txtp] = NL
  /\ line' = listed /\ at' = "COMP" /\ txtp' = 1 /\ cbuf' = << >>
  /\ ckey' = 0 /\ cpq' = FALSE
  /\ UNCHANGED <<ctgt, cdep, listed, stored>>

LinesInit ==
  /\ line \in TypedLines /\ at = "COMP" /\ txtp = 1 /\ cbuf = << >>
  /\ ckey = 0 /\ ctgt = 0 /\ cpq = FALSE /\ cdep = 0
  /\ listed = << >> /\ stored = << >>
LinesNext == COMP \/ DOWRIT \/ DOWR3 \/ Retype
LinesSpec == LinesInit /\ [][LinesNext]_lineVars

-----------------------------------------------------------------------------
(* mkprog.py.                                                              *)

Among(t, s, a, b) == {i \in a .. b : s[i].t = t}

\* segments: cut at the semicolons outside quoted strings.
Cuts(s) == {i \in DOMAIN s : s[i].t = "semi" /\ Cardinality(Among("quote", s, 1, i)) % 2 = 0}
Start(s, p) == Max({0} \cup {i \in Cuts(s) : i < p}) + 1
End(s, p)   == Min({Len(s) + 1} \cup {i \in Cuts(s) : i >= p}) - 1

\* A segment's first token that is not a space, if it is letters.
CommandAt(s, p) == Min({i \in Start(s, p) .. End(s, p) : s[i].t # "space"} \cup {Len(s) + 1})
HasCommand(s, p) == CommandAt(s, p) <= End(s, p) /\ s[CommandAt(s, p)].t = "word"

\* close: where the parenthesis at k is matched.
Depth(s, k, i) == Cardinality(Among("lpar", s, k, i)) - Cardinality(Among("rpar", s, k, i))
Closing(s, k, to) == {i \in k .. to : Depth(s, k, i) = 0}
Opening(s, p) == Among("lpar", s, CommandAt(s, p), End(s, p))
IfOf(s, p) == s[CommandAt(s, p)].name = "IF" /\ Opening(s, p) # {}
\* The last token before the part in which numbers are looked for.
Before(s, p) ==
  IF IfOf(s, p) THEN Min(Closing(s, Min(Opening(s, p)), End(s, p))) ELSE CommandAt(s, p)
Numbered(s, p) ==
  /\ s[p].t = "num" /\ HasCommand(s, p) /\ p > Before(s, p)
  /\ Cardinality(Among("num", s, Before(s, p) + 1, p)) <= JUMPS(s[CommandAt(s, p)].name)

\* marker: a number without a point names a group.
marker(num) == Marker(num.step = << >>)

words(s, p) ==
  CASE p \in Cuts(s)                          -> <<s[p]>>
    [] HasCommand(s, p) /\ p = CommandAt(s, p)       -> <<Cmd(s[p])>>
    [] p \notin Cuts(s) /\ Numbered(s, p)     -> <<marker(s[p]), Value(RDLNT(s[p]))>>
    [] OTHER                                  -> <<s[p]>>

compile(s) == FlattenSeq([p \in DOMAIN s |-> words(s, p)])

\* What follows a typed line's number, or the line without its indentation.
Trimmed(s) == SubSeq(s, Min({i \in DOMAIN s : s[i].t # "space"} \cup {Len(s) + 1}), Len(s))
Keyed(s)   == Trimmed(s) # << >> /\ Trimmed(s)[1].t = "num"
Body(s)    == IF Keyed(s) THEN Tail(Trimmed(s)) ELSE Trimmed(s)
compile_line(s) ==
  (IF Keyed(s) THEN <<Value(RDLNT(Trimmed(s)[1])), Value(Len(compile(Body(s))) + 3)>> ELSE << >>)
    \o compile(Body(s)) \o <<NL>>

\* It stops with a message at a word that is no command and at a parenthesis
\* that is not closed.
Compilable(s) ==
  \A p \in DOMAIN s : HasCommand(s, p) =>
    /\ IsCommand(s[CommandAt(s, p)])
    /\ IfOf(s, p) => Closing(s, Min(Opening(s, p)), End(s, p)) # {}

\* Where the two keep the same rules: an IF has a condition, which no closing
\* parenthesis comes ahead of (CDEP counts it, close does not begin before the
\* opening one) and no quote is in or ahead of; no line number is in quotes;
\* and a step of zeros (1.0) is written nowhere but in a line's own number.
Plain(s) ==
  \A p \in DOMAIN s : HasCommand(s, p) =>
    /\ s[CommandAt(s, p)].name = "IF" =>
         /\ IfOf(s, p)
         /\ Among("rpar", s, CommandAt(s, p), Min(Opening(s, p))) = {}
         /\ Among("quote", s, Start(s, p), Before(s, p)) = {}
    /\ Numbered(s, p) =>
         /\ Cardinality(Among("quote", s, 1, p)) % 2 = 0
         /\ marker(s[p]) = Marker(NamesGroup(s[p]))

\* NUM takes two digits of group at most; to RDLNT 002 is group 2.
NUM(s) == \A p \in DOMAIN s : s[p].t = "num" => Len(s[p].group) <= 2

-----------------------------------------------------------------------------
(* Properties.                                                             *)

\* A line typed and a line assembled in are the same words: reading from left
\* to right with one counter and one flag finds the commands and the line
\* numbers that cutting the line up first finds, and leaves alone the digits of
\* a condition, of a string and of plain text.
AsMkprog ==
  at = "COMPILED" /\ Compilable(Body(line)) /\ Plain(Body(line)) /\ NUM(line) =>
    cbuf = compile_line(line)

\* WRITE lists what was typed, whatever it was: only a line number's spelling
\* may differ, and only where it is one.
ListsBack ==
  at = "DOWR3" /\ cbuf[txtp] = NL =>
    /\ Len(listed) = Len(Trimmed(line))
    /\ \A k \in DOMAIN listed :
         LET was == Trimmed(line)[k]
         IN  \/ listed[k] = was
             \/ was.t = "num" /\ listed[k].t = "num" /\ RDLNT(was) = RDLNT(listed[k])

\* A listing typed in again is accepted and is the same words: what WRITE
\* leaves out the words did not hold.
Retyped ==
  stored # << >> => at # "REFUSED" /\ (at = "COMPILED" => cbuf = stored)
=============================================================================
