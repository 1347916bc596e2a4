-------------------------------- MODULE Arith --------------------------------
(***************************************************************************)
(* The arithmetic runtime (arithlib.s) on words of any width: products,    *)
(* quotients and roots of signed words and of pairs of words, and their    *)
(* decimal spelling.                                                       *)
(*                                                                         *)
(* The machine adds, complements and shifts, and TAD leaves the carry in   *)
(* the link.  Everything else is made of that: signs are taken off and put *)
(* back, comparisons are carries, and a loop runs once for each bit.  Such *)
(* a loop is a definition here, one pass of it the body of a fold; what    *)
(* runs for as long as it takes (the root, the digits) is an action.       *)
(***************************************************************************)
EXTENDS Integers, SequencesExt

CONSTANTS
  Bits,          \* of a word (18)
  DBEND,         \* one past the buffer's last slot (12)
  Programs       \* the calls a program makes, one after the other

\* Powers are functions here, which is what a proof can unfold.
TwoTo[k \in 0 .. Bits] == IF k = 0 THEN 1 ELSE 2 * TwoTo[k - 1]
TenTo[k \in 0 .. Bits + DBEND] == IF k = 0 THEN 1 ELSE 10 * TenTo[k - 1]
WordMod == TwoTo[Bits]
Half    == TwoTo[Bits - 1]
Word    == 0 .. WordMod - 1

\* What may be called, and with what; ISQRT is for numbers that are not negative.
Call ==
  [op : {"MUL", "MULS36", "DIV"}, a : Word, b : Word]
    \cup [op : {"DIVS36"}, h : Word, l : Word, b : Word]
    \cup [op : {"ISQRT"}, a : 0 .. Half - 1]
    \cup [op : {"DEC36"}, h : Word, l : Word] \cup [op : {"DEC"}, a : Word]

\* Ten is a divisor, and D18's remainder doubles in a word.
ASSUME ArithAssumption == Bits \in Nat /\ WordMod > 20 /\ DBEND \in Nat
\* The buffer holds the digits of the longest number and its sign.
ASSUME BufferAssumption == DBEND > 1 /\ TenTo[DBEND - 1] > WordMod * Half
ASSUME ProgramsAssumption == Programs \subseteq Seq(Call)

VARIABLES
  todo,              \* the calls still to make; the first is under way
  at,
  mres, mrem,        \* MRES, MREM
  mdh, mdl,          \* the pair
  sqn, sqg,          \* SQN, SQG
  dval, negf, ix,    \* DVAL, NEGF, the write index
  dbuf, dpos         \* DBUF, DPOS

arithVars == <<todo, at, mres, mrem, mdh, mdl, sqn, sqg, dval, negf, ix, dbuf, dpos>>
results   == <<mres, mrem, mdh, mdl>>
root      == <<sqn, sqg>>
digits    == <<dval, negf, ix, dbuf, dpos>>

-----------------------------------------------------------------------------
(* Words.                                                                  *)

Sum(a, b)   == (a + b) % WordMod
Carry(a, b) == a + b >= WordMod
CIA(a)      == (WordMod - a) % WordMod
CMA(a)      == WordMod - 1 - a
IsNeg(a)    == a >= Half
Shl(a)      == 2 * a % WordMod
Top(a)      == a \div Half

\* ABS1, ABS2, NEGR.
Abs(a)       == IF IsNeg(a) THEN CIA(a) ELSE a
Signed(s, a) == IF s THEN CIA(a) ELSE a

Pair(h, l)   == [h |-> h, l |-> l]
\* Complement both, add one to the low word; its carry goes into the high one.
NoCarryUp(p) == Pair(CMA(p.h), CIA(p.l))
NegPair(p)   == Pair(IF Carry(CMA(p.l), 1) THEN Sum(CMA(p.h), 1) ELSE CMA(p.h), CIA(p.l))

Passes(Pass(_), s) ==
  LET after[k \in 0 .. Bits] == IF k = 0 THEN s ELSE Pass(after[k - 1])
  IN  after[Bits]

-----------------------------------------------------------------------------
(* Multiplication and division.                                            *)

\* MUL's loop: the multiplier shifts right until it is zero.
MulPass(s) ==
  IF s.n = 0 THEN s
  ELSE [sum |-> IF s.n % 2 = 1 THEN Sum(s.sum, s.m) ELSE s.sum, m |-> Shl(s.m), n |-> s.n \div 2]
\* The smaller magnitude is the multiplier: M1 >= M2 is a carry.
MUL(a, b) ==
  LET swap == ~Carry(CIA(Abs(b)), Abs(a))
      m == IF swap THEN Abs(b) ELSE Abs(a)
      n == IF swap THEN Abs(a) ELSE Abs(b)
  IN  Signed(IsNeg(a) # IsNeg(b), Passes(MulPass, [sum |-> 0, m |-> m, n |-> n]).sum)

\* MUL36: the pair doubles, and the multiplicand's top bit adds the multiplier.
Mul36Pass(s) ==
  LET h == Sum(Shl(s.h), Top(s.l))
      l == Shl(s.l)
  IN  [s EXCEPT !.m = Shl(@),
                !.l = IF Top(s.m) = 1 THEN Sum(l, s.n) ELSE l,
                !.h = IF Top(s.m) = 1 /\ Carry(l, s.n) THEN Sum(h, 1) ELSE h]
MUL36(a, b) ==
  LET s == Passes(Mul36Pass, [h |-> 0, l |-> 0, m |-> a, n |-> b]) IN Pair(s.h, s.l)
MULS36(a, b) ==
  LET p == MUL36(Abs(a), Abs(b)) IN IF IsNeg(a) # IsNeg(b) THEN NegPair(p) ELSE p

\* D18, and DIV's loop: remainder and dividend shift as one; the divisor fits
\* when adding its complement carries.  The quotient follows the dividend out.
FitsAbove(r, d) == r > d
Fits(r, d) == Carry(r, CIA(d))
D18Pass(s) ==
  LET r == Sum(Shl(s.r), Top(s.l))
  IN  IF Fits(r, s.d) THEN [s EXCEPT !.r = Sum(r, CIA(s.d)), !.l = Shl(s.l) + 1]
      ELSE [s EXCEPT !.r = r, !.l = Shl(s.l)]
D18(r, l, d) == Passes(D18Pass, [r |-> r, l |-> l, d |-> d])

\* DIV: the remainder takes the dividend's sign.
DIV(a, b) ==
  IF b = 0 THEN [q |-> 0, r |-> 0]
  ELSE LET s == D18(0, Abs(a), Abs(b))
       IN  [q |-> Signed(IsNeg(a) # IsNeg(b), s.l), r |-> Signed(IsNeg(a), s.r)]

\* DIV36: the high half first; its remainder becomes the next high half.
DIV36(p, d) ==
  IF d = 0 THEN [q |-> p, low |-> 0, r |-> 0]
  ELSE LET high == D18(0, p.h, d)
           rest == D18(high.r, p.l, d)
       IN  [q |-> Pair(high.l, rest.l), low |-> rest.l, r |-> rest.r]
PairAsIs(p) == p
AbsPair(p) == IF IsNeg(p.h) THEN NegPair(p) ELSE p
DIVS36(p, b) ==
  LET d == DIV36(AbsPair(p), Abs(b))
      q == IF IsNeg(p.h) # IsNeg(b) THEN NegPair(d.q) ELSE d.q
  IN  [q |-> q, r |-> d.r]

-----------------------------------------------------------------------------
(* Calls.                                                                  *)

Now == Head(todo)
Calls(op) == at = "CALL" /\ todo # << >> /\ Now.op = op

CallMUL ==
  /\ Calls("MUL") /\ mres' = MUL(Now.a, Now.b) /\ at' = "DONE"
  /\ UNCHANGED <<todo, mrem, mdh, mdl, root, digits>>
CallMULS36 ==
  /\ Calls("MULS36") /\ at' = "DONE"
  /\ mdh' = MULS36(Now.a, Now.b).h /\ mdl' = MULS36(Now.a, Now.b).l
  /\ UNCHANGED <<todo, mres, mrem, root, digits>>
CallDIV ==
  /\ Calls("DIV") /\ at' = "DONE"
  /\ mres' = DIV(Now.a, Now.b).q /\ mrem' = DIV(Now.a, Now.b).r
  /\ UNCHANGED <<todo, mdh, mdl, root, digits>>
CallDIVS36 ==
  LET d == DIVS36(Pair(Now.h, Now.l), Now.b)
  IN  /\ Calls("DIVS36") /\ at' = "DONE"
      /\ mdh' = d.q.h /\ mdl' = d.q.l /\ mres' = d.q.l /\ mrem' = d.r
      /\ UNCHANGED <<todo, root, digits>>

\* ISQRT: Newton from above, for as long as the guess falls.
CallISQRT ==
  /\ Calls("ISQRT")
  /\ IF Now.a = 0 THEN mres' = 0 /\ at' = "DONE" /\ UNCHANGED root
     ELSE sqn' = Now.a /\ sqg' = Now.a /\ at' = "SQL" /\ UNCHANGED mres
  /\ UNCHANGED <<todo, mrem, mdh, mdl, digits>>
Stays(new, old) == ~IsNeg(Sum(new, CIA(old)))
Falls(new, old) == IsNeg(Sum(new, CIA(old)))
SQL ==
  LET n == DIV(sqn, sqg)
      new == Sum(n.q, sqg) \div 2
  IN  /\ at = "SQL" /\ mrem' = n.r
      /\ IF Falls(new, sqg)
         THEN sqg' = new /\ mres' = n.q /\ UNCHANGED at
         ELSE mres' = sqg /\ at' = "DONE" /\ UNCHANGED sqg
      /\ UNCHANGED <<todo, sqn, mdh, mdl, digits>>

\* A decimal spelling is written backwards from the end of the buffer.
Before(c) == ix' = ix - 1 /\ dbuf' = [dbuf EXCEPT ![ix - 1] = c]
Spelled(v) ==       \* the spelling of a natural number
  LET places == {k \in 0 .. Bits : TenTo[k] <= v \/ k = 0}
  IN  [k \in 1 .. Cardinality(places) |-> v \div TenTo[Cardinality(places) - k] % 10]
\* What a slot of the buffer holds beside a digit.
Minus == 10
Empty == 11
WroteNone == ix = DBEND

CallDEC ==
  /\ Calls("DEC") /\ Now.a # Half
  /\ negf' = IsNeg(Now.a) /\ dval' = Abs(Now.a) /\ ix' = DBEND /\ at' = "DEC"
  /\ UNCHANGED <<todo, results, root, dbuf, dpos>>
\* The most negative word is copied from MNTXT to the buffer's second slot on.
MostNegative ==
  LET text == <<Minus>> \o Spelled(Half)
  IN  /\ Calls("DEC") /\ Now.a = Half
      /\ dpos' = 1 /\ at' = "DONE"
      /\ dbuf' = [k \in DOMAIN dbuf |-> IF k \in DOMAIN text THEN text[k] ELSE dbuf[k]]
      /\ UNCHANGED <<todo, results, root, dval, negf, ix>>
\* A zero divides away before a digit is written and gets one of its own.
DECLoop ==
  /\ at = "DEC"
  /\ \/ /\ dval # 0
        /\ dval' = DIV(dval, 10).q /\ mres' = DIV(dval, 10).q /\ mrem' = DIV(dval, 10).r
        /\ Before(DIV(dval, 10).r) /\ UNCHANGED at
     \/ /\ dval = 0 /\ at' = "SIGN"
        /\ IF WroteNone THEN Before(0) ELSE UNCHANGED <<ix, dbuf>>
        /\ UNCHANGED <<dval, mres, mrem>>
  /\ UNCHANGED <<todo, mdh, mdl, root, negf, dpos>>
DECSign ==
  /\ at = "SIGN" /\ at' = "DONE"
  /\ IF negf THEN Before(Minus) ELSE UNCHANGED <<ix, dbuf>>
  /\ dpos' = ix'
  /\ UNCHANGED <<todo, results, root, dval, negf>>

CallDEC36 ==
  LET p == AbsPair(Pair(Now.h, Now.l))
  IN  /\ Calls("DEC36") /\ at' = "DEC36" /\ ix' = DBEND /\ negf' = IsNeg(Now.h)
      /\ mdh' = p.h /\ mdl' = p.l
      /\ UNCHANGED <<todo, mres, mrem, root, dval, dbuf, dpos>>
DEC36Loop ==
  LET d == DIV36(Pair(mdh, mdl), 10)
  IN  /\ at = "DEC36"
      /\ \/ /\ mdl # 0 \/ mdh # 0
            /\ mdh' = d.q.h /\ mdl' = d.q.l /\ mres' = d.low /\ mrem' = d.r
            /\ Before(d.r) /\ UNCHANGED at
         \/ /\ mdl = 0 /\ mdh = 0 /\ at' = "SIGN"
            /\ IF WroteNone THEN Before(0) ELSE UNCHANGED <<ix, dbuf>>
            /\ UNCHANGED results
      /\ UNCHANGED <<todo, root, dval, negf, dpos>>

RET ==
  /\ at = "DONE" /\ todo' = Tail(todo) /\ at' = "CALL"
  /\ UNCHANGED <<results, root, digits>>

ArithInit ==
  /\ todo \in Programs /\ at = "CALL"
  /\ mres = 0 /\ mrem = 0 /\ mdh = 0 /\ mdl = 0 /\ sqn = 0 /\ sqg = 0
  /\ dval = 0 /\ negf = FALSE /\ ix = 0 /\ dpos = 0
  /\ dbuf = [k \in 0 .. DBEND - 1 |-> Empty]

ArithNext ==
  \/ CallMUL \/ CallMULS36 \/ CallDIV \/ CallDIVS36 \/ CallISQRT \/ SQL
  \/ CallDEC \/ MostNegative \/ DECLoop \/ DECSign \/ CallDEC36 \/ DEC36Loop \/ RET

ArithSpec == ArithInit /\ [][ArithNext]_arithVars

-----------------------------------------------------------------------------
(* What the numbers mean.                                                  *)

Val(a)     == IF a >= Half THEN a - WordMod ELSE a
Val2(h, l) == Val(h) * WordMod + l
Returned(ops) == at = "DONE" /\ Now.op \in ops
Mag(v) == IF v < 0 THEN -v ELSE v

\* A product is the product: of two words exactly in a pair, and in one word
\* what a word can hold of it; signs, zero and the most negative word included.
Product ==
  /\ Returned({"MULS36"}) => Val2(mdh, mdl) = Val(Now.a) * Val(Now.b)
  /\ Returned({"MUL"}) => mres = (Val(Now.a) * Val(Now.b)) % WordMod

\* Quotient and remainder are those of the magnitudes, quotients negative when
\* one operand was, the remainder with DIV's dividend; a zero divisor gives
\* zero.  Only the most negative value over minus one does not fit.
Quotient ==
  LET signed(neg, m) == IF neg THEN -m ELSE m
      q(v, w) == signed((v < 0) # (w < 0), Mag(v) \div Mag(w))
  IN  /\ Returned({"DIV"}) /\ Now.b # 0 =>
           /\ mres = q(Val(Now.a), Val(Now.b)) % WordMod
           /\ Val(mrem) = signed(Val(Now.a) < 0, Mag(Val(Now.a)) % Mag(Val(Now.b)))
      /\ Returned({"DIV"}) /\ Now.b = 0 => mres = 0 /\ mrem = 0
      /\ Returned({"DIVS36"}) /\ Now.b # 0 =>
           LET v == Val2(Now.h, Now.l)
           IN  /\ (mdh * WordMod + mdl) = q(v, Val(Now.b)) % (WordMod * WordMod)
               /\ mrem = Mag(v) % Mag(Val(Now.b))

\* The root is the largest number whose square is not more.
Root ==
  Returned({"ISQRT"}) => mres * mres <= Now.a /\ Now.a < (mres + 1) * (mres + 1)

\* From DPOS up to the end of the buffer stand the digits of the number, with
\* no zero in front and its sign before them, whatever stood there before.
Spelling(v) == (IF v < 0 THEN <<Minus>> ELSE << >>) \o Spelled(Mag(v))
InBuffer == [k \in 1 .. DBEND - dpos |-> dbuf[dpos + k - 1]]
Spells ==
  /\ Returned({"DEC"}) /\ Now.a # Half => InBuffer = Spelling(Val(Now.a))
  /\ Returned({"DEC36"}) => InBuffer = Spelling(Val2(Now.h, Now.l))
=============================================================================
