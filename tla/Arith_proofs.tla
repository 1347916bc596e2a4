---------------------------- MODULE Arith_proofs ----------------------------
(***************************************************************************)
(* For words of every width and every program of calls: MUL and MULS36     *)
(* multiply, DIV and DIVS36 divide, ISQRT finds the root, DEC and DEC36    *)
(* spell.  A loop's states are a function that iterates its pass, what it  *)
(* keeps is shown for one pass and then, by induction up to the number of  *)
(* bits (UpTo), for the last; the routines put the signs on; the actions   *)
(* are followed with the two loops that are actions, the root's and the    *)
(* digits'.  Products of two unknowns are named and hidden before a sum of *)
(* them is compared: the provers do linear arithmetic.                     *)
(***************************************************************************)
EXTENDS Arith, TLAPS, FiniteSetTheorems

(* Induction up to a bound, over a set of numbers.                         *)
LEMMA UpTo ==
  ASSUME NEW n \in Nat, NEW S, 0 \in S, \A k \in 0 .. n - 1 : k \in S => k + 1 \in S
  PROVE  0 .. n \subseteq S
<1> DEFINE Out == {k \in 0 .. n : k \notin S}
<1> SUFFICES ASSUME Out # {} PROVE FALSE
  OBVIOUS
<1>1. Out \subseteq Nat
  OBVIOUS
<1>2. PICK x \in Out : \A y \in Out : ~(<<y, x>> \in OpToRel(<, Nat))
  BY <1>1, NatLessThanWellFounded, WFMin
<1>3. x # 0 /\ x \in 1 .. n /\ x - 1 \in 0 .. n - 1
  OBVIOUS
<1>4. x - 1 \in Out
  BY <1>3, x = (x - 1) + 1
<1>5. <<x - 1, x>> \in OpToRel(<, Nat)
  BY <1>3 DEF OpToRel
<1> QED BY <1>2, <1>4, <1>5

(* What a loop runs through: a function can be iterated as often as wanted. *)
IsRun(g, S, F, s, n) ==
  g \in [0 .. n -> S] /\ g[0] = s /\ \A k \in 1 .. n : g[k] = F[g[k - 1]]

(* Every function of a set into itself has a run of any length.            *)
LEMMA Iterated ==
  ASSUME NEW S, NEW F \in [S -> S], NEW s \in S, NEW n \in Nat
  PROVE  \E g : IsRun(g, S, F, s, n)
<1> DEFINE Runs(g, m) == g \in [0 .. n -> S] /\ g[0] = s /\ \A k \in 1 .. m : g[k] = F[g[k - 1]]
           Far == {m \in 0 .. n : \E g : Runs(g, m)}
<1>1. 0 \in Far
  <2> DEFINE g == [k \in 0 .. n |-> s]
  <2>1. Runs(g, 0)
    OBVIOUS
  <2>2. \E h : Runs(h, 0)
    <3> HIDE DEF g, Runs
    <3> QED BY <2>1
  <2> QED BY <2>2
<1>2. ASSUME NEW m \in 0 .. n - 1, m \in Far PROVE m + 1 \in Far
  <2>1. PICK g : Runs(g, m)
    BY <1>2
  <2> DEFINE h == [g EXCEPT ![m + 1] = F[g[m]]]
  <2>2. h \in [0 .. n -> S] /\ h[0] = s /\ h[m + 1] = F[g[m]]
    BY <2>1
  <2>3. \A k \in 0 .. n : k # m + 1 => h[k] = g[k]
    BY <2>1
  <2>4. ASSUME NEW k \in 1 .. m + 1 PROVE h[k] = F[h[k - 1]]
    <3>1. CASE k = m + 1
      BY <3>1, <2>2, <2>3, k - 1 = m, m \in 0 .. n
    <3>2. CASE k # m + 1
      <4>1. k \in 1 .. m /\ k \in 0 .. n /\ k - 1 \in 0 .. n /\ k - 1 # m + 1
        BY <3>2
      <4> QED BY <4>1, <2>1, <2>3, <3>2
    <3> QED BY <3>1, <3>2
  <2> HIDE DEF h
  <2> QED BY <2>2, <2>4
<1> HIDE DEF Far
<1>3. 0 .. n \subseteq Far
  BY <1>1, <1>2, UpTo
<1>4. n \in Far
  BY <1>3
<1> QED BY <1>4 DEF Far, IsRun

(* The powers of two, which is what their definition says (TwoTo).         *)
LEMMA TwoToRuns == TwoTo = [k \in 0 .. Bits |-> IF k = 0 THEN 1 ELSE 2 * TwoTo[k - 1]]
<1> USE ArithAssumption
<1> DEFINE F == [x \in Int |-> 2 * x]
           ok(g) == g = [k \in 0 .. Bits |-> IF k = 0 THEN 1 ELSE 2 * g[k - 1]]
<1>1. PICK g : IsRun(g, Int, F, 1, Bits)
  <2>1. F \in [Int -> Int] /\ 1 \in Int /\ Bits \in Nat
    OBVIOUS
  <2> HIDE DEF F
  <2> QED BY <2>1, Iterated
<1>2. \A k \in 0 .. Bits : g[k] = IF k = 0 THEN 1 ELSE 2 * g[k - 1]
  <2> SUFFICES ASSUME NEW k \in 0 .. Bits PROVE g[k] = IF k = 0 THEN 1 ELSE 2 * g[k - 1]
    OBVIOUS
  <2>1. CASE k = 0
    BY <2>1, <1>1 DEF IsRun
  <2>2. CASE k # 0
    <3>1. k \in 1 .. Bits /\ k - 1 \in 0 .. Bits
      BY <2>2
    <3>2. g[k] = F[g[k - 1]] /\ g[k - 1] \in Int
      BY <3>1, <1>1 DEF IsRun
    <3> QED BY <3>2, <2>2
  <2> QED BY <2>1, <2>2
<1>3. ok(g)
  BY <1>1, <1>2 DEF IsRun
<1>4. ok(CHOOSE h : ok(h))
  BY <1>3
<1> QED BY <1>4 DEF TwoTo

(* The first power, their type, and each from the one before.              *)
LEMMA TwoToFacts ==
  /\ TwoTo[0] = 1
  /\ \A k \in 0 .. Bits : TwoTo[k] \in Nat \ {0}
  /\ \A k \in 0 .. Bits - 1 : TwoTo[k + 1] = 2 * TwoTo[k]
<1> USE ArithAssumption
<1>1. TwoTo[0] = 1
  BY TwoToRuns
<1>2. \A k \in 0 .. Bits - 1 : TwoTo[k + 1] = 2 * TwoTo[k]
  BY TwoToRuns
<1> DEFINE S == {k \in 0 .. Bits : TwoTo[k] \in Nat \ {0}}
<1>3. 0 .. Bits \subseteq S
  <2>1. 0 \in S
    BY <1>1
  <2>2. ASSUME NEW k \in 0 .. Bits - 1, k \in S PROVE k + 1 \in S
    BY <2>2, <1>2
  <2> HIDE DEF S
  <2> QED BY <2>1, <2>2, UpTo
<1> QED BY <1>1, <1>2, <1>3

(* Of the bits of a word, k have been looked at and the others have not.   *)
LEMMA TwoToSplits ==
  /\ Bits \in Nat \ {0} /\ WordMod \in Nat /\ WordMod > 20 /\ Half \in Nat /\ WordMod = 2 * Half
  /\ \A k \in 0 .. Bits : TwoTo[k] * TwoTo[Bits - k] = WordMod
<1> USE ArithAssumption
<1>1. Bits # 0
  BY TwoToFacts DEF WordMod
<1>2. WordMod \in Nat /\ Half \in Nat /\ WordMod = 2 * Half
  BY <1>1, TwoToFacts DEF WordMod, Half
<1> DEFINE S == {k \in 0 .. Bits : TwoTo[k] * TwoTo[Bits - k] = WordMod}
<1>3. 0 .. Bits \subseteq S
  <2>1. 0 \in S
    BY TwoToFacts DEF WordMod
  <2>2. ASSUME NEW k \in 0 .. Bits - 1, k \in S PROVE k + 1 \in S
    <3>1. TwoTo[k + 1] = 2 * TwoTo[k] /\ TwoTo[Bits - k] = 2 * TwoTo[Bits - (k + 1)]
      BY TwoToFacts, Bits - (k + 1) \in 0 .. Bits - 1
    <3>2. TwoTo[k] \in Nat /\ TwoTo[Bits - (k + 1)] \in Nat
      BY TwoToFacts
    <3>3. TwoTo[k] * TwoTo[Bits - k] = WordMod
      BY <2>2
    <3>4. \A x, y \in Nat : (2 * x) * y = x * (2 * y)
      OBVIOUS
    <3>5. TwoTo[k + 1] * TwoTo[Bits - (k + 1)] = WordMod
      BY <3>1, <3>2, <3>3, <3>4
    <3> QED BY <3>5
  <2> HIDE DEF S
  <2> QED BY <2>1, <2>2, UpTo
<1> QED BY <1>1, <1>2, <1>3

(* Division with remainder, both ways.                                     *)
LEMMA Divided ==
  ASSUME NEW a \in Nat, NEW b \in Nat \ {0}
  PROVE  a = b * (a \div b) + (a % b) /\ a \div b \in Nat /\ a % b \in 0 .. b - 1
OBVIOUS

(* Only one quotient and remainder make a number.                          *)
LEMMA DividedOnce ==
  ASSUME NEW a \in Int, NEW b \in Nat \ {0}, NEW q \in Int, NEW r \in 0 .. b - 1, a = b * q + r
  PROVE  a \div b = q /\ a % b = r
OBVIOUS

(* What remains in a word of a number that is a word and some carries.     *)
LEMMA WordModulo ==
  ASSUME NEW a \in Int, NEW z \in Int, NEW r \in Word, a = z * WordMod + r
  PROVE  a % WordMod = r
<1>1. a = WordMod * z + r /\ WordMod \in Nat \ {0} /\ r \in 0 .. WordMod - 1
  BY TwoToSplits DEF Word
<1> QED BY <1>1, DividedOnce

(* A word's halves.                                                        *)
LEMMA TopBit ==
  ASSUME NEW a \in Word
  PROVE  /\ Top(a) \in {0, 1} /\ Shl(a) \in Word
         /\ 2 * a = Top(a) * WordMod + Shl(a)
         /\ Top(a) = (IF a >= Half THEN 1 ELSE 0)
<1> USE TwoToSplits DEF Word
<1>1. CASE a >= Half
  <2>1. a = Half * 1 + (a - Half) /\ a - Half \in 0 .. Half - 1 /\ Half \in Nat \ {0}
    BY <1>1
  <2>2. a \div Half = 1
    BY <2>1, DividedOnce
  <2>3. 2 * a = 1 * WordMod + 2 * (a - Half) /\ 2 * (a - Half) \in Word /\ 2 * a \in Int
    BY <1>1
  <2>4. (2 * a) % WordMod = 2 * (a - Half)
    BY <2>3, WordModulo, 0 \in Int, 1 \in Int
  <2> QED BY <1>1, <2>2, <2>3, <2>4 DEF Top, Shl
<1>2. CASE a < Half
  <2>1. a = Half * 0 + a /\ a \in 0 .. Half - 1 /\ Half \in Nat \ {0}
    BY <1>2
  <2>2. a \div Half = 0
    BY <2>1, DividedOnce
  <2>3. 2 * a = 0 * WordMod + 2 * a /\ 2 * a \in Word /\ 2 * a \in Int
    BY <1>2
  <2>4. (2 * a) % WordMod = 2 * a
    BY <2>3, WordModulo, 0 \in Int, 1 \in Int
  <2> QED BY <1>2, <2>2, <2>3, <2>4 DEF Top, Shl
<1> QED BY <1>1, <1>2

(* An addition keeps what fits a word and carries the rest.                *)
LEMMA Added ==
  ASSUME NEW a \in Word, NEW b \in Word
  PROVE  /\ Sum(a, b) \in Word
         /\ Sum(a, b) = (IF Carry(a, b) THEN a + b - WordMod ELSE a + b)
<1> USE TwoToSplits DEF Word
<1>1. CASE a + b >= WordMod
  <2>1. a + b = 1 * WordMod + (a + b - WordMod) /\ a + b - WordMod \in Word /\ a + b \in Int
    BY <1>1
  <2>2. (a + b) % WordMod = a + b - WordMod
    BY <2>1, WordModulo, 0 \in Int, 1 \in Int
  <2> QED BY <1>1, <2>1, <2>2 DEF Sum, Carry
<1>2. CASE a + b < WordMod
  <2>1. a + b = 0 * WordMod + (a + b) /\ a + b \in Word
    BY <1>2
  <2>2. (a + b) % WordMod = a + b
    BY <2>1, WordModulo, 0 \in Int, 1 \in Int
  <2> QED BY <1>2, <2>1, <2>2 DEF Sum, Carry
<1> QED BY <1>1, <1>2

(* Complements, magnitudes, and the number a word stands for.              *)
LEMMA Negated ==
  ASSUME NEW a \in Word
  PROVE  CIA(a) \in Word /\ CIA(a) = (IF a = 0 THEN 0 ELSE WordMod - a)
<1> USE TwoToSplits DEF Word
<1>1. CASE a = 0
  <2>1. WordMod - a = 1 * WordMod + 0 /\ 0 \in Word /\ WordMod - a \in Int
    BY <1>1
  <2>2. (WordMod - a) % WordMod = 0
    BY <2>1, WordModulo, 0 \in Int, 1 \in Int
  <2> QED BY <1>1, <2>2 DEF CIA
<1>2. CASE a # 0
  <2>1. WordMod - a = 0 * WordMod + (WordMod - a) /\ WordMod - a \in Word /\ WordMod - a \in Int
    BY <1>2
  <2>2. (WordMod - a) % WordMod = WordMod - a
    BY <2>1, WordModulo, 0 \in Int, 1 \in Int
  <2> QED BY <1>2, <2>1, <2>2 DEF CIA
<1> QED BY <1>1, <1>2

(* ABS1 leaves the magnitude and IsNeg is the sign.                        *)
LEMMA Magnitude ==
  ASSUME NEW a \in Word
  PROVE  /\ Val(a) \in Int /\ Mag(Val(a)) \in 0 .. Half
         /\ Abs(a) \in Word /\ Abs(a) = Mag(Val(a))
         /\ Val(a) = (IF IsNeg(a) THEN -Abs(a) ELSE Abs(a))
         /\ IsNeg(a) <=> Val(a) < 0
         /\ Val(a) = 0 <=> a = 0
BY TwoToSplits, Negated DEF Val, Mag, Abs, IsNeg, Word

-----------------------------------------------------------------------------
(* MUL's loop: what is summed and what is left to multiply make the product *)
(* up to what the words overflowed, and the multiplier has one bit less     *)
(* after each pass.                                                         *)
MulState == [sum : Word, m : Word, n : Word]

MulLoop(k, s, p) ==
  /\ s \in MulState /\ s.n < TwoTo[Bits - k]
  /\ \E z \in Int : s.sum + s.m * s.n = p + z * WordMod

(* The products a pass rearranges.                                         *)
LEMMA MulStep ==
  /\ \A x, y, w \in Int : x * (2 * y + w) = (2 * x) * y + w * x
  /\ \A x, y, w, v \in Int : (x * y + w) * v = (x * y) * v + w * v
  /\ \A z, t2, t, h, W \in Int : (z - t2 - t * h) * W = z * W - t2 * W - (t * W) * h
<1>1. \A x, y, w \in Int : x * (2 * y + w) = (2 * x) * y + w * x
  OBVIOUS
<1>2. \A x, y, w, v \in Int : (x * y + w) * v = (x * y) * v + w * v
  OBVIOUS
<1>3. \A z, t2, t, h, W \in Int : (z - t2 - t * h) * W = z * W - t2 * W - (t * W) * h
  OBVIOUS
<1> QED BY <1>1, <1>2, <1>3

(* One pass: a bit off the multiplier, the multiplicand doubled.           *)
LEMMA MulPassKeeps ==
  ASSUME NEW k \in 0 .. Bits - 1, NEW p \in Int, NEW s, MulLoop(k, s, p)
  PROVE  MulLoop(k + 1, MulPass(s), p)
<1> DEFINE Q == TwoTo[Bits - (k + 1)]
<1>1. Q \in Nat \ {0} /\ TwoTo[Bits - k] = 2 * Q /\ Bits \in Nat
  BY TwoToFacts, TwoToSplits, Bits - (k + 1) \in 0 .. Bits - 1, Bits - k = (Bits - (k + 1)) + 1
<1> HIDE DEF Q
<1>2. s \in MulState /\ s.n < 2 * Q /\ WordMod \in Nat
  BY <1>1, TwoToSplits DEF MulLoop
<1>3. PICK z \in Int : s.sum + s.m * s.n = p + z * WordMod
  BY DEF MulLoop
<1>4. CASE s.n = 0
  BY <1>1, <1>2, <1>3, <1>4 DEF MulLoop, MulPass, Q
<1>5. CASE s.n # 0
  <2> DEFINE h == s.n \div 2
             b == s.n % 2
             t == Top(s.m)
             t2 == IF b = 1 /\ Carry(s.sum, s.m) THEN 1 ELSE 0
             u == MulPass(s)
  <2>1. s.n \in Nat /\ s.n = 2 * h + b /\ h \in Nat /\ b \in {0, 1} /\ h < Q /\ h \in Word
    <3>1. s.n \in Nat /\ s.n = 2 * h + b /\ h \in Nat /\ b \in 0 .. 1
      <4>1. s.n \in Nat /\ 2 \in Nat \ {0}
        BY <1>2, TwoToSplits DEF MulState, Word
      <4> QED BY <4>1, Divided, 2 - 1 = 1
    <3> HIDE DEF h, b
    <3> QED BY <3>1, <1>2, <1>1 DEF MulState, Word
  <2>2. s.m \in Word /\ s.sum \in Word /\ Shl(s.m) \in Word /\ 2 * s.m = t * WordMod + Shl(s.m) /\ t \in {0, 1}
    BY <1>2, TopBit DEF MulState
  <2>3. u = [sum |-> IF b = 1 THEN Sum(s.sum, s.m) ELSE s.sum, m |-> Shl(s.m), n |-> h]
    BY <1>5 DEF MulPass
  <2> HIDE DEF h, b
  <2>4. u.sum \in Word /\ u.sum = s.sum + b * s.m - t2 * WordMod /\ t2 \in {0, 1}
    <3>1. CASE b = 1
      <4>1. u.sum = Sum(s.sum, s.m) /\ b * s.m = s.m
        BY <3>1, <2>2, <2>3 DEF Word
      <4>2. t2 = IF Carry(s.sum, s.m) THEN 1 ELSE 0
        BY <3>1
      <4>3. t2 * WordMod = IF Carry(s.sum, s.m) THEN WordMod ELSE 0
        BY <4>2, TwoToSplits
      <4>4. /\ Sum(s.sum, s.m) \in Word
            /\ Sum(s.sum, s.m) = IF Carry(s.sum, s.m) THEN s.sum + s.m - WordMod ELSE s.sum + s.m
        BY <2>2, Added
      <4>5. s.sum \in Int /\ s.m \in Int /\ WordMod \in Int
        BY <2>2, TwoToSplits DEF Word
      <4> DEFINE G == t2 * WordMod
                 C == b * s.m
      <4>6. G = (IF Carry(s.sum, s.m) THEN WordMod ELSE 0) /\ C = s.m /\ t2 \in {0, 1}
        BY <4>1, <4>2, <4>3
      <4> HIDE DEF u, t2, G, C
      <4>7. u.sum \in Word /\ u.sum = s.sum + C - G
        BY <4>1, <4>4, <4>5, <4>6
      <4> QED BY <4>6, <4>7 DEF G, C
    <3>2. CASE b = 0
      <4>1. u.sum = s.sum /\ b * s.m = 0 /\ t2 = 0
        BY <3>2, <2>2, <2>3 DEF Word
      <4> HIDE DEF u, t2
      <4> QED BY <4>1, <2>2, TwoToSplits DEF Word
    <3> QED BY <3>1, <3>2, <2>1
  <2>5. u \in MulState /\ u.m = Shl(s.m) /\ u.n = h
    BY <2>1, <2>2, <2>3, <2>4 DEF MulState
  <2> HIDE DEF h, b, t, t2, u
  <2>6. u.sum + u.m * u.n = p + (z - t2 - t * h) * WordMod
    <3>1. (s.sum + b * s.m - t2 * WordMod) + Shl(s.m) * h = p + (z - t2 - t * h) * WordMod
      <4>1. /\ s.m \in Int /\ s.sum \in Int /\ h \in Int /\ b \in Int /\ t \in Int /\ t2 \in Int
            /\ s.n \in Int /\ WordMod \in Int /\ Shl(s.m) \in Int
        BY <2>1, <2>2, <2>4, TwoToSplits DEF Word
      <4>2. s.m * s.n = (2 * s.m) * h + b * s.m
        BY <4>1, <2>1, MulStep
      <4>3. (2 * s.m) * h = (t * WordMod) * h + Shl(s.m) * h
        BY <4>1, <2>2, MulStep
      <4>4. (z - t2 - t * h) * WordMod = z * WordMod - t2 * WordMod - (t * WordMod) * h
        BY <4>1, MulStep
      <4> DEFINE A == s.m * s.n
                 B == (2 * s.m) * h
                 C == b * s.m
                 D == (t * WordMod) * h
                 E == Shl(s.m) * h
                 G == t2 * WordMod
                 H == z * WordMod
                 I == (z - t2 - t * h) * WordMod
      <4>5. /\ A \in Int /\ B \in Int /\ C \in Int /\ D \in Int /\ E \in Int /\ G \in Int
            /\ H \in Int /\ I \in Int
        BY <4>1
      <4>6. A = B + C /\ B = D + E /\ I = H - G - D /\ s.sum + A = p + H
        BY <4>2, <4>3, <4>4, <1>3
      <4>7. (s.sum + C - G) + E = p + I
        <5> HIDE DEF A, B, C, D, E, G, H, I
        <5> QED BY <4>1, <4>5, <4>6
      <4> QED BY <4>7
    <3> QED BY <3>1, <2>4, <2>5
  <2>7. z - t2 - t * h \in Int
    BY <2>1, <2>2, <2>4
  <2>8. u.n < Q
    BY <2>1, <2>5
  <2> QED BY <2>5, <2>6, <2>7, <2>8 DEF MulLoop, u, Q
<1> QED BY <1>4, <1>5

(* A pass keeps the three words words.                                     *)
LEMMA MulPassTyped == \A x \in MulState : MulPass(x) \in MulState
<1> SUFFICES ASSUME NEW x \in MulState PROVE MulPass(x) \in MulState
  OBVIOUS
<1> USE TwoToSplits
<1>1. x.n < TwoTo[Bits - 0] /\ x.sum + x.m * x.n \in Int
  BY DEF MulState, WordMod, Word
<1>2. x.sum + x.m * x.n = (x.sum + x.m * x.n) + 0 * WordMod
  BY <1>1
<1>3. MulLoop(0, x, x.sum + x.m * x.n)
  BY <1>1, <1>2, 0 \in Int DEF MulLoop
<1>4. MulLoop(0 + 1, MulPass(x), x.sum + x.m * x.n)
  BY <1>1, <1>3, MulPassKeeps, 0 \in 0 .. Bits - 1
<1> QED BY <1>4 DEF MulLoop

(* The states the loop goes through, and that its passes come to the last.    *)
LEMMA MulRun ==
  ASSUME NEW s \in MulState
  PROVE  \E f : /\ f[0] = s /\ \A k \in 0 .. Bits - 1 : f[k + 1] = MulPass(f[k])
               /\ Passes(MulPass, s) = f[Bits]
<1> DEFINE F == [x \in MulState |-> MulPass(x)]
           ok(g) == g = [k \in 0 .. Bits |-> IF k = 0 THEN s ELSE MulPass(g[k - 1])]
<1> USE TwoToSplits
<1>1. PICK g : IsRun(g, MulState, F, s, Bits)
  <2>1. F \in [MulState -> MulState]
    BY MulPassTyped
  <2> HIDE DEF F
  <2> QED BY <2>1, Iterated
<1>2. \A k \in 0 .. Bits : g[k] = IF k = 0 THEN s ELSE MulPass(g[k - 1])
  <2> SUFFICES ASSUME NEW k \in 0 .. Bits PROVE g[k] = IF k = 0 THEN s ELSE MulPass(g[k - 1])
    OBVIOUS
  <2>1. CASE k = 0
    BY <1>1, <2>1 DEF IsRun
  <2>2. CASE k # 0
    <3>1. k \in 1 .. Bits /\ k - 1 \in 0 .. Bits
      BY <2>2
    <3>2. g[k] = F[g[k - 1]] /\ g[k - 1] \in MulState
      BY <3>1, <1>1 DEF IsRun
    <3> QED BY <3>2, <2>2
  <2> QED BY <2>1, <2>2
<1>3. ok(g)
  BY <1>1, <1>2 DEF IsRun
<1> DEFINE f == CHOOSE h : ok(h)
<1>4. ok(f)
  BY <1>3
<1>5. Passes(MulPass, s) = f[Bits]
  BY DEF Passes
<1>6. f[0] = s /\ \A k \in 0 .. Bits - 1 : f[k + 1] = MulPass(f[k])
  <2> HIDE DEF f
  <2> QED BY <1>4
<1> HIDE DEF f
<1> QED BY <1>5, <1>6

(* What the loop adds up to, in one word.                                  *)
LEMMA MulPasses ==
  ASSUME NEW m \in Word, NEW n \in Word
  PROVE  /\ Passes(MulPass, [sum |-> 0, m |-> m, n |-> n]).sum \in Word
         /\ Passes(MulPass, [sum |-> 0, m |-> m, n |-> n]).sum = (m * n) % WordMod
<1> DEFINE s == [sum |-> 0, m |-> m, n |-> n]
           p == m * n
<1> USE TwoToSplits
<1>1. p \in Int /\ MulLoop(0, s, p)
  <2>1. s \in MulState /\ s.sum = 0 /\ s.m = m /\ s.n = n /\ n < TwoTo[Bits - 0] /\ m * n \in Int
    BY DEF MulState, Word, WordMod
  <2>2. s.sum + s.m * s.n = p + 0 * WordMod
    BY <2>1
  <2>3. p \in Int
    BY <2>1
  <2> HIDE DEF s, p
  <2> QED BY <2>1, <2>2, <2>3, 0 \in Int DEF MulLoop
<1> HIDE DEF p, s
<1>2. PICK f : /\ f[0] = s /\ \A k \in 0 .. Bits - 1 : f[k + 1] = MulPass(f[k])
               /\ Passes(MulPass, s) = f[Bits]
  BY <1>1, MulRun DEF MulLoop
<1> DEFINE S == {k \in 0 .. Bits : MulLoop(k, f[k], p)}
<1>3. 0 .. Bits \subseteq S
  <2>1. 0 \in S
    BY <1>1, <1>2
  <2>2. ASSUME NEW k \in 0 .. Bits - 1, k \in S PROVE k + 1 \in S
    <3>1. MulLoop(k, f[k], p)
      BY <2>2
    <3>2. MulLoop(k + 1, MulPass(f[k]), p)
      BY <3>1, <1>1, MulPassKeeps
    <3>3. f[k + 1] = MulPass(f[k])
      BY <1>2
    <3> QED BY <3>2, <3>3
  <2> HIDE DEF S
  <2> QED BY <2>1, <2>2, UpTo
<1>4. MulLoop(Bits, f[Bits], p)
  BY <1>3
<1> DEFINE e == f[Bits]
<1>5. e \in MulState /\ e.n < 1 /\ \E z \in Int : e.sum + e.m * e.n = p + z * WordMod
  BY <1>4, TwoToFacts, Bits - Bits = 0 DEF MulLoop
<1> HIDE DEF e
<1>6. PICK z \in Int : e.sum + e.m * e.n = p + z * WordMod
  BY <1>5
<1>7. e.n = 0 /\ e.sum \in Word /\ e.m * e.n = 0
  BY <1>5 DEF MulState, Word
<1>8. p = (-z) * WordMod + e.sum
  BY <1>1, <1>6, <1>7 DEF Word
<1>9. p % WordMod = e.sum
  BY <1>1, <1>7, <1>8, WordModulo, -z \in Int
<1> QED BY <1>2, <1>7, <1>9 DEF s, p, e

-----------------------------------------------------------------------------
(* Of a word, the k bits a loop has shifted in from below and the ones still *)
(* above them: shifting moves the highest of these out.                    *)
LEMMA Shifted ==
  ASSUME NEW k \in 0 .. Bits - 1, NEW w \in Word, NEW u \in Nat, NEW q \in Nat,
         w = u * TwoTo[k] + q, q < TwoTo[k], u < TwoTo[Bits - k]
  PROVE  /\ u - Top(w) * TwoTo[Bits - (k + 1)] \in 0 .. TwoTo[Bits - (k + 1)] - 1
         /\ Shl(w) = (u - Top(w) * TwoTo[Bits - (k + 1)]) * TwoTo[k + 1] + 2 * q
         /\ TwoTo[Bits - k] = 2 * TwoTo[Bits - (k + 1)] /\ TwoTo[k + 1] = 2 * TwoTo[k]
         /\ TwoTo[k + 1] * TwoTo[Bits - (k + 1)] = WordMod
         /\ TwoTo[k] \in Nat \ {0} /\ TwoTo[Bits - (k + 1)] \in Nat \ {0}
<1> DEFINE P == TwoTo[k]
           Q == TwoTo[Bits - (k + 1)]
           P2 == TwoTo[k + 1]
           t == Top(w)
<1> USE TwoToSplits
<1>1. Bits - (k + 1) \in 0 .. Bits - 1 /\ Bits - k = (Bits - (k + 1)) + 1 /\ k \in 0 .. Bits /\ k + 1 \in 0 .. Bits
  OBVIOUS
<1>2. P \in Nat \ {0} /\ Q \in Nat \ {0} /\ TwoTo[Bits - k] = 2 * Q /\ P2 = 2 * P
  BY <1>1, TwoToFacts
<1>3. P2 * Q = WordMod
  BY <1>1
<1> HIDE DEF P, Q, P2
<1>4. P * Q \in Nat /\ Half = P * Q
  <2>1. (2 * P) * Q = 2 * (P * Q) /\ P * Q \in Nat
    BY <1>2
  <2> QED BY <2>1, <1>2, <1>3
<1>5. t \in {0, 1} /\ 2 * w = t * WordMod + Shl(w) /\ t = (IF w >= Half THEN 1 ELSE 0) /\ Shl(w) \in Word
  BY TopBit
<1>6. w = u * P + q /\ q < P /\ u < 2 * Q
  BY <1>2 DEF P
<1> HIDE DEF t
<1>7. u - t * Q \in 0 .. Q - 1
  <2>1. CASE u >= Q
    <3>1. u * P >= Q * P
      BY <2>1, <1>2
    <3>2. w >= Half
      <4> DEFINE A == u * P
                 B == Q * P
      <4>1. A >= B /\ A \in Int /\ B \in Int /\ B = Half /\ w = A + q
        BY <3>1, <1>2, <1>4, <1>6
      <4> HIDE DEF A, B
      <4> QED BY <4>1
    <3>3. t = 1 /\ t * Q = Q
      BY <3>2, <1>5, <1>2
    <3> QED BY <3>3, <2>1, <1>6, <1>2
  <2>2. CASE u < Q
    <3>1. (u + 1) * P <= Q * P
      BY <2>2, <1>2
    <3>2. (u + 1) * P = u * P + P
      BY <1>2
    <3>3. w < Half
      <4> DEFINE A == u * P
                 B == Q * P
                 C == (u + 1) * P
      <4>1. C <= B /\ C = A + P /\ A \in Int /\ B \in Int /\ B = Half /\ w = A + q
        BY <3>1, <3>2, <1>2, <1>4, <1>6
      <4> HIDE DEF A, B, C
      <4> QED BY <4>1, <1>2, <1>6
    <3>4. t = 0 /\ t * Q = 0
      BY <3>3, <1>5, <1>2 DEF Word
    <3> QED BY <3>4, <2>2, <1>2
  <2> QED BY <2>1, <2>2, <1>2
<1>8. Shl(w) = (u - t * Q) * P2 + 2 * q
  <2>1. \A x, y, z, p \in Int : (x - y * z) * (2 * p) = 2 * (x * p) - y * ((2 * p) * z)
    OBVIOUS
  <2>2. (u - t * Q) * P2 = 2 * (u * P) - t * WordMod
    BY <2>1, <1>2, <1>3, <1>5
  <2> DEFINE A == u * P
             B == t * WordMod
             C == (u - t * Q) * P2
  <2>3. A \in Int /\ B \in Int /\ C = 2 * A - B /\ w = A + q /\ 2 * w = B + Shl(w) /\ Shl(w) \in Int
    BY <2>2, <1>2, <1>5, <1>6 DEF Word
  <2> HIDE DEF A, B, C
  <2>4. Shl(w) = C + 2 * q
    BY <2>3
  <2> QED BY <2>4 DEF C
<1> QED BY <1>2, <1>3, <1>7, <1>8 DEF P, Q, P2, t

(* MUL36's loop: of the multiplicand the upper part has been multiplied,    *)
(* and the rest is still in its register, shifted up.                      *)
Mul36State == [h : Word, l : Word, m : Word, n : Word]

Mul36Loop(k, s, a, b) ==
  /\ s \in Mul36State /\ s.n = b
  /\ \E u, v \in Nat :
       /\ a = v * TwoTo[Bits - k] + u /\ u < TwoTo[Bits - k]
       /\ s.m = u * TwoTo[k] /\ s.h * WordMod + s.l = v * b

(* A pass keeps the four words words.                                      *)
LEMMA Mul36PassTyped == \A x \in Mul36State : Mul36Pass(x) \in Mul36State
<1> SUFFICES ASSUME NEW x \in Mul36State PROVE Mul36Pass(x) \in Mul36State
  OBVIOUS
<1>1. x.h \in Word /\ x.l \in Word /\ x.m \in Word /\ x.n \in Word /\ 0 \in Word /\ 1 \in Word
  BY TwoToSplits DEF Mul36State, Word
<1>2. Shl(x.h) \in Word /\ Shl(x.l) \in Word /\ Shl(x.m) \in Word /\ Top(x.l) \in Word
  BY <1>1, TopBit
<1>3. Sum(Shl(x.h), Top(x.l)) \in Word /\ Sum(Shl(x.l), x.n) \in Word
  BY <1>1, <1>2, Added
<1>4. Sum(Sum(Shl(x.h), Top(x.l)), 1) \in Word
  BY <1>1, <1>3, Added
<1> QED BY <1>1, <1>2, <1>3, <1>4 DEF Mul36Pass, Mul36State

(* A pair that is less than the square of the word size and twice which,    *)
(* with what is added, is so too, loses nothing when it doubles.           *)
LEMMA PairDoubles ==
  ASSUME NEW h \in Word, NEW l \in Word, NEW n \in Word, NEW t \in {0, 1},
         2 * (h * WordMod + l) + t * n < WordMod * WordMod,
         NEW hh \in Int, NEW ll \in Int,
         ll = IF t = 1 THEN Sum(Shl(l), n) ELSE Shl(l),
         hh = IF t = 1 /\ Carry(Shl(l), n) THEN Sum(Sum(Shl(h), Top(l)), 1) ELSE Sum(Shl(h), Top(l))
  PROVE  hh * WordMod + ll = 2 * (h * WordMod + l) + t * n
<1> USE TwoToSplits
<1> DEFINE c == IF t = 1 /\ Carry(Shl(l), n) THEN 1 ELSE 0
           y == 2 * h + Top(l) + c
           H == h * WordMod
           C == c * WordMod
           T == Top(l) * WordMod
           N == t * n
           WW == WordMod * WordMod
           Y == y * WordMod
<1>1. /\ Shl(l) \in Word /\ Top(l) \in {0, 1} /\ 2 * l = T + Shl(l)
      /\ Shl(h) \in Word /\ Top(h) \in {0, 1} /\ 2 * h = Top(h) * WordMod + Shl(h)
      /\ Top(h) = (IF h >= Half THEN 1 ELSE 0)
  BY TopBit
<1>2. c \in {0, 1} /\ y \in Int /\ h \in Int /\ l \in Int /\ n \in Int
  BY <1>1 DEF Word
<1>3. H \in Int /\ C \in Int /\ T \in Int /\ N \in Int /\ WW \in Int /\ Y \in Int
  BY <1>1, <1>2
<1>4. Shl(l) + N - C = ll /\ ll \in Word
  <2>1. CASE t = 1
    <3>0. c = IF Carry(Shl(l), n) THEN 1 ELSE 0
      BY <2>1
    <3>1. /\ ll \in Word /\ N = n /\ C = (IF Carry(Shl(l), n) THEN WordMod ELSE 0)
          /\ ll = IF Carry(Shl(l), n) THEN Shl(l) + n - WordMod ELSE Shl(l) + n
      <4>1. N = n /\ C = (IF Carry(Shl(l), n) THEN WordMod ELSE 0)
        BY <3>0, <2>1, <1>2
      <4>2. ll = Sum(Shl(l), n)
        BY <2>1
      <4> HIDE DEF c, C, N
      <4> QED BY <4>1, <4>2, <1>1, Added
    <3> HIDE DEF N, C
    <3> QED BY <3>1, <1>1, <1>2 DEF Word
  <2>2. CASE t = 0
    <3>1. ll = Shl(l) /\ N = 0 /\ C = 0
      BY <2>2, <1>1, <1>2
    <3> HIDE DEF N, C
    <3> QED BY <3>1, <1>1 DEF Word
  <2> QED BY <2>1, <2>2
<1>5. Y = 2 * H + T + C
  <2>1. \A x, a, b, w \in Int : (2 * x + a + b) * w = 2 * (x * w) + a * w + b * w
    OBVIOUS
  <2> QED BY <2>1, <1>1, <1>2
<1>6. Y + ll = 2 * (H + l) + N
  <2> HIDE DEF H, C, T, N, Y, WW
  <2> QED BY <1>1, <1>2, <1>3, <1>4, <1>5 DEF Word
<1>7. y < WordMod
  <2>1. Y < WW
    <3>1. Y + ll < WW
      BY <1>6
    <3> HIDE DEF Y, WW, y
    <3> QED BY <3>1, <1>3, <1>4 DEF Word
  <2>2. ASSUME y >= WordMod PROVE FALSE
    <3>1. \A x, w \in Nat : x >= w => x * w >= w * w
      OBVIOUS
    <3>2. y \in Nat
      BY <1>1, <1>2 DEF Word
    <3>3. Y >= WW
      BY <2>2, <3>1, <3>2
    <3> HIDE DEF Y, WW
    <3> QED BY <3>3, <2>1, <1>3
  <2> HIDE DEF y
  <2> QED BY <2>2, <1>2
<1>8. hh = y
  <2>1. 2 * h < WordMod /\ Top(h) = 0 /\ Shl(h) = 2 * h
    <3>1. Top(h) = 0
      BY <1>1, <1>2, <1>7
    <3>2. Top(h) * WordMod = 0
      BY <3>1
    <3> QED BY <3>1, <3>2, <1>1, <1>2, <1>7 DEF Word
  <2>2. Top(l) \in Word /\ 1 \in Word /\ ~Carry(Shl(h), Top(l))
    <3>1. Shl(h) + Top(l) < WordMod
      <4> HIDE DEF c
      <4> QED BY <2>1, <1>1, <1>2, <1>7
    <3>2. Top(l) \in Word /\ 1 \in Word
      BY <1>1 DEF Word
    <3>3. Shl(h) + Top(l) \in Int
      BY <1>1 DEF Word
    <3> QED BY <3>1, <3>2, <3>3 DEF Carry
  <2>3. Sum(Shl(h), Top(l)) \in Word /\ Sum(Shl(h), Top(l)) = 2 * h + Top(l)
    BY <2>1, <2>2, <1>1, Added
  <2>4. CASE c = 1
    <3>1. hh = Sum(Sum(Shl(h), Top(l)), 1) /\ ~Carry(Sum(Shl(h), Top(l)), 1)
      <4>1. t = 1 /\ Carry(Shl(l), n)
        BY <2>4
      <4>2. hh = Sum(Sum(Shl(h), Top(l)), 1)
        BY <4>1
      <4>3. 2 * h + Top(l) + 1 < WordMod
        BY <2>4, <1>7
      <4>4. ~Carry(Sum(Shl(h), Top(l)), 1)
        BY <4>3, <2>3, <1>1, <1>2 DEF Carry
      <4> QED BY <4>2, <4>4
    <3>2. hh = Sum(Shl(h), Top(l)) + 1
      BY <3>1, <2>2, <2>3, Added
    <3> QED BY <3>2, <2>3, <2>4
  <2>5. CASE c = 0
    <3>1. hh = Sum(Shl(h), Top(l))
      BY <2>5
    <3> QED BY <3>1, <2>3, <2>5
  <2> QED BY <2>4, <2>5, <1>2
<1>9. hh * WordMod = Y
  BY <1>8
<1> QED BY <1>6, <1>9

(* One pass: the pair doubled, and the multiplier added for a bit that is set.  *)
LEMMA Mul36PassKeeps ==
  ASSUME NEW k \in 0 .. Bits - 1, NEW a \in Word, NEW b \in Word, NEW s, Mul36Loop(k, s, a, b)
  PROVE  Mul36Loop(k + 1, Mul36Pass(s), a, b)
<1> USE TwoToSplits
<1>1. PICK u \in Nat, v \in Nat :
        /\ a = v * TwoTo[Bits - k] + u /\ u < TwoTo[Bits - k]
        /\ s.m = u * TwoTo[k] /\ s.h * WordMod + s.l = v * b
  BY DEF Mul36Loop
<1>2. s \in Mul36State /\ s.n = b /\ s.h \in Word /\ s.l \in Word /\ s.m \in Word
  BY DEF Mul36Loop, Mul36State
<1> DEFINE Q == TwoTo[Bits - (k + 1)]
           P2 == TwoTo[k + 1]
           t == Top(s.m)
           u2 == u - t * Q
           v2 == 2 * v + t
           s2 == Mul36Pass(s)
<1>3. /\ u2 \in 0 .. Q - 1 /\ Shl(s.m) = u2 * P2
      /\ TwoTo[Bits - k] = 2 * Q /\ P2 = 2 * TwoTo[k] /\ P2 * Q = WordMod
      /\ TwoTo[k] \in Nat \ {0} /\ Q \in Nat \ {0}
  <2>1. TwoTo[k] \in Nat \ {0}
    BY TwoToFacts
  <2> DEFINE none == 0
  <2>2. s.m = u * TwoTo[k] + none /\ none < TwoTo[k] /\ none \in Nat
    BY <1>1, <2>1
  <2>3. /\ u2 \in 0 .. Q - 1 /\ Shl(s.m) = u2 * P2 + 2 * none
        /\ TwoTo[Bits - k] = 2 * Q /\ P2 = 2 * TwoTo[k] /\ P2 * Q = WordMod
        /\ TwoTo[k] \in Nat \ {0} /\ Q \in Nat \ {0}
    <3> HIDE DEF none
    <3>1. u < TwoTo[Bits - k]
      BY <1>1
    <3> HIDE DEF u2, t
    <3> QED BY <3>1, <1>2, <2>2, Shifted DEF u2, t
  <2>4. u2 * P2 + 2 * none = u2 * P2
    BY <2>3
  <2> QED BY <2>3, <2>4
<1>4. t \in {0, 1}
  BY <1>2, TopBit
<1> HIDE DEF Q, P2, t
<1>5. a = v2 * Q + u2 /\ v2 \in Nat /\ u2 \in Nat
  <2>1. \A x, y, q, z \in Int : (2 * x + y) * q + (z - y * q) = x * (2 * q) + z
    OBVIOUS
  <2>2. v2 * Q + u2 = v * (2 * Q) + u
    BY <2>1, <1>3, <1>4
  <2> QED BY <2>2, <1>1, <1>3, <1>4
<1>6. 2 * (s.h * WordMod + s.l) + t * b = v2 * b
  <2>1. \A x, y, z \in Int : 2 * (x * z) + y * z = (2 * x + y) * z
    OBVIOUS
  <2>2. b \in Int
    BY DEF Word
  <2> QED BY <2>1, <2>2, <1>1, <1>4
<1>7. v2 * b < WordMod * WordMod
  <2>1. v2 <= v2 * Q
    <3>1. \A x \in Nat, y \in Nat \ {0} : x <= x * y
      OBVIOUS
    <3> QED BY <3>1, <1>3, <1>5
  <2>2. v2 < WordMod
    <3> HIDE DEF v2, u2
    <3> DEFINE A == v2 * Q
    <3>1. A \in Int
      BY <1>3, <1>5
    <3>2. v2 <= A /\ a = A + u2
      BY <2>1, <1>5
    <3> HIDE DEF A
    <3> QED BY <3>1, <3>2, <1>5 DEF Word
  <2>3. \A x, y, w \in Nat : x < w /\ y < w => x * y < w * w
    <3> SUFFICES ASSUME NEW x \in Nat, NEW y \in Nat, NEW w \in Nat, x < w, y < w PROVE x * y < w * w
      OBVIOUS
    <3>1. x * y <= x * w
      OBVIOUS
    <3>2. x * w < w * w
      OBVIOUS
    <3>3. x * y \in Int /\ x * w \in Int /\ w * w \in Int
      OBVIOUS
    <3> QED BY <3>1, <3>2, <3>3
  <2>4. b \in Nat /\ b < WordMod
    BY DEF Word
  <2> HIDE DEF v2
  <2> QED BY <2>2, <2>3, <2>4, <1>5
<1>8. /\ s2 \in Mul36State /\ s2.n = b /\ s2.m = Shl(s.m)
      /\ s2.l = IF t = 1 THEN Sum(Shl(s.l), b) ELSE Shl(s.l)
      /\ s2.h = IF t = 1 /\ Carry(Shl(s.l), b) THEN Sum(Sum(Shl(s.h), Top(s.l)), 1)
                ELSE Sum(Shl(s.h), Top(s.l))
  <2>1. s2 \in Mul36State
    BY <1>2, Mul36PassTyped
  <2> QED BY <2>1, <1>2 DEF Mul36State, Mul36Pass, t
<1> HIDE DEF s2
<1>9. s2.h * WordMod + s2.l = v2 * b
  <2>1. s2.h \in Int /\ s2.l \in Int
    BY <1>8 DEF Mul36State, Word
  <2>2. 2 * (s.h * WordMod + s.l) + t * b < WordMod * WordMod
    BY <1>6, <1>7
  <2>3. s2.h * WordMod + s2.l = 2 * (s.h * WordMod + s.l) + t * b
    BY <2>1, <2>2, <1>2, <1>4, <1>8, PairDoubles
  <2> QED BY <2>3, <1>6
<1>10. u2 < Q /\ s2.m = u2 * P2
  BY <1>3, <1>8
<1> HIDE DEF u2, v2
<1> QED BY <1>5, <1>8, <1>9, <1>10 DEF Mul36Loop, Q, P2, s2

(* The states of MUL36's loop.                                              *)
LEMMA Mul36Run ==
  ASSUME NEW s \in Mul36State
  PROVE  \E f : /\ f[0] = s /\ \A k \in 0 .. Bits - 1 : f[k + 1] = Mul36Pass(f[k])
               /\ Passes(Mul36Pass, s) = f[Bits]
<1> DEFINE F == [x \in Mul36State |-> Mul36Pass(x)]
           ok(g) == g = [k \in 0 .. Bits |-> IF k = 0 THEN s ELSE Mul36Pass(g[k - 1])]
<1> USE TwoToSplits
<1>1. PICK g : IsRun(g, Mul36State, F, s, Bits)
  <2>1. F \in [Mul36State -> Mul36State]
    BY Mul36PassTyped
  <2> HIDE DEF F
  <2> QED BY <2>1, Iterated
<1>2. \A k \in 0 .. Bits : g[k] = IF k = 0 THEN s ELSE Mul36Pass(g[k - 1])
  <2> SUFFICES ASSUME NEW k \in 0 .. Bits PROVE g[k] = IF k = 0 THEN s ELSE Mul36Pass(g[k - 1])
    OBVIOUS
  <2>1. CASE k = 0
    BY <1>1, <2>1 DEF IsRun
  <2>2. CASE k # 0
    <3>1. k \in 1 .. Bits /\ k - 1 \in 0 .. Bits
      BY <2>2
    <3>2. g[k] = F[g[k - 1]] /\ g[k - 1] \in Mul36State
      BY <3>1, <1>1 DEF IsRun
    <3> QED BY <3>2, <2>2
  <2> QED BY <2>1, <2>2
<1>3. ok(g)
  BY <1>1, <1>2 DEF IsRun
<1> DEFINE f == CHOOSE h : ok(h)
<1>4. ok(f)
  BY <1>3
<1>5. Passes(Mul36Pass, s) = f[Bits]
  BY DEF Passes
<1>6. f[0] = s /\ \A k \in 0 .. Bits - 1 : f[k + 1] = Mul36Pass(f[k])
  <2> HIDE DEF f
  <2> QED BY <1>4
<1> HIDE DEF f
<1> QED BY <1>5, <1>6

(* The pair it ends with is the product, whole.                            *)
LEMMA Mul36Passes ==
  ASSUME NEW a \in Word, NEW b \in Word
  PROVE  MUL36(a, b).h \in Word /\ MUL36(a, b).l \in Word
         /\ MUL36(a, b).h * WordMod + MUL36(a, b).l = a * b
<1> DEFINE s == [h |-> 0, l |-> 0, m |-> a, n |-> b]
<1> USE TwoToSplits
<1>1. Mul36Loop(0, s, a, b)
  <2>1. s \in Mul36State /\ s.n = b /\ s.m = a /\ s.h = 0 /\ s.l = 0
    BY DEF Mul36State, Word
  <2>2. TwoTo[Bits - 0] = WordMod /\ TwoTo[0] = 1 /\ a \in Nat /\ b \in Nat /\ a < WordMod
    BY TwoToFacts DEF WordMod, Word
  <2>3. /\ a = 0 * TwoTo[Bits - 0] + a /\ a < TwoTo[Bits - 0] /\ s.m = a * TwoTo[0]
        /\ s.h * WordMod + s.l = 0 * b
    BY <2>1, <2>2
  <2> HIDE DEF s
  <2> QED BY <2>1, <2>2, <2>3, 0 \in Nat DEF Mul36Loop
<1> HIDE DEF s
<1>2. PICK f : /\ f[0] = s /\ \A k \in 0 .. Bits - 1 : f[k + 1] = Mul36Pass(f[k])
               /\ Passes(Mul36Pass, s) = f[Bits]
  BY <1>1, Mul36Run DEF Mul36Loop
<1> DEFINE S == {k \in 0 .. Bits : Mul36Loop(k, f[k], a, b)}
<1>3. 0 .. Bits \subseteq S
  <2>1. 0 \in S
    BY <1>1, <1>2
  <2>2. ASSUME NEW k \in 0 .. Bits - 1, k \in S PROVE k + 1 \in S
    <3>1. Mul36Loop(k, f[k], a, b)
      BY <2>2
    <3>2. Mul36Loop(k + 1, Mul36Pass(f[k]), a, b)
      BY <3>1, Mul36PassKeeps
    <3>3. f[k + 1] = Mul36Pass(f[k])
      BY <1>2
    <3> QED BY <3>2, <3>3
  <2> HIDE DEF S
  <2> QED BY <2>1, <2>2, UpTo
<1>4. Mul36Loop(Bits, f[Bits], a, b)
  BY <1>3
<1> DEFINE e == f[Bits]
<1>5. /\ e \in Mul36State
      /\ \E u, v \in Nat : a = v * 1 + u /\ u < 1 /\ e.h * WordMod + e.l = v * b
  BY <1>4, TwoToFacts, Bits - Bits = 0 DEF Mul36Loop
<1> HIDE DEF e
<1>6. PICK u \in Nat, v \in Nat : a = v * 1 + u /\ u < 1 /\ e.h * WordMod + e.l = v * b
  BY <1>5
<1>7. v = a
  BY <1>6
<1>8. MUL36(a, b) = Pair(e.h, e.l)
  BY <1>2 DEF MUL36, s, e
<1> QED BY <1>5, <1>6, <1>7, <1>8 DEF Pair, Mul36State

-----------------------------------------------------------------------------
(* D18: the part of the dividend that has been shifted out is quotient times *)
(* divisor plus remainder; the quotient is in the low bits, the rest of the *)
(* dividend in the high ones.  The divisor is half a word at most, so the  *)
(* remainder may double.                                                   *)
D18State == [r : Word, l : Word, d : Word]

D18Loop(k, s, x, d) ==
  /\ s \in D18State /\ s.d = d /\ s.r < d
  /\ \E u, q \in Nat :
       /\ s.l = u * TwoTo[k] + q /\ q < TwoTo[k] /\ u < TwoTo[Bits - k]
       /\ x = (q * d + s.r) * TwoTo[Bits - k] + u

(* A pass keeps the three words words.                                     *)
LEMMA D18PassTyped == \A x \in D18State : D18Pass(x) \in D18State
<1> SUFFICES ASSUME NEW x \in D18State PROVE D18Pass(x) \in D18State
  OBVIOUS
<1>1. x.r \in Word /\ x.l \in Word /\ x.d \in Word
  BY DEF D18State
<1>2. Shl(x.r) \in Word /\ Shl(x.l) \in Word /\ Top(x.l) \in Word /\ CIA(x.d) \in Word
  <2>1. Top(x.l) \in {0, 1}
    BY <1>1, TopBit
  <2>2. Top(x.l) \in Word
    BY <2>1, TwoToSplits DEF Word
  <2> QED BY <2>2, <1>1, TopBit, Negated
<1>3. Sum(Shl(x.r), Top(x.l)) \in Word
  BY <1>2, Added
<1>4. Sum(Sum(Shl(x.r), Top(x.l)), CIA(x.d)) \in Word
  BY <1>2, <1>3, Added
<1>5. Shl(x.l) + 1 \in Word
  <2>1. WordMod \in Nat /\ Half \in Nat /\ WordMod = 2 * Half /\ x.l \in Nat
    BY <1>1, TwoToSplits DEF Word
  <2>2. Shl(x.l) \in Nat /\ Shl(x.l) <= WordMod - 2
    <3>1. Top(x.l) \in {0, 1} /\ 2 * x.l = Top(x.l) * WordMod + Shl(x.l) /\ Shl(x.l) \in Word
      BY <1>1, TopBit
    <3>2. CASE Top(x.l) = 1
      <4>1. Shl(x.l) = 2 * (x.l - Half)
        BY <3>1, <3>2, <2>1 DEF Word
      <4> QED BY <4>1, <3>1, <2>1 DEF Word
    <3>3. CASE Top(x.l) = 0
      <4>1. Shl(x.l) = 2 * x.l
        BY <3>1, <3>3, <2>1 DEF Word
      <4> QED BY <4>1, <3>1, <2>1 DEF Word
    <3> QED BY <3>1, <3>2, <3>3
  <2> QED BY <2>1, <2>2 DEF Word
<1> QED BY <1>1, <1>2, <1>3, <1>4, <1>5 DEF D18Pass, D18State

(* One bit of the division.                                                *)
LEMMA D18PassKeeps ==
  ASSUME NEW k \in 0 .. Bits - 1, NEW x \in Nat, NEW d \in 1 .. Half, NEW s, D18Loop(k, s, x, d)
  PROVE  D18Loop(k + 1, D18Pass(s), x, d)
<1> USE TwoToSplits
<1>1. PICK u \in Nat, q \in Nat :
        /\ s.l = u * TwoTo[k] + q /\ q < TwoTo[k] /\ u < TwoTo[Bits - k]
        /\ x = (q * d + s.r) * TwoTo[Bits - k] + u
  BY DEF D18Loop
<1>2. s \in D18State /\ s.d = d /\ s.r < d /\ s.r \in Word /\ s.l \in Word /\ d \in Word
  BY DEF D18Loop, D18State, Word
<1> DEFINE Q == TwoTo[Bits - (k + 1)]
           P2 == TwoTo[k + 1]
           t == Top(s.l)
           u2 == u - t * Q
           r2 == 2 * s.r + t
           f == IF r2 >= d THEN 1 ELSE 0
           q2 == 2 * q + f
           s2 == D18Pass(s)
<1>3. /\ u2 \in 0 .. Q - 1 /\ Shl(s.l) = u2 * P2 + 2 * q
      /\ TwoTo[Bits - k] = 2 * Q /\ P2 = 2 * TwoTo[k]
      /\ TwoTo[k] \in Nat \ {0} /\ Q \in Nat \ {0}
  <2>1. u < TwoTo[Bits - k] /\ q < TwoTo[k] /\ s.l = u * TwoTo[k] + q
    BY <1>1
  <2> HIDE DEF u2, t, Q, P2
  <2>2. /\ u - Top(s.l) * TwoTo[Bits - (k + 1)] \in 0 .. TwoTo[Bits - (k + 1)] - 1
        /\ Shl(s.l) = (u - Top(s.l) * TwoTo[Bits - (k + 1)]) * TwoTo[k + 1] + 2 * q
        /\ TwoTo[Bits - k] = 2 * TwoTo[Bits - (k + 1)] /\ TwoTo[k + 1] = 2 * TwoTo[k]
        /\ TwoTo[k + 1] * TwoTo[Bits - (k + 1)] = WordMod
        /\ TwoTo[k] \in Nat \ {0} /\ TwoTo[Bits - (k + 1)] \in Nat \ {0}
    BY <2>1, <1>2, Shifted
  <2> QED BY <2>2 DEF u2, t, Q, P2
<1>4. t \in {0, 1} /\ Shl(s.l) \in Word
  BY <1>2, TopBit
<1> HIDE DEF Q, P2, t
(* The remainder doubles within the word, and takes the bit shifted out.   *)
<1>5. Sum(Shl(s.r), t) = r2 /\ r2 \in Word /\ r2 < 2 * d
  <2>1. s.r < Half /\ s.r \in Nat
    BY <1>2 DEF Word
  <2>2. Top(s.r) = 0 /\ 2 * s.r = Top(s.r) * WordMod + Shl(s.r) /\ Shl(s.r) \in Word
    BY <2>1, <1>2, TopBit
  <2>3. Shl(s.r) = 2 * s.r
    <3>1. Top(s.r) * WordMod = 0
      BY <2>2
    <3> QED BY <3>1, <2>2, <2>1 DEF Word
  <2>4. t \in Word
    BY <1>4 DEF Word
  <2>5. Shl(s.r) + t < WordMod /\ r2 \in Nat /\ r2 < 2 * d
    BY <2>1, <2>3, <1>2, <1>4
  <2>6. Sum(Shl(s.r), t) = Shl(s.r) + t
    <3>1. ~Carry(Shl(s.r), t)
      BY <2>2, <2>4, <2>5 DEF Carry, Word
    <3> QED BY <3>1, <2>2, <2>4, Added
  <2> QED BY <2>3, <2>5, <2>6 DEF Word
<1> HIDE DEF r2
(* Adding the divisor's complement carries exactly when the divisor fits.  *)
<1>6. /\ Fits(r2, d) <=> f = 1
      /\ f = 1 => Sum(r2, CIA(d)) = r2 - d
      /\ f \in {0, 1}
  <2>1. CIA(d) \in Word /\ CIA(d) = WordMod - d /\ r2 \in Int
    BY <1>2, <1>5, Negated DEF Word
  <2>2. Carry(r2, CIA(d)) <=> r2 >= d
    BY <2>1 DEF Carry
  <2>3. f = 1 => Sum(r2, CIA(d)) = r2 - d
    <3>1. Carry(r2, CIA(d)) => Sum(r2, CIA(d)) = r2 + CIA(d) - WordMod
      BY <2>1, <1>5, Added
    <3> QED BY <3>1, <2>1, <2>2
  <2> QED BY <2>2, <2>3 DEF Fits
<1>7. s2 \in D18State /\ s2.d = d /\ s2.r = r2 - f * d /\ s2.l = Shl(s.l) + f
  <2>1. s2 \in D18State
    BY <1>2, D18PassTyped
  <2>2. CASE f = 1
    <3>1. s2 = [s EXCEPT !.r = r2 - d, !.l = Shl(s.l) + 1]
      BY <2>2, <1>2, <1>5, <1>6 DEF D18Pass, t
    <3>2. s2.d = d /\ s2.r = r2 - d /\ s2.l = Shl(s.l) + 1
      BY <3>1, <1>2 DEF D18State
    <3>3. f * d = d
      BY <2>2
    <3> QED BY <2>1, <2>2, <3>2, <3>3
  <2>3. CASE f = 0
    <3>1. s2 = [s EXCEPT !.r = r2, !.l = Shl(s.l)]
      BY <2>3, <1>2, <1>5, <1>6 DEF D18Pass, t
    <3>2. s2.d = d /\ s2.r = r2 /\ s2.l = Shl(s.l)
      BY <3>1, <1>2 DEF D18State
    <3>3. f * d = 0 /\ r2 - 0 = r2 /\ Shl(s.l) + 0 = Shl(s.l)
      BY <2>3, <1>4, <1>5 DEF Word
    <3> QED BY <2>1, <2>3, <3>2, <3>3
  <2> QED BY <2>2, <2>3, <1>6
<1>8. s2.r < d
  <2>1. CASE f = 1
    <3>1. f * d = d
      BY <2>1
    <3> QED BY <3>1, <1>5, <1>7 DEF Word
  <2>2. CASE f = 0
    <3>1. f * d = 0
      BY <2>2
    <3>2. r2 < d
      BY <2>2, <1>5 DEF Word
    <3> QED BY <3>1, <3>2, <1>5, <1>7 DEF Word
  <2> QED BY <2>1, <2>2, <1>6
<1>9. q2 \in Nat /\ q2 < P2
  BY <1>1, <1>3, <1>6
<1>10. s2.l = u2 * P2 + q2
  <2> DEFINE A == u2 * P2
  <2>1. A \in Int /\ Shl(s.l) = A + 2 * q
    BY <1>3
  <2> HIDE DEF A, u2, f
  <2>2. s2.l = A + q2
    BY <2>1, <1>6, <1>7
  <2> QED BY <2>2 DEF A
<1>11. x = (q2 * d + s2.r) * Q + u2
  <2>1. \A a, b, c, g, y, z, w \in Int :
          ((2 * a + g) * b + (2 * c + y - g * b)) * w + (z - y * w) = (a * b + c) * (2 * w) + z
    OBVIOUS
  <2>0. s.r \in Int /\ d \in Int /\ f \in Int /\ t \in Int /\ f * d \in Int
    BY <1>2, <1>4, <1>6 DEF Word
  <2>2. s2.r = 2 * s.r + t - f * d
    <3> HIDE DEF f
    <3> QED BY <1>2, <1>4, <1>6, <1>7, <2>0 DEF r2
  <2>3. s.r \in Int /\ d \in Int /\ f \in Int /\ t \in Int /\ Q \in Int
    BY <1>2, <1>3, <1>4, <1>6 DEF Word
  <2> HIDE DEF f
  <2>4. ((2 * q + f) * d + (2 * s.r + t - f * d)) * Q + (u - t * Q) = (q * d + s.r) * (2 * Q) + u
    BY <2>1, <2>3
  <2> QED BY <2>2, <2>4, <1>1, <1>3
<1>12. u2 \in Nat /\ u2 < Q
  BY <1>3
<1> HIDE DEF u2, q2, s2
<1> QED BY <1>7, <1>8, <1>9, <1>10, <1>11, <1>12 DEF D18Loop, Q, P2, s2

(* The states of D18's loop.                                                *)
LEMMA D18Run ==
  ASSUME NEW s \in D18State
  PROVE  \E f : /\ f[0] = s /\ \A k \in 0 .. Bits - 1 : f[k + 1] = D18Pass(f[k])
               /\ Passes(D18Pass, s) = f[Bits]
<1> DEFINE F == [x \in D18State |-> D18Pass(x)]
           ok(g) == g = [k \in 0 .. Bits |-> IF k = 0 THEN s ELSE D18Pass(g[k - 1])]
<1> USE TwoToSplits
<1>1. PICK g : IsRun(g, D18State, F, s, Bits)
  <2>1. F \in [D18State -> D18State]
    BY D18PassTyped
  <2> HIDE DEF F
  <2> QED BY <2>1, Iterated
<1>2. \A k \in 0 .. Bits : g[k] = IF k = 0 THEN s ELSE D18Pass(g[k - 1])
  <2> SUFFICES ASSUME NEW k \in 0 .. Bits PROVE g[k] = IF k = 0 THEN s ELSE D18Pass(g[k - 1])
    OBVIOUS
  <2>1. CASE k = 0
    BY <1>1, <2>1 DEF IsRun
  <2>2. CASE k # 0
    <3>1. k \in 1 .. Bits /\ k - 1 \in 0 .. Bits
      BY <2>2
    <3>2. g[k] = F[g[k - 1]] /\ g[k - 1] \in D18State
      BY <3>1, <1>1 DEF IsRun
    <3> QED BY <3>2, <2>2
  <2> QED BY <2>1, <2>2
<1>3. ok(g)
  BY <1>1, <1>2 DEF IsRun
<1> DEFINE f == CHOOSE h : ok(h)
<1>4. ok(f)
  BY <1>3
<1>5. Passes(D18Pass, s) = f[Bits]
  BY DEF Passes
<1>6. f[0] = s /\ \A k \in 0 .. Bits - 1 : f[k + 1] = D18Pass(f[k])
  <2> HIDE DEF f
  <2> QED BY <1>4
<1> HIDE DEF f
<1> QED BY <1>5, <1>6

(* A pair by a word, when the quotient fits a word.                        *)
LEMMA D18Passes ==
  ASSUME NEW r \in Word, NEW l \in Word, NEW d \in 1 .. Half, r < d
  PROVE  /\ D18(r, l, d).l \in Word /\ D18(r, l, d).r \in 0 .. d - 1
         /\ r * WordMod + l = D18(r, l, d).l * d + D18(r, l, d).r
<1> DEFINE s == [r |-> r, l |-> l, d |-> d]
           x == r * WordMod + l
<1> USE TwoToSplits
<1>1. D18Loop(0, s, x, d) /\ x \in Nat
  <2>1. s \in D18State /\ s.d = d /\ s.r = r /\ s.l = l
    BY DEF D18State, Word
  <2>2. TwoTo[Bits - 0] = WordMod /\ TwoTo[0] = 1 /\ l \in Nat /\ r \in Nat /\ l < WordMod
    BY TwoToFacts DEF WordMod, Word
  <2>3. s.l = l * TwoTo[0] + 0 /\ 0 < TwoTo[0] /\ l < TwoTo[Bits - 0]
    BY <2>1, <2>2
  <2>4. x = (0 * d + s.r) * TwoTo[Bits - 0] + l /\ x \in Nat
    BY <2>1, <2>2
  <2> HIDE DEF s, x
  <2> QED BY <2>1, <2>2, <2>3, <2>4, 0 \in Nat DEF D18Loop
<1> HIDE DEF s, x
<1>2. PICK f : /\ f[0] = s /\ \A k \in 0 .. Bits - 1 : f[k + 1] = D18Pass(f[k])
               /\ Passes(D18Pass, s) = f[Bits]
  BY <1>1, D18Run DEF D18Loop
<1> DEFINE S == {k \in 0 .. Bits : D18Loop(k, f[k], x, d)}
<1>3. 0 .. Bits \subseteq S
  <2>1. 0 \in S
    BY <1>1, <1>2
  <2>2. ASSUME NEW k \in 0 .. Bits - 1, k \in S PROVE k + 1 \in S
    <3>1. D18Loop(k, f[k], x, d)
      BY <2>2
    <3>2. D18Loop(k + 1, D18Pass(f[k]), x, d)
      BY <3>1, <1>1, D18PassKeeps
    <3>3. f[k + 1] = D18Pass(f[k])
      BY <1>2
    <3> QED BY <3>2, <3>3
  <2> HIDE DEF S
  <2> QED BY <2>1, <2>2, UpTo
<1>4. D18Loop(Bits, f[Bits], x, d)
  BY <1>3
<1> DEFINE e == f[Bits]
<1>5. /\ e \in D18State /\ e.r < d
      /\ \E u, q \in Nat : e.l = u * WordMod + q /\ q < WordMod /\ u < 1 /\ x = (q * d + e.r) * 1 + u
  BY <1>4, TwoToFacts, Bits - Bits = 0 DEF D18Loop, WordMod
<1> HIDE DEF e
<1>6. PICK u \in Nat, q \in Nat :
        e.l = u * WordMod + q /\ q < WordMod /\ u < 1 /\ x = (q * d + e.r) * 1 + u
  BY <1>5
<1>7. u = 0 /\ u * WordMod = 0 /\ e.r \in Nat /\ q * d \in Nat
  BY <1>5, <1>6 DEF D18State, Word
<1>8. e.l = q /\ x = q * d + e.r
  BY <1>6, <1>7
<1>9. D18(r, l, d) = e
  BY <1>2 DEF D18, s, e
<1> QED BY <1>5, <1>7, <1>8, <1>9 DEF D18State, x

-----------------------------------------------------------------------------
(* The routines: signs off, loop, signs on.                                *)

(* A product's sign is that of the operands together.                      *)
LEMMA SignsOff ==
  ASSUME NEW a \in Word, NEW b \in Word
  PROVE  /\ Abs(a) * Abs(b) \in Nat
         /\ Val(a) * Val(b) = (IF IsNeg(a) # IsNeg(b) THEN -(Abs(a) * Abs(b)) ELSE Abs(a) * Abs(b))
<1>1. /\ Abs(a) \in Nat /\ Abs(b) \in Nat
      /\ Val(a) = (IF IsNeg(a) THEN -Abs(a) ELSE Abs(a))
      /\ Val(b) = (IF IsNeg(b) THEN -Abs(b) ELSE Abs(b))
      /\ IsNeg(a) \in BOOLEAN /\ IsNeg(b) \in BOOLEAN
  BY Magnitude, TwoToSplits DEF Word, IsNeg
<1>2. \A x, y \in Nat : /\ x * y \in Nat /\ (-x) * y = -(x * y) /\ x * (-y) = -(x * y)
                        /\ (-x) * (-y) = x * y
  OBVIOUS
<1>3. CASE IsNeg(a) /\ IsNeg(b)
  <2>1. Val(a) = -Abs(a) /\ Val(b) = -Abs(b) /\ (IsNeg(a) = IsNeg(b))
    BY <1>1, <1>3
  <2>2. (-Abs(a)) * (-Abs(b)) = (Abs(a) * Abs(b)) /\ Abs(a) * Abs(b) \in Nat
    BY <1>1, <1>2
  <2> QED BY <2>1, <2>2
<1>4. CASE IsNeg(a) /\ ~IsNeg(b)
  <2>1. Val(a) = -Abs(a) /\ Val(b) = Abs(b) /\ (IsNeg(a) # IsNeg(b))
    BY <1>1, <1>4
  <2>2. (-Abs(a)) * (Abs(b)) = -(Abs(a) * Abs(b)) /\ Abs(a) * Abs(b) \in Nat
    BY <1>1, <1>2
  <2> QED BY <2>1, <2>2
<1>5. CASE ~IsNeg(a) /\ IsNeg(b)
  <2>1. Val(a) = Abs(a) /\ Val(b) = -Abs(b) /\ (IsNeg(a) # IsNeg(b))
    BY <1>1, <1>5
  <2>2. (Abs(a)) * (-Abs(b)) = -(Abs(a) * Abs(b)) /\ Abs(a) * Abs(b) \in Nat
    BY <1>1, <1>2
  <2> QED BY <2>1, <2>2
<1>6. CASE ~IsNeg(a) /\ ~IsNeg(b)
  <2>1. Val(a) = Abs(a) /\ Val(b) = Abs(b) /\ (IsNeg(a) = IsNeg(b))
    BY <1>1, <1>6
  <2>2. Abs(a) * Abs(b) \in Nat
    BY <1>1, <1>2
  <2> QED BY <2>1, <2>2
<1> QED BY <1>3, <1>4, <1>5, <1>6

(* A sign put on a word is a sign put on what it is the remainder of.      *)
LEMMA SignOn ==
  ASSUME NEW p \in Nat, NEW w \in Word, w = p % WordMod, NEW neg \in BOOLEAN
  PROVE  /\ Signed(neg, w) \in Word
         /\ Signed(neg, w) = (IF neg THEN -p ELSE p) % WordMod
<1> USE TwoToSplits
<1> DEFINE z == p \div WordMod
<1>1. p = WordMod * z + w /\ z \in Nat /\ w \in Int /\ WordMod \in Int
  <2>1. WordMod \in Nat \ {0} /\ w \in Int
    BY DEF Word
  <2>2. p = WordMod * (p \div WordMod) + (p % WordMod) /\ p \div WordMod \in Nat
    BY <2>1, Divided
  <2> QED BY <2>1, <2>2
<1> HIDE DEF z
<1>2. CASE ~neg
  BY <1>2 DEF Signed
<1>3. CASE neg /\ w = 0
  <2>1. -p = (-z) * WordMod + 0 /\ -z \in Int /\ -p \in Int /\ 0 \in Word
    BY <1>1, <1>3
  <2>2. (-p) % WordMod = 0
    BY <2>1, WordModulo
  <2> QED BY <1>3, <2>1, <2>2, Negated DEF Signed
<1>4. CASE neg /\ w # 0
  <2>1. -p = (-z - 1) * WordMod + (WordMod - w) /\ -z - 1 \in Int /\ -p \in Int
    <3>1. \A x, y \in Int : (-x - 1) * y = -(y * x) - y
      OBVIOUS
    <3>2. (-z - 1) * WordMod = -(WordMod * z) - WordMod
      BY <3>1, <1>1
    <3>3. WordMod * z \in Int
      BY <1>1
    <3> DEFINE A == WordMod * z
               B == (-z - 1) * WordMod
    <3>4. B = -A - WordMod /\ A \in Int /\ p = A + w
      BY <3>2, <3>3, <1>1
    <3> HIDE DEF A, B
    <3>5. -p = B + (WordMod - w)
      BY <3>4, <1>1
    <3> QED BY <3>5, <1>1 DEF B
  <2>2. WordMod - w \in Word /\ CIA(w) = WordMod - w
    BY <1>4, Negated DEF Word
  <2>3. (-p) % WordMod = WordMod - w
    BY <2>1, <2>2, WordModulo
  <2> QED BY <1>4, <2>2, <2>3 DEF Signed
<1> QED BY <1>2, <1>3, <1>4

(* MUL, up to the width of a word.                                         *)
LEMMA MulMultiplies ==
  ASSUME NEW a \in Word, NEW b \in Word
  PROVE  MUL(a, b) \in Word /\ MUL(a, b) = (Val(a) * Val(b)) % WordMod
<1> DEFINE swap == ~Carry(CIA(Abs(b)), Abs(a))
           m == IF swap THEN Abs(b) ELSE Abs(a)
           n == IF swap THEN Abs(a) ELSE Abs(b)
           w == Passes(MulPass, [sum |-> 0, m |-> m, n |-> n]).sum
           p == Abs(a) * Abs(b)
           neg == IsNeg(a) # IsNeg(b)
<1>1. Abs(a) \in Word /\ Abs(b) \in Word
  BY Magnitude
<1>2. m \in Word /\ n \in Word /\ m * n = p
  BY <1>1 DEF Word
<1>3. w \in Word /\ w = (m * n) % WordMod
  <2> HIDE DEF m, n
  <2> QED BY <1>2, MulPasses
<1>4. MUL(a, b) = Signed(neg, w)
  BY DEF MUL
<1> HIDE DEF w, m, n
<1>5. p \in Nat /\ Val(a) * Val(b) = (IF neg THEN -p ELSE p) /\ neg \in BOOLEAN
  BY SignsOff
<1> HIDE DEF p, neg
<1> QED BY <1>2, <1>3, <1>4, <1>5, SignOn

(* What a pair of words stands for.                                        *)
PairValue(p) == p.h * WordMod + p.l
PairState == [h : Word, l : Word]
PairMod   == WordMod * WordMod
PairHalf  == Half * WordMod

(* A pair is a number below the square of the word size, its sign in its high word.  *)
LEMMA PairFacts ==
  ASSUME NEW p \in PairState
  PROVE  /\ PairMod \in Nat /\ PairHalf \in Nat /\ PairMod = 2 * PairHalf /\ PairHalf > 0
         /\ PairValue(p) \in 0 .. PairMod - 1
         /\ IsNeg(p.h) <=> PairValue(p) >= PairHalf
         /\ Val2(p.h, p.l) = (IF IsNeg(p.h) THEN PairValue(p) - PairMod ELSE PairValue(p))
<1> USE TwoToSplits
<1>1. /\ p.h \in Nat /\ p.l \in Nat /\ p.h < WordMod /\ p.l < WordMod
      /\ WordMod \in Nat /\ Half \in Nat /\ WordMod = 2 * Half /\ Half > 0
  BY DEF PairState, Word
<1> DEFINE W == WordMod
           H == Half
           A == p.h * W
           B == H * W
           C == W * W
<1> HIDE DEF W, H
<1>2. A \in Nat /\ B \in Nat /\ C = 2 * B /\ B > 0
  <2>1. \A x \in Nat, y \in Nat : (2 * x) * y = 2 * (x * y) /\ x * y \in Nat /\ (x > 0 /\ y > 0 => x * y > 0)
    OBVIOUS
  <2> QED BY <2>1, <1>1 DEF W, H
<1>3. A + W <= C
  <2>1. \A x, y \in Nat : x < y => x * y + y <= y * y
    <3> SUFFICES ASSUME NEW x \in Nat, NEW y \in Nat, x < y PROVE x * y + y <= y * y
      OBVIOUS
    <3>1. (x + 1) * y <= y * y
      OBVIOUS
    <3>2. (x + 1) * y = x * y + y
      OBVIOUS
    <3> QED BY <3>1, <3>2
  <2> QED BY <2>1, <1>1 DEF W
<1>4. p.h >= H => A >= B
  BY <1>1 DEF W, H
<1>5. p.h < H => A + W <= B
  <2>1. \A x, z, y \in Nat : x < z => x * y + y <= z * y
    <3> SUFFICES ASSUME NEW x \in Nat, NEW y \in Nat, NEW z \in Nat, x < z PROVE x * y + y <= z * y
      OBVIOUS
    <3>1. (x + 1) * y <= z * y
      OBVIOUS
    <3>2. (x + 1) * y = x * y + y
      OBVIOUS
    <3> QED BY <3>1, <3>2
  <2> QED BY <2>1, <1>1 DEF W, H
<1>6. (p.h - W) * W = A - C
  BY <1>1 DEF W
<1>7. C \in Nat /\ A + p.l \in 0 .. C - 1 /\ (p.h >= H <=> A + p.l >= B)
  <2> HIDE DEF A, B, C
  <2> QED BY <1>1, <1>2, <1>3, <1>4, <1>5 DEF W, H
<1>8. Val2(p.h, p.l) = IF p.h >= H THEN (A - C) + p.l ELSE A + p.l
  BY <1>1, <1>6 DEF Val2, Val, W, H
<1>9. (A - C) + p.l = (A + p.l) - C
  <2> HIDE DEF A, C
  <2> QED BY <1>1, <1>2
<1> QED BY <1>2, <1>7, <1>8, <1>9 DEF PairMod, PairHalf, PairValue, IsNeg, W, H

(* Two's complement of a pair.                                             *)
LEMMA PairNegated ==
  ASSUME NEW p \in PairState
  PROVE  /\ NegPair(p) \in PairState
         /\ PairValue(NegPair(p)) = (IF PairValue(p) = 0 THEN 0 ELSE PairMod - PairValue(p))
<1> USE TwoToSplits
<1>1. /\ p.h \in Nat /\ p.l \in Nat /\ p.h < WordMod /\ p.l < WordMod /\ p.h \in Word /\ p.l \in Word
      /\ WordMod \in Nat
  BY DEF PairState, Word
<1>2. CMA(p.h) \in Word /\ CMA(p.h) = WordMod - 1 - p.h /\ 1 \in Word
  BY <1>1 DEF CMA, Word
<1>3. Carry(CMA(p.l), 1) <=> p.l = 0
  BY <1>1 DEF Carry, CMA
<1>4. CIA(p.l) \in Word /\ CIA(p.l) = IF p.l = 0 THEN 0 ELSE WordMod - p.l
  BY <1>1, Negated
<1> DEFINE A == p.h * WordMod
           C == WordMod * WordMod
<1>5. A \in Nat /\ C \in Nat /\ (WordMod - 1 - p.h) * WordMod = C - WordMod - A
  BY <1>1
<1>6. CASE p.l # 0
  <2>1. NegPair(p) = [h |-> CMA(p.h), l |-> CIA(p.l)]
    BY <1>3, <1>6 DEF NegPair, Pair
  <2>2. PairValue(NegPair(p)) = (C - WordMod - A) + (WordMod - p.l)
    BY <2>1, <1>2, <1>4, <1>5, <1>6 DEF PairValue
  <2>3. PairValue(p) = A + p.l
    BY DEF PairValue
  <2>4. NegPair(p) \in PairState
    BY <2>1, <1>2, <1>4 DEF PairState
  <2> HIDE DEF A
  <2>5. PairValue(NegPair(p)) = C - (A + p.l) /\ PairValue(p) # 0
    <3> HIDE DEF C
    <3> QED BY <2>2, <2>3, <1>1, <1>5, <1>6
  <2> QED BY <2>3, <2>4, <2>5 DEF PairMod
<1>7. CASE p.l = 0
  <2> DEFINE n == Sum(CMA(p.h), 1)
  <2>1. n \in Word /\ n = IF p.h = 0 THEN 0 ELSE WordMod - p.h
    <3>1. Carry(CMA(p.h), 1) <=> p.h = 0
      BY <1>1, <1>2 DEF Carry
    <3>2. n \in Word /\ n = IF Carry(CMA(p.h), 1) THEN CMA(p.h) + 1 - WordMod ELSE CMA(p.h) + 1
      BY <1>2, Added
    <3> QED BY <3>1, <3>2, <1>1, <1>2
  <2>2. NegPair(p) = [h |-> n, l |-> 0]
    BY <1>3, <1>4, <1>7 DEF NegPair, Pair
  <2>3. NegPair(p) \in PairState
    BY <2>1, <2>2, <1>4, <1>7 DEF PairState
  <2>4. PairValue(NegPair(p)) = n * WordMod + 0 /\ PairValue(p) = A + 0
    BY <2>2, <1>7 DEF PairValue
  <2>5. CASE p.h = 0
    BY <2>1, <2>3, <2>4, <2>5, <1>1, <1>5
  <2>6. CASE p.h # 0
    <3>1. n * WordMod = C - A
      BY <2>1, <2>6, <1>1
    <3>2. A > 0
      BY <2>6, <1>1
    <3> HIDE DEF n, A, C
    <3>3. PairValue(NegPair(p)) = C - A /\ PairValue(p) = A
      BY <3>1, <2>4, <1>5
    <3> QED BY <3>2, <3>3, <2>3, <1>5 DEF PairMod, C
  <2> QED BY <2>5, <2>6
<1> QED BY <1>6, <1>7

(* MULS36, exactly.                                                        *)
LEMMA Muls36Multiplies ==
  ASSUME NEW a \in Word, NEW b \in Word
  PROVE  /\ MULS36(a, b) \in PairState
         /\ Val2(MULS36(a, b).h, MULS36(a, b).l) = Val(a) * Val(b)
<1> DEFINE p == MUL36(Abs(a), Abs(b))
           neg == IsNeg(a) # IsNeg(b)
           x == Abs(a) * Abs(b)
<1>1. Abs(a) \in Word /\ Abs(b) \in Word /\ Abs(a) \in 0 .. Half /\ Abs(b) \in 0 .. Half
  BY Magnitude
<1>2. p = Pair(p.h, p.l)
  BY DEF MUL36, Pair
<1>3. p.h \in Word /\ p.l \in Word /\ p.h * WordMod + p.l = x
  BY <1>1, Mul36Passes
<1> HIDE DEF p
<1>4. p \in PairState /\ PairValue(p) = x
  BY <1>2, <1>3 DEF PairState, PairValue, Pair
<1>5. x \in Nat /\ x < PairHalf
  <2>1. \A y, z, h \in Nat : y <= h /\ z <= h => y * z <= h * h
    <3> SUFFICES ASSUME NEW y \in Nat, NEW z \in Nat, NEW h \in Nat, y <= h, z <= h PROVE y * z <= h * h
      OBVIOUS
    <3>1. y * z <= h * z
      OBVIOUS
    <3>2. h * z <= h * h
      OBVIOUS
    <3>3. y * z \in Nat /\ h * z \in Nat /\ h * h \in Nat
      OBVIOUS
    <3> QED BY <3>1, <3>2, <3>3
  <2>2. x <= Half * Half
    BY <1>1, <2>1, TwoToSplits
  <2>3. Half \in Nat /\ Half > 0 /\ WordMod = 2 * Half
    BY TwoToSplits
  <2>4. PairHalf = Half * Half + Half * Half /\ Half * Half > 0 /\ Half * Half \in Nat
    <3>1. \A h \in Nat : h > 0 => h * (2 * h) = h * h + h * h /\ h * h > 0 /\ h * h \in Nat
      OBVIOUS
    <3> QED BY <3>1, <2>3 DEF PairHalf
  <2>5. x \in Nat
    BY <1>1, TwoToSplits
  <2> DEFINE S == Half * Half
  <2> HIDE DEF x, S
  <2> QED BY <2>2, <2>4, <2>5 DEF S
<1>6. Val(a) * Val(b) = (IF neg THEN -x ELSE x) /\ neg \in BOOLEAN
  BY SignsOff
<1>7. MULS36(a, b) = IF neg THEN NegPair(p) ELSE p
  BY DEF MULS36, p
<1> HIDE DEF neg, x
<1>8. CASE ~neg
  <2>1. ~IsNeg(p.h) /\ Val2(p.h, p.l) = x
    BY <1>4, <1>5, PairFacts
  <2> QED BY <2>1, <1>4, <1>6, <1>7, <1>8
<1>9. CASE neg
  <2> DEFINE n == NegPair(p)
  <2>1. n \in PairState /\ PairValue(n) = IF x = 0 THEN 0 ELSE PairMod - x
    BY <1>4, PairNegated
  <2>2. /\ PairMod \in Nat /\ PairHalf \in Nat /\ PairMod = 2 * PairHalf /\ PairHalf > 0
        /\ IsNeg(n.h) <=> PairValue(n) >= PairHalf
        /\ Val2(n.h, n.l) = (IF IsNeg(n.h) THEN PairValue(n) - PairMod ELSE PairValue(n))
    <3> HIDE DEF n
    <3> QED BY <2>1, PairFacts
  <2>3. Val2(n.h, n.l) = -x
    <3> HIDE DEF n
    <3> QED BY <2>1, <2>2, <1>5
  <2> QED BY <2>1, <2>3, <1>6, <1>7, <1>9
<1> QED BY <1>6, <1>8, <1>9

(* A quotient and a remainder of natural numbers, however they were found. *)
Divides(x, d, q, r) ==
  x \in Nat /\ d \in Nat \ {0} /\ q \in Nat /\ r \in 0 .. d - 1 /\ x = q * d + r

(* It is the quotient and the remainder, then.                             *)
LEMMA QuotientIs ==
  ASSUME NEW x, NEW d, NEW q, NEW r, Divides(x, d, q, r)
  PROVE  q = x \div d /\ r = x % d
<1>1. x = d * q + r /\ x \in Int /\ d \in Nat \ {0} /\ q \in Int /\ r \in 0 .. d - 1
  BY DEF Divides
<1>2. x \div d = q /\ x % d = r
  BY <1>1, DividedOnce
<1> QED BY <1>2

WithSign(neg, m) == IF neg THEN -m ELSE m

(* DIV, but for a zero divisor.                                            *)
LEMMA DivDivides ==
  ASSUME NEW a \in Word, NEW b \in Word, b # 0
  PROVE  /\ DIV(a, b).q \in Word /\ DIV(a, b).r \in Word
         /\ DIV(a, b).q = WithSign((Val(a) < 0) # (Val(b) < 0), Mag(Val(a)) \div Mag(Val(b))) % WordMod
         /\ Val(DIV(a, b).r) = WithSign(Val(a) < 0, Mag(Val(a)) % Mag(Val(b)))
<1> USE TwoToSplits
<1> DEFINE A == Abs(a)
           B == Abs(b)
           s == D18(0, A, B)
           neg == IsNeg(a) # IsNeg(b)
<1>1. /\ A \in Word /\ B \in Word /\ A = Mag(Val(a)) /\ B = Mag(Val(b)) /\ A \in 0 .. Half
      /\ B \in 1 .. Half /\ IsNeg(a) = (Val(a) < 0) /\ IsNeg(b) = (Val(b) < 0)
      /\ IsNeg(a) \in BOOLEAN /\ IsNeg(b) \in BOOLEAN
  <2>1. /\ A \in Word /\ B \in Word /\ A = Mag(Val(a)) /\ B = Mag(Val(b)) /\ A \in 0 .. Half /\ B \in 0 .. Half
        /\ IsNeg(a) <=> Val(a) < 0
        /\ IsNeg(b) <=> Val(b) < 0
        /\ Val(b) \in Int /\ Val(b) # 0
    BY Magnitude
  <2>2. B # 0
    BY <2>1 DEF Mag
  <2>3. IsNeg(a) \in BOOLEAN /\ IsNeg(b) \in BOOLEAN
    BY DEF IsNeg
  <2> HIDE DEF A, B
  <2> QED BY <2>1, <2>2, <2>3
<1> HIDE DEF A, B
<1>2. s.l \in Word /\ s.r \in 0 .. B - 1 /\ 0 * WordMod + A = s.l * B + s.r
  <2>1. 0 \in Word /\ 0 < B
    BY <1>1 DEF Word
  <2> QED BY <2>1, <1>1, D18Passes
<1> HIDE DEF s
<1>3. s.l = A \div B /\ s.r = A % B
  <2>1. A \in Nat /\ B \in Nat \ {0} /\ s.l \in Nat /\ A = s.l * B + s.r
    BY <1>1, <1>2 DEF Word
  <2>2. Divides(A, B, s.l, s.r)
    BY <2>1, <1>2 DEF Divides
  <2> QED BY <2>2, QuotientIs
<1>4. DIV(a, b) = [q |-> Signed(neg, s.l), r |-> Signed(IsNeg(a), s.r)]
  BY DEF DIV, s, A, B
<1>5. /\ Signed(neg, s.l) \in Word
      /\ Signed(neg, s.l) = WithSign(neg, s.l) % WordMod
  <2>1. s.l \in Nat /\ s.l = s.l % WordMod /\ neg \in BOOLEAN
    <3>1. s.l = 0 * WordMod + s.l /\ s.l \in Int
      BY <1>2 DEF Word
    <3>2. s.l % WordMod = s.l
      BY <3>1, <1>2, WordModulo, 0 \in Int
    <3> QED BY <1>1, <1>2, <3>2 DEF Word
  <2> HIDE DEF neg
  <2> QED BY <2>1, <1>2, SignOn DEF WithSign
<1>6. Signed(IsNeg(a), s.r) \in Word /\ Val(Signed(IsNeg(a), s.r)) = WithSign(IsNeg(a), s.r)
  <2>1. s.r \in Word /\ s.r < Half /\ s.r \in Nat
    BY <1>1, <1>2 DEF Word
  <2>2. CASE ~IsNeg(a)
    BY <2>1, <2>2 DEF Signed, Val, WithSign, Word
  <2>3. CASE IsNeg(a) /\ s.r = 0
    <3>1. Signed(IsNeg(a), s.r) = 0 /\ WithSign(IsNeg(a), s.r) = 0
      <4>1. CIA(s.r) = 0
        BY <2>1, <2>3, Negated
      <4>2. Signed(IsNeg(a), s.r) = CIA(s.r) /\ WithSign(IsNeg(a), s.r) = -s.r
        BY <2>3 DEF Signed, WithSign
      <4>3. -s.r = 0
        <5> DEFINE m == -s.r
        <5>1. m \in Int /\ s.r + m = 0
          BY <2>1
        <5>2. m = 0
          <6> HIDE DEF m
          <6> QED BY <5>1, <2>1, <2>3
        <5> QED BY <5>2
      <4> QED BY <4>1, <4>2, <4>3
    <3> QED BY <3>1, <2>1, <2>3 DEF Val
  <2>4. CASE IsNeg(a) /\ s.r # 0
    <3>1. Signed(IsNeg(a), s.r) = WordMod - s.r /\ WithSign(IsNeg(a), s.r) = -s.r
      <4>1. CIA(s.r) = WordMod - s.r
        BY <2>1, <2>4, Negated
      <4>2. Signed(IsNeg(a), s.r) = CIA(s.r) /\ WithSign(IsNeg(a), s.r) = -s.r
        BY <2>4 DEF Signed, WithSign
      <4> QED BY <4>1, <4>2
    <3>2. WordMod - s.r \in Word /\ Val(WordMod - s.r) = -s.r
      BY <2>1, <2>4 DEF Val, Word
    <3> QED BY <3>1, <3>2
  <2> QED BY <2>2, <2>3, <2>4, <1>1
<1>7. neg = ((Val(a) < 0) # (Val(b) < 0))
  BY <1>1
<1> HIDE DEF neg
<1>8. DIV(a, b).q = Signed(neg, s.l) /\ DIV(a, b).r = Signed(IsNeg(a), s.r)
  BY <1>4
<1> QED BY <1>1, <1>3, <1>5, <1>6, <1>7, <1>8

(* DIV36: the high word first, its remainder above the low one.            *)
LEMMA Div36Divides ==
  ASSUME NEW p \in PairState, NEW d \in 1 .. Half
  PROVE  /\ DIV36(p, d).q \in PairState /\ DIV36(p, d).r \in 0 .. d - 1
         /\ DIV36(p, d).low = DIV36(p, d).q.l
         /\ PairValue(DIV36(p, d).q) = PairValue(p) \div d
         /\ DIV36(p, d).r = PairValue(p) % d
<1> USE TwoToSplits
<1> DEFINE high == D18(0, p.h, d)
           rest == D18(high.r, p.l, d)
           o == DIV36(p, d)
<1>1. p.h \in Word /\ p.l \in Word /\ d \in Nat \ {0} /\ d # 0 /\ 0 \in Word /\ 0 < d
  BY DEF PairState, Word
<1>2. high.l \in Word /\ high.r \in 0 .. d - 1 /\ 0 * WordMod + p.h = high.l * d + high.r
  BY <1>1, D18Passes
<1> HIDE DEF high
<1>3. high.r \in Word /\ high.r < d
  BY <1>2, <1>1 DEF Word
<1>4. rest.l \in Word /\ rest.r \in 0 .. d - 1 /\ high.r * WordMod + p.l = rest.l * d + rest.r
  BY <1>1, <1>3, D18Passes
<1>5. o = [q |-> [h |-> high.l, l |-> rest.l], low |-> rest.l, r |-> rest.r]
  BY <1>1 DEF DIV36, Pair, high
<1> HIDE DEF rest, o
<1>6. o.q \in PairState /\ o.r = rest.r /\ o.low = o.q.l /\ PairValue(o.q) = high.l * WordMod + rest.l
  BY <1>2, <1>4, <1>5 DEF PairState, PairValue
<1>7. PairValue(p) = PairValue(o.q) * d + o.r
  <2>1. \A x, y, z, w \in Int : (x * y + z) * w = (x * w) * y + z * w
    OBVIOUS
  <2>2. /\ high.l \in Int /\ high.r \in Int /\ rest.l \in Int /\ rest.r \in Int
        /\ p.h \in Int /\ p.l \in Int /\ d \in Int /\ WordMod \in Int
    BY <1>1, <1>2, <1>4 DEF Word
  <2>3. (high.l * WordMod + rest.l) * d = (high.l * d) * WordMod + rest.l * d
    BY <2>1, <2>2
  <2>4. high.l * d = p.h - high.r
    <3> DEFINE M == high.l * d
    <3>1. M \in Int /\ p.h = M + high.r
      BY <1>2, <2>2
    <3> HIDE DEF M
    <3>2. M = p.h - high.r
      BY <3>1, <2>2
    <3> QED BY <3>2 DEF M
  <2>5. (p.h - high.r) * WordMod = p.h * WordMod - high.r * WordMod
    BY <2>2
  <2> DEFINE X == high.r * WordMod
             Y == p.h * WordMod
             Z == rest.l * d
             V == (high.l * WordMod + rest.l) * d
  <2>6. /\ X \in Int /\ Y \in Int /\ Z \in Int /\ V \in Int
        /\ V = (Y - X) + Z /\ X + p.l = Z + rest.r
    BY <2>2, <2>3, <2>4, <2>5, <1>4
  <2>7. V + rest.r = Y + p.l
    <3> HIDE DEF X, Y, Z, V
    <3> QED BY <2>2, <2>6
  <2> QED BY <2>7, <1>6 DEF PairValue
<1>8. PairValue(o.q) \in Nat /\ PairValue(p) \in Nat
  BY <1>6, PairFacts
<1>9. PairValue(o.q) = PairValue(p) \div d /\ o.r = PairValue(p) % d
  <2>1. Divides(PairValue(p), d, PairValue(o.q), o.r)
    BY <1>1, <1>4, <1>6, <1>7, <1>8 DEF Divides
  <2> QED BY <2>1, QuotientIs
<1> QED BY <1>4, <1>6, <1>9 DEF o

(* DIVS36, but for a zero divisor.                                         *)
LEMMA Divs36Divides ==
  ASSUME NEW p \in PairState, NEW b \in Word, b # 0
  PROVE  /\ DIVS36(p, b).q \in PairState /\ DIVS36(p, b).r \in Word
         /\ LET v == Val2(p.h, p.l)
            IN  /\ PairValue(DIVS36(p, b).q) =
                     WithSign((v < 0) # (Val(b) < 0), Mag(v) \div Mag(Val(b))) % PairMod
                /\ DIVS36(p, b).r = Mag(v) % Mag(Val(b))
<1> USE TwoToSplits
<1> DEFINE v == Val2(p.h, p.l)
           B == Abs(b)
           P == AbsPair(p)
           d == DIV36(P, B)
           neg == IsNeg(p.h) # IsNeg(b)
<1>1. /\ PairMod \in Nat /\ PairHalf \in Nat /\ PairMod = 2 * PairHalf /\ PairHalf > 0
      /\ PairValue(p) \in 0 .. PairMod - 1
      /\ IsNeg(p.h) <=> PairValue(p) >= PairHalf
      /\ v = (IF IsNeg(p.h) THEN PairValue(p) - PairMod ELSE PairValue(p))
  BY PairFacts
<1>2. B \in 1 .. Half /\ B = Mag(Val(b)) /\ B \in Word /\ (IsNeg(b) <=> Val(b) < 0)
  <2>1. /\ B \in Word /\ B = Mag(Val(b)) /\ B \in 0 .. Half
        /\ IsNeg(b) <=> Val(b) < 0
        /\ Val(b) \in Int /\ Val(b) # 0
    BY Magnitude
  <2>2. B # 0
    BY <2>1 DEF Mag
  <2> HIDE DEF B
  <2> QED BY <2>1, <2>2
<1>3. P \in PairState /\ PairValue(P) = Mag(v) /\ (IsNeg(p.h) <=> v < 0) /\ Mag(v) <= PairHalf /\ v \in Int
  <2> HIDE DEF v
  <2>1. CASE IsNeg(p.h)
    <3>1. P = NegPair(p)
      BY <2>1 DEF AbsPair
    <3>2. P \in PairState /\ PairValue(P) = IF PairValue(p) = 0 THEN 0 ELSE PairMod - PairValue(p)
      BY <3>1, PairNegated
    <3> HIDE DEF P
    <3> QED BY <2>1, <3>2, <1>1 DEF Mag
  <2>2. CASE ~IsNeg(p.h)
    <3>1. P = p
      BY <2>2 DEF AbsPair
    <3> HIDE DEF P
    <3> QED BY <2>2, <3>1, <1>1 DEF Mag
  <2> QED BY <2>1, <2>2
<1> HIDE DEF v, B, P
<1>4. /\ d.q \in PairState /\ d.r \in 0 .. B - 1
      /\ PairValue(d.q) = Mag(v) \div B /\ d.r = Mag(v) % B
  BY <1>2, <1>3, Div36Divides
<1>5. DIVS36(p, b) = [q |-> IF neg THEN NegPair(d.q) ELSE d.q, r |-> d.r]
  BY DEF DIVS36, P, B
<1> HIDE DEF d
<1>6. PairValue(d.q) \in 0 .. PairMod - 1
  BY <1>4, PairFacts
<1>7. PairMod \in Nat \ {0}
  BY <1>1
<1>0. neg = ((v < 0) # (Val(b) < 0)) /\ neg \in BOOLEAN
  <2>1. IsNeg(p.h) \in BOOLEAN /\ IsNeg(b) \in BOOLEAN
    BY DEF IsNeg
  <2> QED BY <2>1, <1>2, <1>3
<1>8. CASE ~neg
  <2> DEFINE q == PairValue(d.q)
  <2>1. q = PairMod * 0 + q /\ q \in Int
    BY <1>6, <1>7
  <2>2. q % PairMod = q
    <3> HIDE DEF q
    <3> QED BY <2>1, <1>6, <1>7, DividedOnce, 0 \in Int DEF q
  <2>3. DIVS36(p, b).q = d.q /\ WithSign(neg, q) = q
    BY <1>5, <1>8 DEF WithSign
  <2>4. DIVS36(p, b).q \in PairState /\ PairValue(DIVS36(p, b).q) = WithSign(neg, Mag(v) \div B) % PairMod
    BY <2>2, <2>3, <1>4
  <2>5. DIVS36(p, b).r = d.r /\ d.r \in Word
    BY <1>2, <1>4, <1>5 DEF Word
  <2> HIDE DEF neg
  <2> QED BY <2>4, <2>5, <1>0, <1>2, <1>4 DEF v
<1>9. CASE neg
  <2> DEFINE q == PairValue(d.q)
             n == NegPair(d.q)
  <2>1. n \in PairState /\ PairValue(n) = IF q = 0 THEN 0 ELSE PairMod - q
    BY <1>4, PairNegated
  <2>2. (-q) % PairMod = PairValue(n)
    <3>1. CASE q = 0
      <4>1. -q = PairMod * 0 + 0 /\ -q \in Int /\ 0 \in 0 .. PairMod - 1
        BY <3>1, <1>7
      <4>2. (-q) % PairMod = 0
        BY <4>1, <1>7, DividedOnce, 0 \in Int
      <4> QED BY <4>2, <2>1, <3>1
    <3>2. CASE q # 0
      <4> DEFINE z == -1
      <4>1. -q = PairMod * z + (PairMod - q) /\ -q \in Int /\ PairMod - q \in 0 .. PairMod - 1 /\ z \in Int
        BY <3>2, <1>6, <1>7
      <4> HIDE DEF q, z
      <4>2. (-q) % PairMod = PairMod - q
        BY <4>1, <1>7, DividedOnce
      <4> QED BY <4>2, <2>1, <3>2
    <3> QED BY <3>1, <3>2
  <2>3. DIVS36(p, b).q = n /\ WithSign(neg, q) = -q
    BY <1>5, <1>9 DEF WithSign
  <2>4. DIVS36(p, b).q \in PairState /\ PairValue(DIVS36(p, b).q) = WithSign(neg, Mag(v) \div B) % PairMod
    <3> HIDE DEF n, neg
    <3> QED BY <2>1, <2>2, <2>3, <1>4
  <2>5. DIVS36(p, b).r = d.r /\ d.r \in Word
    BY <1>2, <1>4, <1>5 DEF Word
  <2> HIDE DEF neg
  <2> QED BY <2>4, <2>5, <1>0, <1>2, <1>4 DEF v
<1> QED BY <1>8, <1>9

-----------------------------------------------------------------------------
(* ISQRT: Newton's next guess from above is above too, and when it does not *)
(* fall the guess is the root.                                             *)
LEMMA Newton ==
  ASSUME NEW a \in Nat, NEW g \in Nat \ {0}, NEW new \in Nat, a < (g + 1) * (g + 1),
         new = (a \div g + g) \div 2
  PROVE  /\ new < g => a < (new + 1) * (new + 1)
         /\ new >= g => g * g <= a
<1> DEFINE q == a \div g
           r == a % g
<1>1. a = g * q + r /\ q \in Nat /\ r \in Nat /\ r < g
  BY Divided
<1> HIDE DEF q, r
<1>2. 2 * new <= q + g /\ q + g <= 2 * new + 1
  BY <1>1 DEF q
<1>3. ASSUME new < g PROVE a < (new + 1) * (new + 1)
  <2>1. g * (q + g) <= g * (2 * new + 1)
    <3>1. \A x, y, z \in Nat : x <= y => z * x <= z * y
      OBVIOUS
    <3> QED BY <3>1, <1>1, <1>2
  <2>2. g * (q + g) = g * q + g * g /\ g * (2 * new + 1) = 2 * (g * new) + g
    BY <1>1
  <2>3. (new + 1) * (new + 1) = new * new + 2 * new + 1
    OBVIOUS
  <2>4. (g - new - 1) * (g - new - 1) >= 0
    <3>1. \A x \in Int : x * x >= 0
      OBVIOUS
    <3> QED BY <3>1, g - new - 1 \in Int
  <2>5. (g - new - 1) * (g - new - 1) = g * g + new * new + 1 - 2 * (g * new) - 2 * g + 2 * new
    OBVIOUS
  <2> DEFINE GQ == g * q
             GG == g * g
             GN == g * new
             NN == new * new
             S == (new + 1) * (new + 1)
  <2>6. GQ \in Int /\ GG \in Int /\ GN \in Int /\ NN \in Int
    BY <1>1
  <2>7. /\ GQ + GG <= 2 * GN + g
        /\ S = NN + 2 * new + 1
        /\ GG + NN + 1 - 2 * GN - 2 * g + 2 * new >= 0
        /\ a = GQ + r
    BY <2>1, <2>2, <2>3, <2>4, <2>5, <1>1
  <2>8. a < S
    <3> HIDE DEF GQ, GG, GN, NN, S
    <3> QED BY <2>6, <2>7, <1>1
  <2> QED BY <2>8
<1>4. ASSUME new >= g PROVE g * g <= a
  <2>1. q >= g
    BY <1>2, <1>1, <1>4
  <2>2. g * g <= g * q
    BY <2>1, <1>1
  <2> DEFINE GQ == g * q
             GG == g * g
  <2>3. GG <= GQ /\ a = GQ + r /\ GQ \in Int /\ GG \in Int
    BY <2>2, <1>1
  <2>4. GG <= a
    <3> HIDE DEF GQ, GG
    <3> QED BY <2>3, <1>1
  <2> QED BY <2>4
<1> QED BY <1>3, <1>4

-----------------------------------------------------------------------------
(* The calls.                                                              *)

Underway == todo \in Seq(Call) /\ todo # << >>

(* The call being made is one of those that may be.                        *)
LEMMA CallUnderway ==
  ASSUME Underway
  PROVE  /\ Now \in Call /\ Tail(todo) \in Seq(Call)
         /\ Now.op \in {"MUL", "MULS36", "DIV"} => Now.a \in Word /\ Now.b \in Word
         /\ Now.op = "DIVS36" => Pair(Now.h, Now.l) \in PairState /\ Now.b \in Word
         /\ Now.op = "ISQRT" => Now.a \in 0 .. Half - 1
         /\ Now.op = "DEC36" => Pair(Now.h, Now.l) \in PairState
         /\ Now.op = "DEC" => Now.a \in Word
<1>1. Now \in Call /\ Tail(todo) \in Seq(Call)
  BY DEF Underway, Now
<1> QED BY <1>1 DEF Call, Pair, PairState

\* Where a loop is, and whose it is; the guess of ISQRT is above the root.
Guessing ==
  /\ at \in {"CALL", "DONE", "SQL", "DEC", "SIGN", "DEC36"} /\ todo \in Seq(Call)
  /\ at # "CALL" => todo # << >>
  /\ at = "SQL" => /\ Now.op = "ISQRT" /\ sqn = Now.a /\ sqn # 0
                   /\ sqg \in 1 .. Half - 1 /\ sqn < (sqg + 1) * (sqg + 1)
  /\ at \in {"DEC", "SIGN"} => Now.op \in {"DEC", "DEC36"}
  /\ at = "DEC36" => Now.op = "DEC36"

ArithInv == Guessing /\ Product /\ Quotient /\ Root

(* Before the first call nothing has been returned.                        *)
LEMMA ArithInitInv == ArithInit => ArithInv
<1> SUFFICES ASSUME ArithInit PROVE ArithInv
  OBVIOUS
<1>1. at = "CALL" /\ todo \in Seq(Call)
  BY ProgramsAssumption DEF ArithInit
<1> QED BY <1>1 DEF ArithInv, Guessing, Product, Quotient, Root, Returned

(* One guess of ISQRT.                                                     *)
LEMMA NextGuess ==
  ASSUME NEW a \in 1 .. Half - 1, NEW g \in 1 .. Half - 1, a < (g + 1) * (g + 1)
  PROVE  LET new == Sum(DIV(a, g).q, g) \div 2
         IN  IF Falls(new, g) THEN new \in 1 .. Half - 1 /\ a < (new + 1) * (new + 1)
             ELSE g * g <= a
<1> USE TwoToSplits
<1> DEFINE q == a \div g
           r == a % g
           new == (q + g) \div 2
<1>1. a \in Word /\ g \in Word /\ g # 0 /\ a \in Nat /\ g \in Nat \ {0}
  BY DEF Word
<1>2. q \in Nat /\ q <= a /\ (q = 0 => a < g)
  <2>1. a = g * q + r /\ q \in Nat /\ r \in 0 .. g - 1
    BY <1>1, Divided
  <2>2. q <= g * q
    <3>1. \A x \in Nat, y \in Nat \ {0} : x <= y * x
      OBVIOUS
    <3> QED BY <3>1, <2>1, <1>1
  <2> DEFINE A == g * q
  <2>3. A \in Nat /\ (q = 0 => A = 0)
    BY <2>1, <1>1
  <2>4. a = A + r /\ q <= A
    BY <2>1, <2>2
  <2> HIDE DEF q, r, A
  <2> QED BY <2>1, <2>3, <2>4, <1>1
<1>3. DIV(a, g).q = q
  <2>1. Val(a) = a /\ Val(g) = g /\ Mag(Val(a)) = a /\ Mag(Val(g)) = g /\ ~(Val(a) < 0) /\ ~(Val(g) < 0)
    BY DEF Val, Mag
  <2>2. DIV(a, g).q = WithSign((Val(a) < 0) # (Val(g) < 0), Mag(Val(a)) \div Mag(Val(g))) % WordMod
    BY <1>1, DivDivides
  <2>3. DIV(a, g).q = q % WordMod
    BY <2>1, <2>2 DEF WithSign
  <2>4. q = 0 * WordMod + q /\ q \in Word /\ q \in Int /\ 0 \in Int
    <3> HIDE DEF q
    <3> QED BY <1>2 DEF Word
  <2>5. q % WordMod = q
    <3> HIDE DEF q
    <3> QED BY <2>4, WordModulo
  <2> QED BY <2>3, <2>5
<1> HIDE DEF q
<1>4. Sum(q, g) = q + g
  <2>1. q \in Word /\ ~Carry(q, g)
    BY <1>2 DEF Word, Carry
  <2> QED BY <2>1, <1>1, Added
<1>5. new \in Nat /\ 2 * new <= q + g /\ q + g <= 2 * new + 1
  BY <1>1, <1>2
<1>6. new \in 1 .. Half - 1
  <2>1. q + g >= 2
    BY <1>1, <1>2
  <2> HIDE DEF new
  <2> QED BY <2>1, <1>2, <1>5
<1>7. Falls(new, g) <=> new < g
  <2> HIDE DEF new
  <2>1. CIA(g) = WordMod - g /\ CIA(g) \in Word /\ new \in Word
    BY <1>1, <1>6, Negated DEF Word
  <2>2. Sum(new, CIA(g)) = IF new >= g THEN new - g ELSE new - g + WordMod
    <3>1. Carry(new, CIA(g)) <=> new >= g
      BY <2>1, <1>6 DEF Carry
    <3>2. Sum(new, CIA(g)) = IF Carry(new, CIA(g)) THEN new + CIA(g) - WordMod ELSE new + CIA(g)
      BY <2>1, Added
    <3> QED BY <3>1, <3>2, <2>1, <1>6
  <2> QED BY <2>2, <1>6 DEF Falls, IsNeg
<1>8. /\ new < g => a < (new + 1) * (new + 1)
      /\ new >= g => g * g <= a
  <2>1. new = (a \div g + g) \div 2
    BY DEF q
  <2> HIDE DEF new
  <2> QED BY <2>1, <1>1, <1>5, Newton
<1>9. Sum(DIV(a, g).q, g) \div 2 = new
  BY <1>3, <1>4
<1> HIDE DEF new
<1> QED BY <1>6, <1>7, <1>8, <1>9

(* Every step of the library keeps it.                                     *)
LEMMA ArithStepInv == ArithInv /\ [ArithNext]_arithVars => ArithInv'
<1> SUFFICES ASSUME ArithInv, [ArithNext]_arithVars PROVE ArithInv'
  OBVIOUS
<1> USE DEF ArithInv
<1>0. at \in {"CALL", "DONE", "SQL", "DEC", "SIGN", "DEC36"} /\ todo \in Seq(Call)
  BY DEF Guessing
<1>d. ASSUME todo' = todo, at' = "DONE", Underway, Now.op \notin {"MUL", "MULS36"} PROVE Product'
  BY <1>d DEF Product, Returned, Now
<1>e. ASSUME todo' = todo, at' = "DONE", Underway, Now.op \notin {"DIV", "DIVS36"} PROVE Quotient'
  BY <1>e DEF Quotient, Returned, Now
<1>f. ASSUME todo' = todo, at' = "DONE", Underway, Now.op # "ISQRT" PROVE Root'
  BY <1>f DEF Root, Returned, Now
<1>g. ASSUME at' # "DONE" PROVE Product' /\ Quotient' /\ Root'
  BY <1>g DEF Product, Quotient, Root, Returned
<1>h. ASSUME todo' = todo, at' = "DONE", Underway PROVE Guessing'
  BY <1>h DEF Guessing, Underway
<1>1. CASE CallMUL
  <2>1. todo' = todo /\ at' = "DONE" /\ Underway /\ Now.op = "MUL" /\ mres' = MUL(Now.a, Now.b)
    BY <1>1, <1>0 DEF CallMUL, Calls, Underway
  <2>2. mres' = (Val(Now.a) * Val(Now.b)) % WordMod
    BY <2>1, CallUnderway, MulMultiplies
  <2>3. Product'
    BY <2>1, <2>2 DEF Product, Returned, Now
  <2> QED BY <2>1, <2>3, <1>e, <1>f, <1>h
<1>2. CASE CallMULS36
  <2>1. /\ todo' = todo /\ at' = "DONE" /\ Underway /\ Now.op = "MULS36"
        /\ mdh' = MULS36(Now.a, Now.b).h /\ mdl' = MULS36(Now.a, Now.b).l
    BY <1>2, <1>0 DEF CallMULS36, Calls, Underway
  <2>2. Val2(mdh', mdl') = Val(Now.a) * Val(Now.b)
    BY <2>1, CallUnderway, Muls36Multiplies
  <2>3. Product'
    BY <2>1, <2>2 DEF Product, Returned, Now
  <2> QED BY <2>1, <2>3, <1>e, <1>f, <1>h
<1>3. CASE CallDIV
  <2>1. /\ todo' = todo /\ at' = "DONE" /\ Underway /\ Now.op = "DIV"
        /\ mres' = DIV(Now.a, Now.b).q /\ mrem' = DIV(Now.a, Now.b).r
    BY <1>3, <1>0 DEF CallDIV, Calls, Underway
  <2>2. Now.a \in Word /\ Now.b \in Word
    BY <2>1, CallUnderway
  <2>3. CASE Now.b = 0
    <3>1. mres' = 0 /\ mrem' = 0
      BY <2>1, <2>3 DEF DIV
    <3>2. Quotient'
      BY <2>1, <2>3, <3>1 DEF Quotient, Returned, Now
    <3> QED BY <2>1, <3>2, <1>d, <1>f, <1>h
  <2>4. CASE Now.b # 0
    <3>1. /\ mres' = WithSign((Val(Now.a) < 0) # (Val(Now.b) < 0), Mag(Val(Now.a)) \div Mag(Val(Now.b))) % WordMod
          /\ Val(mrem') = WithSign(Val(Now.a) < 0, Mag(Val(Now.a)) % Mag(Val(Now.b)))
      BY <2>1, <2>2, <2>4, DivDivides
    <3>2. Quotient'
      BY <2>1, <2>4, <3>1 DEF Quotient, Returned, Now, WithSign
    <3> QED BY <2>1, <3>2, <1>d, <1>f, <1>h
  <2> QED BY <2>3, <2>4
<1>4. CASE CallDIVS36
  <2> DEFINE p == Pair(Now.h, Now.l)
             d == DIVS36(p, Now.b)
  <2>1. /\ todo' = todo /\ at' = "DONE" /\ Underway /\ Now.op = "DIVS36"
        /\ mdh' = d.q.h /\ mdl' = d.q.l /\ mrem' = d.r
    BY <1>4, <1>0 DEF CallDIVS36, Calls, Underway
  <2>2. p \in PairState /\ Now.b \in Word /\ p.h = Now.h /\ p.l = Now.l
    BY <2>1, CallUnderway DEF Pair
  <2>3. Now.b # 0 =>
          LET v == Val2(Now.h, Now.l)
          IN  /\ mdh' * WordMod + mdl' =
                   WithSign((v < 0) # (Val(Now.b) < 0), Mag(v) \div Mag(Val(Now.b))) % (WordMod * WordMod)
              /\ mrem' = Mag(v) % Mag(Val(Now.b))
    <3> SUFFICES ASSUME Now.b # 0
                 PROVE  LET v == Val2(Now.h, Now.l)
                        IN  /\ mdh' * WordMod + mdl' =
                                 WithSign((v < 0) # (Val(Now.b) < 0), Mag(v) \div Mag(Val(Now.b))) % (WordMod * WordMod)
                            /\ mrem' = Mag(v) % Mag(Val(Now.b))
      OBVIOUS
    <3> HIDE DEF p
    <3>1. /\ PairValue(d.q) =
               WithSign((Val2(p.h, p.l) < 0) # (Val(Now.b) < 0), Mag(Val2(p.h, p.l)) \div Mag(Val(Now.b))) % PairMod
          /\ d.r = Mag(Val2(p.h, p.l)) % Mag(Val(Now.b))
      BY <2>2, Divs36Divides
    <3> HIDE DEF d
    <3> QED BY <2>1, <2>2, <3>1 DEF PairValue, PairMod
  <2>4. Quotient'
    BY <2>1, <2>3 DEF Quotient, Returned, Now, WithSign
  <2> QED BY <2>1, <2>4, <1>d, <1>f, <1>h
<1>5. CASE CallISQRT
  <2>1. todo' = todo /\ at = "CALL" /\ Underway /\ Now.op = "ISQRT" /\ Now.a \in 0 .. Half - 1
    <3>1. todo' = todo /\ at = "CALL" /\ Underway /\ Now.op = "ISQRT"
      BY <1>5, <1>0 DEF CallISQRT, Calls, Underway
    <3> QED BY <3>1, CallUnderway
  <2>2. CASE Now.a = 0
    <3>1. mres' = 0 /\ at' = "DONE"
      BY <1>5, <2>2 DEF CallISQRT
    <3>2. Root'
      BY <2>1, <2>2, <3>1 DEF Root, Returned, Now
    <3> QED BY <2>1, <3>1, <3>2, <1>d, <1>e, <1>h
  <2>3. CASE Now.a # 0
    <3>1. sqn' = Now.a /\ sqg' = Now.a /\ at' = "SQL"
      BY <1>5, <2>3 DEF CallISQRT
    <3>2. Now.a < (Now.a + 1) * (Now.a + 1) /\ Now.a \in 1 .. Half - 1
      <4>1. \A x \in Nat : x < (x + 1) * (x + 1)
        OBVIOUS
      <4>2. Now.a \in Nat
        BY <2>1, TwoToSplits
      <4> QED BY <4>1, <4>2, <2>1, <2>3, TwoToSplits
    <3>3. Guessing'
      BY <2>1, <2>3, <3>1, <3>2, <1>0 DEF Guessing, Now, Underway
    <3> QED BY <3>1, <3>3, <1>g
  <2> QED BY <2>2, <2>3
<1>6. CASE SQL
  <2> DEFINE new == Sum(DIV(sqn, sqg).q, sqg) \div 2
  <2>1. /\ todo' = todo /\ at = "SQL" /\ Underway /\ Now.op = "ISQRT" /\ sqn = Now.a /\ sqn' = sqn
        /\ sqn # 0 /\ sqg \in 1 .. Half - 1 /\ sqn < (sqg + 1) * (sqg + 1)
    BY <1>6 DEF SQL, Guessing, Underway
  <2>2. sqn \in 1 .. Half - 1
    BY <2>1, CallUnderway, TwoToSplits
  <2>3. IF Falls(new, sqg) THEN new \in 1 .. Half - 1 /\ sqn < (new + 1) * (new + 1)
        ELSE sqg * sqg <= sqn
    BY <2>1, <2>2, NextGuess
  <2>4. IF Falls(new, sqg) THEN sqg' = new /\ at' = at
        ELSE mres' = sqg /\ at' = "DONE"
    BY <1>6 DEF SQL
  <2> HIDE DEF new
  <2>5. CASE Falls(new, sqg)
    <3>1. Guessing'
      BY <2>1, <2>3, <2>4, <2>5, <1>0 DEF Guessing, Now, Underway
    <3> QED BY <2>1, <2>4, <2>5, <3>1, <1>g
  <2>6. CASE ~Falls(new, sqg)
    <3>1. mres' = sqg /\ at' = "DONE" /\ sqg * sqg <= Now.a /\ Now.a < (sqg + 1) * (sqg + 1)
      BY <2>1, <2>3, <2>4, <2>6
    <3>2. Root'
      BY <2>1, <3>1 DEF Root, Returned, Now
    <3> QED BY <2>1, <3>1, <3>2, <1>d, <1>e, <1>h
  <2> QED BY <2>5, <2>6
<1>7. CASE CallDEC
  <2>1. todo' = todo /\ Underway /\ Now.op = "DEC" /\ at' \in {"DEC", "SIGN", "DEC36"}
        /\ (at' = "DEC36" => Now.op = "DEC36")
    BY <1>7, <1>0 DEF CallDEC, Calls, Underway, Guessing
  <2>2. Guessing'
    BY <2>1, <1>0 DEF Guessing, Now, Underway
  <2> QED BY <2>1, <2>2, <1>g
<1>8. CASE DECLoop
  <2>1. todo' = todo /\ Underway /\ Now.op \in {"DEC", "DEC36"} /\ at' \in {"DEC", "SIGN", "DEC36"}
        /\ (at' = "DEC36" => Now.op = "DEC36")
    BY <1>8, <1>0 DEF DECLoop, Calls, Underway, Guessing
  <2>2. Guessing'
    BY <2>1, <1>0 DEF Guessing, Now, Underway
  <2> QED BY <2>1, <2>2, <1>g
<1>9. CASE CallDEC36
  <2>1. todo' = todo /\ Underway /\ Now.op = "DEC36" /\ at' \in {"DEC", "SIGN", "DEC36"}
        /\ (at' = "DEC36" => Now.op = "DEC36")
    BY <1>9, <1>0 DEF CallDEC36, Calls, Underway, Guessing
  <2>2. Guessing'
    BY <2>1, <1>0 DEF Guessing, Now, Underway
  <2> QED BY <2>1, <2>2, <1>g
<1>10. CASE DEC36Loop
  <2>1. todo' = todo /\ Underway /\ Now.op = "DEC36" /\ at' \in {"DEC", "SIGN", "DEC36"}
        /\ (at' = "DEC36" => Now.op = "DEC36")
    BY <1>10, <1>0 DEF DEC36Loop, Calls, Underway, Guessing
  <2>2. Guessing'
    BY <2>1, <1>0 DEF Guessing, Now, Underway
  <2> QED BY <2>1, <2>2, <1>g
<1>11. CASE MostNegative
  <2>1. todo' = todo /\ at' = "DONE" /\ Underway /\ Now.op \in {"DEC", "DEC36"}
    BY <1>11, <1>0 DEF MostNegative, Calls, Underway, Guessing
  <2> QED BY <2>1, <1>d, <1>e, <1>f, <1>h
<1>12. CASE DECSign
  <2>1. todo' = todo /\ at' = "DONE" /\ Underway /\ Now.op \in {"DEC", "DEC36"}
    BY <1>12, <1>0 DEF DECSign, Calls, Underway, Guessing
  <2> QED BY <2>1, <1>d, <1>e, <1>f, <1>h
<1>13. CASE RET
  <2>1. todo' \in Seq(Call) /\ at' = "CALL"
    BY <1>13, <1>0, CallUnderway DEF RET, Guessing, Underway
  <2>2. Guessing'
    BY <2>1 DEF Guessing
  <2> QED BY <2>1, <2>2, <1>g
<1>14. CASE UNCHANGED arithVars
  BY <1>14 DEF arithVars, results, root, digits, Guessing, Product, Quotient, Root, Returned, Now
<1> QED BY <1>1, <1>2, <1>3, <1>4, <1>5, <1>6, <1>7, <1>8, <1>9, <1>10, <1>11, <1>12, <1>13, <1>14 DEF ArithNext

(* MUL and MULS36 multiply, in words of any width.                         *)
THEOREM ProductsRight == ArithSpec => []Product
<1>1. ArithInv => Product
  BY DEF ArithInv
<1> QED BY <1>1, ArithInitInv, ArithStepInv, PTL DEF ArithSpec

(* DIV and DIVS36 divide, with the signs the code gives their results.     *)
THEOREM QuotientsRight == ArithSpec => []Quotient
<1>1. ArithInv => Quotient
  BY DEF ArithInv
<1> QED BY <1>1, ArithInitInv, ArithStepInv, PTL DEF ArithSpec

(* ISQRT ends with the root, for every number that is not negative.        *)
THEOREM RootsRight == ArithSpec => []Root
<1>1. ArithInv => Root
  BY DEF ArithInv
<1> QED BY <1>1, ArithInitInv, ArithStepInv, PTL DEF ArithSpec

-----------------------------------------------------------------------------
(* Decimal spelling.                                                       *)

(* The powers of ten.                                                      *)
LEMMA TenToRuns == TenTo = [k \in 0 .. Bits + DBEND |-> IF k = 0 THEN 1 ELSE 10 * TenTo[k - 1]]
<1> USE ArithAssumption
<1> DEFINE F == [x \in Int |-> 10 * x]
           n == Bits + DBEND
           ok(g) == g = [k \in 0 .. n |-> IF k = 0 THEN 1 ELSE 10 * g[k - 1]]
<1>1. PICK g : IsRun(g, Int, F, 1, n)
  <2>1. F \in [Int -> Int] /\ 1 \in Int /\ n \in Nat
    OBVIOUS
  <2> HIDE DEF F, n
  <2> QED BY <2>1, Iterated
<1>2. \A k \in 0 .. n : g[k] = IF k = 0 THEN 1 ELSE 10 * g[k - 1]
  <2> HIDE DEF n
  <2> SUFFICES ASSUME NEW k \in 0 .. n PROVE g[k] = IF k = 0 THEN 1 ELSE 10 * g[k - 1]
    OBVIOUS
  <2>1. CASE k = 0
    BY <2>1, <1>1 DEF IsRun
  <2>2. CASE k # 0
    <3>1. k \in 1 .. n /\ k - 1 \in 0 .. n
      BY <2>2 DEF n
    <3>2. g[k] = F[g[k - 1]] /\ g[k - 1] \in Int
      BY <3>1, <1>1 DEF IsRun
    <3> QED BY <3>2, <2>2
  <2> QED BY <2>1, <2>2
<1>3. ok(g)
  BY <1>1, <1>2 DEF IsRun
<1>4. ok(CHOOSE h : ok(h))
  BY <1>3
<1> QED BY <1>4 DEF TenTo

(* The first power, their type, and each from the one before.              *)
LEMMA TenToFacts ==
  /\ TenTo[0] = 1
  /\ \A k \in 0 .. Bits + DBEND : TenTo[k] \in Nat \ {0}
  /\ \A k \in 0 .. Bits + DBEND - 1 : TenTo[k + 1] = 10 * TenTo[k]
<1> USE ArithAssumption
<1>1. TenTo[0] = 1
  BY TenToRuns
<1>2. \A k \in 0 .. Bits + DBEND - 1 : TenTo[k + 1] = 10 * TenTo[k]
  BY TenToRuns
<1> DEFINE n == Bits + DBEND
           S == {k \in 0 .. n : TenTo[k] \in Nat \ {0}}
<1>3. 0 .. n \subseteq S
  <2>1. 0 \in S
    BY <1>1
  <2>2. ASSUME NEW k \in 0 .. n - 1, k \in S PROVE k + 1 \in S
    BY <2>2, <1>2
  <2>3. n \in Nat
    OBVIOUS
  <2> HIDE DEF S, n
  <2> QED BY <2>1, <2>2, <2>3, UpTo
<1> QED BY <1>1, <1>2, <1>3

(* They grow, and faster than the squares of the powers of two.            *)
LEMMA TenToGrows ==
  /\ \A i, j \in 0 .. Bits + DBEND : i <= j => TenTo[i] <= TenTo[j]
  /\ TenTo[Bits] >= PairMod
<1> USE ArithAssumption
<1> DEFINE n == Bits + DBEND
<1>1. n \in Nat /\ Bits \in 0 .. n
  OBVIOUS
<1>2. ASSUME NEW i \in 0 .. n PROVE \A j \in 0 .. n : i <= j => TenTo[i] <= TenTo[j]
  <2> DEFINE S == {j \in 0 .. n : i <= j => TenTo[i] <= TenTo[j]}
  <2>1. 0 \in S
    BY <1>1, i >= 0, TenToFacts
  <2>2. ASSUME NEW k \in 0 .. n - 1, k \in S PROVE k + 1 \in S
    <3>1. TenTo[k + 1] = 10 * TenTo[k] /\ TenTo[k] \in Nat \ {0} /\ k + 1 \in 0 .. n /\ TenTo[i] \in Nat
      BY TenToFacts
    <3> HIDE DEF n
    <3>2. CASE i <= k
      BY <2>2, <3>1, <3>2
    <3>3. CASE i = k + 1
      BY <3>1, <3>3
    <3>4. CASE i > k + 1
      BY <3>1, <3>4
    <3> QED BY <3>2, <3>3, <3>4
  <2> HIDE DEF S, n
  <2>3. 0 .. n \subseteq S
    BY <1>1, <2>1, <2>2, UpTo
  <2> QED BY <2>3 DEF S
<1>3. TenTo[Bits] >= TwoTo[Bits] * TwoTo[Bits]
  <2> DEFINE S == {k \in 0 .. Bits : TenTo[k] >= TwoTo[k] * TwoTo[k]}
  <2>1. 0 \in S
    BY TenToFacts, TwoToFacts
  <2>2. ASSUME NEW k \in 0 .. Bits - 1, k \in S PROVE k + 1 \in S
    <3>1. TenTo[k + 1] = 10 * TenTo[k] /\ TenTo[k] \in Nat
      BY TenToFacts, k \in 0 .. n - 1, k \in 0 .. n
    <3>2. TwoTo[k + 1] = 2 * TwoTo[k] /\ TwoTo[k] \in Nat
      BY TwoToFacts
    <3>3. TenTo[k] >= TwoTo[k] * TwoTo[k]
      BY <2>2
    <3>4. \A x \in Nat : (2 * x) * (2 * x) = 4 * (x * x) /\ x * x \in Nat
      OBVIOUS
    <3>5. TwoTo[k + 1] * TwoTo[k + 1] = 4 * (TwoTo[k] * TwoTo[k]) /\ TwoTo[k] * TwoTo[k] \in Nat
      BY <3>2, <3>4
    <3>6. TenTo[k + 1] >= TwoTo[k + 1] * TwoTo[k + 1]
      <4> DEFINE A == TwoTo[k] * TwoTo[k]
                 B == TwoTo[k + 1] * TwoTo[k + 1]
      <4>1. TenTo[k] >= A /\ B = 4 * A /\ A \in Nat
        BY <3>3, <3>5
      <4> HIDE DEF A, B
      <4>2. 10 * TenTo[k] >= B
        BY <4>1, <3>1
      <4> QED BY <4>2, <3>1 DEF B
    <3> QED BY <3>6
  <2> HIDE DEF S
  <2>3. 0 .. Bits \subseteq S
    BY <2>1, <2>2, UpTo
  <2>4. Bits \in S
    BY <2>3
  <2> QED BY <2>4 DEF S
<1> QED BY <1>2, <1>3 DEF PairMod, WordMod

(* The digits of a number, once it is known how many there are.            *)
LEMMA SpelledIs ==
  ASSUME NEW v \in 0 .. PairHalf, NEW j \in 1 .. DBEND - 1,
         v < TenTo[j], j = 1 \/ TenTo[j - 1] <= v
  PROVE  Spelled(v) = [k \in 1 .. j |-> (v \div TenTo[j - k]) % 10]
<1> USE ArithAssumption, TwoToSplits
<1> DEFINE places == {k \in 0 .. Bits : TenTo[k] <= v \/ k = 0}
<1>1. PairHalf \in Nat /\ PairHalf < PairMod /\ PairMod \in Nat
  <2>1. \A h \in Nat : (h > 0 => h * (2 * h) < (2 * h) * (2 * h)) /\ h * (2 * h) \in Nat /\ (2 * h) * (2 * h) \in Nat
    <3> SUFFICES ASSUME NEW h \in Nat
                 PROVE (h > 0 => h * (2 * h) < (2 * h) * (2 * h)) /\ h * (2 * h) \in Nat /\ (2 * h) * (2 * h) \in Nat
      OBVIOUS
    <3>1. h * (2 * h) = 2 * (h * h) /\ (2 * h) * (2 * h) = 4 * (h * h) /\ h * h \in Nat /\ (h > 0 => h * h > 0)
      OBVIOUS
    <3> DEFINE A == h * h
               B == h * (2 * h)
               C == (2 * h) * (2 * h)
    <3>2. B = 2 * A /\ C = 4 * A /\ A \in Nat /\ (h > 0 => A > 0)
      BY <3>1
    <3>3. (h > 0 => B < C) /\ B \in Nat /\ C \in Nat
      <4> HIDE DEF A, B, C
      <4> QED BY <3>2
    <3> QED BY <3>3
  <2> QED BY <2>1 DEF PairHalf, PairMod
<1>2. TenTo[Bits] > v /\ Bits \in 0 .. Bits + DBEND /\ TenTo[Bits] \in Nat
  BY <1>1, TenToGrows, TenToFacts
<1>3. j - 1 < Bits
  <2>1. CASE j = 1
    BY <2>1
  <2>2. CASE j # 1
    <3>1. TenTo[j - 1] <= v /\ j - 1 \in 0 .. Bits + DBEND /\ TenTo[j - 1] \in Nat
      BY <2>2, TenToFacts
    <3>2. j - 1 >= Bits => TenTo[Bits] <= TenTo[j - 1]
      BY <3>1, <1>2, TenToGrows
    <3> QED BY <3>1, <3>2, <1>1, <1>2
  <2> QED BY <2>1, <2>2
<1>4. places = 0 .. j - 1
  <2>1. ASSUME NEW k \in 0 .. Bits PROVE (TenTo[k] <= v \/ k = 0) <=> k <= j - 1
    <3>1. /\ k \in 0 .. Bits + DBEND /\ j \in 0 .. Bits + DBEND /\ j - 1 \in 0 .. Bits + DBEND
          /\ TenTo[k] \in Nat /\ TenTo[j] \in Nat /\ TenTo[j - 1] \in Nat
      BY TenToFacts
    <3>2. CASE k >= j
      <4>1. TenTo[j] <= TenTo[k]
        BY <3>1, <3>2, TenToGrows
      <4> QED BY <3>1, <3>2, <4>1, <1>1
    <3>3. CASE k <= j - 1 /\ k # 0
      <4>1. TenTo[k] <= TenTo[j - 1] /\ TenTo[j - 1] <= v
        BY <3>1, <3>3, TenToGrows
      <4> QED BY <3>1, <3>3, <4>1, <1>1
    <3>4. CASE k = 0
      BY <3>4
    <3> QED BY <3>2, <3>3, <3>4
  <2> QED BY <2>1, <1>3
<1>5. Cardinality(places) = j
  <2>1. Cardinality(0 .. j - 1) = IF 0 > j - 1 THEN 0 ELSE (j - 1) - 0 + 1
    BY FS_Interval, 0 \in Int, j - 1 \in Int
  <2>2. Cardinality(0 .. j - 1) = j
    <3> DEFINE c == Cardinality(0 .. j - 1)
    <3> HIDE DEF c
    <3>1. c = IF 0 > j - 1 THEN 0 ELSE (j - 1) - 0 + 1
      BY <2>1 DEF c
    <3>2. c = j
      BY <3>1
    <3> QED BY <3>2 DEF c
  <2> HIDE DEF places
  <2> QED BY <2>2, <1>4
<1> HIDE DEF places
<1>6. Spelled(v) = [k \in 1 .. Cardinality(places) |-> (v \div TenTo[Cardinality(places) - k]) % 10]
  BY DEF Spelled, places
<1> QED BY <1>5, <1>6

(* Taking a digit off the end.                                             *)
LEMMA DigitOff ==
  ASSUME NEW v \in Nat, NEW T \in Nat \ {0}
  PROVE  /\ v \div T \in Nat /\ v \div (10 * T) = (v \div T) \div 10
         /\ v \div T # 0 <=> T <= v
         /\ (v \div T) \div 10 \in Nat /\ (v \div T) \div 10 <= v \div T
<1> DEFINE x == v \div T
           r == v % T
<1>1. v = T * x + r /\ x \in Nat /\ r \in 0 .. T - 1
  BY Divided
<1> HIDE DEF x, r
<1> DEFINE y == x \div 10
           s == x % 10
<1>2. x = 10 * y + s /\ y \in Nat /\ s \in 0 .. 9
  <2>1. 10 \in Nat \ {0} /\ 10 - 1 = 9
    OBVIOUS
  <2> QED BY <2>1, <1>1, Divided
<1> HIDE DEF y, s
<1>3. v = (10 * T) * y + (s * T + r)
  <2>1. \A t, a, b \in Int : t * (10 * a + b) = (10 * t) * a + b * t
    OBVIOUS
  <2>2. T * x = (10 * T) * y + s * T
    BY <2>1, <1>2
  <2> DEFINE A == T * x
             B == (10 * T) * y
             C == s * T
  <2>3. A \in Int /\ B \in Int /\ C \in Int /\ A = B + C /\ v = A + r
    BY <1>1, <1>2, <2>2
  <2>4. v = B + (C + r)
    <3> HIDE DEF A, B, C
    <3> QED BY <2>3, <1>1
  <2> QED BY <2>4
<1>4. s * T + r \in 0 .. 10 * T - 1
  <2>1. \A a \in 0 .. 9, t \in Nat : a * t \in Nat /\ a * t <= 9 * t
    OBVIOUS
  <2> DEFINE C == s * T
  <2>2. C \in Nat /\ C <= 9 * T
    BY <2>1, <1>2
  <2> HIDE DEF C
  <2>3. C + r \in 0 .. 10 * T - 1
    BY <2>2, <1>1
  <2> QED BY <2>3 DEF C
<1>5. v \div (10 * T) = y
  <2> DEFINE D == 10 * T
             e == s * T + r
  <2>1. D \in Nat \ {0} /\ e \in 0 .. D - 1 /\ v = D * y + e /\ v \in Int /\ y \in Int
    BY <1>2, <1>3, <1>4
  <2> HIDE DEF D, e
  <2>2. v \div D = y
    BY <2>1, DividedOnce
  <2> QED BY <2>2 DEF D
<1>6. x # 0 <=> T <= v
  <2> DEFINE A == T * x
  <2>1. A \in Nat /\ (x = 0 => A = 0) /\ (x # 0 => A >= T)
    BY <1>1
  <2> HIDE DEF A
  <2>2. v = A + r
    BY <1>1 DEF A
  <2> QED BY <1>1, <2>1, <2>2
<1> QED BY <1>1, <1>2, <1>5, <1>6 DEF x, y

(* What is in the buffer: the last j digits of a number, in its last slots. *)
IsBuffer(b)     == b = [k \in 0 .. DBEND - 1 |-> b[k]]
Digits(v, b, j) == \A i \in 0 .. j - 1 : b[DBEND - 1 - i] = (v \div TenTo[i]) % 10

\* Digits down to d are written, i is where the last one went.
Written(v, d, b, i) ==
  /\ IsBuffer(b)
  /\ \E j \in 0 .. DBEND - 1 :
        /\ i = DBEND - j /\ d = v \div TenTo[j]
        /\ j > 0 => TenTo[j - 1] <= v
        /\ Digits(v, b, j)
\* All of them are.
WrittenOut(v, b, i) ==
  /\ IsBuffer(b)
  /\ \E j \in 1 .. DBEND - 1 :
        /\ i = DBEND - j /\ v < TenTo[j]
        /\ j = 1 \/ TenTo[j - 1] <= v
        /\ Digits(v, b, j)

(* A digit goes in front of those that are there, and there is room for it. *)
LEMMA DigitGoesIn ==
  ASSUME NEW v \in 0 .. PairHalf, NEW d, NEW b, NEW i, Written(v, d, b, i), d # 0
  PROVE  Written(v, d \div 10, [b EXCEPT ![i - 1] = d % 10], i - 1)
<1> USE ArithAssumption
<1>1. PICK j \in 0 .. DBEND - 1 :
        /\ i = DBEND - j /\ d = v \div TenTo[j]
        /\ j > 0 => TenTo[j - 1] <= v
        /\ Digits(v, b, j)
  BY DEF Written
<1>2. v \in Nat /\ v <= PairHalf /\ PairHalf \in Nat
  BY TwoToSplits DEF PairHalf
<1>3. j \in 0 .. Bits + DBEND - 1 /\ TenTo[j] \in Nat \ {0} /\ TenTo[j + 1] = 10 * TenTo[j]
  BY TenToFacts
<1>4. TenTo[j] <= v /\ v \div TenTo[j + 1] = d \div 10
  BY <1>1, <1>2, <1>3, DigitOff
<1>5. j + 1 \in 1 .. DBEND - 1
  <2>1. TenTo[DBEND - 1] > PairHalf
    <3>1. \A x, y \in Nat : x * y = y * x
      OBVIOUS
    <3> QED BY <3>1, BufferAssumption, TwoToSplits DEF PairHalf
  <2>2. DBEND - 1 \in 0 .. Bits + DBEND /\ TenTo[DBEND - 1] \in Nat
    BY TenToFacts, BufferAssumption
  <2>3. j # DBEND - 1
    BY <1>2, <1>3, <1>4, <2>1, <2>2
  <2> QED BY <2>3
<1> DEFINE c == [b EXCEPT ![i - 1] = d % 10]
<1>6. IsBuffer(b) /\ i - 1 = DBEND - 1 - j /\ i - 1 \in 0 .. DBEND - 1
  BY <1>1, <1>5 DEF Written
<1>7. c = [k \in 0 .. DBEND - 1 |-> IF k = i - 1 THEN d % 10 ELSE b[k]]
  BY <1>6 DEF IsBuffer
<1> HIDE DEF c
<1>8. IsBuffer(c)
  BY <1>7 DEF IsBuffer
<1>9. Digits(v, c, j + 1)
  <2> SUFFICES ASSUME NEW m \in 0 .. j PROVE c[DBEND - 1 - m] = (v \div TenTo[m]) % 10
    BY DEF Digits
  <2>1. CASE m = j
    BY <2>1, <1>1, <1>6, <1>7
  <2>2. CASE m # j
    <3>1. m \in 0 .. j - 1 /\ DBEND - 1 - m \in 0 .. DBEND - 1 /\ DBEND - 1 - m # i - 1
      BY <2>2, <1>6
    <3> QED BY <3>1, <1>1, <1>7 DEF Digits
  <2> QED BY <2>1, <2>2
<1>10. Written(v, d \div 10, c, i - 1)
  <2>1. i - 1 = DBEND - (j + 1) /\ (j + 1) - 1 = j /\ j + 1 \in 0 .. DBEND - 1 /\ d \div 10 = v \div TenTo[j + 1]
    BY <1>4, <1>5, <1>6
  <2> DEFINE e == d \div 10
             J == j + 1
             I == i - 1
  <2>2. /\ I = DBEND - J /\ J - 1 = j /\ J \in 0 .. DBEND - 1 /\ e = v \div TenTo[J]
        /\ Digits(v, c, J)
    BY <2>1, <1>9
  <2>3. Written(v, e, c, I)
    <3> HIDE DEF e, J, I
    <3> QED BY <2>2, <1>4, <1>8 DEF Written
  <2> QED BY <2>3
<1> QED BY <1>10 DEF c

(* When nothing is left all the digits are there: a zero gets one of its own. *)
LEMMA NoDigitLeft ==
  ASSUME NEW v \in 0 .. PairHalf, NEW b, NEW i, Written(v, 0, b, i)
  PROVE  IF i = DBEND THEN WrittenOut(v, [b EXCEPT ![i - 1] = 0], i - 1)
                      ELSE WrittenOut(v, b, i)
<1> USE ArithAssumption, BufferAssumption
<1>1. PICK j \in 0 .. DBEND - 1 :
        /\ i = DBEND - j /\ 0 = v \div TenTo[j]
        /\ j > 0 => TenTo[j - 1] <= v
        /\ Digits(v, b, j)
  BY DEF Written
<1>2. v \in Nat
  BY TwoToSplits DEF PairHalf
<1>3. j \in 0 .. Bits + DBEND - 1 /\ TenTo[j] \in Nat \ {0}
  BY TenToFacts
<1>4. v < TenTo[j]
  <2>1. v \div TenTo[j] # 0 <=> TenTo[j] <= v
    BY <1>2, <1>3, DigitOff
  <2> QED BY <2>1, <1>1, <1>2, <1>3
<1>5. CASE i # DBEND
  <2>1. j \in 1 .. DBEND - 1
    BY <1>1, <1>5
  <2> QED BY <2>1, <1>1, <1>4, <1>5 DEF Written, WrittenOut
<1>6. CASE i = DBEND
  <2>1. j = 0 /\ TenTo[0] = 1 /\ v = 0
    <3>1. j = 0 /\ TenTo[0] = 1
      BY <1>1, <1>6, TenToFacts
    <3> QED BY <3>1, <1>2, <1>4
  <2>2. TenTo[1] = 10
    <3>1. 0 \in 0 .. Bits + DBEND - 1 /\ 0 + 1 = 1
      OBVIOUS
    <3>2. TenTo[0 + 1] = 10 * TenTo[0]
      BY <3>1, TenToFacts
    <3> QED BY <3>1, <3>2, <2>1
  <2> DEFINE c == [b EXCEPT ![i - 1] = 0]
  <2>3. IsBuffer(b) /\ i - 1 = DBEND - 1 /\ DBEND - 1 \in 0 .. DBEND - 1
    BY <1>6 DEF Written
  <2>4. c = [k \in 0 .. DBEND - 1 |-> IF k = i - 1 THEN 0 ELSE b[k]]
    BY <2>3 DEF IsBuffer
  <2> HIDE DEF c
  <2>5. IsBuffer(c) /\ c[DBEND - 1] = 0
    BY <2>3, <2>4 DEF IsBuffer
  <2>6. Digits(v, c, 1)
    <3>1. (v \div TenTo[0]) % 10 = 0
      BY <2>1
    <3>2. \A m \in 0 .. 1 - 1 : m = 0 /\ DBEND - 1 - m = DBEND - 1
      OBVIOUS
    <3> QED BY <3>1, <3>2, <2>5 DEF Digits
  <2>7. 1 \in 1 .. DBEND - 1 /\ i - 1 = DBEND - 1 /\ v < TenTo[1]
    BY <2>1, <2>2, <2>3
  <2>8. WrittenOut(v, c, i - 1)
    BY <2>5, <2>6, <2>7 DEF WrittenOut
  <2> QED BY <2>8, <1>6 DEF c
<1> QED BY <1>5, <1>6

(* The sign in front, and the buffer reads as the number is spelled.       *)
FromOn(b, p) == [k \in 1 .. DBEND - p |-> b[p + k - 1]]

(* Of a number that is not negative nothing more is written.               *)
LEMMA SignGoesIn ==
  ASSUME NEW v \in Int, Mag(v) \in 0 .. PairHalf, NEW b, NEW i, WrittenOut(Mag(v), b, i)
  PROVE  /\ v < 0 => FromOn([b EXCEPT ![i - 1] = Minus], i - 1) = Spelling(v)
         /\ v >= 0 => FromOn(b, i) = Spelling(v)
<1> USE ArithAssumption, BufferAssumption
<1> DEFINE V == Mag(v)
<1>1. PICK j \in 1 .. DBEND - 1 :
        /\ i = DBEND - j
        /\ V < TenTo[j]
        /\ j = 1 \/ TenTo[j - 1] <= V
        /\ Digits(V, b, j)
  BY DEF WrittenOut
<1>2. IsBuffer(b) /\ V \in 0 .. PairHalf
  BY DEF WrittenOut
<1> DEFINE s == [k \in 1 .. j |-> (V \div TenTo[j - k]) % 10]
<1>3. Spelled(V) = s
  <2> HIDE DEF V
  <2> QED BY <1>1, <1>2, SpelledIs
<1>4. Spelling(v) = (IF v < 0 THEN <<Minus>> ELSE << >>) \o s
  BY <1>3 DEF Spelling
<1>5. ASSUME NEW k \in 1 .. j PROVE b[DBEND - j + k - 1] = s[k]
  <2>1. j - k \in 0 .. j - 1 /\ DBEND - j + k - 1 = DBEND - 1 - (j - k)
    OBVIOUS
  <2>2. b[DBEND - 1 - (j - k)] = (V \div TenTo[j - k]) % 10
    BY <2>1, <1>1 DEF Digits
  <2> QED BY <2>1, <2>2
<1>6. s \in Seq({s[k] : k \in 1 .. j}) /\ Len(s) = j /\ DOMAIN s = 1 .. j
  <2>1. s \in [1 .. j -> {s[k] : k \in 1 .. j}] /\ j \in Nat
    OBVIOUS
  <2>2. s \in Seq({s[k] : k \in 1 .. j})
    <3> DEFINE X == {s[k] : k \in 1 .. j}
    <3>1. s \in [1 .. j -> X] /\ j \in Nat
      BY <2>1
    <3>2. s \in Seq(X)
      <4> HIDE DEF s, X
      <4> QED BY <3>1
    <3> QED BY <3>2
  <2>3. DOMAIN s = 1 .. j
    OBVIOUS
  <2> HIDE DEF s
  <2> QED BY <2>1, <2>2, <2>3
<1>7. s = [k \in 1 .. j |-> s[k]]
  OBVIOUS
<1> HIDE DEF s, V
<1>8. CASE v >= 0
  <2>1. << >> \o s = s
    BY <1>6
  <2>2. FromOn(b, i) = s
    <3>1. DBEND - i = j /\ \A k \in 1 .. j : i + k - 1 = DBEND - j + k - 1
      BY <1>1
    <3>2. FromOn(b, i) = [k \in 1 .. j |-> b[i + k - 1]]
      BY <3>1 DEF FromOn
    <3>3. \A k \in 1 .. j : b[i + k - 1] = s[k]
      BY <3>1, <1>5
    <3> QED BY <3>2, <3>3, <1>7
  <2>3. Spelling(v) = << >> \o s /\ ~(v < 0)
    <3>1. ~(v < 0)
      BY <1>8
    <3> QED BY <3>1, <1>4, Zenon
  <2> QED BY <2>1, <2>2, <2>3
<1>9. CASE v < 0
  <2> DEFINE c == [b EXCEPT ![i - 1] = Minus]
             p == i - 1
             t == <<Minus>> \o s
  <2>1. p = DBEND - j - 1 /\ p \in 0 .. DBEND - 1 /\ DBEND - p = j + 1 /\ j + 1 \in Nat
    BY <1>1
  <2>2. c = [k \in 0 .. DBEND - 1 |-> IF k = p THEN Minus ELSE b[k]]
    BY <1>2, <2>1 DEF IsBuffer
  <2>3. /\ t = [k \in 1 .. j + 1 |-> t[k]] /\ t[1] = Minus
        /\ \A k \in 1 .. j + 1 : k > 1 => t[k] = s[k - 1]
    <3>1. Len(<<Minus>>) = 1 /\ <<Minus>>[1] = Minus /\ 1 + j = j + 1
      OBVIOUS
    <3>2. t = [k \in 1 .. Len(<<Minus>>) + Len(s) |->
                 IF k <= Len(<<Minus>>) THEN <<Minus>>[k] ELSE s[k - Len(<<Minus>>)]]
      <4> DEFINE X == {Minus} \cup {s[k] : k \in 1 .. j}
      <4>1. <<Minus>> \in Seq(X)
        OBVIOUS
      <4>2. s \in Seq(X)
        BY <1>6
      <4> HIDE DEF X
      <4> QED BY <4>1, <4>2
    <3>3. t = [k \in 1 .. j + 1 |-> IF k <= 1 THEN <<Minus>>[k] ELSE s[k - 1]]
      BY <3>1, <3>2, <1>6
    <3> HIDE DEF t
    <3> QED BY <3>1, <3>3
  <2> HIDE DEF c, t, p
  <2>4. FromOn(c, p) = [k \in 1 .. j + 1 |-> c[p + k - 1]]
    BY <2>1 DEF FromOn
  <2>5. ASSUME NEW k \in 1 .. j + 1 PROVE c[p + k - 1] = t[k]
    <3>1. CASE k = 1
      <4>1. p + k - 1 = p
        BY <2>1, <3>1
      <4> QED BY <4>1, <3>1, <2>1, <2>2, <2>3
    <3>2. CASE k # 1
      <4>1. k - 1 \in 1 .. j /\ p + k - 1 = DBEND - j + (k - 1) - 1 /\ p + k - 1 \in 0 .. DBEND - 1 /\ p + k - 1 # p
        BY <2>1, <3>2
      <4>2. c[p + k - 1] = b[p + k - 1]
        BY <4>1, <2>2
      <4>3. b[DBEND - j + (k - 1) - 1] = s[k - 1]
        BY <4>1, <1>5
      <4> QED BY <4>1, <4>2, <4>3, <2>3, <3>2
    <3> QED BY <3>1, <3>2
  <2>6. FromOn(c, p) = t
    BY <2>3, <2>4, <2>5
  <2>7. Spelling(v) = t /\ ~(v >= 0)
    BY <1>4, <1>9 DEF t
  <2> QED BY <2>6, <2>7 DEF c, p
<1> QED BY <1>8, <1>9

-----------------------------------------------------------------------------
(* The loops of DEC and DEC36.                                             *)

(* One digit off a word, and off a pair.                                   *)
LEMMA TenOff ==
  ASSUME NEW a \in 0 .. Half - 1
  PROVE  DIV(a, 10).q = a \div 10 /\ DIV(a, 10).r = a % 10 /\ a \div 10 \in 0 .. Half - 1
<1> USE TwoToSplits
<1>1. a \in Word /\ 10 \in Word /\ 10 # 0 /\ a \in Nat /\ 10 \in Nat \ {0}
  BY DEF Word
<1>2. Val(a) = a /\ Val(10) = 10 /\ Mag(Val(a)) = a /\ Mag(Val(10)) = 10 /\ ~(Val(a) < 0) /\ ~(Val(10) < 0)
  BY DEF Val, Mag
<1> DEFINE q == a \div 10
           r == a % 10
           d == DIV(a, 10)
<1>3. a = 10 * q + r /\ q \in Nat /\ r \in 0 .. 9
  <2>1. a = 10 * (a \div 10) + (a % 10) /\ a \div 10 \in Nat /\ a % 10 \in 0 .. 10 - 1
    BY <1>1, Divided
  <2>2. 10 - 1 = 9
    OBVIOUS
  <2> QED BY <2>1, <2>2
<1>4. /\ d.q \in Word /\ d.r \in Word
      /\ d.q = WithSign((Val(a) < 0) # (Val(10) < 0), Mag(Val(a)) \div Mag(Val(10))) % WordMod
      /\ Val(d.r) = WithSign(Val(a) < 0, Mag(Val(a)) % Mag(Val(10)))
  BY <1>1, DivDivides
<1>5. d.q = q % WordMod /\ Val(d.r) = r
  BY <1>2, <1>4 DEF WithSign
<1> HIDE DEF q, r, d
<1>6. q \in 0 .. Half - 1 /\ q \in Word /\ q = 0 * WordMod + q /\ q \in Int
  BY <1>3 DEF Word
<1>7. q % WordMod = q
  BY <1>6, WordModulo, 0 \in Int
<1>8. d.r = r
  BY <1>3, <1>4, <1>5 DEF Val, Word
<1> QED BY <1>5, <1>6, <1>7, <1>8 DEF q, r, d

(* ABS2 leaves the magnitude of a pair.                                    *)
LEMMA PairSignOff ==
  ASSUME NEW p \in PairState
  PROVE  /\ AbsPair(p) \in PairState /\ PairValue(AbsPair(p)) = Mag(Val2(p.h, p.l))
         /\ Val2(p.h, p.l) \in Int /\ Mag(Val2(p.h, p.l)) \in 0 .. PairHalf
         /\ IsNeg(p.h) <=> Val2(p.h, p.l) < 0
<1> DEFINE n == PairValue(p)
           v == Val2(p.h, p.l)
<1>1. /\ PairMod \in Nat /\ PairHalf \in Nat /\ PairMod = 2 * PairHalf /\ PairHalf > 0
      /\ n \in 0 .. PairMod - 1
      /\ IsNeg(p.h) <=> n >= PairHalf
      /\ v = (IF IsNeg(p.h) THEN n - PairMod ELSE n)
  BY PairFacts
<1>2. NegPair(p) \in PairState /\ PairValue(NegPair(p)) = IF n = 0 THEN 0 ELSE PairMod - n
  BY PairNegated
<1>3. AbsPair(p) = IF IsNeg(p.h) THEN NegPair(p) ELSE p
  BY DEF AbsPair
<1> HIDE DEF v
<1>4. PairValue(AbsPair(p)) = IF IsNeg(p.h) THEN PairMod - n ELSE n
  <2>1. CASE IsNeg(p.h)
    <3>1. PairValue(AbsPair(p)) = IF n = 0 THEN 0 ELSE PairMod - n
      BY <2>1, <1>2, <1>3
    <3>2. n # 0
      <4> HIDE DEF n
      <4> QED BY <1>1, <2>1
    <3> QED BY <2>1, <3>1, <3>2
  <2>2. CASE ~IsNeg(p.h)
    BY <2>2, <1>3
  <2> QED BY <2>1, <2>2
<1>5. AbsPair(p) \in PairState
  BY <1>2, <1>3
<1> DEFINE m == PairValue(AbsPair(p))
<1>6. m = IF IsNeg(p.h) THEN PairMod - n ELSE n
  BY <1>4
<1> HIDE DEF n, m
<1>7. v \in Int /\ m = Mag(v) /\ Mag(v) \in 0 .. PairHalf /\ (IsNeg(p.h) <=> v < 0)
  BY <1>1, <1>6 DEF Mag
<1> QED BY <1>5, <1>7 DEF m, v

\* The number being spelled.
Number == IF Now.op = "DEC" THEN Val(Now.a) ELSE Val2(Now.h, Now.l)

(* Either number is small enough for the buffer.                           *)
LEMMA NumberFits ==
  ASSUME Underway, Now.op \in {"DEC", "DEC36"}
  PROVE  Number \in Int /\ Mag(Number) \in 0 .. PairHalf
<1>1. CASE Now.op = "DEC"
  <2>1. Val(Now.a) \in Int /\ Mag(Val(Now.a)) \in 0 .. Half
    BY <1>1, CallUnderway, Magnitude
  <2>2. Half <= PairHalf /\ Half \in Nat /\ PairHalf \in Nat
    <3>1. \A h, w \in Nat : w > 0 => h <= h * w /\ h * w \in Nat
      OBVIOUS
    <3> QED BY <3>1, TwoToSplits DEF PairHalf
  <2>3. Mag(Val(Now.a)) \in 0 .. PairHalf
    BY <2>1, <2>2
  <2> QED BY <1>1, <2>1, <2>3 DEF Number
<1>2. CASE Now.op = "DEC36"
  <2> DEFINE p == Pair(Now.h, Now.l)
  <2>1. p \in PairState /\ p.h = Now.h /\ p.l = Now.l
    BY <1>2, CallUnderway DEF Pair
  <2>2. Val2(p.h, p.l) \in Int /\ Mag(Val2(p.h, p.l)) \in 0 .. PairHalf
    <3> HIDE DEF p
    <3> QED BY <2>1, PairSignOff
  <2> QED BY <1>2, <2>1, <2>2 DEF Number
<1> QED BY <1>1, <1>2

\* What the loops have written, and of what.
Spelling36 == Now.op = "DEC36"
Spelling18 == Now.op = "DEC" /\ Now.a # Half
SpellInv ==
  /\ IsBuffer(dbuf)
  /\ at \in {"DEC", "DEC36", "SIGN"} => negf = (Number < 0)
  /\ at = "DEC" => Spelling18 /\ dval \in 0 .. Half - 1 /\ Written(Mag(Number), dval, dbuf, ix)
  /\ at = "DEC36" => /\ Spelling36 /\ mdh \in Word /\ mdl \in Word
                     /\ Written(Mag(Number), mdh * WordMod + mdl, dbuf, ix)
  /\ at = "SIGN" => (Spelling18 \/ Spelling36) /\ WrittenOut(Mag(Number), dbuf, ix)
  /\ Spells

(* Nothing is written when a call begins.                                  *)
LEMMA NothingWritten ==
  ASSUME NEW v \in Nat, NEW b, IsBuffer(b)
  PROVE  Written(v, v, b, DBEND)
<1> USE ArithAssumption, BufferAssumption
<1>1. 0 \in 0 .. DBEND - 1 /\ DBEND = DBEND - 0 /\ Digits(v, b, 0)
  BY DEF Digits
<1>2. v = v \div TenTo[0]
  BY TenToFacts
<1>3. Written(v, v, b, DBEND)
  <2>1. 0 \in 0 .. DBEND - 1 /\ ~(0 > 0)
    OBVIOUS
  <2> DEFINE N == 0
  <2>2. N \in 0 .. DBEND - 1 /\ ~(N > 0) /\ DBEND = DBEND - N /\ Digits(v, b, N) /\ v = v \div TenTo[N]
    BY <2>1, <1>1, <1>2
  <2> HIDE DEF N
  <2> QED BY <2>2 DEF Written
<1> QED BY <1>3

(* Before the first call the buffer is empty.                              *)
LEMMA SpellInitInv == ArithInit => SpellInv
<1> SUFFICES ASSUME ArithInit PROVE SpellInv
  OBVIOUS
<1>1. at = "CALL" /\ dbuf = [k \in 0 .. DBEND - 1 |-> Empty]
  BY DEF ArithInit
<1>2. IsBuffer(dbuf)
  BY <1>1 DEF IsBuffer
<1> QED BY <1>1, <1>2 DEF SpellInv, Spells, Returned

(* The step of a loop that writes a digit, whatever holds the number.      *)
LEMMA SpellStepInv == ArithInv /\ SpellInv /\ [ArithNext]_arithVars => SpellInv'
<1> SUFFICES ASSUME ArithInv, SpellInv, [ArithNext]_arithVars PROVE SpellInv'
  OBVIOUS
<1>0. /\ at \in {"CALL", "DONE", "SQL", "DEC", "SIGN", "DEC36"} /\ todo \in Seq(Call)
      /\ at # "CALL" => Underway
      /\ at \in {"DEC", "SIGN"} => Now.op \in {"DEC", "DEC36"}
      /\ at = "DEC36" => Now.op = "DEC36"
      /\ at = "SQL" => Now.op = "ISQRT"
  BY DEF ArithInv, Guessing, Underway
<1> USE TwoToSplits
<1>a. ASSUME todo' = todo PROVE Now' = Now /\ Number' = Number /\ Spelling18' = Spelling18 /\ Spelling36' = Spelling36
  BY <1>a DEF Now, Number, Spelling18, Spelling36
\* A call that spells nothing.
<1>b. ASSUME todo' = todo, dbuf' = dbuf, at' \in {"DONE", "SQL"}, Now.op \notin {"DEC", "DEC36"} PROVE SpellInv'
  <2>1. IsBuffer(dbuf')
    BY <1>b DEF SpellInv
  <2>2. Spells'
    BY <1>b DEF Spells, Returned, Now
  <2> QED BY <1>b, <2>1, <2>2 DEF SpellInv
<1>1. CASE CallMUL \/ CallMULS36 \/ CallDIV \/ CallDIVS36
  <2>1. todo' = todo /\ dbuf' = dbuf /\ at' = "DONE" /\ Now.op \notin {"DEC", "DEC36"}
    BY <1>1 DEF CallMUL, CallMULS36, CallDIV, CallDIVS36, Calls, digits
  <2> QED BY <2>1, <1>b
<1>2. CASE CallISQRT \/ SQL
  <2>1. todo' = todo /\ dbuf' = dbuf /\ at' \in {"DONE", "SQL"} /\ Now.op \notin {"DEC", "DEC36"}
    BY <1>0, <1>2 DEF CallISQRT, SQL, Calls, digits
  <2> QED BY <2>1, <1>b
<1>3. CASE CallDEC
  <2>1. /\ todo' = todo /\ at = "CALL" /\ Underway /\ Spelling18 /\ at' = "DEC" /\ ix' = DBEND /\ dbuf' = dbuf
        /\ negf' = IsNeg(Now.a) /\ dval' = Abs(Now.a)
    BY <1>3, <1>0 DEF CallDEC, Calls, Underway, Spelling18
  <2>2. Now.a \in Word /\ Now.a # Half /\ Number = Val(Now.a)
    BY <2>1, CallUnderway DEF Spelling18, Number
  <2>3. /\ dval' = Mag(Number) /\ dval' \in 0 .. Half - 1
        /\ IsNeg(Now.a) \in BOOLEAN
        /\ IsNeg(Now.a) <=> Number < 0
    <3>1. /\ Abs(Now.a) = Mag(Val(Now.a)) /\ Abs(Now.a) \in 0 .. Half
          /\ IsNeg(Now.a) <=> Val(Now.a) < 0
      BY <2>2, Magnitude
    <3>2. Abs(Now.a) # Half
      <4>1. CASE IsNeg(Now.a)
        BY <4>1, <2>2, Negated DEF Abs, IsNeg, Word
      <4>2. CASE ~IsNeg(Now.a)
        BY <4>2, <2>2 DEF Abs, IsNeg
      <4> QED BY <4>1, <4>2
    <3>3. IsNeg(Now.a) \in BOOLEAN
      BY DEF IsNeg
    <3> QED BY <3>1, <3>2, <3>3, <2>1, <2>2
  <2>4. Written(Mag(Number), dval', dbuf', ix')
    BY <2>1, <2>3, NothingWritten DEF SpellInv
  <2>5. Spells'
    BY <2>1 DEF Spells, Returned
  <2>6. negf' = (Number < 0)
    BY <2>1, <2>3
  <2>7. IsBuffer(dbuf')
    BY <2>1 DEF SpellInv
  <2> QED BY <2>1, <2>3, <2>4, <2>5, <2>6, <2>7, <1>a DEF SpellInv
<1>4. CASE CallDEC36
  <2> DEFINE p == Pair(Now.h, Now.l)
             q == AbsPair(p)
  <2>1. /\ todo' = todo /\ at = "CALL" /\ Underway /\ Now.op = "DEC36" /\ at' = "DEC36" /\ ix' = DBEND /\ dbuf' = dbuf
        /\ negf' = IsNeg(Now.h) /\ mdh' = q.h /\ mdl' = q.l
    BY <1>4, <1>0 DEF CallDEC36, Calls, Underway, digits
  <2>2. p \in PairState /\ p.h = Now.h /\ p.l = Now.l /\ Number = Val2(Now.h, Now.l)
    BY <2>1, CallUnderway DEF Pair, Number
  <2> HIDE DEF p
  <2>3. /\ q \in PairState /\ PairValue(q) = Mag(Number)
        /\ Mag(Number) \in Nat
        /\ IsNeg(Now.h) <=> Number < 0
    <3>1. /\ q \in PairState /\ PairValue(q) = Mag(Val2(p.h, p.l)) /\ Mag(Val2(p.h, p.l)) \in 0 .. PairHalf
          /\ IsNeg(p.h) <=> Val2(p.h, p.l) < 0
      BY <2>2, PairSignOff
    <3> QED BY <3>1, <2>2
  <2>4. negf' = (Number < 0)
    <3>1. IsNeg(Now.h) \in BOOLEAN
      BY DEF IsNeg
    <3> QED BY <3>1, <2>1, <2>3
  <2> HIDE DEF q
  <2>5. mdh' \in Word /\ mdl' \in Word /\ mdh' * WordMod + mdl' = Mag(Number)
    BY <2>1, <2>3 DEF PairState, PairValue
  <2>6. Written(Mag(Number), mdh' * WordMod + mdl', dbuf', ix')
    <3>1. Written(Mag(Number), Mag(Number), dbuf', ix')
      BY <2>1, <2>3, NothingWritten DEF SpellInv
    <3> QED BY <3>1, <2>5
  <2>7. Spells' /\ IsBuffer(dbuf')
    BY <2>1 DEF Spells, Returned, SpellInv
  <2> QED BY <2>1, <2>4, <2>5, <2>6, <2>7, <1>a DEF SpellInv, Spelling36
<1>5. CASE DECLoop
  <2>1. /\ at = "DEC" /\ todo' = todo /\ negf' = negf /\ Underway /\ Spelling18
        /\ dval \in 0 .. Half - 1 /\ Written(Mag(Number), dval, dbuf, ix)
        /\ negf = (Number < 0) /\ IsBuffer(dbuf)
    BY <1>5, <1>0 DEF DECLoop, SpellInv
  <2>2. Number \in Int /\ Mag(Number) \in 0 .. PairHalf
    BY <2>1, NumberFits DEF Spelling18
  <2>3. CASE dval # 0
    <3>1. /\ at' = "DEC" /\ dval' = DIV(dval, 10).q /\ ix' = ix - 1
          /\ dbuf' = [dbuf EXCEPT ![ix - 1] = DIV(dval, 10).r]
      BY <1>5, <2>1, <2>3 DEF DECLoop, Before
    <3>2. dval' = dval \div 10 /\ dval' \in 0 .. Half - 1 /\ dbuf' = [dbuf EXCEPT ![ix - 1] = dval % 10]
      BY <2>1, <3>1, TenOff
    <3>3. Written(Mag(Number), dval \div 10, [dbuf EXCEPT ![ix - 1] = dval % 10], ix - 1)
      BY <2>1, <2>2, <2>3, DigitGoesIn
    <3>4. Written(Mag(Number), dval', dbuf', ix')
      BY <3>1, <3>2, <3>3
    <3>5. Spells'
      BY <3>1 DEF Spells, Returned
    <3>6. IsBuffer(dbuf')
      BY <3>4 DEF Written
    <3> QED BY <2>1, <3>1, <3>2, <3>4, <3>5, <3>6, <1>a DEF SpellInv
  <2>4. CASE dval = 0
    <3>1. /\ at' = "SIGN"
          /\ IF ix = DBEND THEN ix' = ix - 1 /\ dbuf' = [dbuf EXCEPT ![ix - 1] = 0] ELSE ix' = ix /\ dbuf' = dbuf
      BY <1>5, <2>1, <2>4 DEF DECLoop, Before, WroteNone
    <3>2. WrittenOut(Mag(Number), dbuf', ix')
      BY <2>1, <2>2, <2>4, <3>1, NoDigitLeft
    <3>3. Spells'
      BY <3>1 DEF Spells, Returned
    <3>4. IsBuffer(dbuf')
      BY <3>2 DEF WrittenOut
    <3> QED BY <2>1, <3>1, <3>2, <3>3, <3>4, <1>a DEF SpellInv
  <2> QED BY <2>3, <2>4
<1>6. CASE DEC36Loop
  <2> DEFINE n == mdh * WordMod + mdl
             p == Pair(mdh, mdl)
             d == DIV36(p, 10)
  <2>1. /\ at = "DEC36" /\ todo' = todo /\ negf' = negf /\ Underway /\ Spelling36
        /\ mdh \in Word /\ mdl \in Word /\ Written(Mag(Number), n, dbuf, ix)
        /\ negf = (Number < 0) /\ IsBuffer(dbuf)
    BY <1>6, <1>0 DEF DEC36Loop, SpellInv
  <2>2. Number \in Int /\ Mag(Number) \in 0 .. PairHalf
    BY <2>1, NumberFits DEF Spelling36
  <2>3. p \in PairState /\ PairValue(p) = n /\ (n = 0 <=> mdh = 0 /\ mdl = 0)
    <3>1. p \in PairState /\ p.h = mdh /\ p.l = mdl
      BY <2>1 DEF Pair, PairState
    <3>2. PairValue(p) = n
      BY <3>1 DEF PairValue
    <3>3. \A x, y \in Nat, w \in Nat \ {0} : x * w + y = 0 <=> x = 0 /\ y = 0
      <4> SUFFICES ASSUME NEW x \in Nat, NEW y \in Nat, NEW w \in Nat \ {0} PROVE x * w + y = 0 <=> x = 0 /\ y = 0
        OBVIOUS
      <4>1. x * w \in Nat /\ (x * w = 0 <=> x = 0)
        OBVIOUS
      <4> DEFINE z == x * w
      <4> HIDE DEF z
      <4>2. z \in Nat /\ (z = 0 <=> x = 0)
        BY <4>1 DEF z
      <4>3. z + y = 0 <=> x = 0 /\ y = 0
        BY <4>2
      <4> QED BY <4>3 DEF z
    <3>4. mdh \in Nat /\ mdl \in Nat /\ WordMod \in Nat \ {0}
      BY <2>1 DEF Word
    <3> QED BY <3>1, <3>2, <3>3, <3>4
  <2> HIDE DEF n, p
  <2>4. CASE n # 0
    <3>1. /\ at' = "DEC36" /\ mdh' = d.q.h /\ mdl' = d.q.l /\ ix' = ix - 1
          /\ dbuf' = [dbuf EXCEPT ![ix - 1] = d.r]
      BY <1>6, <2>1, <2>3, <2>4 DEF DEC36Loop, Before, p
    <3>2. d.q \in PairState /\ PairValue(d.q) = n \div 10 /\ d.r = n % 10
      <4>1. 10 \in 1 .. Half
        OBVIOUS
      <4> QED BY <4>1, <2>3, Div36Divides
    <3> HIDE DEF d
    <3>3. /\ mdh' \in Word /\ mdl' \in Word /\ mdh' * WordMod + mdl' = n \div 10
          /\ dbuf' = [dbuf EXCEPT ![ix - 1] = n % 10]
      BY <3>1, <3>2 DEF PairState, PairValue
    <3>4. Written(Mag(Number), n \div 10, [dbuf EXCEPT ![ix - 1] = n % 10], ix - 1)
      BY <2>1, <2>2, <2>4, DigitGoesIn
    <3>5. Written(Mag(Number), mdh' * WordMod + mdl', dbuf', ix')
      BY <3>1, <3>3, <3>4
    <3>6. Spells'
      BY <3>1 DEF Spells, Returned
    <3>7. IsBuffer(dbuf')
      BY <3>5 DEF Written
    <3> QED BY <2>1, <3>1, <3>3, <3>5, <3>6, <3>7, <1>a DEF SpellInv
  <2>5. CASE n = 0
    <3>1. /\ at' = "SIGN"
          /\ IF ix = DBEND THEN ix' = ix - 1 /\ dbuf' = [dbuf EXCEPT ![ix - 1] = 0] ELSE ix' = ix /\ dbuf' = dbuf
      BY <1>6, <2>1, <2>3, <2>5 DEF DEC36Loop, Before, WroteNone
    <3>2. WrittenOut(Mag(Number), dbuf', ix')
      BY <2>1, <2>2, <2>5, <3>1, NoDigitLeft
    <3>3. Spells'
      BY <3>1 DEF Spells, Returned
    <3>4. IsBuffer(dbuf')
      BY <3>2 DEF WrittenOut
    <3> QED BY <2>1, <3>1, <3>2, <3>3, <3>4, <1>a DEF SpellInv
  <2> QED BY <2>4, <2>5
<1>7. CASE MostNegative
  <2>1. at' = "DONE" /\ todo' = todo /\ Now.op = "DEC" /\ Now.a = Half
    BY <1>7 DEF MostNegative, Calls
  <2>2. \E text : dbuf' = [k \in DOMAIN dbuf |-> IF k \in DOMAIN text THEN text[k] ELSE dbuf[k]]
    BY <1>7 DEF MostNegative
  <2>3. DOMAIN dbuf = 0 .. DBEND - 1
    BY DEF SpellInv, IsBuffer
  <2>4. IsBuffer(dbuf')
    BY <2>2, <2>3 DEF IsBuffer
  <2>5. Spells'
    BY <2>1 DEF Spells, Returned, Now
  <2> QED BY <2>1, <2>4, <2>5 DEF SpellInv
<1>8. CASE DECSign
  <2>1. /\ at = "SIGN" /\ at' = "DONE" /\ todo' = todo /\ dpos' = ix' /\ negf = (Number < 0)
        /\ Underway /\ Now.op \in {"DEC", "DEC36"} /\ (Spelling18 \/ Spelling36)
        /\ WrittenOut(Mag(Number), dbuf, ix) /\ IsBuffer(dbuf)
        /\ IF negf THEN ix' = ix - 1 /\ dbuf' = [dbuf EXCEPT ![ix - 1] = Minus] ELSE ix' = ix /\ dbuf' = dbuf
    BY <1>8, <1>0 DEF DECSign, SpellInv, Before
  <2>2. Number \in Int /\ Mag(Number) \in 0 .. PairHalf
    BY <2>1, NumberFits
  <2>3. FromOn(dbuf', dpos') = Spelling(Number) /\ IsBuffer(dbuf')
    <3>1. CASE Number < 0
      <4>1. FromOn([dbuf EXCEPT ![ix - 1] = Minus], ix - 1) = Spelling(Number)
        BY <2>1, <2>2, <3>1, SignGoesIn
      <4>2. dbuf' = [dbuf EXCEPT ![ix - 1] = Minus] /\ dpos' = ix - 1
        BY <2>1, <3>1
      <4>3. IsBuffer(dbuf')
        BY <2>1, <4>2 DEF IsBuffer
      <4> QED BY <4>1, <4>2, <4>3
    <3>2. CASE ~(Number < 0)
      <4>1. FromOn(dbuf, ix) = Spelling(Number)
        <5>1. Number >= 0
          BY <2>2, <3>2
        <5> QED BY <2>1, <2>2, <5>1, SignGoesIn
      <4>2. dbuf' = dbuf /\ dpos' = ix
        BY <2>1, <3>2
      <4> QED BY <2>1, <4>1, <4>2
    <3> QED BY <3>1, <3>2
  <2>4. InBuffer' = Spelling(Number)
    BY <2>3 DEF InBuffer, FromOn
  <2>5. Spells'
    BY <2>1, <2>4, <1>a DEF Spells, Returned, Number
  <2> QED BY <2>1, <2>3, <2>5 DEF SpellInv
<1>9. CASE RET
  <2>1. at' = "CALL" /\ dbuf' = dbuf
    BY <1>9 DEF RET, digits
  <2>2. IsBuffer(dbuf') /\ Spells'
    BY <2>1 DEF SpellInv, Spells, Returned
  <2> QED BY <2>1, <2>2 DEF SpellInv
<1>10. CASE UNCHANGED arithVars
  <2>1. /\ todo' = todo /\ at' = at /\ mdh' = mdh /\ mdl' = mdl /\ dval' = dval /\ negf' = negf /\ ix' = ix
        /\ dbuf' = dbuf /\ dpos' = dpos
    BY <1>10 DEF arithVars, results, root, digits
  <2>2. Spells'
    BY <2>1 DEF SpellInv, Spells, Returned, InBuffer, Now
  <2> QED BY <2>1, <2>2, <1>a DEF SpellInv
<1> QED BY <1>1, <1>2, <1>3, <1>4, <1>5, <1>6, <1>7, <1>8, <1>9, <1>10 DEF ArithNext

(* DEC and DEC36 leave the number spelled, and nothing of what was there.  *)
THEOREM SpellingsRight == ArithSpec => []Spells
<1>1. SpellInv => Spells
  BY DEF SpellInv
<1> QED BY <1>1, ArithInitInv, ArithStepInv, SpellInitInv, SpellStepInv, PTL DEF ArithSpec
=============================================================================
