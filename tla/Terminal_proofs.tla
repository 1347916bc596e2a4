-------------------------- MODULE Terminal_proofs --------------------------
(***************************************************************************)
(* For every screen, every length of a scroll and every keystroke: no      *)
(* write to the framebuffer is lost, the timer's interrupt finds the       *)
(* blitter ready, keystrokes are collected whole, and the screen is the    *)
(* tail of what a teletype would have printed.  The four share an account  *)
(* of where the mainline and the handler can be (Placed).  Each then has   *)
(* its own: the keyboard's latch (Keyed); the timer against the scroll     *)
(* (Timed, Started, Completing); what is left of a cell or a scroll at     *)
(* each write (Landing), which needs to know how long a path of            *)
(* instructions takes (OnTheWay); and how much of the last character the   *)
(* screen has (Printed), which needs that no write is lost.                *)
(***************************************************************************)
EXTENDS Terminal, TLAPS, FiniteSetTheorems

(* Induction up to a bound, over a set of numbers.                         *)
LEMMA UpTo ==
  ASSUME NEW n \in Nat, NEW S, 0 \in S, \A k \in 0 .. n - 1 : k \in S => k + 1 \in S
  PROVE  0 .. n \subseteq S
<1> DEFINE Out == {k \in 0 .. n : k \notin S}
<1> SUFFICES ASSUME Out # {} PROVE FALSE
  OBVIOUS
<1>1. Out \subseteq Nat
  OBVIOUS
<1>2. PICK x \in Out : \A y \in Out : ~(<<y, x>> \in OpToRel(<, Nat))
  BY <1>1, NatLessThanWellFounded, WFMin
<1>3. x # 0 /\ x \in 1 .. n /\ x - 1 \in 0 .. n - 1
  OBVIOUS
<1>4. x - 1 \in Out
  BY <1>3, x = (x - 1) + 1
<1>5. <<x - 1, x>> \in OpToRel(<, Nat)
  BY <1>3 DEF OpToRel
<1> QED BY <1>2, <1>4, <1>5

-----------------------------------------------------------------------------
(* What a path of instructions costs.                                      *)

Instruction == {"reg", "jmp", "skip", "mem", "cmp", "cal", "psh", "pop", "ret",
                "ind", "isz", "psh2", "pop2", "irq"}

(* Each instruction costs something of either clock, or nothing.           *)
LEMMA InstructionCosts ==
  ASSUME NEW i \in Instruction PROVE Ticks(i) \in Nat /\ Branches(i) \in Nat
<1>1. Accesses(0) \in Nat /\ Accesses(1) \in Nat /\ Accesses(2) \in Nat /\ 2 * DataCycles \in Nat
  BY DevicesAssumption DEF Accesses
<1>2. Ticks(i) \in Nat
  BY <1>1 DEF Instruction, Ticks
<1>3. Branches(i) \in Nat
  BY DEF Branches
<1> QED BY <1>2, <1>3

(* A sum over a sequence of numbers is a number: a function that sums up   *)
(* to any place exists, and Sums says it is what the definition means.     *)
Sums(g, s) == g = [k \in 0 .. Len(s) |-> IF k = 0 THEN 0 ELSE g[k - 1] + s[k]]

(* There is a function that sums the first numbers of a sequence.          *)
LEMMA SumExists ==
  ASSUME NEW s \in Seq(Nat)
  PROVE  \E g : Sums(g, s) /\ g \in [0 .. Len(s) -> Nat]
<1> DEFINE n == Len(s)
           Upto(g, m) == /\ g \in [0 .. n -> Nat] /\ g[0] = 0
                         /\ \A k \in 1 .. m : g[k] = g[k - 1] + s[k]
           Far == {m \in 0 .. n : \E g : Upto(g, m)}
<1>1. n \in Nat /\ \A k \in 1 .. n : s[k] \in Nat
  OBVIOUS
<1> HIDE DEF n
<1>2. 0 \in Far
  <2> DEFINE g == [k \in 0 .. n |-> 0]
  <2>1. Upto(g, 0)
    BY <1>1
  <2>2. 0 \in 0 .. n
    BY <1>1
  <2> HIDE DEF g, Upto
  <2> QED BY <2>1, <2>2
<1>3. ASSUME NEW m \in 0 .. n - 1, m \in Far PROVE m + 1 \in Far
  <2>1. PICK g : Upto(g, m)
    BY <1>3
  <2> DEFINE h == [g EXCEPT ![m + 1] = g[m] + s[m + 1]]
  <2>2. g[m] \in Nat /\ s[m + 1] \in Nat /\ m + 1 \in 0 .. n
    BY <2>1, <1>1
  <2>3. h \in [0 .. n -> Nat] /\ h[0] = 0 /\ h[m + 1] = g[m] + s[m + 1]
    BY <2>1, <2>2, <1>1
  <2>4. \A k \in 0 .. n : k # m + 1 => h[k] = g[k]
    BY <2>1
  <2>5. ASSUME NEW k \in 1 .. m + 1 PROVE h[k] = h[k - 1] + s[k]
    <3>1. CASE k = m + 1
      <4>1. k - 1 = m /\ m \in 0 .. n /\ m # m + 1
        BY <3>1, <1>1
      <4>2. h[m] = g[m]
        BY <4>1, <2>4
      <4> HIDE DEF h
      <4> QED BY <3>1, <4>1, <4>2, <2>3
    <3>2. CASE k # m + 1
      <4>1. k \in 1 .. m /\ k \in 0 .. n /\ k - 1 \in 0 .. n /\ k - 1 # m + 1
        BY <3>2, <1>1
      <4> QED BY <4>1, <2>1, <2>4, <3>2
    <3> QED BY <3>1, <3>2
  <2> HIDE DEF h
  <2>6. Upto(h, m + 1)
    BY <2>3, <2>5
  <2> QED BY <2>6, <2>2
<1> HIDE DEF Far
<1>4. 0 .. n \subseteq Far
  BY <1>1, <1>2, <1>3, UpTo
<1>5. n \in Far
  BY <1>1, <1>4
<1>6. PICK g : Upto(g, n)
  BY <1>5 DEF Far
<1>7. g = [k \in 0 .. n |-> IF k = 0 THEN 0 ELSE g[k - 1] + s[k]]
  BY <1>1, <1>6
<1> QED BY <1>6, <1>7 DEF Sums, n

(* The two sums a path's cost is made of are functions into the numbers.   *)
LEMMA SumsExist ==
  ASSUME NEW path \in Seq(Instruction)
  PROVE  LET n == Len(path)
             tok(g) == g = [k \in 0 .. Len(path) |-> IF k = 0 THEN 0 ELSE g[k - 1] + Ticks(path[k])]
             bok(g) == g = [k \in 0 .. Len(path) |-> IF k = 0 THEN 0 ELSE g[k - 1] + Branches(path[k])]
             tf == CHOOSE f : tok(f)
             bf == CHOOSE f : bok(f)
         IN  tok(tf) /\ bok(bf) /\ tf \in [0 .. n -> Nat] /\ bf \in [0 .. n -> Nat]
<1> DEFINE n == Len(path)
           t == [k \in 1 .. n |-> Ticks(path[k])]
           b == [k \in 1 .. n |-> Branches(path[k])]
           tok(g) == g = [k \in 0 .. Len(path) |-> IF k = 0 THEN 0 ELSE g[k - 1] + Ticks(path[k])]
           bok(g) == g = [k \in 0 .. Len(path) |-> IF k = 0 THEN 0 ELSE g[k - 1] + Branches(path[k])]
<1>1. n \in Nat /\ \A k \in 1 .. n : path[k] \in Instruction
  OBVIOUS
<1>2. t \in Seq(Nat) /\ b \in Seq(Nat) /\ Len(t) = n /\ Len(b) = n
  <2>1. t \in [1 .. n -> Nat] /\ b \in [1 .. n -> Nat]
    BY <1>1, InstructionCosts
  <2> QED BY <2>1, <1>1
<1>3. /\ \A k \in 1 .. n : t[k] = Ticks(path[k])
      /\ \A k \in 1 .. n : b[k] = Branches(path[k])
  OBVIOUS
<1> HIDE DEF t, b
<1>4. PICK g : Sums(g, t) /\ g \in [0 .. Len(t) -> Nat]
  BY <1>2, SumExists
<1>5. PICK h : Sums(h, b) /\ h \in [0 .. Len(b) -> Nat]
  BY <1>2, SumExists
<1>6. g = [k \in 0 .. n |-> IF k = 0 THEN 0 ELSE g[k - 1] + Ticks(path[k])]
  <2>1. g = [k \in 0 .. n |-> IF k = 0 THEN 0 ELSE g[k - 1] + t[k]]
    BY <1>2, <1>4 DEF Sums
  <2> HIDE DEF n
  <2> QED BY <2>1, <1>1, <1>3
<1>7. h = [k \in 0 .. n |-> IF k = 0 THEN 0 ELSE h[k - 1] + Branches(path[k])]
  <2>1. h = [k \in 0 .. n |-> IF k = 0 THEN 0 ELSE h[k - 1] + b[k]]
    BY <1>2, <1>5 DEF Sums
  <2> HIDE DEF n
  <2> QED BY <2>1, <1>1, <1>3
<1>8. tok(CHOOSE f : tok(f)) /\ bok(CHOOSE f : bok(f))
  <2>1. tok(g) /\ bok(h)
    BY <1>6, <1>7
  <2> HIDE DEF tok, bok
  <2> QED BY <2>1
<1> DEFINE tf == CHOOSE f : tok(f)
           bf == CHOOSE f : bok(f)
<1>9. tf \in [0 .. n -> Nat] /\ bf \in [0 .. n -> Nat]
  <2>1. \A f : tok(f) => f \in [0 .. n -> Nat]
    <3> SUFFICES ASSUME NEW f, tok(f) PROVE f \in [0 .. n -> Nat]
      OBVIOUS
    <3> DEFINE S == {k \in 0 .. n : f[k] \in Nat}
    <3>1. 0 \in S
      BY <1>1
    <3>2. ASSUME NEW k \in 0 .. n - 1, k \in S PROVE k + 1 \in S
      <4>1. f[k + 1] = f[k] + Ticks(path[k + 1]) /\ Ticks(path[k + 1]) \in Nat /\ k + 1 \in 0 .. n
        BY <1>1, InstructionCosts
      <4> QED BY <4>1, <3>2
    <3> HIDE DEF S, n
    <3>3. 0 .. n \subseteq S
      BY <1>1, <3>1, <3>2, UpTo
    <3>4. \A k \in 0 .. n : f[k] \in Nat
      BY <3>3 DEF S
    <3>5. f = [k \in 0 .. n |-> f[k]]
      BY DEF n
    <3> QED BY <3>4, <3>5
  <2>2. \A f : bok(f) => f \in [0 .. n -> Nat]
    <3> SUFFICES ASSUME NEW f, bok(f) PROVE f \in [0 .. n -> Nat]
      OBVIOUS
    <3> DEFINE S == {k \in 0 .. n : f[k] \in Nat}
    <3>1. 0 \in S
      BY <1>1
    <3>2. ASSUME NEW k \in 0 .. n - 1, k \in S PROVE k + 1 \in S
      <4>1. f[k + 1] = f[k] + Branches(path[k + 1]) /\ Branches(path[k + 1]) \in Nat /\ k + 1 \in 0 .. n
        BY <1>1, InstructionCosts
      <4> QED BY <4>1, <3>2
    <3> HIDE DEF S, n
    <3>3. 0 .. n \subseteq S
      BY <1>1, <3>1, <3>2, UpTo
    <3>4. \A k \in 0 .. n : f[k] \in Nat
      BY <3>3 DEF S
    <3>5. f = [k \in 0 .. n |-> f[k]]
      BY DEF n
    <3> QED BY <3>4, <3>5
  <2> HIDE DEF tok, bok, n
  <2> QED BY <1>8, <2>1, <2>2
<1> QED BY <1>8, <1>9

(* A path costs a number of cycles, and no more of them tick.              *)
LEMMA PathCosts ==
  ASSUME NEW path \in Seq(Instruction)
  PROVE  TicksOf(path) \in Nat /\ CyclesOf(path) \in Nat /\ TicksOf(path) <= CyclesOf(path)
<1> DEFINE n == Len(path)
           tok(g) == g = [k \in 0 .. Len(path) |-> IF k = 0 THEN 0 ELSE g[k - 1] + Ticks(path[k])]
           bok(g) == g = [k \in 0 .. Len(path) |-> IF k = 0 THEN 0 ELSE g[k - 1] + Branches(path[k])]
           tf == CHOOSE f : tok(f)
           bf == CHOOSE f : bok(f)
<1>1. tf[n] \in Nat /\ bf[n] \in Nat
  <2>1. tf \in [0 .. n -> Nat] /\ bf \in [0 .. n -> Nat]
    BY SumsExist
  <2> HIDE DEF tf, bf
  <2> QED BY <2>1
<1>2. TicksOf(path) = tf[n] /\ SumOver(Branches, path) = bf[n]
  BY DEF TicksOf, SumOver
<1> HIDE DEF tf, bf
<1>3. CyclesOf(path) = TicksOf(path) + BranchCycles * bf[n] /\ BranchCycles * bf[n] \in Nat
  BY <1>1, <1>2, DevicesAssumption DEF CyclesOf
<1> DEFINE m == BranchCycles * bf[n]
<1> HIDE DEF m
<1>4. CyclesOf(path) = TicksOf(path) + m /\ m \in Nat
  BY <1>3 DEF m
<1> QED BY <1>1, <1>2, <1>4

-----------------------------------------------------------------------------
(* How long a path takes at least.                                         *)

(* The costs of machine.py.  A cell draws for eight cycles there; twelve,  *)
(* the round of the shortest loop that writes (focal.s SCRLF), would do.   *)
MachineCosts == FetchCycles = 1 /\ DataCycles = 2 /\ BranchCycles = 1 /\ CharCycles <= 12

Cost(i) == Ticks(i) + Branches(i)

(* An instruction's cost is a number.                                      *)
LEMMA CostIsPositive ==
  ASSUME MachineCosts, NEW i \in Instruction PROVE Cost(i) \in Nat
BY InstructionCosts DEF Cost

(* The cycles spent on the way along a path.                               *)
OnTheWay(s, path) ==
  /\ s \in [0 .. Len(path) -> Nat] /\ s[0] = 0
  /\ \A k \in 1 .. Len(path) : s[k] = s[k - 1] + Cost(path[k])
  /\ CyclesOf(path) = s[Len(path)]

(* Every path has its account of cycles.                                   *)
LEMMA WayExists ==
  ASSUME MachineCosts, NEW path \in Seq(Instruction) PROVE \E s : OnTheWay(s, path)
<1> DEFINE n == Len(path)
           tok(g) == g = [k \in 0 .. Len(path) |-> IF k = 0 THEN 0 ELSE g[k - 1] + Ticks(path[k])]
           bok(g) == g = [k \in 0 .. Len(path) |-> IF k = 0 THEN 0 ELSE g[k - 1] + Branches(path[k])]
           tf == CHOOSE f : tok(f)
           bf == CHOOSE f : bok(f)
           s == [k \in 0 .. n |-> tf[k] + bf[k]]
<1>1. n \in Nat /\ \A k \in 1 .. n : path[k] \in Instruction
  OBVIOUS
<1>2. tok(tf) /\ bok(bf) /\ tf \in [0 .. n -> Nat] /\ bf \in [0 .. n -> Nat]
  BY SumsExist
<1>3. TicksOf(path) = tf[n] /\ SumOver(Branches, path) = bf[n]
  BY DEF TicksOf, SumOver
<1>4. /\ tf[0] = 0 /\ bf[0] = 0
      /\ \A k \in 1 .. n : tf[k] = tf[k - 1] + Ticks(path[k])
      /\ \A k \in 1 .. n : bf[k] = bf[k - 1] + Branches(path[k])
  <2> HIDE DEF tf, bf
  <2>1. \A f : tok(f) => f[0] = 0 /\ \A k \in 1 .. n : f[k] = f[k - 1] + Ticks(path[k])
    BY <1>1
  <2>2. \A f : bok(f) => f[0] = 0 /\ \A k \in 1 .. n : f[k] = f[k - 1] + Branches(path[k])
    BY <1>1
  <2> HIDE DEF tok, bok, n
  <2> QED BY <1>2, <2>1, <2>2
<1> HIDE DEF tf, bf, tok, bok
<1>5. CyclesOf(path) = tf[n] + bf[n]
  <2>1. BranchCycles = 1 /\ bf[n] \in Nat
    BY <1>1, <1>2 DEF MachineCosts
  <2>2. CyclesOf(path) = tf[n] + BranchCycles * bf[n]
    BY <1>3 DEF CyclesOf
  <2> QED BY <2>1, <2>2
<1>6. s \in [0 .. n -> Nat] /\ s[0] = 0 /\ s[n] = tf[n] + bf[n]
  BY <1>1, <1>2, <1>4
<1>7. \A k \in 1 .. n : s[k] = s[k - 1] + Cost(path[k])
  <2> SUFFICES ASSUME NEW k \in 1 .. n PROVE s[k] = s[k - 1] + Cost(path[k])
    OBVIOUS
  <2>1. k \in 0 .. n /\ k - 1 \in 0 .. n
    BY <1>1
  <2>2. Ticks(path[k]) \in Nat /\ Branches(path[k]) \in Nat
    BY <1>1, InstructionCosts
  <2>3. s[k] = tf[k] + bf[k] /\ s[k - 1] = tf[k - 1] + bf[k - 1]
    BY <2>1
  <2>4. tf[k - 1] \in Nat /\ bf[k - 1] \in Nat
    BY <2>1, <1>2
  <2> QED BY <1>4, <2>2, <2>3, <2>4 DEF Cost
<1> HIDE DEF s
<1>8. OnTheWay(s, path)
  BY <1>5, <1>6, <1>7 DEF OnTheWay
<1> QED BY <1>8

(* Any three instructions of a path are part of its time.                  *)
LEMMA ThreeAtLeast ==
  ASSUME MachineCosts, NEW path \in Seq(Instruction),
         NEW i \in 1 .. Len(path), NEW j \in 1 .. Len(path), NEW k \in 1 .. Len(path), i < j, j < k
  PROVE  CyclesOf(path) >= Cost(path[i]) + Cost(path[j]) + Cost(path[k])
<1> DEFINE n == Len(path)
<1>1. PICK s : OnTheWay(s, path)
  BY WayExists
<1>2. n \in Nat /\ \A m \in 1 .. n : path[m] \in Instruction /\ Cost(path[m]) \in Nat
  BY CostIsPositive
<1>3. ASSUME NEW a \in 0 .. n, NEW b \in 0 .. n, a <= b PROVE s[a] <= s[b]
  <2> DEFINE S == {m \in 0 .. n : m >= a => s[a] <= s[m]}
  <2>1. 0 \in S
    BY <1>1, <1>2, <1>3 DEF OnTheWay
  <2>2. ASSUME NEW m \in 0 .. n - 1, m \in S PROVE m + 1 \in S
    <3>1. m + 1 \in 1 .. n /\ m + 1 \in 0 .. n /\ m \in 0 .. n /\ (m + 1) - 1 = m
      BY <1>2
    <3>2. s[m + 1] = s[m] + Cost(path[m + 1]) /\ Cost(path[m + 1]) \in Nat
      BY <1>1, <1>2, <3>1 DEF OnTheWay
    <3>3. s[m] \in Nat /\ s[m + 1] \in Nat /\ s[a] \in Nat
      BY <1>1, <3>1 DEF OnTheWay
    <3>4. m + 1 >= a => s[a] <= s[m + 1]
      <4>1. CASE m >= a
        BY <4>1, <2>2, <3>2, <3>3
      <4>2. CASE ~(m >= a)
        <5>1. m + 1 >= a => m + 1 = a
          BY <4>2, <3>1, <1>2
        <5> QED BY <5>1, <3>3
      <4> QED BY <4>1, <4>2
    <3> QED BY <3>1, <3>4
  <2> HIDE DEF S, n
  <2>3. 0 .. n \subseteq S
    BY <1>2, <2>1, <2>2, UpTo
  <2> QED BY <2>3, <1>2, <1>3 DEF S
<1>4. /\ s[i] = s[i - 1] + Cost(path[i]) /\ s[j] = s[j - 1] + Cost(path[j])
      /\ s[k] = s[k - 1] + Cost(path[k]) /\ CyclesOf(path) = s[n]
  BY <1>1 DEF OnTheWay
<1>5. /\ s[i] <= s[j - 1] /\ s[j] <= s[k - 1] /\ s[k] <= s[n]
  BY <1>2, <1>3
<1>6. /\ s[i - 1] \in Nat /\ s[i] \in Nat /\ s[j - 1] \in Nat /\ s[j] \in Nat
      /\ s[k - 1] \in Nat /\ s[k] \in Nat /\ s[n] \in Nat
  <2>1. /\ i - 1 \in 0 .. n /\ i \in 0 .. n /\ j - 1 \in 0 .. n /\ j \in 0 .. n
        /\ k - 1 \in 0 .. n /\ k \in 0 .. n /\ n \in 0 .. n
    BY <1>2
  <2>2. s \in [0 .. n -> Nat]
    BY <1>1 DEF OnTheWay
  <2> HIDE DEF n
  <2> QED BY <2>1, <2>2
<1>7. Cost(path[i]) \in Nat /\ Cost(path[j]) \in Nat /\ Cost(path[k]) \in Nat
  BY <1>2
<1> DEFINE a0 == s[i - 1]
           a == s[i]
           b0 == s[j - 1]
           b == s[j]
           c0 == s[k - 1]
           c == s[k]
           e == s[n]
           x == Cost(path[i])
           y == Cost(path[j])
           z == Cost(path[k])
<1>8. a = a0 + x /\ b = b0 + y /\ c = c0 + z /\ a <= b0 /\ b <= c0 /\ c <= e
  BY <1>4, <1>5
<1>9. /\ a0 \in Nat /\ a \in Nat /\ b0 \in Nat /\ b \in Nat /\ c0 \in Nat /\ c \in Nat
      /\ e \in Nat /\ x \in Nat /\ y \in Nat /\ z \in Nat
  BY <1>6, <1>7
<1>10. CyclesOf(path) = e
  BY <1>4
<1> HIDE DEF a0, a, b0, b, c0, c, e
<1>11. e >= x + y + z
  <2> HIDE DEF x, y, z
  <2> QED BY <1>8, <1>9
<1> QED BY <1>10, <1>11

(* A path of one instruction costs what the instruction does.              *)
LEMMA OneIs ==
  ASSUME MachineCosts, NEW i \in Instruction PROVE CyclesOf(<<i>>) = Cost(i)
<1>1. <<i>> \in Seq(Instruction) /\ Len(<<i>>) = 1 /\ <<i>>[1] = i
  OBVIOUS
<1>2. PICK s : OnTheWay(s, <<i>>)
  BY <1>1, WayExists
<1>3. s[1] = s[0] + Cost(i) /\ s[0] = 0 /\ CyclesOf(<<i>>) = s[1]
  BY <1>1, <1>2 DEF OnTheWay
<1> QED BY <1>3, CostIsPositive

(* What the instructions cost that the paths below are measured by.        *)
LEMMA Costs ==
  ASSUME MachineCosts
  PROVE  /\ Cost("reg") = 1 /\ Cost("jmp") = 2 /\ Cost("skip") = 2 /\ Cost("mem") = 3
         /\ Cost("cmp") = 4 /\ Cost("cal") = 4 /\ Cost("psh") = 3 /\ Cost("ind") = 5
         /\ Cost("ret") = 5
BY DEF Cost, Ticks, Branches, Accesses, MachineCosts

-----------------------------------------------------------------------------
(* Where the mainline and the handler can be.                              *)

PrintsAt == {"BUSY", "WAITRDY", "PCDIR", "PCRET", "NLNOW", "TLOAD", "TARM", "SETBUSY"}
KeyIsr   == {"KMOD", "KACK"}

MainOf(p) ==
  CASE p = "focal"   -> {"IDLE", "STORE", "NEXT", "PNL1", "PNLN", "SCRL", "SCRLW", "SCRLF", "SCRLN"}
    [] p = "driver"  -> {"IDLE"} \cup PrintsAt
    [] p = "sleeper" -> {"IDLE", "ARM", "WAIT"}
IsrOf(p) ==
  CASE p = "focal"   -> {"none"} \cup KeyIsr
    [] p = "driver"  -> {"none", "TACK", "SETUP", "BLNK", "BLNKN", "FEED", "RPDONE"} \cup PrintsAt
    [] p = "sleeper" -> {"none"}

Who == {"main", "isr"}
Placed ==
  /\ program \in {"focal", "driver", "sleeper"}
  /\ at \in [Who -> MainOf(program) \cup IsrOf(program)]
  /\ at.main \in MainOf(program) /\ at.isr \in IsrOf(program)

(* The queue of keystrokes: what the latch holds is the one fed last, and  *)
(* the handler's copies are the latch's until it is acknowledged.          *)
Keyed ==
  /\ typed \in Seq(Nat \X Nat) /\ fed \in 0 .. Len(typed)
  /\ flag \in BOOLEAN /\ scanning = ~flag
  /\ flag => fed >= 1 /\ raw = typed[fed][1] /\ mods = typed[fed][2]
  /\ collected \in Seq(Nat)
  /\ Len(collected) = IF flag THEN fed - 1 ELSE fed
  /\ at.isr \in KeyIsr => flag /\ krawv = raw
  /\ at.isr = "KACK" => kmodv = mods

(* How the driver's two views of the blitter fit: the timer never has less *)
(* to go than the scroll, and is armed only on behalf of one.              *)
Starting == {"TLOAD", "TARM", "SETBUSY"}
Timed ==
  /\ scrollLeft \in 0 .. ScrollCycles /\ tCount \in Int
  /\ tArmed \in BOOLEAN /\ tIrq \in BOOLEAN /\ busy \in BOOLEAN
  /\ tArmed => scrollLeft + tCount <= Rollover
  /\ tIrq => scrollLeft = 0 /\ ~tArmed
Started ==
  /\ \A who \in Who : at[who] \in Starting =>
       /\ ~busy /\ ~tIrq
       /\ tArmed <=> at[who] = "SETBUSY"
       /\ at[who] = "TARM" => tCount = Thiv * CountUnit
  /\ ~busy /\ (\A who \in Who : at[who] \notin Starting) => ~tArmed /\ ~tIrq
Completing ==
  /\ at.isr = "TACK" => busy /\ ~tArmed
  /\ at.isr \in {"SETUP", "BLNK", "BLNKN"} => busy /\ ~tArmed /\ ~tIrq
  /\ at.isr \in {"NLNOW", "PCDIR"} => ~busy
  /\ at.main \in {"NLNOW", "PCDIR"} \cup Starting => at.isr = "none" /\ ~busy
Paced == program = "driver" => Timed /\ Started /\ Completing

(* Every write to the framebuffer comes when nothing draws any more: no    *)
(* scroll runs, and what is left of the cell before is spent by the write  *)
(* itself.                                                                 *)
Writing == {"STORE", "PNL1", "SCRLF", "PCDIR", "BLNK"}
Landing ==
  /\ dropped = 0 /\ tooFast = 0 /\ scrollLeft \in Nat /\ drawLeft \in Nat
  /\ drawLeft <= CharCycles \/ drawLeft <= scrollLeft
  /\ \A who \in Who : at[who] \in Writing => scrollLeft = 0 /\ drawLeft <= CyclesOf(<<"ind">>)
  /\ program = "focal" /\ at.main # "SCRLW" => scrollLeft = 0
  /\ program = "driver" =>
       /\ ~busy /\ (\A who \in Who : at[who] \notin Starting) => scrollLeft = 0
       /\ at.isr \in {"TACK", "SETUP", "BLNK", "BLNKN"} => scrollLeft = 0

-----------------------------------------------------------------------------
(* Moving one of the two leaves the other where it is.                     *)

(* The mainline moves when no handler runs and nothing asks for one.       *)
LEMMA MainMoves ==
  ASSUME Placed, NEW from, NEW to \in MainOf(program), Goes("main", from, to), program' = program
  PROVE  Placed' /\ at.main = from /\ at'.main = to /\ at.isr = "none" /\ at'.isr = "none" /\ ~Requests
BY DEF Placed, Goes, Running, Who

(* A handler that moves leaves the mainline where it is.                   *)
LEMMA IsrMoves ==
  ASSUME Placed, NEW from, NEW to \in IsrOf(program), Goes("isr", from, to), from # "none",
         program' = program
  PROVE  Placed' /\ at.isr = from /\ at'.isr = to /\ at'.main = at.main
BY DEF Placed, Goes, Running, Who

(* An interrupt is taken between two instructions of the mainline.         *)
LEMMA IsrStarts ==
  ASSUME Placed, NEW to \in IsrOf(program), at.isr = "none", at' = [at EXCEPT !.isr = to],
         program' = program
  PROVE  Placed' /\ at'.isr = to /\ at'.main = at.main
BY DEF Placed, Who

(* A label tells the program it belongs to.                                *)
LEMMA Labels ==
  ASSUME Placed
  PROVE  /\ at.main \in MainOf("focal") \ {"IDLE"} => program = "focal"
         /\ at.isr \in KeyIsr => program = "focal"
         /\ at.main \in PrintsAt => program = "driver"
         /\ at.isr \in IsrOf("driver") \ {"none"} => program = "driver"
         /\ at.main \in {"ARM", "WAIT"} => program = "sleeper"
BY DEF Placed, MainOf, IsrOf, PrintsAt, KeyIsr

-----------------------------------------------------------------------------
(* What an action does to the keyboard and to the clocks, when it is none  *)
(* of those that touch their devices.                                      *)

OthersFeed ==
  /\ typed' = typed /\ collected' = collected /\ krawv' = krawv /\ kmodv' = kmodv
  /\ FeedKeyboard \/ UNCHANGED keyboard

Passes ==
  \E c, n \in Nat :
    n <= c /\ scrollLeft' = Left(scrollLeft, c) /\ CountOn(n) /\ RaiseTimer(n)

(* Instructions that touch no device pass time and feed the keyboard.      *)
LEMMA SpendPasses ==
  ASSUME NEW path \in Seq(Instruction), Spend(path) PROVE Passes /\ FeedKeyboard
BY PathCosts DEF Spend, Elapse, Tick, Passes

(* So does a write, whether it lands or not.                               *)
LEMMA WritePasses ==
  ASSUME NEW path \in Seq(Instruction), NEW place, NEW ch, Write(path, place, ch)
  PROVE  Passes /\ FeedKeyboard
BY PathCosts DEF Write, Tick, Passes

(* A path is one of instructions.                                          *)
LEMMA PathJoins ==
  ASSUME NEW p \in Seq(Instruction), NEW q \in Seq(Instruction)
  PROVE  p \o q \in Seq(Instruction)
OBVIOUS

-----------------------------------------------------------------------------
(* Keystrokes.                                                             *)

(* A character made from a code is a number.                               *)
LEMMA ReconstructedTyped ==
  ASSUME NEW code \in Nat, NEW m PROVE Reconstructed(code, m) \in Nat
<1>1. code % 32 \in Nat
  OBVIOUS
<1>2. code \in 97 .. 122 => code - 32 \in Nat
  OBVIOUS
<1> QED BY <1>1, <1>2 DEF Reconstructed

(* What is not the keyboard's handler keeps the account of keystrokes.     *)
LEMMA OthersKeepKeys ==
  ASSUME Keyed, KeysWhole, OthersFeed, at'.isr \notin KeyIsr
  PROVE  Keyed' /\ KeysWhole'
<1>1. KeysWhole'
  BY DEF KeysWhole, OthersFeed
<1>2. CASE UNCHANGED keyboard
  BY <1>1, <1>2 DEF Keyed, keyboard, OthersFeed, KeyIsr
<1>3. CASE FeedKeyboard /\ Feeds
  BY <1>1, <1>3 DEF Keyed, FeedKeyboard, Feeds, Latch, OthersFeed, KeyIsr
<1>4. CASE FeedKeyboard /\ ~Feeds
  BY <1>1, <1>4 DEF Keyed, FeedKeyboard, Latch, OthersFeed, KeyIsr
<1> QED BY <1>2, <1>3, <1>4 DEF OthersFeed

(* The handler's steps follow each other: KBDISR, KMOD, KACK.              *)
LEMMA HandlerPlaced ==
  ASSUME Placed, program' = program, KBDISR \/ KMOD \/ KACK
  PROVE  /\ Placed'
         /\ KBDISR => at'.isr = "KMOD"
         /\ KMOD => at.isr = "KMOD" /\ at'.isr = "KACK"
         /\ KACK => at.isr = "KACK" /\ at'.isr = "none"
<1>1. CASE KBDISR
  <2>1. Placed' /\ at'.isr = "KMOD" /\ at.isr = "none"
    BY <1>1, IsrStarts DEF KBDISR, IsrOf, KeyIsr
  <2> QED BY <2>1 DEF KMOD, KACK, Goes, Running, Who
<1>2. CASE KMOD
  <2>1. Placed' /\ at.isr = "KMOD" /\ at'.isr = "KACK"
    BY <1>2, IsrMoves, Labels DEF KMOD, IsrOf, KeyIsr, Goes
  <2> QED BY <2>1 DEF KBDISR, KACK, Goes
<1>3. CASE KACK
  <2>1. Placed' /\ at.isr = "KACK" /\ at'.isr = "none"
    BY <1>3, IsrMoves, Labels DEF KACK, IsrOf, KeyIsr, Goes
  <2> QED BY <2>1 DEF KBDISR, KMOD, Goes
<1> QED BY <1>1, <1>2, <1>3

(* The handler collects what the latch holds, and lets it go.              *)
LEMMA HandlerKeepsKeys ==
  ASSUME Placed, Keyed, KeysWhole, program' = program, KBDISR \/ KMOD \/ KACK
  PROVE  Placed' /\ Keyed' /\ KeysWhole'
<1>1. CASE KBDISR
  <2>1. Placed' /\ at'.isr = "KMOD"
    BY <1>1, HandlerPlaced
  <2>2. flag /\ typed' = typed /\ collected' = collected /\ krawv' = raw /\ FeedKeyboard
    BY <1>1 DEF KBDISR, Spend, Tick
  <2>3. UNCHANGED keyboard
    BY <2>2 DEF Keyed, FeedKeyboard, Latch, Feeds, keyboard
  <2> QED BY <2>1, <2>2, <2>3 DEF Keyed, KeysWhole, keyboard, KeyIsr
<1>2. CASE KMOD
  <2>1. Placed' /\ at.isr = "KMOD" /\ at'.isr = "KACK"
    BY <1>2, HandlerPlaced
  <2>2. flag /\ krawv = raw /\ typed' = typed /\ collected' = collected /\ krawv' = krawv
        /\ kmodv' = mods /\ FeedKeyboard
    BY <1>2, <2>1 DEF KMOD, Spend, Tick, Keyed, KeyIsr
  <2>3. UNCHANGED keyboard
    BY <2>2 DEF Keyed, FeedKeyboard, Latch, Feeds, keyboard
  <2> QED BY <2>1, <2>2, <2>3 DEF Keyed, KeysWhole, keyboard, KeyIsr
<1>3. CASE KACK
  <2> DEFINE c == Reconstructed(krawv, kmodv)
  <2>1. Placed' /\ at.isr = "KACK" /\ at'.isr = "none"
    BY <1>3, HandlerPlaced
  <2>2. flag /\ krawv = raw /\ kmodv = mods /\ typed' = typed /\ collected' = Append(collected, c)
        /\ flag' = FALSE /\ scanning' = TRUE /\ Latch
    BY <1>3, <2>1 DEF KACK, AckKey, Keyed, KeyIsr
  <2>3. UNCHANGED <<raw, mods, fed>>
    BY <2>2 DEF Latch, Feeds
  <2>4. fed \in 1 .. Len(typed) /\ krawv = typed[fed][1] /\ kmodv = typed[fed][2]
        /\ Len(collected) = fed - 1 /\ krawv \in Nat
    BY <2>2 DEF Keyed
  <2>5. c \in Nat
    BY <2>4, ReconstructedTyped
  <2> HIDE DEF c
  <2>6. collected' \in Seq(Nat) /\ Len(collected') = fed
    BY <2>2, <2>4, <2>5 DEF Keyed
  <2>7. Keyed'
    BY <2>1, <2>2, <2>3, <2>6 DEF Keyed, KeyIsr
  <2>8. \A k \in 1 .. fed : collected'[k] = Reconstructed(typed[k][1], typed[k][2])
    <3> SUFFICES ASSUME NEW k \in 1 .. fed
                 PROVE  collected'[k] = Reconstructed(typed[k][1], typed[k][2])
      OBVIOUS
    <3>1. CASE k = fed
      BY <3>1, <2>2, <2>4, <2>5 DEF Keyed, c
    <3>2. CASE k # fed
      <4>1. k \in 1 .. Len(collected)
        BY <3>2, <2>4
      <4>2. collected'[k] = collected[k]
        BY <4>1, <2>2, <2>5 DEF Keyed
      <4> QED BY <4>1, <4>2 DEF KeysWhole
    <3> QED BY <3>1, <3>2
  <2>9. KeysWhole'
    <3>1. collected' = [k \in 1 .. fed |-> collected'[k]]
      BY <2>6
    <3>2. collected' = [k \in 1 .. fed |-> Reconstructed(typed[k][1], typed[k][2])]
      BY <3>1, <2>8, Zenon
    <3>3. KeysWhole' <=> collected' = [k \in 1 .. Len(collected') |->
                                         Reconstructed(typed'[k][1], typed'[k][2])]
      BY DEF KeysWhole, Reconstructed, Control, Shift
    <3> QED BY <3>2, <3>3, <2>2, <2>6
  <2> QED BY <2>1, <2>7, <2>9
<1> QED BY <1>1, <1>2, <1>3

(* Every other action keeps to the labels, lets the keyboard feed, and is  *)
(* no part of the keyboard's handler.                                      *)
Elsewhere == Placed' /\ OthersFeed /\ at'.isr \notin KeyIsr

(* FOCAL's console is no part of the keyboard's handler.                   *)
LEMMA FocalElsewhere ==
  ASSUME Placed, program' = program, Focal PROVE Elsewhere
<1> USE DEF MainOf
<1> DEFINE Kept == /\ typed' = typed /\ collected' = collected /\ krawv' = krawv /\ kmodv' = kmodv
                   /\ FeedKeyboard
<1>1. ASSUME NEW from, NEW to \in MainOf("focal"), Goes("main", from, to), Kept, program = "focal"
      PROVE  Elsewhere
  BY <1>1, MainMoves DEF Elsewhere, OthersFeed, KeyIsr
<1>2. ASSUME NEW c, PUTC(c) PROVE Elsewhere
  <2>1. program = "focal" /\ Kept /\ \E to \in MainOf("focal") : Goes("main", "IDLE", to)
    BY <1>2 DEF PUTC, Spend, Tick, kbdVars
  <2> QED BY <1>1, <2>1
<1>3. ASSUME NEW from \in MainOf("focal") \ {"IDLE"}, Kept, NEW to \in MainOf("focal"),
             Goes("main", from, to)
      PROVE  Elsewhere
  BY <1>1, <1>3, Labels DEF Goes
<1> HIDE DEF Kept
<1>4. CASE STORE
  BY <1>3, <1>4 DEF STORE, Write, Tick, kbdVars, Kept
<1>5. CASE NEXT
  BY <1>3, <1>5 DEF NEXT, Spend, Tick, kbdVars, Kept
<1>6. CASE PNL1
  BY <1>3, <1>6 DEF PNL1, Write, Tick, kbdVars, Kept
<1>7. CASE PNLN
  <2>1. Kept /\ \E to \in MainOf("focal") : Goes("main", "PNLN", to)
    BY <1>7 DEF PNLN, Spend, Tick, kbdVars, Kept
  <2> QED BY <1>3, <2>1
<1>8. CASE SCRL
  BY <1>3, <1>8 DEF SCRL, Scroll, Tick, kbdVars, Kept
<1>9. CASE SCRLW
  <2>1. Kept /\ \E to \in MainOf("focal") : Goes("main", "SCRLW", to)
    BY <1>9 DEF SCRLW, Spend, Tick, kbdVars, Kept
  <2> QED BY <1>3, <2>1
<1>10. CASE SCRLF
  BY <1>3, <1>10 DEF SCRLF, Write, Tick, kbdVars, Kept
<1>11. CASE SCRLN
  <2>1. Kept /\ \E to \in MainOf("focal") : Goes("main", "SCRLN", to)
    BY <1>11 DEF SCRLN, Spend, Tick, kbdVars, Kept
  <2> QED BY <1>3, <2>1
<1> QED BY <1>2, <1>4, <1>5, <1>6, <1>7, <1>8, <1>9, <1>10, <1>11 DEF Focal

(* Printing moves whoever prints between the driver's labels.              *)
LEMMA PrintMoves ==
  ASSUME Placed, NEW who \in Who, NEW from, NEW to \in PrintsAt \cup {Return(who)},
         from # "none", program = "driver" \/ from \in PrintsAt,
         Goes(who, from, to), program' = program
  PROVE  /\ Placed' /\ at'.isr \notin KeyIsr
         /\ at[who] = from /\ at'[who] = to
         /\ \A other \in Who \ {who} : at'[other] = at[other]
         /\ who = "main" => at.isr = "none" /\ ~Requests
<1>1. program = "driver"
  BY Labels DEF Goes, Who, IsrOf, PrintsAt
<1>2. CASE who = "main"
  <2>1. to \in MainOf(program)
    BY <1>1, <1>2 DEF Return, MainOf
  <2> QED BY <1>2, <2>1, MainMoves DEF Who, KeyIsr
<1>3. CASE who = "isr"
  <2>1. to \in IsrOf(program) /\ to \notin KeyIsr
    BY <1>1, <1>3 DEF Return, IsrOf, PrintsAt, KeyIsr
  <2> QED BY <1>3, <2>1, IsrMoves DEF Who
<1> QED BY <1>2, <1>3 DEF Who

(* Printing is no part of the keyboard's handler.                          *)
LEMMA PrintElsewhere ==
  ASSUME Placed, program' = program, NEW who \in Who,
         \/ TestBusy(who) \/ WAITRDY(who) \/ PCDIR(who) \/ PCRET(who) \/ NLNOW(who)
         \/ TSTART(who) \/ TARM(who) \/ SetBusy(who)
  PROVE  Elsewhere
<1> DEFINE Kept == /\ typed' = typed /\ collected' = collected /\ krawv' = krawv /\ kmodv' = kmodv
                   /\ FeedKeyboard
<1>1. Direct(who) \in PrintsAt
  BY DEF Direct, PrintsAt
<1>2. \E from, to : from \in PrintsAt /\ to \in PrintsAt \cup {Return(who)} /\ Goes(who, from, to)
  <2>1. CASE TestBusy(who)
    BY <1>1, <2>1 DEF TestBusy, PrintsAt
  <2>2. CASE WAITRDY(who)
    BY <1>1, <2>2 DEF WAITRDY, PrintsAt
  <2>3. CASE PCDIR(who)
    BY <2>3 DEF PCDIR, PrintsAt
  <2>4. CASE PCRET(who)
    BY <2>4 DEF PCRET, PrintsAt
  <2>5. CASE NLNOW(who)
    BY <2>5 DEF NLNOW, PrintsAt
  <2>6. CASE TSTART(who)
    BY <2>6 DEF TSTART, PrintsAt
  <2>7. CASE TARM(who)
    BY <2>7 DEF TARM, PrintsAt
  <2>8. CASE SetBusy(who)
    BY <2>8 DEF SetBusy, PrintsAt
  <2> QED BY <2>1, <2>2, <2>3, <2>4, <2>5, <2>6, <2>7, <2>8
<1>3. Kept
  <2>1. CASE TestBusy(who)
    BY <2>1 DEF TestBusy, kbdVars, Spend, Tick
  <2>2. CASE WAITRDY(who)
    BY <2>2 DEF WAITRDY, kbdVars, Spend, Tick
  <2>3. CASE PCDIR(who)
    BY <2>3 DEF PCDIR, kbdVars, Write, Tick
  <2>4. CASE PCRET(who)
    BY <2>4 DEF PCRET, kbdVars, Spend, Tick
  <2>5. CASE NLNOW(who)
    BY <2>5 DEF NLNOW, kbdVars, Spend, Scroll, Tick
  <2>6. CASE TSTART(who)
    BY <2>6 DEF TSTART, kbdVars, LoadTimer
  <2>7. CASE TARM(who)
    BY <2>7 DEF TARM, kbdVars, ArmTimer
  <2>8. CASE SetBusy(who)
    BY <2>8 DEF SetBusy, kbdVars, Spend, Tick
  <2> QED BY <2>1, <2>2, <2>3, <2>4, <2>5, <2>6, <2>7, <2>8
<1>4. "none" \notin PrintsAt
  BY DEF PrintsAt
<1> QED BY <1>2, <1>3, <1>4, PrintMoves DEF Elsewhere, OthersFeed

(* Nor is the rest of the driver.                                          *)
LEMMA DriverElsewhere ==
  ASSUME Placed, program' = program, Driver PROVE Elsewhere
<1> DEFINE Kept == /\ typed' = typed /\ collected' = collected /\ krawv' = krawv /\ kmodv' = kmodv
                   /\ FeedKeyboard
<1>1. ASSUME NEW from \in IsrOf("driver") \ {"none"}, NEW to \in IsrOf("driver"), Goes("isr", from, to), Kept
      PROVE  Elsewhere
  <2>1. program = "driver"
    BY <1>1, Labels DEF Goes
  <2>2. to \notin KeyIsr
    BY DEF IsrOf, PrintsAt, KeyIsr
  <2> QED BY <1>1, <2>1, <2>2, IsrMoves DEF Elsewhere, OthersFeed
<1> HIDE DEF Kept
<1>2. ASSUME NEW c, DPut(c) PROVE Elsewhere
  <2>1. Goes("main", "IDLE", "BUSY") /\ Kept
    BY <1>2 DEF DPut, Spend, Tick, kbdVars, Kept
  <2>2. Placed' /\ at'.isr = "none"
    BY <1>2, <2>1, MainMoves DEF DPut, MainOf, PrintsAt
  <2> QED BY <2>1, <2>2 DEF Elsewhere, OthersFeed, Kept, KeyIsr
<1>3. ASSUME NEW c, FEED(c) PROVE Elsewhere
  BY <1>1, <1>3 DEF FEED, Spend, Tick, kbdVars, Kept, IsrOf, PrintsAt
<1>4. CASE DONE
  <2>1. Placed' /\ at'.isr = "TACK"
    BY <1>4, IsrStarts DEF DONE, IsrOf
  <2> QED BY <1>4, <2>1 DEF DONE, Spend, Tick, kbdVars, Elsewhere, OthersFeed, KeyIsr
<1>5. CASE TACK
  BY <1>1, <1>5 DEF TACK, AckTimer, kbdVars, Kept, IsrOf
<1>6. CASE SETUP
  BY <1>1, <1>6 DEF SETUP, Spend, Tick, kbdVars, Kept, IsrOf
<1>7. CASE BLNK
  BY <1>1, <1>7 DEF BLNK, Write, Tick, kbdVars, Kept, IsrOf
<1>8. CASE BLNKN
  <2>1. Kept /\ \E to \in IsrOf("driver") : Goes("isr", "BLNKN", to)
    BY <1>8 DEF BLNKN, Spend, Tick, kbdVars, Kept, IsrOf
  <2> QED BY <1>1, <2>1 DEF IsrOf
<1>9. CASE RPDONE
  <2>1. Kept /\ \E from \in {"FEED", "RPDONE"} : Goes("isr", from, "none")
    BY <1>9 DEF RPDONE, Spend, Tick, kbdVars, Kept
  <2> QED BY <1>1, <2>1 DEF IsrOf
<1> QED BY <1>2, <1>3, <1>4, <1>5, <1>6, <1>7, <1>8, <1>9, PrintElsewhere DEF Driver, Who

(* Nor are sleeping and computing.                                         *)
LEMMA SleepElsewhere ==
  ASSUME Placed, program' = program, Sleep \/ Compute PROVE Elsewhere
<1>1. \E from, to : to \in MainOf(program) /\ Goes("main", from, to)
  BY DEF Sleep, Compute, MainOf, Placed
<1>2. Placed' /\ at'.isr = "none"
  BY <1>1, MainMoves
<1>3. OthersFeed
  BY DEF Sleep, Compute, OthersFeed, kbdVars, LoadTimer, ArmTimer, Stall, Spend, Tick
<1> QED BY <1>2, <1>3 DEF Elsewhere, KeyIsr
-----------------------------------------------------------------------------
KeysInv == Placed /\ Keyed /\ KeysWhole

(* At the start nothing is latched and nothing collected.                  *)
LEMMA KeysStart == ASSUME TermInit PROVE KeysInv
<1>1. at = [who \in Who |-> IF who = "main" THEN "IDLE" ELSE "none"]
  BY DEF TermInit, Who
<1>2. Placed
  <2>1. program \in {"focal", "driver", "sleeper"}
    BY TerminalAssumption DEF TermInit
  <2> QED BY <1>1, <2>1 DEF Placed, Who, MainOf, IsrOf
<1>3. typed \in Seq(Nat \X Nat)
  <2>1. CASE program = "focal"
    <3>1. typed \in Keystrokes
      BY <2>1 DEF TermInit
    <3> QED BY <3>1, TerminalAssumption
  <2>2. CASE program # "focal"
    <3>1. typed = << >>
      BY <2>2 DEF TermInit
    <3> QED BY <3>1
  <2> QED BY <2>1, <2>2
<1>4. Keyed
  <2>1. at.isr \notin KeyIsr
    BY <1>1 DEF Who, KeyIsr
  <2>2. collected = << >> /\ fed = 0 /\ flag = FALSE /\ scanning = TRUE
    BY DEF TermInit, DevicesInit
  <2>3. collected \in Seq(Nat) /\ Len(collected) = 0 /\ Len(typed) \in Nat
    BY <1>3, <2>2
  <2>4. fed \in 0 .. Len(typed) /\ flag \in BOOLEAN
    <3>1. fed \in 0 .. Len(typed)
      <4>1. 0 \in 0 .. Len(typed)
        BY <2>3
      <4> QED BY <4>1, <2>2, Zenon
    <3>2. flag \in BOOLEAN
      BY <2>2, Zenon
    <3> QED BY <3>1, <3>2
  <2>5. scanning = ~flag
    BY <2>2, Zenon
  <2>6. Len(collected) = IF flag THEN fed - 1 ELSE fed
    BY <2>2, <2>3
  <2>7. ~flag /\ at.isr # "KACK"
    BY <2>1, <2>2 DEF KeyIsr
  <2> QED BY <1>3, <2>1, <2>3, <2>4, <2>5, <2>6, <2>7 DEF Keyed
<1>5. KeysWhole
  <2>1. collected = << >>
    BY DEF TermInit
  <2>2. Len(collected) = 0
    BY <2>1
  <2> QED BY <2>1, <2>2 DEF KeysWhole
<1> QED BY <1>2, <1>4, <1>5 DEF KeysInv

(* Every step keeps keystrokes whole.                                      *)
LEMMA KeysStep == ASSUME KeysInv, [TermNext]_termVars PROVE KeysInv'
<1>1. CASE UNCHANGED termVars
  BY <1>1 DEF termVars, devVars, keyboard, kbdVars, KeysInv, Placed, Keyed, KeysWhole
<1>2. CASE TermNext
  <2>1. program' = program
    BY <1>2 DEF TermNext
  <2>2. CASE KBDISR \/ KMOD \/ KACK
    BY <2>1, <2>2, HandlerKeepsKeys DEF KeysInv
  <2>3. CASE Focal \/ Driver \/ Sleep \/ Compute
    <3>1. Elsewhere
      BY <2>1, <2>3, FocalElsewhere, DriverElsewhere, SleepElsewhere DEF KeysInv
    <3> QED BY <3>1, OthersKeepKeys DEF KeysInv, Elsewhere
  <2> QED BY <1>2, <2>2, <2>3 DEF TermNext
<1> QED BY <1>1, <1>2

(* Each keystroke is collected once, in order and whole, whatever is typed *)
(* and however the three programs and the handler interleave.              *)
THEOREM KeystrokesWhole == TermSpec => []KeysWhole
<1>1. TermInit => KeysInv
  BY KeysStart
<1>2. KeysInv /\ [TermNext]_termVars => KeysInv'
  BY KeysStep
<1>3. KeysInv => KeysWhole
  BY DEF KeysInv
<1> QED BY <1>1, <1>2, <1>3, PTL DEF TermSpec

-----------------------------------------------------------------------------
(* The timer and the blitter.                                              *)

(* THIV leaves the timer exactly the cycles of a scroll.                   *)
LEMMA TimerNumbers ==
  /\ Rollover \in Nat /\ ScrollCycles \in Nat /\ Thiv \in Int /\ Thiv * CountUnit \in Int
  /\ Thiv * CountUnit + ScrollCycles = Rollover
<1> DEFINE q == ScrollCycles \div CountUnit
<1>1. q \in Nat /\ ScrollCycles = q * CountUnit
  BY DevicesAssumption, ScrollAssumption
<1>2. Thiv = Counts - q /\ Thiv \in Int
  BY <1>1, DevicesAssumption DEF Thiv
<1> HIDE DEF q
<1>3. Thiv * CountUnit = Counts * CountUnit - q * CountUnit
  BY <1>1, <1>2, DevicesAssumption
<1>4. Counts * CountUnit = CountUnit * Counts /\ Counts * CountUnit \in Nat /\ q * CountUnit \in Nat
  BY <1>1, DevicesAssumption
<1> QED BY <1>1, <1>2, <1>3, <1>4, DevicesAssumption DEF Rollover

(* What is left of a deadline: nothing, or the difference.                 *)
LEMMA LeftBounds ==
  ASSUME NEW d \in Nat, NEW n \in Nat
  PROVE  Left(d, n) \in 0 .. d /\ (d <= n => Left(d, n) = 0) /\ (d > n => Left(d, n) = d - n)
BY DEF Left

(* Time that passes takes as much from the scroll as it brings the timer   *)
(* to its end, or more.                                                    *)
LEMMA PassingTime ==
  ASSUME Timed, Passes, busy' \in BOOLEAN
  PROVE  /\ Timed'
         /\ tIrq => tIrq'
         /\ ~tArmed => ~tArmed' /\ tIrq' = tIrq /\ tCount' = tCount
<1>1. PICK c, n \in Nat : n <= c /\ scrollLeft' = Left(scrollLeft, c) /\ CountOn(n) /\ RaiseTimer(n)
  BY DEF Passes
<1>2. /\ scrollLeft' \in 0 .. ScrollCycles
      /\ scrollLeft <= c => scrollLeft' = 0
      /\ scrollLeft > c => scrollLeft' = scrollLeft - c
  <2>1. scrollLeft \in Nat /\ scrollLeft <= ScrollCycles
    BY TimerNumbers DEF Timed
  <2>2. /\ Left(scrollLeft, c) \in 0 .. scrollLeft
        /\ scrollLeft <= c => Left(scrollLeft, c) = 0
        /\ scrollLeft > c => Left(scrollLeft, c) = scrollLeft - c
    BY <2>1, LeftBounds
  <2>3. scrollLeft' = Left(scrollLeft, c)
    BY <1>1
  <2> QED BY <2>1, <2>2, <2>3, TimerNumbers
<1>3. CASE Rings(n)
  <2>1. tArmed /\ tCount + n >= Rollover /\ tCount' = 0 /\ ~tArmed' /\ tArmed' \in BOOLEAN
        /\ tIrq' /\ tIrq' \in BOOLEAN
    BY <1>1, <1>3 DEF Rings, CountOn, RaiseTimer, Timed
  <2>2. scrollLeft' = 0
    BY <1>1, <1>2, <2>1, TimerNumbers DEF Timed
  <2> QED BY <1>2, <2>1, <2>2 DEF Timed
<1>4. CASE ~Rings(n)
  <2>1. tArmed' = tArmed /\ tIrq' = tIrq
    BY <1>1, <1>4 DEF CountOn, RaiseTimer, Timed
  <2>2. CASE tArmed
    <3>1. tCount' = tCount + n /\ tCount + n < Rollover /\ ~tIrq
      BY <1>1, <1>4, <2>2, TimerNumbers DEF CountOn, Rings, Timed
    <3>2. scrollLeft' + tCount' <= Rollover
      BY <1>1, <1>2, <3>1, <2>2, TimerNumbers DEF Timed
    <3> QED BY <1>1, <1>2, <2>1, <2>2, <3>1, <3>2 DEF Timed
  <2>3. CASE ~tArmed
    <3>1. tCount' = tCount
      BY <1>1, <1>4, <2>3 DEF CountOn
    <3>2. tIrq => scrollLeft' = 0
      BY <1>1, <1>2 DEF Timed
    <3> QED BY <1>2, <2>1, <2>3, <3>1, <3>2 DEF Timed
  <2> QED BY <2>2, <2>3
<1> QED BY <1>3, <1>4

(* A step that passes time and moves one of the two between labels that    *)
(* have nothing to do with the timer.                                      *)
Plain == {"IDLE", "none", "BUSY", "WAITRDY", "PCDIR", "PCRET", "NLNOW", "FEED", "RPDONE"}

(* Such a step keeps the timer and the scroll in step.                     *)
LEMMA PlainStep ==
  ASSUME Placed, Placed', Timed, Started, Completing, Passes, busy' = busy,
         NEW who \in Who, at[who] \in Plain, at'[who] \in Plain, at'[who] \in {"NLNOW", "PCDIR"} => ~busy,
         \A other \in Who \ {who} : at'[other] = at[other],
         who = "main" => at.isr = "none", who = "isr" => at.isr # "none"
  PROVE  Timed' /\ Started' /\ Completing'
<1>1. busy \in BOOLEAN
  BY DEF Timed
<1>2. Timed' /\ (~tArmed => ~tArmed' /\ tIrq' = tIrq /\ tCount' = tCount)
  BY <1>1, PassingTime
<1>3. at.main \notin Starting /\ at.isr \notin Starting
  BY DEF Who, Starting, Plain, Completing
<1>4. at'.main \notin Starting /\ at'.isr \notin Starting
  BY <1>3 DEF Who, Starting, Plain
<1>5. Started'
  BY <1>2, <1>3, <1>4 DEF Started, Who
<1>6. Completing'
  BY <1>4 DEF Completing, Who, Plain, Starting
<1> QED BY <1>2, <1>5, <1>6

PacedInv == program = "driver" /\ Placed /\ Timed /\ Started /\ Completing

(* So printing keeps them in step, up to the newline that scrolls.         *)
LEMMA PrintPasses ==
  ASSUME PacedInv, program' = program, NEW who \in Who,
         NEW from \in Plain \ {"none"}, NEW to \in (PrintsAt \ Starting) \cup {Return(who)},
         Goes(who, from, to), to \in {"NLNOW", "PCDIR"} => ~busy, busy' = busy, Passes
  PROVE  PacedInv'
<1>1. /\ Placed' /\ at[who] = from /\ at'[who] = to
      /\ \A other \in Who \ {who} : at'[other] = at[other]
      /\ who = "main" => at.isr = "none"
  BY PrintMoves DEF PacedInv, Plain
<1>2. to \in Plain
  BY DEF Plain, PrintsAt, Starting, Return
<1>3. who = "isr" => at.isr # "none"
  BY <1>1
<1> QED BY <1>1, <1>2, <1>3, PlainStep DEF PacedInv

(* A call of PUTC is a path of instructions.                               *)
LEMMA CallIsPath == ASSUME NEW c PROVE Call(c) \in Seq(Instruction)
<1>1. /\ <<"cal", "mem", "cmp">> \in Seq(Instruction) /\ <<"jmp">> \in Seq(Instruction)
      /\ << >> \in Seq(Instruction)
  BY DEF Instruction
<1>2. CASE c = NL
  <2>1. Call(c) = <<"cal", "mem", "cmp">> \o <<"jmp">>
    BY <1>2 DEF Call
  <2> QED BY <1>1, <2>1, PathJoins
<1>3. CASE c # NL
  <2>1. Call(c) = <<"cal", "mem", "cmp">> \o << >>
    BY <1>3 DEF Call
  <2> QED BY <1>1, <2>1, PathJoins
<1> QED BY <1>2, <1>3

(* PUTC's test of BUSY: direct, queued, or waiting for room.               *)
LEMMA TestBusyPaced ==
  ASSUME PacedInv, program' = program, NEW who \in Who, TestBusy(who)
  PROVE  PacedInv'
<1>1. busy' = busy
  BY DEF TestBusy
<1>2. CASE ~busy /\ Goes(who, "BUSY", Direct(who)) /\ Spend(<<"mem", "reg", "jmp", "mem", "mem">>)
  <2>1. <<"mem", "reg", "jmp", "mem", "mem">> \in Seq(Instruction)
    BY DEF Instruction
  <2>2. Direct(who) \in PrintsAt \ Starting
    BY DEF Direct, PrintsAt, Starting
  <2> QED BY <1>1, <1>2, <2>1, <2>2, SpendPasses, PrintPasses DEF Plain
<1> DEFINE put  == <<"mem", "skip", "mem", "reg", "jmp", "mem", "mem", "mem", "isz", "reg", "isz",
                     "reg", "ret">>
           wait == <<"mem", "skip", "mem", "skip", "cal">>
<1>3. CASE Goes(who, "BUSY", Return(who)) /\ Spend(put)
  <2>1. put \in Seq(Instruction)
    BY DEF Instruction
  <2> QED BY <1>1, <1>3, <2>1, SpendPasses, PrintPasses DEF Plain, Return
<1>4. CASE Goes(who, "BUSY", "WAITRDY") /\ Spend(wait)
  <2>1. wait \in Seq(Instruction)
    BY DEF Instruction
  <2> QED BY <1>1, <1>4, <2>1, SpendPasses, PrintPasses DEF Plain, PrintsAt, Starting
<1> QED BY <1>2, <1>3, <1>4 DEF TestBusy

(* Waiting for the driver to be ready.                                     *)
LEMMA WaitPaced ==
  ASSUME PacedInv, program' = program, NEW who \in Who, WAITRDY(who)
  PROVE  PacedInv'
<1>1. busy' = busy
  BY DEF WAITRDY, driverVars
<1>2. /\ <<"mem", "skip", "jmp">> \in Seq(Instruction)
      /\ <<"mem", "reg", "ret", "mem", "mem">> \in Seq(Instruction)
  BY DEF Instruction
<1>3. Passes
  BY <1>2, SpendPasses DEF WAITRDY
<1> DEFINE to == IF busy THEN "WAITRDY" ELSE Direct(who)
<1>4. Goes(who, "WAITRDY", to)
  BY DEF WAITRDY
<1>5. to \in PrintsAt \ Starting /\ (to \in {"NLNOW", "PCDIR"} => ~busy)
  BY DEF Direct, PrintsAt, Starting
<1> HIDE DEF to
<1> QED BY <1>1, <1>3, <1>4, <1>5, PrintPasses DEF Plain

(* A character put on the screen.                                          *)
LEMMA DirectPaced ==
  ASSUME PacedInv, program' = program, NEW who \in Who, PCDIR(who) \/ PCRET(who)
  PROVE  PacedInv'
<1>1. busy' = busy
  BY DEF PCDIR, PCRET, driverVars
<1>2. CASE PCDIR(who)
  <2>1. <<"ind">> \in Seq(Instruction)
    BY DEF Instruction
  <2>2. Passes
    BY <1>2, <2>1, WritePasses DEF PCDIR
  <2> QED BY <1>1, <1>2, <2>2, PrintPasses DEF PCDIR, Plain, PrintsAt, Starting
<1>3. CASE PCRET(who)
  <2>1. <<"isz", "reg", "ret">> \in Seq(Instruction)
    BY DEF Instruction
  <2>2. Passes
    BY <1>3, <2>1, SpendPasses DEF PCRET
  <2>3. Return(who) \notin {"NLNOW", "PCDIR"}
    BY DEF Return
  <2> QED BY <1>1, <1>3, <2>2, <2>3, PrintPasses DEF PCRET, Plain
<1> QED BY <1>2, <1>3

(* The scroll begins with the timer stopped.                               *)
LEMMA NewlinePaced ==
  ASSUME PacedInv, program' = program, NEW who \in Who, NLNOW(who)
  PROVE  PacedInv'
<1>1. busy' = busy
  BY DEF NLNOW
<1>2. CASE Goes(who, "NLNOW", Return(who)) /\ Spend(<<"isz", "reg">> \o SETIDX \o <<"ret">>)
  <2>1. /\ <<"isz", "reg">> \in Seq(Instruction) /\ <<"ret">> \in Seq(Instruction)
        /\ SETIDX \in Seq(Instruction)
    BY DEF Instruction, SETIDX
  <2>2. <<"isz", "reg">> \o SETIDX \o <<"ret">> \in Seq(Instruction)
    BY <2>1, PathJoins
  <2>3. Passes
    BY <1>2, <2>2, SpendPasses
  <2>4. Return(who) \notin {"NLNOW", "PCDIR"}
    BY DEF Return
  <2> QED BY <1>1, <1>2, <2>3, <2>4, PrintPasses DEF Plain
<1>3. CASE Goes(who, "NLNOW", "TLOAD") /\ Scroll(<<"jmp", "reg">>)
  <2>1. /\ Placed' /\ at[who] = "NLNOW" /\ at'[who] = "TLOAD"
        /\ \A other \in Who \ {who} : at'[other] = at[other]
        /\ who = "main" => at.isr = "none"
    BY <1>3, PrintMoves DEF PacedInv, PrintsAt
  <2>2. ~busy /\ at.main \notin Starting /\ at.isr \notin Starting
    BY <2>1 DEF PacedInv, Completing, Who, Starting
  <2>3. ~tArmed /\ ~tIrq
    BY <2>2 DEF PacedInv, Started, Who
  <2>4. TicksOf(<<"jmp", "reg">>) \in Nat /\ CyclesOf(<<"jmp", "reg">>) \in Nat
    <3>1. <<"jmp", "reg">> \in Seq(Instruction)
      BY DEF Instruction
    <3> QED BY <3>1, PathCosts
  <2>5. ~tArmed' /\ ~tIrq' /\ tArmed' \in BOOLEAN /\ tIrq' \in BOOLEAN /\ tCount' = tCount
    BY <1>3, <2>3 DEF Scroll, Tick, CountOn, RaiseTimer, Rings, PacedInv, Timed
  <2>6. scrollLeft' \in 0 .. ScrollCycles
    <3>1. scrollLeft \in Nat /\ scrollLeft <= ScrollCycles
      BY TimerNumbers DEF PacedInv, Timed
    <3>2. Left(scrollLeft, CyclesOf(<<"jmp", "reg">>)) \in 0 .. scrollLeft
      BY <3>1, <2>4, LeftBounds
    <3>3. scrollLeft' = Left(scrollLeft, CyclesOf(<<"jmp", "reg">>)) \/ scrollLeft' = ScrollCycles
      BY <1>3 DEF Scroll, Elapse
    <3> QED BY <3>1, <3>2, <3>3, TimerNumbers
  <2>7. Timed'
    BY <1>1, <2>5, <2>6 DEF PacedInv, Timed
  <2>8. Started'
    BY <1>1, <2>1, <2>2, <2>5 DEF Started, Who, Starting
  <2>9. Completing'
    BY <1>1, <2>1, <2>2 DEF PacedInv, Completing, Who, Starting
  <2> QED BY <2>1, <2>7, <2>8, <2>9 DEF PacedInv
<1> QED BY <1>2, <1>3 DEF NLNOW

(* Loading the timer, with nothing armed.                                  *)
LEMMA StartPaced ==
  ASSUME PacedInv, program' = program, NEW who \in Who, TSTART(who)
  PROVE  PacedInv'
<1> DEFINE path == <<"cal", "mem", "reg">>
<1>1. path \in Seq(Instruction)
  BY DEF Instruction
<1>2. TicksOf(path) \in Nat /\ CyclesOf(path) \in Nat
  BY <1>1, PathCosts
<1> HIDE DEF path
<1>3. busy' = busy /\ Goes(who, "TLOAD", "TARM") /\ LoadTimer(path, Thiv)
  BY DEF TSTART, driverVars, path
<1>4. /\ Placed' /\ at[who] = "TLOAD" /\ at'[who] = "TARM"
      /\ \A other \in Who \ {who} : at'[other] = at[other]
      /\ who = "main" => at.isr = "none"
  BY <1>3, PrintMoves DEF PacedInv, PrintsAt
<1>5. ~busy /\ ~tArmed /\ ~tIrq
  BY <1>4 DEF PacedInv, Started, Starting
<1>6. ~tArmed' /\ ~tIrq' /\ tArmed' \in BOOLEAN /\ tIrq' \in BOOLEAN /\ tCount' = Thiv * CountUnit
  BY <1>3, <1>5 DEF LoadTimer, RaiseTimer, Rings, PacedInv, Timed
<1>7. scrollLeft' \in 0 .. ScrollCycles
  <2>1. scrollLeft \in Nat /\ scrollLeft <= ScrollCycles
    BY TimerNumbers DEF PacedInv, Timed
  <2>2. Left(scrollLeft, CyclesOf(path)) \in 0 .. scrollLeft
    BY <1>2, <2>1, LeftBounds
  <2>3. scrollLeft' = Left(scrollLeft, CyclesOf(path))
    BY <1>3 DEF LoadTimer, Elapse
  <2> QED BY <2>1, <2>2, <2>3, TimerNumbers
<1>8. Timed'
  BY <1>3, <1>6, <1>7, TimerNumbers DEF PacedInv, Timed
<1>9. at.main \notin Starting \ {"TLOAD"} /\ (who = "isr" => at.main \notin Starting)
  BY <1>4 DEF PacedInv, Completing, Who, Starting
<1>10. Started'
  BY <1>3, <1>4, <1>5, <1>6, <1>9 DEF Started, Who, Starting
<1>11. Completing'
  BY <1>3, <1>4, <1>5, <1>9 DEF PacedInv, Completing, Who, Starting
<1> QED BY <1>4, <1>8, <1>10, <1>11 DEF PacedInv

(* Armed, the timer has the cycles of a scroll to go, and the scroll began *)
(* before it.                                                              *)
LEMMA ArmPaced ==
  ASSUME PacedInv, program' = program, NEW who \in Who, TARM(who)
  PROVE  PacedInv'
<1> DEFINE path == <<"reg">>
<1>1. path \in Seq(Instruction)
  BY DEF Instruction
<1>2. TicksOf(path) \in Nat /\ CyclesOf(path) \in Nat
  BY <1>1, PathCosts
<1> HIDE DEF path
<1>3. busy' = busy /\ Goes(who, "TARM", "SETBUSY") /\ ArmTimer(path)
  BY DEF TARM, driverVars, path
<1>4. /\ Placed' /\ at[who] = "TARM" /\ at'[who] = "SETBUSY"
      /\ \A other \in Who \ {who} : at'[other] = at[other]
      /\ who = "main" => at.isr = "none"
  BY <1>3, PrintMoves DEF PacedInv, PrintsAt
<1>5. ~busy /\ ~tArmed /\ ~tIrq /\ tCount = Thiv * CountUnit
  BY <1>4 DEF PacedInv, Started, Starting
<1>6. tArmed' /\ ~tIrq' /\ tArmed' \in BOOLEAN /\ tIrq' \in BOOLEAN /\ tCount' = tCount
  BY <1>3, <1>5 DEF ArmTimer, RaiseTimer, Rings, PacedInv, Timed
<1>7. scrollLeft' \in 0 .. ScrollCycles
  <2>1. scrollLeft \in Nat /\ scrollLeft <= ScrollCycles
    BY TimerNumbers DEF PacedInv, Timed
  <2>2. Left(scrollLeft, CyclesOf(path)) \in 0 .. scrollLeft
    BY <1>2, <2>1, LeftBounds
  <2>3. scrollLeft' = Left(scrollLeft, CyclesOf(path))
    BY <1>3 DEF ArmTimer, Elapse
  <2> QED BY <2>1, <2>2, <2>3, TimerNumbers
<1>8. scrollLeft' + tCount' <= Rollover
  BY <1>5, <1>6, <1>7, TimerNumbers
<1>9. Timed'
  BY <1>3, <1>5, <1>6, <1>7, <1>8, TimerNumbers DEF PacedInv, Timed
<1>10. who = "isr" => at.main \notin Starting
  BY <1>4 DEF PacedInv, Completing, Who, Starting
<1>11. Started'
  BY <1>3, <1>4, <1>5, <1>6, <1>10 DEF Started, Who, Starting
<1>12. Completing'
  BY <1>3, <1>4, <1>5, <1>10 DEF PacedInv, Completing, Who, Starting
<1> QED BY <1>4, <1>9, <1>11, <1>12 DEF PacedInv

(* From BUSY on the timer may ring.                                        *)
LEMMA SetBusyPaced ==
  ASSUME PacedInv, program' = program, NEW who \in Who, SetBusy(who)
  PROVE  PacedInv'
<1> DEFINE path == <<"ret", "mem", "mem", "ret">>
<1>1. path \in Seq(Instruction)
  BY DEF Instruction
<1> HIDE DEF path
<1>2. busy' = TRUE /\ Goes(who, "SETBUSY", Return(who)) /\ Spend(path)
  BY DEF SetBusy, path
<1>3. busy' \in BOOLEAN /\ busy'
  BY <1>2
<1>4. Timed'
  BY <1>1, <1>2, <1>3, SpendPasses, PassingTime DEF PacedInv
<1>5. /\ Placed' /\ at[who] = "SETBUSY" /\ at'[who] = Return(who)
      /\ \A other \in Who \ {who} : at'[other] = at[other]
      /\ who = "main" => at.isr = "none"
  BY <1>2, PrintMoves DEF PacedInv, PrintsAt
<1>6. at'[who] \in {"IDLE", "FEED"}
  BY <1>5 DEF Return
<1>7. who = "isr" => at.main \notin Starting /\ at.main \notin {"NLNOW", "PCDIR"}
  BY <1>5 DEF PacedInv, Completing, Who, Starting
<1>8. Started'
  BY <1>3, <1>5, <1>6, <1>7 DEF Started, Who, Starting
<1>9. Completing'
  BY <1>5, <1>6, <1>7 DEF PacedInv, Completing, Who, Starting
<1> QED BY <1>4, <1>5, <1>8, <1>9 DEF PacedInv

-----------------------------------------------------------------------------
(* The completion handler.                                                 *)

(* The completion handler starts with the driver busy, the timer stopped.  *)
LEMMA DonePaced ==
  ASSUME PacedInv, program' = program, DONE PROVE PacedInv'
<1> DEFINE path == <<"irq", "psh2", "mem", "psh">>
<1>1. path \in Seq(Instruction)
  BY DEF Instruction
<1>2. tIrq /\ at.isr = "none" /\ busy' = busy /\ at' = [at EXCEPT !.isr = "TACK"] /\ Passes
  BY <1>1, SpendPasses DEF DONE, driverVars
<1>3. Placed' /\ at'.isr = "TACK" /\ at'.main = at.main
  BY <1>2, IsrStarts DEF PacedInv, IsrOf, PrintsAt
<1>4. busy /\ ~tArmed /\ at.main \notin Starting /\ busy \in BOOLEAN /\ at.main \notin {"NLNOW", "PCDIR"}
  BY <1>2 DEF PacedInv, Timed, Started, Completing, Who, Starting
<1>5. Timed' /\ ~tArmed'
  BY <1>2, <1>4, PassingTime DEF PacedInv
<1>6. Started'
  BY <1>2, <1>3, <1>4 DEF Started, Who, Starting
<1>7. Completing'
  BY <1>2, <1>3, <1>4, <1>5 DEF Completing, Starting
<1> QED BY <1>3, <1>5, <1>6, <1>7 DEF PacedInv

(* Acknowledged, the timer is silent.                                      *)
LEMMA AckPaced ==
  ASSUME PacedInv, program' = program, TACK PROVE PacedInv'
<1> DEFINE path == <<"reg">>
<1>1. path \in Seq(Instruction)
  BY DEF Instruction
<1>2. TicksOf(path) \in Nat /\ CyclesOf(path) \in Nat
  BY <1>1, PathCosts
<1> HIDE DEF path
<1>3. busy' = busy /\ Goes("isr", "TACK", "SETUP") /\ AckTimer(path)
  BY DEF TACK, driverVars, path
<1>4. Placed' /\ at.isr = "TACK" /\ at'.isr = "SETUP" /\ at'.main = at.main
  BY <1>3, IsrMoves DEF PacedInv, IsrOf, PrintsAt
<1>5. busy /\ ~tArmed /\ busy \in BOOLEAN
  BY <1>4 DEF PacedInv, Completing, Timed
<1>6. tIrq' = FALSE /\ tArmed' \in BOOLEAN /\ ~tArmed' /\ tCount' = tCount
  BY <1>3, <1>5 DEF AckTimer, CountOn, Rings
<1>7. scrollLeft' \in 0 .. ScrollCycles
  <2>1. scrollLeft \in Nat /\ scrollLeft <= ScrollCycles
    BY TimerNumbers DEF PacedInv, Timed
  <2>2. Left(scrollLeft, CyclesOf(path)) \in 0 .. scrollLeft
    BY <1>2, <2>1, LeftBounds
  <2>3. scrollLeft' = Left(scrollLeft, CyclesOf(path))
    BY <1>3 DEF AckTimer, Elapse
  <2> QED BY <2>1, <2>2, <2>3, TimerNumbers
<1>8. Timed'
  BY <1>3, <1>6, <1>7 DEF PacedInv, Timed
<1>9. at.main \notin Starting /\ at.main \notin {"NLNOW", "PCDIR"}
  BY <1>4 DEF PacedInv, Completing
<1>10. Started'
  BY <1>3, <1>4, <1>5, <1>9 DEF Started, Who, Starting
<1>11. Completing'
  BY <1>3, <1>4, <1>5, <1>6, <1>9 DEF Completing, Starting
<1> QED BY <1>4, <1>8, <1>10, <1>11 DEF PacedInv

(* The blanking of the new row, with the timer at rest throughout.         *)
LEMMA BlankPaced ==
  ASSUME PacedInv, program' = program,
         NEW from \in {"SETUP", "BLNK", "BLNKN"}, NEW to \in {"BLNK", "BLNKN", "RPDONE", "FEED"},
         Goes("isr", from, to), busy' \in BOOLEAN,
         to \in {"BLNK", "BLNKN"} => busy' = busy, Passes
  PROVE  PacedInv'
<1>1. Placed' /\ at.isr = from /\ at'.isr = to /\ at'.main = at.main
  BY IsrMoves DEF PacedInv, IsrOf, PrintsAt
<1>2. busy /\ ~tArmed /\ ~tIrq /\ busy \in BOOLEAN
  BY <1>1 DEF PacedInv, Completing, Timed
<1>3. Timed' /\ ~tArmed' /\ tIrq' = tIrq
  BY <1>2, PassingTime DEF PacedInv
<1>4. at.main \notin Starting /\ at.main \notin {"NLNOW", "PCDIR"}
  BY <1>1 DEF PacedInv, Completing
<1>5. Started'
  BY <1>1, <1>2, <1>3, <1>4 DEF Started, Who, Starting
<1>6. Completing'
  BY <1>1, <1>2, <1>3, <1>4 DEF Completing, Starting
<1> QED BY <1>1, <1>3, <1>5, <1>6 DEF PacedInv

(* The steps of the blanking are such steps.                               *)
LEMMA SetupPaced ==
  ASSUME PacedInv, program' = program, SETUP \/ BLNK \/ BLNKN PROVE PacedInv'
<1> DEFINE five == <<"mem", "mem", "mem", "mem", "mem">>
           go == <<"mem", "cmp", "jmp">>
           on == <<"reg", "mem", "mem", "mem">>
<1>1. /\ five \in Seq(Instruction) /\ go \in Seq(Instruction) /\ on \in Seq(Instruction)
      /\ << >> \in Seq(Instruction) /\ <<"ind">> \in Seq(Instruction) /\ SETIDX \in Seq(Instruction)
  BY DEF Instruction, SETIDX
<1>2. busy \in BOOLEAN
  BY DEF PacedInv, Timed
<1>3. CASE SETUP
  <2>1. SETIDX \o five \in Seq(Instruction)
    BY <1>1, PathJoins
  <2>2. Goes("isr", "SETUP", "BLNK") /\ Passes
    BY <1>3, <2>1, SpendPasses DEF SETUP
  <2>3. busy' = busy
    BY <1>3 DEF SETUP, driverVars
  <2> QED BY <1>2, <2>2, <2>3, BlankPaced
<1>4. CASE BLNK
  <2>1. Goes("isr", "BLNK", "BLNKN") /\ Passes
    BY <1>1, <1>4, WritePasses DEF BLNK
  <2>2. busy' = busy
    BY <1>4 DEF BLNK, driverVars
  <2> QED BY <1>2, <2>1, <2>2, BlankPaced
<1>5. CASE BLNKN
  <2> DEFINE to == IF ~RowDone THEN "BLNK" ELSE IF queued = 0 THEN "RPDONE" ELSE "FEED"
             path == go \o (IF RowDone THEN on ELSE << >>)
  <2>1. path \in Seq(Instruction)
    <3>1. (IF RowDone THEN on ELSE << >>) \in Seq(Instruction)
      BY <1>1
    <3> HIDE DEF go, on
    <3> QED BY <1>1, <3>1, PathJoins
  <2>2. Goes("isr", "BLNKN", to) /\ Spend(path) /\ busy' = (busy /\ ~RowDone)
    BY <1>5 DEF BLNKN
  <2>3. Passes
    BY <2>1, <2>2, SpendPasses
  <2>4. to \in {"BLNK", "BLNKN", "RPDONE", "FEED"} /\ (to \in {"BLNK", "BLNKN"} => ~RowDone)
    BY DEF RowDone
  <2>5. busy' \in BOOLEAN /\ (~RowDone => busy' = busy)
    BY <1>2, <2>2
  <2> HIDE DEF to
  <2> QED BY <2>2, <2>3, <2>4, <2>5, BlankPaced
<1> QED BY <1>3, <1>4, <1>5

-----------------------------------------------------------------------------
(* Calling, feeding, leaving the handler and computing pass time only.     *)
LEMMA CallsPaced ==
  ASSUME PacedInv, program' = program, program = "driver", NEW c, DPut(c) \/ FEED(c) \/ RPDONE \/ Compute
  PROVE  PacedInv'
<1>1. busy' = busy
  BY DEF DPut, FEED, RPDONE, Compute, driverVars
<1>2. Call(c) \in Seq(Instruction) /\ <<"mem", "mem">> \in Seq(Instruction)
      /\ <<"isz", "jmp">> \in Seq(Instruction)
      /\ <<"pop", "mem", "pop2", "skip", "ret">> \in Seq(Instruction)
  BY CallIsPath DEF Instruction
<1>3. CASE DPut(c)
  <2>1. Passes /\ Goes("main", "IDLE", "BUSY")
    BY <1>2, <1>3, SpendPasses DEF DPut
  <2> QED BY <1>1, <2>1, PrintPasses DEF Who, Plain, PrintsAt, Starting
<1>4. CASE FEED(c)
  <2>1. <<"mem", "mem">> \o Call(c) \in Seq(Instruction)
    BY <1>2, PathJoins
  <2>2. Passes /\ Goes("isr", "FEED", "BUSY")
    BY <1>4, <2>1, SpendPasses DEF FEED
  <2> QED BY <1>1, <2>2, PrintPasses DEF Who, Plain, PrintsAt, Starting
<1>5. CASE RPDONE
  <2>1. Passes
    BY <1>2, <1>5, SpendPasses DEF RPDONE
  <2>2. PICK from \in {"FEED", "RPDONE"} : Goes("isr", from, "none")
    BY <1>5 DEF RPDONE
  <2>3. Placed' /\ at.isr = from /\ at'.isr = "none" /\ at'.main = at.main
    BY <2>2, IsrMoves DEF PacedInv, IsrOf, PrintsAt
  <2> QED BY <1>1, <2>1, <2>3, PlainStep DEF PacedInv, Who, Plain
<1>6. CASE Compute
  <2>1. Passes /\ Goes("main", "IDLE", "IDLE")
    BY <1>2, <1>6, SpendPasses DEF Compute
  <2> QED BY <1>1, <2>1, PrintPasses DEF Who, Plain, Return
<1> QED BY <1>3, <1>4, <1>5, <1>6

(* Under the driver nothing of FOCAL's console moves.                      *)
LEMMA FocalIsElse == ASSUME Placed, program = "driver" PROVE ~Focal /\ ~KBDISR /\ ~KMOD /\ ~KACK /\ ~Sleep
<1>1. at.main \notin MainOf("focal") \ {"IDLE"} /\ at.isr \notin KeyIsr
  BY Labels
<1>2. ~STORE /\ ~NEXT /\ ~PNL1 /\ ~PNLN /\ ~SCRL /\ ~SCRLW /\ ~SCRLF /\ ~SCRLN
  BY <1>1 DEF STORE, NEXT, PNL1, PNLN, SCRL, SCRLW, SCRLF, SCRLN, Goes, MainOf
<1>3. \A c : ~PUTC(c)
  BY DEF PUTC
<1> QED BY <1>1, <1>2, <1>3 DEF Focal, KBDISR, KMOD, KACK, Goes, KeyIsr, Sleep

(* Under another program nothing of the driver moves.                      *)
LEMMA DriverIsElse == ASSUME Placed, program # "driver" PROVE ~Driver
<1>1. at.main \notin PrintsAt /\ at.isr \notin IsrOf("driver") \ {"none"}
  BY Labels
<1>2. \A who \in Who : at[who] \notin PrintsAt
  BY <1>1 DEF Who, IsrOf, PrintsAt
<1>3. ASSUME NEW who \in Who
      PROVE  /\ ~TestBusy(who) /\ ~WAITRDY(who) /\ ~PCDIR(who) /\ ~PCRET(who) /\ ~NLNOW(who)
             /\ ~TSTART(who) /\ ~TARM(who) /\ ~SetBusy(who)
  BY <1>2 DEF TestBusy, WAITRDY, PCDIR, PCRET, NLNOW, TSTART, TARM, SetBusy, Goes, PrintsAt
<1>4. \A c : ~DPut(c) /\ ~FEED(c)
  BY <1>1 DEF DPut, FEED, Goes, IsrOf
<1>5. ~DONE /\ ~TACK /\ ~SETUP /\ ~BLNK /\ ~BLNKN /\ ~RPDONE
  BY <1>1 DEF DONE, TACK, SETUP, BLNK, BLNKN, RPDONE, Goes, IsrOf
<1> QED BY <1>3, <1>4, <1>5 DEF Driver, Who

PacedAll == Placed /\ (program = "driver" => PacedInv)

(* At the start the timer and the blitter are at rest.                     *)
LEMMA PacedStart == ASSUME TermInit PROVE PacedAll
<1>1. Placed
  BY KeysStart DEF KeysInv
<1>2. at.main = "IDLE" /\ at.isr = "none"
  BY DEF TermInit
<1>3. scrollLeft = 0 /\ tCount = 0 /\ tArmed = FALSE /\ tIrq = FALSE /\ busy = FALSE
  BY DEF TermInit, DevicesInit
<1>4. Timed
  <2>1. tArmed \in BOOLEAN /\ tIrq \in BOOLEAN /\ busy \in BOOLEAN /\ ~tArmed /\ ~tIrq
    BY <1>3, Zenon
  <2>2. scrollLeft \in 0 .. ScrollCycles /\ tCount \in Int
    BY <1>3, TimerNumbers
  <2> QED BY <2>1, <2>2 DEF Timed
<1>5. Started
  <2>1. ~tArmed /\ ~tIrq
    BY <1>3, Zenon
  <2> QED BY <1>2, <2>1 DEF Started, Who, Starting
<1>6. Completing
  BY <1>2 DEF Completing, Starting
<1> QED BY <1>1, <1>4, <1>5, <1>6 DEF PacedAll, PacedInv

(* Every step keeps them in step.                                          *)
LEMMA PacedStep == ASSUME PacedAll, [TermNext]_termVars PROVE PacedAll'
<1>1. CASE UNCHANGED termVars
  BY <1>1 DEF termVars, devVars, timer, driverVars, PacedAll, PacedInv, Placed, Timed, Started,
              Completing, Thiv, MainOf, IsrOf
<1>2. CASE TermNext
  <2>1. program' = program
    BY <1>2 DEF TermNext
  <2>2. Placed'
    BY <1>2, <2>1, FocalElsewhere, DriverElsewhere, SleepElsewhere, HandlerPlaced
       DEF TermNext, PacedAll, Elsewhere
  <2>3. ASSUME program = "driver" PROVE PacedInv'
    <3>1. PacedInv
      BY <2>3 DEF PacedAll
    <3>2. Driver \/ Compute
      BY <1>2, <2>3, FocalIsElse DEF TermNext, PacedAll
    <3>3. CASE Compute
      BY <2>1, <2>3, <3>1, <3>3, CallsPaced
    <3>4. CASE \E c \in Chars : DPut(c) \/ FEED(c)
      BY <2>1, <2>3, <3>1, <3>4, CallsPaced
    <3>5. ASSUME NEW who \in Who,
                 \/ TestBusy(who) \/ WAITRDY(who) \/ PCDIR(who) \/ PCRET(who) \/ NLNOW(who)
                 \/ TSTART(who) \/ TARM(who) \/ SetBusy(who)
          PROVE  PacedInv'
      BY <2>1, <3>1, <3>5, TestBusyPaced, WaitPaced, DirectPaced, NewlinePaced, StartPaced,
         ArmPaced, SetBusyPaced
    <3>6. CASE DONE \/ TACK \/ SETUP \/ BLNK \/ BLNKN
      BY <2>1, <3>1, <3>6, DonePaced, AckPaced, SetupPaced
    <3>7. CASE RPDONE
      BY <2>1, <2>3, <3>1, <3>7, CallsPaced
    <3> QED BY <3>2, <3>3, <3>4, <3>5, <3>6, <3>7 DEF Driver, Who
  <2> QED BY <2>1, <2>2, <2>3 DEF PacedAll
<1> QED BY <1>1, <1>2

(* The driver takes the timer's interrupt for the end of the scroll: it    *)
(* never comes before the blitter is ready, whatever the costs of the      *)
(* instructions, because a timer that counts accesses is armed with a      *)
(* whole scroll to go after the scroll began.                              *)
THEOREM CompletionIsReady == TermSpec => []DoneMeansReady
<1>1. TermInit => PacedAll
  BY PacedStart
<1>2. PacedAll /\ [TermNext]_termVars => PacedAll'
  BY PacedStep
<1>3. PacedAll => DoneMeansReady
  BY DEF PacedAll, PacedInv, Timed, DoneMeansReady
<1> QED BY <1>1, <1>2, <1>3, PTL DEF TermSpec

-----------------------------------------------------------------------------
(* The framebuffer.                                                        *)

Waits(c) ==
  /\ scrollLeft' = Left(scrollLeft, c) /\ drawLeft' = Left(drawLeft, c)
  /\ dropped' = dropped /\ tooFast' = tooFast

(* Time that elapses takes the same from the scroll and from the cell.     *)
LEMMA ElapseWaits ==
  ASSUME NEW path \in Seq(Instruction), Elapse(path), UNCHANGED screenVars
  PROVE  CyclesOf(path) \in Nat /\ Waits(CyclesOf(path))
BY PathCosts DEF Elapse, screenVars, Waits

Clear ==
  /\ dropped = 0 /\ tooFast = 0 /\ scrollLeft \in Nat /\ drawLeft \in Nat
  /\ drawLeft <= CharCycles \/ drawLeft <= scrollLeft

Ind == CyclesOf(<<"ind">>)
(* The write itself takes five cycles.                                     *)
LEMMA IndIs == ASSUME MachineCosts PROVE Ind = 5 /\ CharCycles \in Nat /\ CharCycles <= 12
BY OneIs, Costs, DevicesAssumption DEF Ind, Instruction, MachineCosts

(* Waiting long enough, a writer finds the screen clear.                   *)
LEMMA Waiting ==
  ASSUME MachineCosts, Clear, NEW c \in Nat, Waits(c)
  PROVE  /\ Clear' /\ drawLeft' <= drawLeft
         /\ scrollLeft <= c => scrollLeft' = 0
         /\ scrollLeft <= c /\ CharCycles <= c + Ind => drawLeft' <= Ind
<1>1. /\ scrollLeft' \in Nat /\ drawLeft' \in Nat
      /\ scrollLeft <= c => scrollLeft' = 0
      /\ scrollLeft > c => scrollLeft' = scrollLeft - c
      /\ drawLeft <= c => drawLeft' = 0
      /\ drawLeft > c => drawLeft' = drawLeft - c
  BY DEF Waits, Left, Clear
<1>2. CharCycles \in Nat /\ Ind \in Nat /\ scrollLeft \in Nat /\ drawLeft \in Nat
  BY IndIs DEF Clear
<1>3. drawLeft <= CharCycles \/ drawLeft <= scrollLeft
  BY DEF Clear
<1>4. dropped' = 0 /\ tooFast' = 0
  BY DEF Waits, Clear
<1> QED BY <1>1, <1>2, <1>3, <1>4 DEF Clear

(* A write that comes with nothing else left lands.                        *)
LEMMA WriteLands ==
  ASSUME MachineCosts, Clear, scrollLeft = 0, drawLeft <= Ind, NEW place, NEW ch,
         Write(<<"ind">>, place, ch)
  PROVE  Clear' /\ scrollLeft' = 0 /\ drawLeft' <= CharCycles
<1> DEFINE path == <<"ind">>
<1>1. CharCycles \in Nat /\ Ind \in Nat /\ Ind = CyclesOf(path)
  BY IndIs DEF Ind
<1> HIDE DEF path
<1>2. ~BusyAfter(path) /\ ~DrawingAfter(path) /\ Left(scrollLeft, CyclesOf(path)) = 0
      /\ Left(drawLeft, CyclesOf(path)) = 0
  BY <1>1 DEF BusyAfter, DrawingAfter, Left, Clear
<1>3. Write(path, place, ch)
  BY DEF path
<1>4. scrollLeft' = 0 /\ (drawLeft' = CharCycles \/ drawLeft' = 0) /\ dropped' = 0 /\ tooFast' = 0
  BY <1>2, <1>3 DEF Write, Clear
<1> QED BY <1>1, <1>4 DEF Clear

-----------------------------------------------------------------------------
(* FOCAL's steps that only take time: to a write they take enough.         *)
LEMMA FocalWaits ==
  ASSUME MachineCosts, Placed, Placed', program = "focal", program' = program, Landing,
         NEW c \in Nat, Waits(c),
         at'.main # "SCRLW" => at.main # "SCRLW" \/ scrollLeft <= c,
         at'.main \in Writing => at'.main = at.main \/ CharCycles <= c + Ind
  PROVE  Landing'
<1>1. Clear
  BY DEF Landing, Clear
<1>2. /\ Clear' /\ drawLeft' <= drawLeft
      /\ scrollLeft <= c => scrollLeft' = 0
      /\ scrollLeft <= c /\ CharCycles <= c + Ind => drawLeft' <= Ind
  BY <1>1, Waiting
<1>3. at'.isr \notin Writing
  BY DEF Placed, IsrOf, KeyIsr, Writing
<1>4. ASSUME at'.main # "SCRLW" PROVE scrollLeft <= c /\ scrollLeft' = 0
  BY <1>2, <1>4 DEF Landing
<1>5. ASSUME at'.main \in Writing PROVE scrollLeft' = 0 /\ drawLeft' <= Ind
  <2>1. at'.main # "SCRLW"
    BY <1>5 DEF Writing
  <2>2. CASE at'.main = at.main
    <3>1. drawLeft <= Ind
      BY <1>5, <2>2 DEF Landing, Who, Ind
    <3> QED BY <1>2, <1>4, <2>1, <3>1, IndIs, <1>1 DEF Clear
  <2> QED BY <1>2, <1>4, <1>5, <2>1, <2>2
<1>6. \A who \in Who : at'[who] \in Writing => scrollLeft' = 0 /\ drawLeft' <= CyclesOf(<<"ind">>)
  BY <1>3, <1>5 DEF Who, Ind
<1> QED BY <1>2, <1>4, <1>6 DEF Landing, Clear

(* FOCAL's writes.                                                         *)
LEMMA FocalWrites ==
  ASSUME MachineCosts, Placed, Placed', program = "focal", program' = program, Landing,
         at.main \in Writing, at'.main \notin Writing, NEW place, NEW ch, Write(<<"ind">>, place, ch)
  PROVE  Landing'
<1>1. Clear /\ scrollLeft = 0 /\ drawLeft <= Ind
  BY DEF Landing, Clear, Who, Ind
<1>2. Clear' /\ scrollLeft' = 0
  BY <1>1, WriteLands
<1>3. \A who \in Who : at'[who] \notin Writing
  BY DEF Placed, IsrOf, KeyIsr, Writing, Who
<1> QED BY <1>2, <1>3 DEF Landing, Clear

(* Every path of FOCAL's console from a write to the next is long enough.  *)
LEMMA FocalLands ==
  ASSUME MachineCosts, Placed, Placed', program = "focal", program' = program, Landing, Focal
  PROVE  Landing'
<1>1. ASSUME NEW path \in Seq(Instruction), NEW from, NEW to, Spend(path), Goes("main", from, to),
             from # "SCRLW", to \in Writing => CharCycles <= CyclesOf(path) + Ind
      PROVE  Landing'
  <2>1. at.main = from /\ at'.main = to
    BY <1>1 DEF Goes, Placed, Who
  <2>2. CyclesOf(path) \in Nat /\ Waits(CyclesOf(path))
    BY <1>1, ElapseWaits DEF Spend
  <2> QED BY <1>1, <2>1, <2>2, FocalWaits
<1>2. ASSUME NEW from \in Writing, NEW to, NEW place, NEW ch, Goes("main", from, to), to \notin Writing,
             Write(<<"ind">>, place, ch)
      PROVE  Landing'
  <2>1. at.main = from /\ at'.main = to
    BY <1>2 DEF Goes, Placed, Who
  <2> QED BY <1>2, <2>1, FocalWrites
<1>3. ASSUME NEW c, PUTC(c) PROVE Landing'
  <2> DEFINE rest == IF c = NL THEN <<"jmp", "mem", "mem">> ELSE <<"mem">>
             path == <<"cal", "psh", "cmp">> \o rest
  <2>1. rest \in Seq(Instruction) /\ <<"cal", "psh", "cmp">> \in Seq(Instruction)
    <3>1. /\ <<"cal", "psh", "cmp">> \in Seq(Instruction) /\ <<"mem">> \in Seq(Instruction)
          /\ <<"jmp", "mem", "mem">> \in Seq(Instruction)
      BY DEF Instruction
    <3> QED BY <3>1
  <2> HIDE DEF rest
  <2>2. path \in Seq(Instruction) /\ path[1] = "cal" /\ path[2] = "psh" /\ path[3] = "cmp"
        /\ 1 \in 1 .. Len(path) /\ 2 \in 1 .. Len(path) /\ 3 \in 1 .. Len(path)
    BY <2>1
  <2> HIDE DEF path
  <2>3. CyclesOf(path) >= 11 /\ CyclesOf(path) \in Nat
    BY <2>2, ThreeAtLeast, Costs, PathCosts
  <2>4. CharCycles <= CyclesOf(path) + Ind
    BY <2>3, IndIs
  <2>5. Spend(path) /\ \E to : Goes("main", "IDLE", to)
    BY <1>3 DEF PUTC, path, rest
  <2> QED BY <1>1, <2>2, <2>4, <2>5
<1>4. CASE STORE
  BY <1>2, <1>4 DEF STORE, Writing
<1>5. CASE NEXT
  <2> DEFINE rest == IF AtEnd(curs + 1) THEN <<"cal">> ELSE <<"pop", "ret">>
             path == <<"isz", "reg", "mem", "cmp">> \o rest
  <2>1. rest \in Seq(Instruction) /\ <<"isz", "reg", "mem", "cmp">> \in Seq(Instruction)
    <3>1. /\ <<"isz", "reg", "mem", "cmp">> \in Seq(Instruction) /\ <<"cal">> \in Seq(Instruction)
          /\ <<"pop", "ret">> \in Seq(Instruction)
      BY DEF Instruction
    <3> QED BY <3>1
  <2>2. Spend(path) /\ \E to : to \notin Writing /\ Goes("main", "NEXT", to)
    BY <1>5 DEF NEXT, Writing
  <2> HIDE DEF rest
  <2>3. path \in Seq(Instruction)
    BY <2>1, PathJoins
  <2> QED BY <1>1, <2>2, <2>3
<1>6. CASE PNL1
  BY <1>2, <1>6 DEF PNL1, Writing
<1>7. CASE PNLN
  <2> DEFINE full == AtEnd(curs + 1)
             done == (curs + 1) % Cols = 0
             rest == IF full THEN <<"jmp", "cal">>
                     ELSE <<"mem", "mem">> \o (IF done THEN <<"reg", "jmp", "pop", "ret">>
                                               ELSE <<"skip", "mem", "jmp">>)
             path == <<"reg", "mem", "mem", "cmp">> \o rest
  <2>1. rest \in Seq(Instruction) /\ <<"reg", "mem", "mem", "cmp">> \in Seq(Instruction)
    <3>1. /\ <<"jmp", "cal">> \in Seq(Instruction) /\ <<"mem", "mem">> \in Seq(Instruction)
          /\ <<"reg", "jmp", "pop", "ret">> \in Seq(Instruction)
          /\ <<"skip", "mem", "jmp">> \in Seq(Instruction)
          /\ <<"reg", "mem", "mem", "cmp">> \in Seq(Instruction)
      BY DEF Instruction
    <3> HIDE DEF full, done
    <3> QED BY <3>1, PathJoins
  <2>2. Spend(path) /\ \E to : Goes("main", "PNLN", to)
    BY <1>7 DEF PNLN
  <2> HIDE DEF rest
  <2>3. path \in Seq(Instruction) /\ path[2] = "mem" /\ path[3] = "mem" /\ path[4] = "cmp"
        /\ 2 \in 1 .. Len(path) /\ 3 \in 1 .. Len(path) /\ 4 \in 1 .. Len(path)
    BY <2>1
  <2> HIDE DEF path
  <2>4. CyclesOf(path) >= 10 /\ CyclesOf(path) \in Nat
    BY <2>3, ThreeAtLeast, Costs, PathCosts
  <2>5. CharCycles <= CyclesOf(path) + Ind
    BY <2>4, IndIs
  <2> QED BY <1>1, <2>2, <2>3, <2>5
<1>8. CASE SCRL
  <2>1. at.main = "SCRL" /\ at'.main = "SCRLW" /\ Scroll(<<"reg">>)
    BY <1>8 DEF SCRL, Goes, Placed, Who
  <2>2. scrollLeft = 0 /\ CyclesOf(<<"reg">>) \in Nat
    <3>1. <<"reg">> \in Seq(Instruction)
      BY DEF Instruction
    <3> QED BY <2>1, <3>1, PathCosts DEF Landing
  <2>3. ~BusyAfter(<<"reg">>)
    BY <2>2 DEF BusyAfter, Left
  <2>4. scrollLeft' = ScrollCycles /\ drawLeft' = ScrollCycles /\ dropped' = 0 /\ tooFast' = 0
    BY <2>1, <2>3 DEF Scroll, Landing
  <2>5. \A who \in Who : at'[who] \notin Writing
    BY <2>1 DEF Placed, IsrOf, KeyIsr, Writing, Who
  <2> QED BY <2>1, <2>4, <2>5, TimerNumbers DEF Landing
<1>9. CASE SCRLW
  <2> DEFINE out1 == <<"skip", "mem", "mem">>
             again == <<"reg", "jmp">>
  <2>1. out1 \in Seq(Instruction) /\ again \in Seq(Instruction) /\ <<"reg">> \in Seq(Instruction)
    BY DEF Instruction
  <2>2. CASE SkipsReady
    <3>1. Goes("main", "SCRLW", "SCRLF") /\ Spend(out1)
      BY <1>9, <2>2 DEF SCRLW
    <3>2. CyclesOf(out1) >= 8 /\ CyclesOf(out1) \in Nat
      <4>1. out1[1] = "skip" /\ out1[2] = "mem" /\ out1[3] = "mem"
            /\ 1 \in 1 .. Len(out1) /\ 2 \in 1 .. Len(out1) /\ 3 \in 1 .. Len(out1)
        OBVIOUS
      <4> HIDE DEF out1
      <4> QED BY <2>1, <4>1, ThreeAtLeast, Costs, PathCosts
    <3> HIDE DEF out1
    <3>3. scrollLeft <= 1 /\ scrollLeft \in Nat
      <4>1. CyclesOf(<<"reg">>) = 1
        BY OneIs, Costs DEF Instruction
      <4> QED BY <2>2, <4>1 DEF SkipsReady, BusyAfter, Left, Landing
    <3>4. at.main = "SCRLW" /\ at'.main = "SCRLF"
      BY <3>1 DEF Goes, Placed, Who
    <3>5. Waits(CyclesOf(out1))
      BY <2>1, <3>1, ElapseWaits DEF Spend
    <3>6. scrollLeft <= CyclesOf(out1) /\ CharCycles <= CyclesOf(out1) + Ind
      BY <3>2, <3>3, IndIs
    <3> QED BY <3>2, <3>4, <3>5, <3>6, FocalWaits
  <2>3. CASE ~SkipsReady
    <3>1. Goes("main", "SCRLW", "SCRLW") /\ Spend(again)
      BY <1>9, <2>3 DEF SCRLW
    <3>2. at'.main = "SCRLW"
      BY <3>1 DEF Goes, Placed, Who
    <3>3. CyclesOf(again) \in Nat /\ Waits(CyclesOf(again))
      BY <2>1, <3>1, ElapseWaits DEF Spend
    <3> QED BY <3>2, <3>3, FocalWaits DEF Writing
  <2> QED BY <2>2, <2>3
<1>10. CASE SCRLF
  BY <1>2, <1>10 DEF SCRLF, Writing
<1>11. CASE SCRLN
  <2> DEFINE rest == IF AtEnd(edge + 1) THEN <<"mem", "mem", "ret", "pop", "ret">> ELSE << >>
             path == FillRound \o rest
  <2>1. rest \in Seq(Instruction) /\ FillRound \in Seq(Instruction) /\ FillRound = <<"reg", "cmp", "jmp">>
    <3>1. /\ <<"mem", "mem", "ret", "pop", "ret">> \in Seq(Instruction)
          /\ << >> \in Seq(Instruction) /\ FillRound \in Seq(Instruction)
      BY DEF Instruction, FillRound
    <3> QED BY <3>1 DEF FillRound
  <2>2. Spend(path) /\ \E to : Goes("main", "SCRLN", to)
    BY <1>11 DEF SCRLN
  <2> HIDE DEF rest
  <2>3. path \in Seq(Instruction) /\ path[1] = "reg" /\ path[2] = "cmp" /\ path[3] = "jmp"
        /\ 1 \in 1 .. Len(path) /\ 2 \in 1 .. Len(path) /\ 3 \in 1 .. Len(path)
    BY <2>1
  <2> HIDE DEF path
  <2>4. CyclesOf(path) >= 7 /\ CyclesOf(path) \in Nat
    BY <2>3, ThreeAtLeast, Costs, PathCosts
  <2>5. CharCycles <= CyclesOf(path) + Ind
    BY <2>4, IndIs
  <2> QED BY <1>1, <2>2, <2>3, <2>5
<1> QED BY <1>3, <1>4, <1>5, <1>6, <1>7, <1>8, <1>9, <1>10, <1>11 DEF Focal

(* The keyboard's handler makes a path longer.                             *)
LEMMA HandlerLands ==
  ASSUME MachineCosts, Placed, Placed', program' = program, Landing, KBDISR \/ KMOD \/ KACK
  PROVE  Landing'
<1>1. program = "focal" /\ at'.main = at.main
  BY Labels DEF KBDISR, KMOD, KACK, Goes, Placed, Who, KeyIsr
<1>2. \E path \in Seq(Instruction) : Elapse(path) /\ UNCHANGED screenVars
  <2>1. CASE KBDISR
    <3>1. <<"irq", "psh2", "reg", "mem">> \in Seq(Instruction)
      BY DEF Instruction
    <3> QED BY <2>1, <3>1 DEF KBDISR, Spend
  <2>2. CASE KMOD
    <3>1. <<"reg", "mem">> \in Seq(Instruction)
      BY DEF Instruction
    <3> QED BY <2>2, <3>1 DEF KMOD, Spend
  <2>3. CASE KACK
    <3>1. <<"mem", "reg", "mem", "mem", "cmp">> \in Seq(Instruction)
      BY DEF Instruction
    <3> QED BY <2>3, <3>1 DEF KACK, AckKey
  <2> QED BY <2>1, <2>2, <2>3
<1>3. \E c \in Nat : Waits(c)
  BY <1>2, ElapseWaits
<1> QED BY <1>1, <1>3, FocalWaits

-----------------------------------------------------------------------------
(* The driver writes while nobody scrolls, or when the scroll is over.     *)
Handling == {"TACK", "SETUP", "BLNK", "BLNKN"}

(* The driver's steps that only take time: to a write they take enough.    *)
LEMMA DriverWaits ==
  ASSUME MachineCosts, PacedInv, program' = program, Landing, NEW c \in Nat, Waits(c),
         \A who \in Who : at'[who] \in Writing =>
           at'[who] = at[who] \/ (scrollLeft = 0 /\ CharCycles <= c + Ind),
         scrollLeft = 0 \/ busy' \/ \E who \in Who : at'[who] \in Starting,
         at'.isr \in Handling => scrollLeft = 0
  PROVE  Landing'
<1>1. Clear /\ program = "driver" /\ scrollLeft \in Nat
  BY DEF Landing, Clear, PacedInv
<1>2. /\ Clear' /\ drawLeft' <= drawLeft
      /\ scrollLeft <= c => scrollLeft' = 0
      /\ scrollLeft <= c /\ CharCycles <= c + Ind => drawLeft' <= Ind
  BY <1>1, Waiting
<1>3. scrollLeft = 0 => scrollLeft' = 0
  BY <1>1, <1>2
<1>4. ASSUME NEW who \in Who, at'[who] \in Writing
      PROVE  scrollLeft' = 0 /\ drawLeft' <= CyclesOf(<<"ind">>)
  <2>1. CASE at'[who] = at[who]
    <3>1. scrollLeft = 0 /\ drawLeft <= Ind
      BY <1>4, <2>1 DEF Landing, Ind
    <3> QED BY <1>1, <1>2, <1>3, <3>1, IndIs DEF Clear, Ind
  <2>2. CASE scrollLeft = 0 /\ CharCycles <= c + Ind
    BY <1>2, <1>3, <2>2 DEF Ind
  <2> QED BY <1>4, <2>1, <2>2
<1> QED BY <1>1, <1>2, <1>3, <1>4 DEF Landing, Clear, Handling

(* A printer between its calls finds the driver busy, or no scroll running.*)
LEMMA Quiescent ==
  ASSUME PacedInv, Landing, NEW who \in Who, at[who] \in Plain,
         who = "main" => at.isr = "none", who = "isr" => at.isr # "none"
  PROVE  /\ busy \/ scrollLeft = 0
         /\ \A w \in Who : at[w] \notin Starting
<1>1. at.main \notin Starting /\ at.isr \notin Starting
  BY DEF PacedInv, Who, Starting, Plain, Completing
<1> QED BY <1>1 DEF Landing, PacedInv, Who

(* Printing takes time enough before it writes.                            *)
LEMMA PrintWaits ==
  ASSUME MachineCosts, PacedInv, program' = program, Landing, NEW who \in Who,
         NEW from \in Plain \ {"none"}, NEW to \in (PrintsAt \ Starting) \cup {Return(who)},
         Goes(who, from, to), busy' = busy, NEW c \in Nat, Waits(c),
         to = "PCDIR" => ~busy /\ CharCycles <= c + Ind
  PROVE  Landing'
<1>1. /\ Placed' /\ at[who] = from /\ at'[who] = to
      /\ \A other \in Who \ {who} : at'[other] = at[other]
      /\ who = "main" => at.isr = "none"
  BY PrintMoves DEF PacedInv, Plain
<1>2. to \notin Handling /\ (to \in Writing => to = "PCDIR")
  BY DEF PrintsAt, Starting, Return, Handling, Writing
<1>3. busy \/ scrollLeft = 0
  BY <1>1, Quiescent
<1>4. at'.isr \notin Handling
  BY <1>1, <1>2 DEF Who, Handling
<1>5. ASSUME NEW w \in Who, at'[w] \in Writing
      PROVE  at'[w] = at[w] \/ (scrollLeft = 0 /\ CharCycles <= c + Ind)
  BY <1>1, <1>2, <1>3, <1>5 DEF Who
<1> QED BY <1>3, <1>4, <1>5, DriverWaits

(* The same of the steps that are a path of instructions.                  *)
LEMMA PrintSpends ==
  ASSUME MachineCosts, PacedInv, program' = program, Landing, NEW who \in Who,
         NEW from \in Plain \ {"none"}, NEW to \in (PrintsAt \ Starting) \cup {Return(who)},
         Goes(who, from, to), busy' = busy, NEW path \in Seq(Instruction), Spend(path),
         to = "PCDIR" => ~busy /\ CharCycles <= CyclesOf(path) + Ind
  PROVE  Landing'
<1>1. CyclesOf(path) \in Nat /\ Waits(CyclesOf(path))
  BY ElapseWaits DEF Spend
<1> QED BY <1>1, PrintWaits

(* PUTC's test of BUSY goes to a write only when no scroll runs.           *)
LEMMA TestBusyLands ==
  ASSUME MachineCosts, PacedInv, program' = program, Landing, NEW who \in Who, TestBusy(who)
  PROVE  Landing'
<1>1. busy' = busy
  BY DEF TestBusy
<1> DEFINE now  == <<"mem", "reg", "jmp", "mem", "mem">>
           put  == <<"mem", "skip", "mem", "reg", "jmp", "mem", "mem", "mem", "isz", "reg", "isz",
                     "reg", "ret">>
           wait == <<"mem", "skip", "mem", "skip", "cal">>
<1>2. now \in Seq(Instruction) /\ put \in Seq(Instruction) /\ wait \in Seq(Instruction)
  BY DEF Instruction
<1>3. CASE ~busy /\ Goes(who, "BUSY", Direct(who)) /\ Spend(now)
  <2>1. now[1] = "mem" /\ now[4] = "mem" /\ now[5] = "mem"
        /\ 1 \in 1 .. Len(now) /\ 4 \in 1 .. Len(now) /\ 5 \in 1 .. Len(now)
    OBVIOUS
  <2> HIDE DEF now
  <2>2. CyclesOf(now) >= 9 /\ CyclesOf(now) \in Nat
    BY <1>2, <2>1, ThreeAtLeast, Costs, PathCosts
  <2>3. CharCycles <= CyclesOf(now) + Ind
    BY <2>2, IndIs
  <2>4. Direct(who) \in PrintsAt \ Starting
    BY DEF Direct, PrintsAt, Starting
  <2> QED BY <1>1, <1>2, <1>3, <2>3, <2>4, PrintSpends DEF Plain
<1>4. CASE Goes(who, "BUSY", Return(who)) /\ Spend(put)
  <2>1. Return(who) # "PCDIR"
    BY DEF Return
  <2> HIDE DEF put
  <2> QED BY <1>1, <1>2, <1>4, <2>1, PrintSpends DEF Plain
<1>5. CASE Goes(who, "BUSY", "WAITRDY") /\ Spend(wait)
  <2> HIDE DEF wait
  <2> QED BY <1>1, <1>2, <1>5, PrintSpends DEF Plain, PrintsAt, Starting
<1> QED BY <1>3, <1>4, <1>5 DEF TestBusy

(* So does the wait for the driver.                                        *)
LEMMA WaitLands ==
  ASSUME MachineCosts, PacedInv, program' = program, Landing, NEW who \in Who, WAITRDY(who)
  PROVE  Landing'
<1>1. busy' = busy
  BY DEF WAITRDY, driverVars
<1> DEFINE again == <<"mem", "skip", "jmp">>
           now == <<"mem", "reg", "ret", "mem", "mem">>
<1>2. again \in Seq(Instruction) /\ now \in Seq(Instruction)
  BY DEF Instruction
<1>3. CASE busy
  <2>1. Goes(who, "WAITRDY", "WAITRDY") /\ Spend(again)
    BY <1>3 DEF WAITRDY
  <2> HIDE DEF again
  <2> QED BY <1>1, <1>2, <2>1, PrintSpends DEF Plain, PrintsAt, Starting
<1>4. CASE ~busy
  <2>1. Goes(who, "WAITRDY", Direct(who)) /\ Spend(now)
    BY <1>4 DEF WAITRDY
  <2>2. now[1] = "mem" /\ now[4] = "mem" /\ now[5] = "mem"
        /\ 1 \in 1 .. Len(now) /\ 4 \in 1 .. Len(now) /\ 5 \in 1 .. Len(now)
    OBVIOUS
  <2> HIDE DEF now
  <2>3. CyclesOf(now) >= 9 /\ CyclesOf(now) \in Nat
    BY <1>2, <2>2, ThreeAtLeast, Costs, PathCosts
  <2>4. CharCycles <= CyclesOf(now) + Ind
    BY <2>3, IndIs
  <2>5. Direct(who) \in PrintsAt \ Starting
    BY DEF Direct, PrintsAt, Starting
  <2> QED BY <1>1, <1>2, <1>4, <2>1, <2>4, <2>5, PrintSpends DEF Plain
<1> QED BY <1>3, <1>4

(* The driver's writes.                                                    *)
LEMMA DriverWrites ==
  ASSUME MachineCosts, PacedInv, program' = program, Landing, NEW who \in Who,
         at[who] \in Writing, \A w \in Who : at'[w] \notin Writing,
         NEW place, NEW ch, Write(<<"ind">>, place, ch)
  PROVE  Landing'
<1>1. Clear /\ scrollLeft = 0 /\ drawLeft <= Ind
  BY DEF Landing, Clear, Ind
<1>2. Clear' /\ scrollLeft' = 0
  BY <1>1, WriteLands
<1>3. program' = "driver"
  BY DEF PacedInv
<1> QED BY <1>2, <1>3 DEF Landing, Clear

(* A character put on the screen lands.                                    *)
LEMMA DirectLands ==
  ASSUME MachineCosts, PacedInv, program' = program, Landing, NEW who \in Who, PCDIR(who) \/ PCRET(who)
  PROVE  Landing'
<1>1. CASE PCDIR(who)
  <2>1. /\ at[who] = "PCDIR" /\ at'[who] = "PCRET"
        /\ \A other \in Who \ {who} : at'[other] = at[other]
        /\ who = "main" => at.isr = "none"
    BY <1>1, PrintMoves DEF PacedInv, PCDIR, PrintsAt
  <2>2. \A w \in Who : at'[w] \notin Writing
    <3>1. CASE who = "main"
      BY <2>1, <3>1 DEF Who, Writing
    <3>2. CASE who = "isr"
      <4>1. at.main # "PCDIR" /\ at.main \in MainOf("driver")
        BY <2>1, <3>2 DEF PacedInv, Completing, Placed
      <4> QED BY <2>1, <3>2, <4>1 DEF Who, Writing, MainOf, PrintsAt
    <3> QED BY <3>1, <3>2 DEF Who
  <2>3. Write(<<"ind">>, curs, Glyph) /\ at[who] \in Writing
    BY <1>1, <2>1 DEF PCDIR, Writing
  <2> QED BY <2>2, <2>3, DriverWrites
<1>2. CASE PCRET(who)
  <2> DEFINE path == <<"isz", "reg", "ret">>
  <2>1. path \in Seq(Instruction)
    BY DEF Instruction
  <2>2. Goes(who, "PCRET", Return(who)) /\ Spend(path) /\ busy' = busy
    BY <1>2 DEF PCRET, driverVars
  <2>3. Return(who) # "PCDIR"
    BY DEF Return
  <2> HIDE DEF path
  <2> QED BY <2>1, <2>2, <2>3, PrintSpends DEF Plain
<1> QED BY <1>1, <1>2

(* A newline writes nothing; the scroll it starts finds nobody writing.    *)
LEMMA NewlineLands ==
  ASSUME MachineCosts, PacedInv, program' = program, Landing, NEW who \in Who, NLNOW(who)
  PROVE  Landing'
<1>1. busy' = busy
  BY DEF NLNOW
<1>2. CASE Goes(who, "NLNOW", Return(who)) /\ Spend(<<"isz", "reg">> \o SETIDX \o <<"ret">>)
  <2>1. /\ <<"isz", "reg">> \in Seq(Instruction) /\ <<"ret">> \in Seq(Instruction)
        /\ SETIDX \in Seq(Instruction)
    BY DEF Instruction, SETIDX
  <2>2. <<"isz", "reg">> \o SETIDX \o <<"ret">> \in Seq(Instruction)
    BY <2>1, PathJoins
  <2>3. Return(who) # "PCDIR"
    BY DEF Return
  <2> DEFINE path == <<"isz", "reg">> \o SETIDX \o <<"ret">>
  <2>4. path \in Seq(Instruction) /\ Spend(path)
    BY <1>2, <2>2
  <2> HIDE DEF path
  <2> QED BY <1>1, <1>2, <2>3, <2>4, PrintSpends DEF Plain
<1>3. CASE Goes(who, "NLNOW", "TLOAD") /\ Scroll(<<"jmp", "reg">>)
  <2>1. /\ at[who] = "NLNOW" /\ at'[who] = "TLOAD"
        /\ \A other \in Who \ {who} : at'[other] = at[other]
        /\ who = "main" => at.isr = "none"
    BY <1>3, PrintMoves DEF PacedInv, PrintsAt
  <2>2. scrollLeft = 0
    BY <2>1, Quiescent DEF PacedInv, Completing, Plain, Who
  <2>3. CyclesOf(<<"jmp", "reg">>) \in Nat
    <3>1. <<"jmp", "reg">> \in Seq(Instruction)
      BY DEF Instruction
    <3> QED BY <3>1, PathCosts
  <2>4. ~BusyAfter(<<"jmp", "reg">>)
    BY <2>2, <2>3 DEF BusyAfter, Left
  <2>5. scrollLeft' = ScrollCycles /\ drawLeft' = ScrollCycles /\ dropped' = 0 /\ tooFast' = 0
    BY <1>3, <2>4 DEF Scroll, Landing
  <2>6. \A w \in Who : at'[w] \notin Writing
    <3>1. CASE who = "main"
      BY <2>1, <3>1 DEF Who, Writing
    <3>2. CASE who = "isr"
      <4>1. at.main # "PCDIR" /\ at.main \in MainOf("driver")
        BY <2>1, <3>2 DEF PacedInv, Completing, Placed
      <4> QED BY <2>1, <3>2, <4>1 DEF Who, Writing, MainOf, PrintsAt
    <3> QED BY <3>1, <3>2 DEF Who
  <2>7. at'[who] \in Starting /\ at'.isr \notin Handling
    <3>1. at'.isr \in {"none", "TLOAD"}
      BY <2>1 DEF Who
    <3> QED BY <2>1, <3>1 DEF Starting, Handling
  <2>8. program' = "driver"
    BY DEF PacedInv
  <2> QED BY <2>5, <2>6, <2>7, <2>8, TimerNumbers DEF Landing, Handling
<1> QED BY <1>2, <1>3 DEF NLNOW

(* Nobody writes while the timer is being started.                         *)
LEMMA StartLands ==
  ASSUME MachineCosts, PacedInv, program' = program, Landing, NEW who \in Who,
         TSTART(who) \/ TARM(who) \/ SetBusy(who)
  PROVE  Landing'
<1>1. ASSUME NEW from \in Starting, NEW to \in {"TARM", "SETBUSY", Return(who)}, Goes(who, from, to),
             to \in Starting \/ busy', NEW path \in Seq(Instruction), Elapse(path), UNCHANGED screenVars
      PROVE  Landing'
  <2>1. /\ at[who] = from /\ at'[who] = to
        /\ \A other \in Who \ {who} : at'[other] = at[other]
        /\ who = "main" => at.isr = "none"
    BY <1>1, PrintMoves DEF PacedInv, PrintsAt, Starting
  <2>2. CyclesOf(path) \in Nat /\ Waits(CyclesOf(path))
    BY <1>1, ElapseWaits
  <2>3. to \notin Writing /\ to \notin Handling
    BY DEF Return, Writing, Handling
  <2>4. at'.isr \notin Handling
    BY <2>1, <2>3 DEF Who, Handling
  <2>5. \A w \in Who : at'[w] \in Writing => at'[w] = at[w]
    BY <2>1, <2>3
  <2> QED BY <1>1, <2>1, <2>2, <2>4, <2>5, DriverWaits
<1>2. CASE TSTART(who)
  <2>1. <<"cal", "mem", "reg">> \in Seq(Instruction)
    BY DEF Instruction
  <2> QED BY <1>1, <1>2, <2>1 DEF TSTART, LoadTimer, Starting
<1>3. CASE TARM(who)
  <2>1. <<"reg">> \in Seq(Instruction)
    BY DEF Instruction
  <2> QED BY <1>1, <1>3, <2>1 DEF TARM, ArmTimer, Starting
<1>4. CASE SetBusy(who)
  <2>1. <<"ret", "mem", "mem", "ret">> \in Seq(Instruction)
    BY DEF Instruction
  <2>2. busy' /\ Goes(who, "SETBUSY", Return(who)) /\ Spend(<<"ret", "mem", "mem", "ret">>)
    BY <1>4 DEF SetBusy
  <2> QED BY <1>1, <2>1, <2>2 DEF Spend, Starting
<1> QED BY <1>2, <1>3, <1>4

(* The blanking of the new row comes after the scroll, and slowly enough.  *)
LEMMA CompletionLands ==
  ASSUME MachineCosts, PacedInv, program' = program, Landing,
         DONE \/ TACK \/ SETUP \/ BLNK \/ BLNKN \/ RPDONE
  PROVE  Landing'
<1>1. ASSUME NEW from \in IsrOf("driver") \ {"none"}, NEW to \in IsrOf("driver"), Goes("isr", from, to),
             NEW path \in Seq(Instruction), Elapse(path), UNCHANGED screenVars,
             scrollLeft = 0 \/ (busy' = busy /\ from \in Plain /\ to \in Plain),
             to \in Writing => to = "BLNK" /\ CharCycles <= CyclesOf(path) + Ind
      PROVE  Landing'
  <2>1. Placed' /\ at.isr = from /\ at'.isr = to /\ at'.main = at.main
    BY <1>1, IsrMoves DEF PacedInv
  <2>2. CyclesOf(path) \in Nat /\ Waits(CyclesOf(path))
    BY <1>1, ElapseWaits
  <2>3. scrollLeft = 0 \/ busy'
    BY <1>1, <2>1, Quiescent DEF Who
  <2>4. to \in Handling => scrollLeft = 0
    BY <1>1 DEF Plain, Handling
  <2>5. to \in Writing => scrollLeft = 0
    BY <1>1, <2>4 DEF Handling
  <2>6. \A w \in Who : at'[w] \in Writing =>
           at'[w] = at[w] \/ (scrollLeft = 0 /\ CharCycles <= CyclesOf(path) + Ind)
    BY <1>1, <2>1, <2>5 DEF Who
  <2> QED BY <2>1, <2>2, <2>3, <2>4, <2>6, DriverWaits
<1>2. at.isr \in Handling => scrollLeft = 0
  BY DEF Landing, PacedInv, Handling
<1>3. CASE DONE
  <2> DEFINE path == <<"irq", "psh2", "mem", "psh">>
  <2>1. path \in Seq(Instruction)
    BY DEF Instruction
  <2>2. tIrq /\ at.isr = "none" /\ at' = [at EXCEPT !.isr = "TACK"] /\ Spend(path)
    BY <1>3 DEF DONE
  <2> HIDE DEF path
  <2>3. at'.isr = "TACK" /\ at'.main = at.main
    BY <2>2, IsrStarts DEF PacedInv, IsrOf
  <2>4. scrollLeft = 0
    BY <2>2 DEF PacedInv, Timed
  <2>5. CyclesOf(path) \in Nat /\ Waits(CyclesOf(path))
    BY <2>1, <2>2, ElapseWaits DEF Spend
  <2>6. \A w \in Who : at'[w] \in Writing => at'[w] = at[w]
    BY <2>3 DEF Who, Writing
  <2> QED BY <2>4, <2>5, <2>6, DriverWaits
<1>4. CASE TACK
  <2>1. <<"reg">> \in Seq(Instruction)
    BY DEF Instruction
  <2>2. Goes("isr", "TACK", "SETUP") /\ Elapse(<<"reg">>) /\ UNCHANGED screenVars
    BY <1>4 DEF TACK, AckTimer
  <2>3. scrollLeft = 0
    BY <1>2, <2>2 DEF Goes, Handling
  <2> DEFINE path == <<"reg">>
             to == "SETUP"
  <2>4. path \in Seq(Instruction) /\ Elapse(path) /\ UNCHANGED screenVars /\ Goes("isr", "TACK", to)
    BY <2>1, <2>2
  <2>5. to \in IsrOf("driver") /\ to \notin Writing /\ "TACK" \in IsrOf("driver") \ {"none"}
    BY DEF IsrOf, Writing
  <2> HIDE DEF path, to
  <2> QED BY <1>1, <2>3, <2>4, <2>5
<1>5. CASE SETUP
  <2> DEFINE five == <<"mem", "mem", "mem", "mem", "mem">>
             path == SETIDX \o five
  <2>1. SETIDX \in Seq(Instruction) /\ five \in Seq(Instruction)
    BY DEF Instruction, SETIDX
  <2>2. Goes("isr", "SETUP", "BLNK") /\ Spend(path)
    BY <1>5 DEF SETUP
  <2>3. scrollLeft = 0
    BY <1>2, <2>2 DEF Goes, Handling
  <2>4. SETIDX = <<"cal", "mem", "reg", "reg", "reg", "reg", "reg", "mem", "ret">>
    BY DEF SETIDX
  <2> HIDE DEF five
  <2>5. path \in Seq(Instruction) /\ path[1] = "cal" /\ path[2] = "mem" /\ path[8] = "mem"
        /\ 1 \in 1 .. Len(path) /\ 2 \in 1 .. Len(path) /\ 8 \in 1 .. Len(path)
    BY <2>1, <2>4
  <2> HIDE DEF path
  <2>6. CyclesOf(path) >= 10 /\ CyclesOf(path) \in Nat
    BY <2>5, ThreeAtLeast, Costs, PathCosts
  <2>7. CharCycles <= CyclesOf(path) + Ind
    BY <2>6, IndIs
  <2> QED BY <1>1, <2>2, <2>3, <2>5, <2>7 DEF IsrOf, Spend
<1>6. CASE BLNK
  <2>1. Goes("isr", "BLNK", "BLNKN") /\ Write(<<"ind">>, edge, Blank)
    BY <1>6 DEF BLNK
  <2>2. at.isr = "BLNK" /\ at'.isr = "BLNKN" /\ at'.main = at.main
    BY <2>1, IsrMoves DEF PacedInv, IsrOf
  <2>3. at.main \notin Writing
    <3>1. at.main # "PCDIR" /\ at.main \in MainOf("driver")
      BY <2>2 DEF PacedInv, Completing, Placed
    <3> QED BY <3>1 DEF Writing, MainOf, PrintsAt
  <2>4. \A w \in Who : at'[w] \notin Writing
    BY <2>2, <2>3 DEF Who, Writing
  <2>5. "isr" \in Who /\ at["isr"] \in Writing
    BY <2>2 DEF Who, Writing
  <2> QED BY <2>1, <2>4, <2>5, DriverWrites
<1>7. CASE BLNKN
  <2> DEFINE rest == IF RowDone THEN <<"reg", "mem", "mem", "mem">> ELSE << >>
             path == <<"mem", "cmp", "jmp">> \o rest
             to == IF ~RowDone THEN "BLNK" ELSE IF queued = 0 THEN "RPDONE" ELSE "FEED"
  <2>1. rest \in Seq(Instruction) /\ <<"mem", "cmp", "jmp">> \in Seq(Instruction)
    <3>1. /\ <<"mem", "cmp", "jmp">> \in Seq(Instruction) /\ << >> \in Seq(Instruction)
          /\ <<"reg", "mem", "mem", "mem">> \in Seq(Instruction)
      BY DEF Instruction
    <3> QED BY <3>1
  <2>2. Goes("isr", "BLNKN", to) /\ Spend(path)
    BY <1>7 DEF BLNKN
  <2>3. scrollLeft = 0
    BY <1>2, <2>2 DEF Goes, Handling
  <2>4. to \in IsrOf("driver") /\ (to \in Writing => to = "BLNK")
    BY DEF IsrOf, Writing
  <2> HIDE DEF rest, to
  <2>5. path \in Seq(Instruction) /\ path[1] = "mem" /\ path[2] = "cmp" /\ path[3] = "jmp"
        /\ 1 \in 1 .. Len(path) /\ 2 \in 1 .. Len(path) /\ 3 \in 1 .. Len(path)
    BY <2>1
  <2> HIDE DEF path
  <2>6. CyclesOf(path) >= 9 /\ CyclesOf(path) \in Nat
    BY <2>5, ThreeAtLeast, Costs, PathCosts
  <2>7. CharCycles <= CyclesOf(path) + Ind
    BY <2>6, IndIs
  <2>8. "BLNKN" \in IsrOf("driver") \ {"none"}
    BY DEF IsrOf
  <2> QED BY <1>1, <2>2, <2>3, <2>4, <2>5, <2>7, <2>8 DEF Spend
<1>8. CASE RPDONE
  <2> DEFINE path == <<"pop", "mem", "pop2", "skip", "ret">>
  <2>1. path \in Seq(Instruction)
    BY DEF Instruction
  <2>2. Spend(path) /\ busy' = busy
    BY <1>8 DEF RPDONE, driverVars
  <2> HIDE DEF path
  <2>3. PICK from \in {"FEED", "RPDONE"} : Goes("isr", from, "none")
    BY <1>8 DEF RPDONE
  <2> QED BY <1>1, <2>1, <2>2, <2>3 DEF Spend, IsrOf, Plain, Writing
<1> QED BY <1>3, <1>4, <1>5, <1>6, <1>7, <1>8

(* Calling, feeding and computing.                                         *)
LEMMA CallsLand ==
  ASSUME MachineCosts, PacedInv, program' = program, Landing, NEW c, DPut(c) \/ FEED(c) \/ Compute
  PROVE  Landing'
<1>1. busy' = busy
  BY DEF DPut, FEED, Compute, driverVars
<1>2. Call(c) \in Seq(Instruction) /\ <<"mem", "mem">> \in Seq(Instruction)
      /\ <<"isz", "jmp">> \in Seq(Instruction)
  BY CallIsPath DEF Instruction
<1>3. CASE DPut(c)
  <2>1. Spend(Call(c)) /\ Goes("main", "IDLE", "BUSY")
    BY <1>3 DEF DPut
  <2> QED BY <1>1, <1>2, <2>1, PrintSpends DEF Who, Plain, PrintsAt, Starting
<1>4. CASE FEED(c)
  <2>1. <<"mem", "mem">> \o Call(c) \in Seq(Instruction)
    BY <1>2, PathJoins
  <2> DEFINE path == <<"mem", "mem">> \o Call(c)
  <2>2. path \in Seq(Instruction) /\ Spend(path) /\ Goes("isr", "FEED", "BUSY")
    BY <1>4, <2>1 DEF FEED
  <2> HIDE DEF path
  <2> QED BY <1>1, <2>2, PrintSpends DEF Who, Plain, PrintsAt, Starting
<1>5. CASE Compute
  <2>1. PICK path \in {<<"isz", "jmp">>, <<"mem", "mem">>} : Spend(path) /\ Goes("main", "IDLE", "IDLE")
    BY <1>5 DEF Compute
  <2>2. path \in Seq(Instruction)
    BY <1>2, <2>1
  <2> QED BY <1>1, <2>1, <2>2, PrintSpends DEF Who, Plain, Return
<1> QED BY <1>3, <1>4, <1>5

(* Between two calls there is only time.                                   *)
LEMMA IdleLands ==
  ASSUME MachineCosts, Placed, Placed', program # "driver", program' = program, Landing, Sleep \/ Compute
  PROVE  Landing'
<1>1. /\ <<"mem", "reg">> \in Seq(Instruction) /\ <<"reg">> \in Seq(Instruction)
      /\ <<"isz", "jmp">> \in Seq(Instruction) /\ <<"mem", "mem">> \in Seq(Instruction)
  BY DEF Instruction
<1>2. \E c \in Nat : Waits(c)
  <2>1. CASE \E path \in Seq(Instruction) : Elapse(path) /\ UNCHANGED screenVars
    BY <2>1, ElapseWaits
  <2>2. CASE Stall
    <3>1. Waits(1)
      BY <2>2 DEF Stall, Waits, screenVars
    <3> QED BY <3>1
  <2>3. Stall \/ \E path \in Seq(Instruction) : Elapse(path) /\ UNCHANGED screenVars
    BY <1>1 DEF Sleep, Compute, LoadTimer, ArmTimer, Spend
  <2> QED BY <2>1, <2>2, <2>3
<1>3. CASE program = "focal"
  <2>1. at.main = "IDLE" /\ at'.main = "IDLE"
    BY <1>3 DEF Sleep, Compute, Goes, Placed, Who
  <2> QED BY <1>2, <1>3, <2>1, FocalWaits
<1>4. CASE program = "sleeper"
  <2>1. \A who \in Who : at'[who] \notin Writing
    BY <1>4 DEF Placed, MainOf, IsrOf, Writing, Who
  <2>2. Clear
    BY DEF Landing, Clear
  <2>3. Clear'
    BY <1>2, <2>2, Waiting
  <2> QED BY <1>4, <2>1, <2>3 DEF Landing, Clear
<1> QED BY <1>3, <1>4 DEF Placed

-----------------------------------------------------------------------------
LandInv == PacedAll /\ Landing

(* At the start the screen is clear.                                       *)
LEMMA LandStart == ASSUME TermInit PROVE LandInv
<1>1. at.main = "IDLE" /\ at.isr = "none"
  BY DEF TermInit
<1>2. scrollLeft = 0 /\ drawLeft = 0 /\ dropped = 0 /\ tooFast = 0 /\ CharCycles \in Nat
  BY DevicesAssumption DEF TermInit, DevicesInit
<1>3. Landing
  BY <1>1, <1>2 DEF Landing, Who, Writing
<1> QED BY <1>3, PacedStart DEF LandInv

(* Every step keeps every write on the screen.                             *)
LEMMA LandStep == ASSUME MachineCosts, LandInv, [TermNext]_termVars PROVE LandInv'
<1>1. PacedAll'
  BY PacedStep DEF LandInv
<1>2. CASE UNCHANGED termVars
  <2>1. Landing'
    BY <1>2 DEF termVars, devVars, screenVars, driverVars, LandInv, Landing, CyclesOf
  <2> QED BY <1>1, <2>1 DEF LandInv
<1>3. CASE TermNext
  <2>1. program' = program /\ Placed /\ Placed' /\ Landing
    BY <1>1, <1>3 DEF TermNext, PacedAll, LandInv
  <2>2. CASE program = "driver"
    <3> SUFFICES Landing'
      BY <1>1 DEF LandInv
    <3>1. PacedInv
      BY <2>2 DEF LandInv, PacedAll
    <3>2. Driver \/ Compute
      BY <1>3, <2>1, <2>2, FocalIsElse DEF TermNext
    <3>3. CASE Compute
      BY <2>1, <3>1, <3>3, CallsLand
    <3>4. CASE \E c \in Chars : DPut(c) \/ FEED(c)
      BY <2>1, <3>1, <3>4, CallsLand
    <3>5. ASSUME NEW who \in Who,
                 \/ TestBusy(who) \/ WAITRDY(who) \/ PCDIR(who) \/ PCRET(who) \/ NLNOW(who)
                 \/ TSTART(who) \/ TARM(who) \/ SetBusy(who)
          PROVE  Landing'
      BY <2>1, <3>1, <3>5, TestBusyLands, WaitLands, DirectLands, NewlineLands, StartLands
    <3>6. CASE DONE \/ TACK \/ SETUP \/ BLNK \/ BLNKN \/ RPDONE
      BY <2>1, <3>1, <3>6, CompletionLands
    <3> QED BY <3>2, <3>3, <3>4, <3>5, <3>6 DEF Driver, Who
  <2>3. CASE program # "driver"
    <3>1. ~Driver
      BY <2>1, <2>3, DriverIsElse
    <3>2. Focal \/ KBDISR \/ KMOD \/ KACK \/ Sleep \/ Compute
      BY <1>3, <3>1 DEF TermNext
    <3>3. CASE Focal
      <4>1. program = "focal"
        BY <2>1, <3>3, Labels DEF Focal, PUTC, STORE, NEXT, PNL1, PNLN, SCRL, SCRLW, SCRLF, SCRLN,
                                   Goes, MainOf
      <4>2. Landing'
        BY <2>1, <3>3, <4>1, FocalLands
      <4> QED BY <1>1, <4>2 DEF LandInv
    <3>4. CASE KBDISR \/ KMOD \/ KACK
      BY <1>1, <2>1, <3>4, HandlerLands DEF LandInv
    <3>5. CASE Sleep \/ Compute
      BY <1>1, <2>1, <2>3, <3>5, IdleLands DEF LandInv
    <3> QED BY <3>2, <3>3, <3>4, <3>5
  <2> QED BY <2>2, <2>3
<1> QED BY <1>2, <1>3

(* No write to the framebuffer is lost, whatever the size of the screen,   *)
(* the length of a scroll and what is printed and typed, by a processor    *)
(* whose instructions take what machine.py says and a cell counter that is *)
(* deaf for no longer than the shortest loop that writes takes to come     *)
(* round.                                                                  *)
THEOREM WritesLand == MachineCosts => (TermSpec => []NoCellLost)
<1> SUFFICES ASSUME MachineCosts PROVE TermSpec => []NoCellLost
  OBVIOUS
<1>1. TermInit => LandInv
  BY LandStart
<1>2. LandInv /\ [TermNext]_termVars => LandInv'
  BY LandStep
<1>3. LandInv => NoCellLost
  BY DEF LandInv, Landing, NoCellLost
<1> QED BY <1>1, <1>2, <1>3, PTL DEF TermSpec

-----------------------------------------------------------------------------
(* The paper a teletype would print on.  What follows up to the screen is  *)
(* of any text; the pen stands at Pen when the text is printed.            *)
Texts == Seq(Chars)
Pen(text) == Paper(text)[Len(text)]

(* The row a place is in, whatever the width.                              *)
LEMMA RowOf ==
  ASSUME NEW p \in Nat
  PROVE  p \div Cols \in Nat /\ (p \div Cols) * Cols <= p /\ p < (p \div Cols) * Cols + Cols
<1>1. Cols \in Nat /\ Cols > 0
  BY DevicesAssumption
<1>2. p = Cols * (p \div Cols) + (p % Cols) /\ p % Cols \in 0 .. Cols - 1 /\ p \div Cols \in Int
  BY <1>1
<1>3. Cols * (p \div Cols) = (p \div Cols) * Cols
  BY <1>1, <1>2
<1>4. p \div Cols >= 0
  <2> SUFFICES ASSUME p \div Cols <= -1 PROVE FALSE
    BY <1>2
  <2> DEFINE q == p \div Cols
  <2>1. q \in Int /\ q <= -1 /\ p = Cols * q + (p % Cols)
    BY <1>2
  <2> HIDE DEF q
  <2>2. Cols * q <= Cols * (-1)
    BY <1>1, <2>1
  <2> QED BY <1>1, <1>2, <2>1, <2>2
<1> DEFINE row == p \div Cols
           start == row * Cols
<1>5. row \in Nat /\ p = start + (p % Cols) /\ start \in Int
  BY <1>1, <1>2, <1>3, <1>4
<1> HIDE DEF row, start
<1>6. row \in Nat /\ start <= p /\ p < start + Cols
  BY <1>1, <1>2, <1>5
<1> QED BY <1>6 DEF row, start

(* Whatever lies between two row starts is in that row.                    *)
LEMMA RowIs ==
  ASSUME NEW p \in Nat, NEW r \in Nat, r * Cols <= p, p < r * Cols + Cols
  PROVE  p \div Cols = r
<1> DEFINE q == p \div Cols
<1>1. q \in Nat /\ q * Cols <= p /\ p < q * Cols + Cols /\ Cols \in Nat /\ Cols > 0
  BY RowOf, DevicesAssumption
<1> HIDE DEF q
<1>2. CASE q < r
  <2>1. (q + 1) * Cols <= r * Cols /\ (q + 1) * Cols = q * Cols + Cols
    BY <1>1, <1>2
  <2> QED BY <1>1, <2>1
<1>3. CASE r < q
  <2>1. (r + 1) * Cols <= q * Cols /\ (r + 1) * Cols = r * Cols + Cols
    BY <1>1, <1>3
  <2> QED BY <1>1, <2>1
<1> QED BY <1>1, <1>2, <1>3 DEF q

(* A character takes the pen on, a newline to the row below.               *)
LEMMA BeyondIs ==
  ASSUME NEW p \in Nat, NEW c
  PROVE  /\ Beyond(p, c) \in Nat /\ p < Beyond(p, c)
         /\ c # NL => Beyond(p, c) = p + 1
         /\ c = NL => \E r \in Nat : /\ Beyond(p, c) = r * Cols + Cols
                                     /\ r * Cols <= p /\ p < r * Cols + Cols
<1>1. Cols \in Nat /\ Cols > 0
  BY DevicesAssumption
<1> DEFINE r == p \div Cols
<1>2. r \in Nat /\ r * Cols <= p /\ p < r * Cols + Cols
  BY RowOf
<1>3. Beyond(p, c) = IF c = NL THEN (r + 1) * Cols ELSE p + 1
  BY DEF Beyond
<1> HIDE DEF r
<1>4. (r + 1) * Cols = r * Cols + Cols /\ r * Cols + Cols \in Nat
  BY <1>1, <1>2
<1> QED BY <1>2, <1>3, <1>4

(* A function that puts every character of the text beyond the one before. *)
Writes(g, text) ==
  g = [k \in 0 .. Len(text) |-> IF k = 0 THEN 0 ELSE Beyond(g[k - 1], text[k])]

(* There is one.                                                           *)
LEMMA PaperExists == ASSUME NEW text \in Texts PROVE \E g : Writes(g, text)
<1> DEFINE n == Len(text)
           Upto(g, m) == /\ g \in [0 .. n -> Nat] /\ g[0] = 0
                         /\ \A k \in 1 .. m : g[k] = Beyond(g[k - 1], text[k])
           Far == {m \in 0 .. n : \E g : Upto(g, m)}
<1>1. n \in Nat
  BY DEF Texts
<1> HIDE DEF n
<1>2. 0 \in Far
  <2> DEFINE g == [k \in 0 .. n |-> 0]
  <2>1. Upto(g, 0)
    BY <1>1
  <2>2. 0 \in 0 .. n
    BY <1>1
  <2> HIDE DEF g, Upto
  <2> QED BY <2>1, <2>2
<1>3. ASSUME NEW m \in 0 .. n - 1, m \in Far PROVE m + 1 \in Far
  <2>1. PICK g : Upto(g, m)
    BY <1>3
  <2> DEFINE v == Beyond(g[m], text[m + 1])
             h == [g EXCEPT ![m + 1] = v]
  <2>2. v \in Nat /\ m + 1 \in 0 .. n
    <3>1. g[m] \in Nat /\ m + 1 \in 0 .. n
      BY <2>1, <1>1
    <3> QED BY <3>1, BeyondIs
  <2>3. h \in [0 .. n -> Nat] /\ h[0] = 0 /\ h[m + 1] = v
    <3> HIDE DEF v
    <3> QED BY <2>1, <2>2, <1>1
  <2>4. \A k \in 0 .. n : k # m + 1 => h[k] = g[k]
    <3> HIDE DEF v
    <3> QED BY <2>1
  <2> HIDE DEF h
  <2>5. ASSUME NEW k \in 1 .. m + 1 PROVE h[k] = Beyond(h[k - 1], text[k])
    <3>1. CASE k = m + 1
      <4>1. k - 1 = m /\ h[m] = g[m]
        BY <3>1, <1>1, <2>4
      <4> QED BY <3>1, <4>1, <2>3
    <3>2. CASE k # m + 1
      <4>1. k \in 1 .. m /\ h[k] = g[k] /\ h[k - 1] = g[k - 1]
        BY <3>2, <1>1, <2>4
      <4> QED BY <4>1, <2>1
    <3> QED BY <3>1, <3>2
  <2>6. Upto(h, m + 1)
    BY <2>3, <2>5
  <2> HIDE DEF Upto
  <2> QED BY <2>6, <2>2
<1> HIDE DEF Far
<1>4. 0 .. n \subseteq Far
  BY <1>1, <1>2, <1>3, UpTo
<1>5. n \in Far
  BY <1>1, <1>4
<1>6. PICK g : Upto(g, n)
  BY <1>5 DEF Far
<1>7. g = [k \in 0 .. n |-> IF k = 0 THEN 0 ELSE Beyond(g[k - 1], text[k])]
  BY <1>1, <1>6
<1> QED BY <1>7 DEF Writes, n

(* The paper of a text: every character is printed beyond the one before,  *)
(* and so before the place where the pen is left.                          *)
LEMMA PaperIs ==
  ASSUME NEW text \in Texts
  PROVE  /\ Len(text) \in Nat
         /\ \A k \in 0 .. Len(text) : Paper(text)[k] \in Nat
         /\ Paper(text)[0] = 0
         /\ \A k \in 1 .. Len(text) : Paper(text)[k] = Beyond(Paper(text)[k - 1], text[k])
         /\ \A j \in 0 .. Len(text) : j < Len(text) => Paper(text)[j] < Paper(text)[Len(text)]
<1> DEFINE n == Len(text)
           g == Paper(text)
<1>1. n \in Nat
  BY DEF Texts
<1>2. Writes(g, text)
  <2>1. \E f : Writes(f, text)
    BY PaperExists
  <2>2. g = CHOOSE f : Writes(f, text)
    BY DEF Paper, Writes
  <2> HIDE DEF g
  <2> QED BY <2>1, <2>2
<1> HIDE DEF g
<1>3. g[0] = 0 /\ \A k \in 1 .. n : g[k] = Beyond(g[k - 1], text[k])
  BY <1>1, <1>2 DEF Writes
<1> HIDE DEF n
<1> DEFINE Good == {k \in 0 .. n : g[k] \in Nat /\ \A j \in 0 .. n : j < k => g[j] \in Nat /\ g[j] < g[k]}
<1>4. 0 \in Good
  BY <1>1, <1>3
<1>5. ASSUME NEW k \in 0 .. n - 1, k \in Good PROVE k + 1 \in Good
  <2>1. g[k + 1] = Beyond(g[k], text[k + 1])
    <3>1. k + 1 \in 1 .. n /\ (k + 1) - 1 = k
      BY <1>1
    <3> QED BY <3>1, <1>3
  <2>2. g[k] \in Nat /\ g[k + 1] \in Nat /\ g[k] < g[k + 1]
    BY <1>5, <2>1, BeyondIs
  <2>3. ASSUME NEW j \in 0 .. n, j < k + 1 PROVE g[j] \in Nat /\ g[j] < g[k + 1]
    <3>1. CASE j = k
      BY <3>1, <2>2
    <3>2. CASE j # k
      <4>1. j < k
        BY <2>3, <3>2, <1>1
      <4>2. g[j] \in Nat /\ g[j] < g[k]
        BY <1>5, <4>1
      <4> QED BY <4>2, <2>2
    <3> QED BY <3>1, <3>2
  <2> QED BY <1>1, <2>2, <2>3
<1> HIDE DEF Good
<1>6. 0 .. n \subseteq Good
  BY <1>1, <1>4, <1>5, UpTo
<1>7. \A k \in 0 .. n : g[k] \in Nat /\ \A j \in 0 .. n : j < k => g[j] \in Nat /\ g[j] < g[k]
  BY <1>6 DEF Good
<1>8. n \in 0 .. n
  BY <1>1
<1> QED BY <1>1, <1>3, <1>7, <1>8 DEF g, n

(* Printing one more leaves the paper before it as it was.                 *)
LEMMA PaperGrows ==
  ASSUME NEW text \in Texts, NEW c \in Chars
  PROVE  LET more == Append(text, c)
         IN  /\ more \in Texts /\ Len(more) = Len(text) + 1 /\ more[Len(more)] = c
             /\ \A k \in 1 .. Len(text) : more[k] = text[k]
             /\ \A k \in 0 .. Len(text) : Paper(more)[k] = Paper(text)[k]
             /\ Pen(more) = Beyond(Pen(text), c)
<1> DEFINE n == Len(text)
           more == Append(text, c)
           g == Paper(text)
           h == Paper(more)
<1>1. n \in Nat /\ more \in Texts /\ Len(more) = n + 1 /\ more[n + 1] = c
      /\ \A k \in 1 .. n : more[k] = text[k]
  BY DEF Texts
<1>2. g[0] = 0 /\ \A k \in 1 .. n : g[k] = Beyond(g[k - 1], text[k])
  BY PaperIs
<1> HIDE DEF more
<1>3. h[0] = 0 /\ \A k \in 1 .. n + 1 : h[k] = Beyond(h[k - 1], more[k])
  BY <1>1, PaperIs
<1> HIDE DEF n, g, h
<1> DEFINE Same == {k \in 0 .. n : h[k] = g[k]}
<1>4. 0 \in Same
  BY <1>1, <1>2, <1>3
<1>5. ASSUME NEW k \in 0 .. n - 1, k \in Same PROVE k + 1 \in Same
  <2>1. k + 1 \in 1 .. n /\ k + 1 \in 1 .. n + 1 /\ (k + 1) - 1 = k /\ k + 1 \in 0 .. n
    BY <1>1
  <2>2. h[k + 1] = Beyond(h[k], more[k + 1]) /\ g[k + 1] = Beyond(g[k], text[k + 1])
    BY <2>1, <1>2, <1>3
  <2> QED BY <1>1, <1>5, <2>1, <2>2
<1> HIDE DEF Same
<1>6. 0 .. n \subseteq Same
  BY <1>1, <1>4, <1>5, UpTo
<1>7. \A k \in 0 .. n : h[k] = g[k]
  BY <1>6 DEF Same
<1>8. h[n + 1] = Beyond(g[n], c)
  <2>1. n + 1 \in 1 .. n + 1 /\ (n + 1) - 1 = n /\ n \in 0 .. n
    BY <1>1
  <2> QED BY <1>1, <1>3, <1>7, <2>1
<1> QED BY <1>1, <1>7, <1>8 DEF n, g, h, more, Pen

(* A place is inked when a glyph was printed there.                        *)
Inked(text, p) == \E k \in DOMAIN text : text[k] = Glyph /\ Paper(text)[k - 1] = p

(* The paper shows a glyph where it is inked.                              *)
LEMMA PaperShows ==
  ASSUME NEW text, NEW p PROVE OnPaper(text, p) = IF Inked(text, p) THEN Glyph ELSE Blank
BY DEF OnPaper, Inked

(* Nothing is on the paper from the pen on.                                *)
LEMMA BlankAhead ==
  ASSUME NEW text \in Texts, NEW p \in Nat, Pen(text) <= p PROVE ~Inked(text, p)
<1> SUFFICES ASSUME NEW k \in 1 .. Len(text), Paper(text)[k - 1] = p PROVE FALSE
  BY DEF Inked, Texts
<1>1. Len(text) \in Nat /\ k - 1 \in 0 .. Len(text) /\ k - 1 < Len(text)
  BY PaperIs
<1>2. Paper(text)[k - 1] < Pen(text) /\ Pen(text) \in Nat
  BY <1>1, PaperIs DEF Pen
<1> QED BY <1>2

(* A glyph inks the place the pen was at and no other; a newline none.     *)
LEMMA InkedNext ==
  ASSUME NEW text \in Texts, NEW c \in Chars, NEW p
  PROVE  Inked(Append(text, c), p) <=> Inked(text, p) \/ (c = Glyph /\ p = Pen(text))
<1> DEFINE more == Append(text, c)
           n == Len(text)
<1>1. /\ n \in Nat /\ more \in Texts /\ Len(more) = n + 1 /\ more[n + 1] = c
      /\ \A k \in 1 .. n : more[k] = text[k]
      /\ \A k \in 0 .. n : Paper(more)[k] = Paper(text)[k]
  BY PaperGrows, PaperIs
<1>2. DOMAIN text = 1 .. n /\ DOMAIN more = 1 .. n + 1
  BY <1>1 DEF Texts
<1> HIDE DEF more, n
<1>3. ASSUME NEW k \in 1 .. n
      PROVE  more[k] = text[k] /\ Paper(more)[k - 1] = Paper(text)[k - 1] /\ k \in 1 .. n + 1
  <2>1. k - 1 \in 0 .. n /\ k \in 1 .. n + 1
    BY <1>1
  <2> QED BY <1>1, <2>1
<1>4. n + 1 \in 1 .. n + 1 /\ more[n + 1] = c /\ Paper(more)[(n + 1) - 1] = Pen(text)
  <2>1. (n + 1) - 1 = n /\ n \in 0 .. n /\ n + 1 \in 1 .. n + 1
    BY <1>1
  <2> QED BY <1>1, <2>1 DEF Pen, n
<1>5. ASSUME NEW k \in 1 .. n + 1 PROVE k \in 1 .. n \/ k = n + 1
  BY <1>1
<1>6. Inked(more, p) => Inked(text, p) \/ (c = Glyph /\ p = Pen(text))
  <2> SUFFICES ASSUME NEW k \in 1 .. n + 1, more[k] = Glyph, Paper(more)[k - 1] = p
               PROVE  Inked(text, p) \/ (c = Glyph /\ p = Pen(text))
    BY <1>2 DEF Inked
  <2> QED BY <1>2, <1>3, <1>4, <1>5 DEF Inked
<1>7. Inked(text, p) => Inked(more, p)
  BY <1>2, <1>3 DEF Inked
<1>8. c = Glyph /\ p = Pen(text) => Inked(more, p)
  BY <1>2, <1>4 DEF Inked
<1> QED BY <1>6, <1>7, <1>8 DEF more

-----------------------------------------------------------------------------
(* Where the screen's first cell is on the paper when the pen is at p.     *)
Top(p) == (IF p \div Cols > LastRow THEN p \div Cols - LastRow ELSE 0) * Cols

(* A screen is its last row after the others.                              *)
LEMMA SizeIs ==
  /\ Cols \in Nat /\ Cols > 0 /\ Size \in Nat /\ LastRow \in Nat
  /\ Cells = 0 .. Size - 1 /\ LastRow * Cols = Size - Cols /\ Cols <= Size
<1>1. Cols \in Nat /\ Cols > 0 /\ Rows \in Nat /\ Rows > 0
  BY DevicesAssumption
<1>2. LastRow \in Nat /\ Rows = LastRow + 1
  BY <1>1 DEF LastRow
<1>3. Rows * Cols = LastRow * Cols + Cols /\ LastRow * Cols \in Nat
  BY <1>1, <1>2
<1> QED BY <1>1, <1>2, <1>3 DEF Size, Cells

(* The pen is on the screen, in the last row once anything has gone.       *)
LEMMA TopFacts ==
  ASSUME NEW p \in Nat
  PROVE  /\ Top(p) \in Nat /\ Top(p) <= p /\ p - Top(p) < Size
         /\ Top(p) = 0 \/ Size - Cols <= p - Top(p)
         /\ \E t \in Nat : Top(p) = t * Cols
<1> DEFINE r == p \div Cols
<1>1. r \in Nat /\ r * Cols <= p /\ p < r * Cols + Cols
  BY RowOf
<1>2. Top(p) = (IF r > LastRow THEN r - LastRow ELSE 0) * Cols
  BY DEF Top
<1> HIDE DEF r
<1>3. CASE r > LastRow
  <2>1. r - LastRow \in Nat /\ Top(p) = (r - LastRow) * Cols
    BY <1>1, <1>2, <1>3, SizeIs
  <2>2. (r - LastRow) * Cols = r * Cols - LastRow * Cols /\ (r - LastRow) * Cols \in Nat
    BY <1>1, <2>1, SizeIs
  <2>3. Top(p) = r * Cols - (Size - Cols) /\ Top(p) \in Nat
    BY <2>1, <2>2, SizeIs
  <2> DEFINE s == r * Cols
  <2>4. s \in Nat /\ s <= p /\ p < s + Cols /\ Top(p) = s - (Size - Cols) /\ Top(p) \in Nat
    BY <1>1, <2>3, SizeIs
  <2> HIDE DEF s
  <2>5. /\ Top(p) \in Nat /\ Top(p) <= p /\ p - Top(p) < Size
        /\ Size - Cols <= p - Top(p)
    BY <2>4, SizeIs
  <2> QED BY <2>5, <2>1
<1>4. CASE ~(r > LastRow)
  <2>1. Top(p) = 0 * Cols /\ 0 * Cols = 0
    BY <1>2, <1>4, SizeIs
  <2>2. r * Cols <= LastRow * Cols
    BY <1>1, <1>4, SizeIs
  <2>3. p < Size
    BY <1>1, <2>2, SizeIs
  <2> QED BY <2>1, <2>3
<1> QED BY <1>3, <1>4

(* Nothing else is a whole number of rows that shows the pen so.           *)
LEMMA TopIs ==
  ASSUME NEW p \in Nat, NEW t \in Nat, t * Cols <= p, p - t * Cols < Size,
         t = 0 \/ Size - Cols <= p - t * Cols
  PROVE  Top(p) = t * Cols
<1>1. CASE t = 0
  <2>1. 0 * Cols = 0 /\ p < Size
    BY <1>1, SizeIs
  <2> DEFINE r == p \div Cols
  <2>2. r \in Nat /\ r * Cols <= p /\ p < r * Cols + Cols /\ r * Cols \in Nat
    BY RowOf, SizeIs
  <2>3. Top(p) = (IF r > LastRow THEN r - LastRow ELSE 0) * Cols
    BY DEF Top
  <2> HIDE DEF r
  <2>4. ~(r > LastRow)
    <3> SUFFICES ASSUME r >= LastRow + 1 PROVE FALSE
      BY <2>2, SizeIs
    <3>1. (LastRow + 1) * Cols <= r * Cols /\ (LastRow + 1) * Cols = LastRow * Cols + Cols
      BY <2>2, SizeIs
    <3> QED BY <3>1, <2>1, <2>2, SizeIs
  <2> QED BY <1>1, <2>3, <2>4
<1>2. CASE t > 0
  <2> DEFINE r == t + LastRow
             s == t * Cols
  <2>1. r \in Nat /\ r * Cols = s + (Size - Cols) /\ s \in Nat
    <3>1. (t + LastRow) * Cols = t * Cols + LastRow * Cols /\ t * Cols \in Nat
      BY SizeIs
    <3> QED BY <3>1, SizeIs
  <2>2. s <= p /\ p - s < Size /\ Size - Cols <= p - s
    BY <1>2
  <2> HIDE DEF s
  <2>3. r * Cols <= p /\ p < r * Cols + Cols
    BY <2>1, <2>2, SizeIs
  <2>4. p \div Cols = r
    BY <2>1, <2>3, RowIs
  <2>5. r > LastRow /\ r - LastRow = t
    BY <1>2, SizeIs
  <2> QED BY <2>4, <2>5 DEF Top
<1> QED BY <1>1, <1>2

(* Printing on in the same screen moves nothing.                           *)
LEMMA TopStays ==
  ASSUME NEW p \in Nat, NEW q \in Nat, p <= q, q - Top(p) < Size PROVE Top(q) = Top(p)
<1>1. PICK t \in Nat : Top(p) = t * Cols
  BY TopFacts
<1>2. Top(p) \in Nat /\ Top(p) <= p /\ (Top(p) = 0 \/ Size - Cols <= p - Top(p))
  BY TopFacts
<1>3. Top(p) = 0 => t = 0
  <2> SUFFICES ASSUME t > 0, t * Cols = 0 PROVE FALSE
    BY <1>1
  <2>1. 1 * Cols <= t * Cols
    BY SizeIs
  <2> QED BY <2>1, SizeIs
<1>4. /\ t * Cols <= q /\ q - t * Cols < Size
      /\ t = 0 \/ Size - Cols <= q - t * Cols
  <2>1. /\ Top(p) <= q /\ q - Top(p) < Size
        /\ t = 0 \/ Size - Cols <= q - Top(p)
    BY <1>2, <1>3, SizeIs
  <2> QED BY <1>1, <2>1
<1>5. Top(q) = t * Cols
  BY <1>4, TopIs
<1> QED BY <1>1, <1>5

(* The first place beyond the screen is where the screen goes up one row.  *)
LEMMA TopMoves ==
  ASSUME NEW p \in Nat, NEW q \in Nat, q = Top(p) + Size PROVE Top(q) = Top(p) + Cols
<1>1. PICK t \in Nat : Top(p) = t * Cols
  BY TopFacts
<1>2. (t + 1) * Cols = t * Cols + Cols /\ Top(p) \in Nat
  BY SizeIs, TopFacts
<1>3. (t + 1) * Cols = Top(p) + Cols
  BY <1>1, <1>2
<1>4. q - (Top(p) + Cols) = Size - Cols /\ Top(p) + Cols <= q /\ Size - Cols < Size
  BY <1>2, SizeIs
<1>5. Top(q) = (t + 1) * Cols
  <2> DEFINE u == t + 1
  <2>1. u \in Nat /\ u * Cols <= q /\ q - u * Cols < Size /\ Size - Cols <= q - u * Cols
    BY <1>3, <1>4, SizeIs
  <2> HIDE DEF u
  <2> QED BY <2>1, TopIs DEF u
<1> QED BY <1>3, <1>5

(* A row's end beyond the pen and not beyond a newline is the newline's.   *)
LEMMA RowEnd ==
  ASSUME NEW q \in Nat, NEW m \in Nat, q < m * Cols, m * Cols <= Beyond(q, NL)
  PROVE  m * Cols = Beyond(q, NL)
<1>1. PICK r \in Nat : Beyond(q, NL) = r * Cols + Cols /\ r * Cols <= q /\ q < r * Cols + Cols
  BY BeyondIs
<1>2. m > r
  <2> SUFFICES ASSUME m <= r PROVE FALSE
    BY <1>1
  <2>1. m * Cols <= r * Cols
    BY SizeIs
  <2> DEFINE x == m * Cols
             y == r * Cols
  <2>2. x \in Nat /\ y \in Nat /\ q < x /\ x <= y /\ y <= q
    BY <1>1, <2>1, SizeIs
  <2> HIDE DEF x, y
  <2> QED BY <2>2
<1>3. (r + 1) * Cols <= m * Cols /\ (r + 1) * Cols = r * Cols + Cols
  BY <1>1, <1>2, SizeIs
<1> DEFINE x == m * Cols
           y == r * Cols + Cols
<1>4. x \in Nat /\ y \in Nat /\ y <= x /\ x <= y /\ Beyond(q, NL) = y
  BY <1>1, <1>3, SizeIs
<1> HIDE DEF x, y
<1>5. x = Beyond(q, NL)
  BY <1>4
<1> QED BY <1>5 DEF x

(* A multiple of the width is one without a remainder.                     *)
LEMMA Multiples ==
  ASSUME NEW x \in Nat
  PROVE  x % Cols = 0 <=> \E m \in Nat : x = m * Cols
<1>1. x = Cols * (x \div Cols) + (x % Cols) /\ x \div Cols \in Nat /\ x % Cols \in Nat
  BY RowOf, SizeIs
<1>2. ASSUME x % Cols = 0 PROVE \E m \in Nat : x = m * Cols
  <2> DEFINE m == x \div Cols
  <2>1. m \in Nat /\ x = Cols * m
    BY <1>1, <1>2, SizeIs
  <2> HIDE DEF m
  <2>2. x = m * Cols
    BY <2>1, SizeIs
  <2> QED BY <2>1, <2>2
<1>3. ASSUME NEW m \in Nat, x = m * Cols PROVE x % Cols = 0
  <2>1. m * Cols <= x /\ x < m * Cols + Cols
    BY <1>3, SizeIs
  <2>2. x \div Cols = m
    BY <2>1, RowIs
  <2>3. Cols * m = m * Cols
    BY SizeIs
  <2> DEFINE rest == x % Cols
  <2>4. x = Cols * m + rest /\ rest \in Nat
    BY <1>1, <2>2
  <2> HIDE DEF rest
  <2>5. rest = 0
    BY <1>3, <2>3, <2>4, SizeIs
  <2> QED BY <2>5 DEF rest
<1> QED BY <1>2, <1>3

(* Feeding a line: the cursor's next cell is the newline's end, which is   *)
(* the end of a row of the screen, or it lies before it.                   *)
LEMMA Feeding ==
  ASSUME NEW q \in Nat, NEW c \in Nat,
         q <= c + Top(q), c + Top(q) < Beyond(q, NL)
  PROVE  /\ c + 1 = Size => c + 1 + Top(q) = Beyond(q, NL)
         /\ (c + 1) % Cols = 0 => c + 1 + Top(q) = Beyond(q, NL)
         /\ (c + 1) % Cols # 0 => c + 1 + Top(q) < Beyond(q, NL)
<1>1. PICK t \in Nat : Top(q) = t * Cols
  BY TopFacts
<1>2. PICK r \in Nat : Beyond(q, NL) = r * Cols + Cols /\ r * Cols <= q /\ q < r * Cols + Cols
  BY BeyondIs
<1>3. Top(q) \in Nat /\ Beyond(q, NL) \in Nat /\ c + 1 + Top(q) <= Beyond(q, NL) /\ q < c + 1 + Top(q)
  BY TopFacts, BeyondIs
<1>4. ASSUME NEW m \in Nat, c + 1 = m * Cols PROVE c + 1 + Top(q) = Beyond(q, NL)
  <2>1. (m + t) * Cols = m * Cols + t * Cols /\ m + t \in Nat
    BY SizeIs
  <2>2. (m + t) * Cols = c + 1 + Top(q)
    BY <1>1, <1>4, <2>1
  <2> DEFINE u == m + t
  <2>3. u \in Nat /\ q < u * Cols /\ u * Cols <= Beyond(q, NL)
    BY <1>3, <2>1, <2>2
  <2> HIDE DEF u
  <2>4. u * Cols = Beyond(q, NL)
    BY <2>3, RowEnd
  <2> QED BY <2>2, <2>4 DEF u
<1>5. \E m \in Nat : Size = m * Cols
  BY DevicesAssumption DEF Size
<1>6. ASSUME (c + 1) % Cols # 0 PROVE c + 1 + Top(q) < Beyond(q, NL)
  <2> SUFFICES ASSUME c + 1 + Top(q) = Beyond(q, NL) PROVE FALSE
    BY <1>3
  <2>1. c + 1 = (r * Cols + Cols) - t * Cols
    BY <1>1, <1>2, <1>3
  <2>2. r + 1 - t \in Int /\ (r + 1 - t) * Cols = (r * Cols + Cols) - t * Cols
    BY SizeIs
  <2> DEFINE m == r + 1 - t
  <2>3. m \in Int /\ c + 1 = m * Cols
    BY <2>1, <2>2
  <2> HIDE DEF m
  <2>4. m >= 0
    <3> SUFFICES ASSUME m <= -1 PROVE FALSE
      BY <2>3
    <3>1. m * Cols <= (-1) * Cols
      BY <2>3, SizeIs
    <3> QED BY <3>1, <2>3, SizeIs
  <2>5. (c + 1) % Cols = 0
    BY <2>3, <2>4, Multiples
  <2> QED BY <1>6, <2>5
<1>7. ASSUME (c + 1) % Cols = 0 PROVE c + 1 + Top(q) = Beyond(q, NL)
  BY <1>4, <1>7, Multiples
<1> QED BY <1>4, <1>5, <1>6, <1>7

-----------------------------------------------------------------------------
(* The screen against the paper: these cells show it from place o on.      *)
Like(scr, text, o, S) == \A k \in S : scr[k] = OnPaper(text, k + o)

(* A call in progress has a last character, and the text before it.        *)
Calling(text, c) == text \in Texts /\ out = Append(text, c)

(* How far a call has come, at each label of focal.s PUTC.                 *)
Between == curs + Top(Pen(out)) = Pen(out) /\ Like(screen, out, Top(Pen(out)), Cells)
Drawing ==
  \E text : /\ Calling(text, Glyph)
            /\ curs + Top(Pen(text)) = Pen(text)
            /\ Like(screen, out, Top(Pen(text)), IF at.main = "STORE" THEN Cells \ {curs} ELSE Cells)
Clearing ==
  \E text : /\ Calling(text, NL)
            /\ Pen(text) <= curs + Top(Pen(text)) /\ curs + Top(Pen(text)) < Pen(out)
            /\ Like(screen, out, Top(Pen(text)), Cells)
Scrolling ==
  /\ Pen(out) = Top(Pen(out)) + Size - Cols
  /\ at.main = "SCRL" => Like(screen, out, Top(Pen(out)) - Cols, Cells)
  /\ at.main = "SCRLW" => Like(screen, out, Top(Pen(out)), 0 .. Size - Cols - 1)
  /\ at.main = "SCRLF" => edge \in Size - Cols .. Size - 1 /\ Like(screen, out, Top(Pen(out)), 0 .. edge - 1)
  /\ at.main = "SCRLN" => edge \in Size - Cols .. Size - 1 /\ Like(screen, out, Top(Pen(out)), 0 .. edge)
Printed ==
  program = "focal" =>
    /\ out \in Texts /\ curs \in 0 .. Size
    /\ at.main \notin {"SCRL", "SCRLW", "SCRLF", "SCRLN"} => curs \in Cells
    /\ \E f : screen = [k \in Cells |-> f[k]]
    /\ at.main = "IDLE" => Between
    /\ at.main \in {"STORE", "NEXT"} => Drawing
    /\ at.main \in {"PNL1", "PNLN"} => Clearing
    /\ at.main \in {"SCRL", "SCRLW", "SCRLF", "SCRLN"} => Scrolling

(* The pen's place is a number, and the text's next one is beyond it.      *)
LEMMA PenIs ==
  ASSUME NEW text \in Texts
  PROVE  /\ Pen(text) \in Nat /\ Top(Pen(text)) \in Nat
         /\ \A c \in Chars : Pen(Append(text, c)) = Beyond(Pen(text), c)
<1>1. Len(text) \in 0 .. Len(text)
  BY PaperIs
<1>2. Pen(text) \in Nat
  BY <1>1, PaperIs DEF Pen
<1> QED BY <1>2, TopFacts, PaperGrows

(* FOCAL's writes reach the screen.                                        *)
LEMMA CellWritten ==
  ASSUME MachineCosts, Landing, at.main \in Writing, NEW place \in Cells, NEW ch,
         Write(<<"ind">>, place, ch)
  PROVE  screen' = [screen EXCEPT ![place] = ch]
<1> DEFINE path == <<"ind">>
<1>1. CyclesOf(path) \in Nat /\ Ind = CyclesOf(path)
  BY IndIs DEF Ind
<1>2. scrollLeft = 0 /\ drawLeft \in Nat /\ drawLeft <= CyclesOf(path)
  BY DEF Landing, Who
<1>3. Write(path, place, ch)
  BY DEF path
<1> HIDE DEF path
<1>4. ~BusyAfter(path) /\ ~DrawingAfter(path)
  BY <1>1, <1>2 DEF BusyAfter, DrawingAfter, Left
<1> QED BY <1>3, <1>4 DEF Write

(* PUTC: the character is on the teletype's paper, and not on the screen.  *)
LEMMA PutPrints ==
  ASSUME Printed, Placed, Placed', program = "focal", program' = program, NEW c \in Chars, PUTC(c)
  PROVE  Printed'
<1>1. /\ at.main = "IDLE" /\ at'.main = IF c = NL THEN "PNL1" ELSE "STORE"
      /\ out' = Append(out, c) /\ curs' = curs /\ screen' = screen
  BY DEF PUTC, Goes, Placed, Who, Spend, screenVars
<1>2. out \in Texts /\ curs \in Cells /\ Between
  BY <1>1 DEF Printed
<1>3. out' \in Texts /\ Pen(out) \in Nat /\ Top(Pen(out)) \in Nat /\ Pen(out') = Beyond(Pen(out), c)
  BY <1>1, <1>2, PaperGrows, PenIs
<1>4. ASSUME NEW k \in Cells, c = NL \/ k + Top(Pen(out)) # Pen(out)
      PROVE  screen'[k] = OnPaper(out', k + Top(Pen(out)))
  <2>1. Inked(out', k + Top(Pen(out))) <=> Inked(out, k + Top(Pen(out)))
    BY <1>1, <1>2, <1>4, InkedNext DEF NL, Glyph
  <2> QED BY <1>1, <1>2, <2>1, PaperShows DEF Between, Like
<1>5. CASE c = NL
  <2>1. Pen(out) < Pen(out') /\ curs + Top(Pen(out)) = Pen(out)
    BY <1>2, <1>3, BeyondIs DEF Between
  <2>2. Like(screen', out', Top(Pen(out)), Cells)
    BY <1>4, <1>5 DEF Like
  <2>3. Clearing'
    BY <1>1, <1>2, <1>3, <1>5, <2>1, <2>2 DEF Clearing, Calling
  <2> QED BY <1>1, <1>2, <1>3, <1>5, <2>3 DEF Printed, Cells
<1>6. CASE c # NL
  <2>1. c = Glyph /\ at'.main = "STORE"
    BY <1>1, <1>6 DEF Chars
  <2>2. ASSUME NEW k \in Cells \ {curs} PROVE k + Top(Pen(out)) # Pen(out)
    BY <1>2, <1>3, SizeIs DEF Between
  <2>3. Like(screen', out', Top(Pen(out)), Cells \ {curs})
    BY <1>4, <2>2 DEF Like
  <2>4. Drawing'
    BY <1>1, <1>2, <2>1, <2>3 DEF Drawing, Calling, Between
  <2> QED BY <1>1, <1>2, <1>3, <2>1, <2>4 DEF Printed
<1> QED BY <1>5, <1>6

(* A screen with one cell written is a screen.                             *)
LEMMA StillScreen ==
  ASSUME NEW f, screen = [k \in Cells |-> f[k]], NEW place \in Cells, NEW ch,
         screen' = [screen EXCEPT ![place] = ch]
  PROVE  /\ \E g : screen' = [k \in Cells |-> g[k]]
         /\ screen'[place] = ch /\ \A k \in Cells : k # place => screen'[k] = screen[k]
<1>1. screen' = [k \in Cells |-> screen'[k]]
  OBVIOUS
<1> QED BY <1>1

(* The glyph's write puts on the screen what is on the paper.              *)
LEMMA StorePrints ==
  ASSUME MachineCosts, Landing, Printed, Placed, Placed', program = "focal", program' = program, STORE
  PROVE  Printed'
<1>1. /\ at.main = "STORE" /\ at'.main = "NEXT" /\ out' = out /\ curs' = curs
      /\ Write(<<"ind">>, curs, Glyph)
  BY DEF STORE, Goes, Placed, Who
<1>2. out \in Texts /\ curs \in Cells /\ Drawing
  BY <1>1 DEF Printed
<1>3. PICK f : screen = [k \in Cells |-> f[k]]
  BY DEF Printed
<1>4. screen' = [screen EXCEPT ![curs] = Glyph]
  BY <1>1, <1>2, CellWritten DEF Writing
<1>5. /\ \E g : screen' = [k \in Cells |-> g[k]]
      /\ screen'[curs] = Glyph /\ \A k \in Cells : k # curs => screen'[k] = screen[k]
  BY <1>2, <1>3, <1>4, StillScreen
<1>6. PICK text : /\ Calling(text, Glyph) /\ curs + Top(Pen(text)) = Pen(text)
                  /\ Like(screen, out, Top(Pen(text)), Cells \ {curs})
  BY <1>1, <1>2 DEF Drawing
<1>7. OnPaper(out, Pen(text)) = Glyph
  <2>1. Inked(out, Pen(text))
    BY <1>6, InkedNext DEF Calling, Chars
  <2> QED BY <2>1, PaperShows
<1>8. Like(screen', out', Top(Pen(text)), Cells)
  BY <1>1, <1>5, <1>6, <1>7 DEF Like
<1>9. Drawing'
  BY <1>1, <1>6, <1>8 DEF Drawing, Calling
<1> QED BY <1>1, <1>2, <1>5, <1>9 DEF Printed, Cells

(* After the last cell of the screen the top moves; otherwise it stays.    *)
LEMMA CursorAdvances ==
  ASSUME NEW text \in Texts, Pen(out) \in Nat, out \in Texts, curs \in Cells,
         Like(screen, out, Top(Pen(text)), Cells),
         Pen(text) <= Pen(out), curs + 1 + Top(Pen(text)) = Pen(out)
  PROVE  /\ curs + 1 = Size =>
              /\ Pen(out) = Top(Pen(out)) + Size - Cols
              /\ Like(screen, out, Top(Pen(out)) - Cols, Cells)
         /\ curs + 1 # Size =>
              /\ curs + 1 \in Cells /\ curs + 1 + Top(Pen(out)) = Pen(out)
              /\ Like(screen, out, Top(Pen(out)), Cells)
<1>1. Pen(text) \in Nat /\ Top(Pen(text)) \in Nat /\ curs \in Nat /\ curs + 1 <= Size /\ curs + 1 \in Nat
  BY PenIs, SizeIs
<1>2. CASE curs + 1 = Size
  <2>1. Top(Pen(out)) = Top(Pen(text)) + Cols
    BY <1>1, <1>2, SizeIs, TopMoves
  <2>2. Top(Pen(out)) - Cols = Top(Pen(text)) /\ Pen(out) = Top(Pen(out)) + Size - Cols
    BY <1>1, <1>2, <2>1, SizeIs
  <2> QED BY <1>2, <2>2
<1>3. CASE curs + 1 # Size
  <2>1. curs + 1 < Size /\ curs + 1 \in Cells /\ Pen(out) - Top(Pen(text)) < Size
    BY <1>1, <1>3, SizeIs
  <2>2. Top(Pen(out)) = Top(Pen(text))
    BY <1>1, <2>1, TopStays
  <2> QED BY <1>3, <2>1, <2>2
<1> QED BY <1>2, <1>3

(* The cursor follows the pen, and past the screen the scroll begins.      *)
LEMMA NextPrints ==
  ASSUME Printed, Placed, Placed', program = "focal", program' = program, NEXT
  PROVE  Printed'
<1>1. /\ at.main = "NEXT" /\ at'.main = IF curs + 1 = Size THEN "SCRL" ELSE "IDLE"
      /\ out' = out /\ curs' = curs + 1 /\ screen' = screen
  BY DEF NEXT, Goes, Placed, Who, Spend, screenVars, AtEnd
<1>2. out \in Texts /\ curs \in Cells /\ Drawing
  BY <1>1 DEF Printed
<1>3. PICK text : /\ Calling(text, Glyph) /\ curs + Top(Pen(text)) = Pen(text)
                  /\ Like(screen, out, Top(Pen(text)), Cells)
  BY <1>1, <1>2 DEF Drawing
<1>4. text \in Texts /\ Pen(text) \in Nat /\ Top(Pen(text)) \in Nat /\ Pen(out) = Pen(text) + 1
  <2>1. text \in Texts /\ Pen(text) \in Nat /\ Top(Pen(text)) \in Nat /\ Pen(out) = Beyond(Pen(text), Glyph)
    BY <1>3, PenIs DEF Calling, Chars
  <2> QED BY <2>1, BeyondIs DEF Glyph, NL
<1>5. curs + 1 + Top(Pen(text)) = Pen(out) /\ Pen(text) <= Pen(out) /\ Pen(out) \in Nat
      /\ curs + 1 \in 0 .. Size
  BY <1>2, <1>3, <1>4, SizeIs
<1>6. /\ curs + 1 = Size =>
           /\ Pen(out) = Top(Pen(out)) + Size - Cols
           /\ Like(screen, out, Top(Pen(out)) - Cols, Cells)
      /\ curs + 1 # Size =>
           /\ curs + 1 \in Cells /\ curs + 1 + Top(Pen(out)) = Pen(out)
           /\ Like(screen, out, Top(Pen(out)), Cells)
  BY <1>2, <1>3, <1>4, <1>5, CursorAdvances
<1>7. CASE curs + 1 = Size
  <2>1. Scrolling'
    BY <1>1, <1>6, <1>7 DEF Scrolling
  <2> QED BY <1>1, <1>2, <1>5, <1>7, <2>1 DEF Printed
<1>8. CASE curs + 1 # Size
  <2>1. Between'
    BY <1>1, <1>6, <1>8 DEF Between
  <2> QED BY <1>1, <1>2, <1>5, <1>6, <1>8, <2>1 DEF Printed
<1> QED BY <1>7, <1>8

(* Blanking the rest of a row leaves it as blank as the paper.             *)
LEMMA BlankPrints ==
  ASSUME MachineCosts, Landing, Printed, Placed, Placed', program = "focal", program' = program, PNL1
  PROVE  Printed'
<1>1. /\ at.main = "PNL1" /\ at'.main = "PNLN" /\ out' = out /\ curs' = curs
      /\ Write(<<"ind">>, curs, Blank)
  BY DEF PNL1, Goes, Placed, Who
<1>2. out \in Texts /\ curs \in Cells /\ Clearing
  BY <1>1 DEF Printed
<1>3. PICK f : screen = [k \in Cells |-> f[k]]
  BY DEF Printed
<1>4. screen' = [screen EXCEPT ![curs] = Blank]
  BY <1>1, <1>2, CellWritten DEF Writing
<1>5. /\ \E g : screen' = [k \in Cells |-> g[k]]
      /\ screen'[curs] = Blank /\ \A k \in Cells : k # curs => screen'[k] = screen[k]
  BY <1>2, <1>3, <1>4, StillScreen
<1>6. PICK text : /\ Calling(text, NL)
                  /\ Pen(text) <= curs + Top(Pen(text)) /\ curs + Top(Pen(text)) < Pen(out)
                  /\ Like(screen, out, Top(Pen(text)), Cells)
  BY <1>1, <1>2 DEF Clearing
<1>7. OnPaper(out, curs + Top(Pen(text))) = Blank
  <2> DEFINE p == curs + Top(Pen(text))
  <2>1. p \in Nat /\ Pen(text) <= p
    BY <1>2, <1>6, PenIs, SizeIs DEF Calling
  <2> HIDE DEF p
  <2>2. ~Inked(text, p)
    BY <1>6, <2>1, BlankAhead DEF Calling
  <2>3. ~Inked(out, p)
    BY <1>6, <2>2, InkedNext DEF Calling, Chars, NL, Glyph
  <2> QED BY <2>3, PaperShows DEF p
<1>8. Like(screen', out', Top(Pen(text)), Cells)
  BY <1>1, <1>5, <1>6, <1>7 DEF Like
<1>9. Clearing'
  BY <1>1, <1>6, <1>8 DEF Clearing, Calling
<1> QED BY <1>1, <1>2, <1>5, <1>9 DEF Printed, Cells

(* A newline ends where the teletype's does, at the end of the row.        *)
LEMMA FeedPrints ==
  ASSUME Printed, Placed, Placed', program = "focal", program' = program, PNLN
  PROVE  Printed'
<1>1. /\ at.main = "PNLN" /\ out' = out /\ curs' = curs + 1 /\ screen' = screen
      /\ at'.main = IF curs + 1 = Size THEN "SCRL"
                    ELSE IF (curs + 1) % Cols = 0 THEN "IDLE" ELSE "PNL1"
  BY DEF PNLN, Goes, Placed, Who, Spend, screenVars, AtEnd
<1>2. out \in Texts /\ curs \in Cells /\ Clearing
  BY <1>1 DEF Printed
<1>3. PICK text : /\ Calling(text, NL)
                  /\ Pen(text) <= curs + Top(Pen(text)) /\ curs + Top(Pen(text)) < Pen(out)
                  /\ Like(screen, out, Top(Pen(text)), Cells)
  BY <1>1, <1>2 DEF Clearing
<1>4. /\ text \in Texts /\ Pen(text) \in Nat /\ Top(Pen(text)) \in Nat
      /\ Pen(out) = Beyond(Pen(text), NL) /\ Pen(out) \in Nat /\ Pen(text) <= Pen(out)
  <2>1. /\ text \in Texts /\ Pen(text) \in Nat /\ Top(Pen(text)) \in Nat
        /\ Pen(out) = Beyond(Pen(text), NL)
    BY <1>3, PenIs DEF Calling, Chars
  <2> QED BY <2>1, BeyondIs
<1>5. curs \in Nat /\ curs + 1 \in 0 .. Size
  BY <1>2, SizeIs
<1>6. /\ curs + 1 = Size => curs + 1 + Top(Pen(text)) = Pen(out)
      /\ (curs + 1) % Cols = 0 => curs + 1 + Top(Pen(text)) = Pen(out)
      /\ (curs + 1) % Cols # 0 => curs + 1 + Top(Pen(text)) < Pen(out)
  BY <1>3, <1>4, <1>5, Feeding
<1>7. ASSUME curs + 1 + Top(Pen(text)) = Pen(out)
      PROVE  /\ curs + 1 = Size =>
                  /\ Pen(out) = Top(Pen(out)) + Size - Cols
                  /\ Like(screen, out, Top(Pen(out)) - Cols, Cells)
             /\ curs + 1 # Size =>
                  /\ curs + 1 \in Cells /\ curs + 1 + Top(Pen(out)) = Pen(out)
                  /\ Like(screen, out, Top(Pen(out)), Cells)
  BY <1>2, <1>3, <1>4, <1>7, CursorAdvances
<1>8. CASE curs + 1 = Size
  <2>1. Scrolling'
    BY <1>1, <1>6, <1>7, <1>8 DEF Scrolling
  <2> QED BY <1>1, <1>2, <1>5, <1>8, <2>1 DEF Printed
<1>9. CASE curs + 1 # Size /\ (curs + 1) % Cols = 0
  <2>1. Between' /\ curs + 1 \in Cells
    BY <1>1, <1>6, <1>7, <1>9 DEF Between
  <2> QED BY <1>1, <1>2, <1>5, <1>9, <2>1 DEF Printed
<1>10. CASE curs + 1 # Size /\ (curs + 1) % Cols # 0
  <2>1. curs + 1 \in Cells
    BY <1>5, <1>10, SizeIs
  <2>2. Pen(text) <= curs + 1 + Top(Pen(text)) /\ curs + 1 + Top(Pen(text)) < Pen(out)
    BY <1>3, <1>4, <1>5, <1>6, <1>10
  <2>3. Clearing'
    BY <1>1, <1>3, <2>2 DEF Clearing, Calling
  <2> QED BY <1>1, <1>2, <1>5, <1>10, <2>1, <2>3 DEF Printed
<1> QED BY <1>8, <1>9, <1>10

(* The scroll moves the screen up a row, as the paper's window moves down. *)
LEMMA ScrollPrints ==
  ASSUME MachineCosts, Landing, Printed, Placed, Placed', program = "focal", program' = program, SCRL
  PROVE  Printed'
<1>1. /\ at.main = "SCRL" /\ at'.main = "SCRLW" /\ out' = out /\ curs' = curs
      /\ Scroll(<<"reg">>)
  BY DEF SCRL, Goes, Placed, Who
<1>2. out \in Texts /\ curs \in 0 .. Size /\ Scrolling
  BY <1>1 DEF Printed
<1>3. screen' = RowsUp
  <2>1. <<"reg">> \in Seq(Instruction)
    BY DEF Instruction
  <2>2. CyclesOf(<<"reg">>) \in Nat /\ scrollLeft = 0
    BY <1>1, <2>1, PathCosts DEF Landing
  <2>3. ~BusyAfter(<<"reg">>)
    BY <2>2 DEF BusyAfter, Left
  <2> QED BY <1>1, <2>3 DEF Scroll
<1>4. Pen(out) = Top(Pen(out)) + Size - Cols /\ Like(screen, out, Top(Pen(out)) - Cols, Cells)
      /\ Top(Pen(out)) \in Nat
  BY <1>1, <1>2, PenIs DEF Scrolling
<1>5. Like(screen', out', Top(Pen(out)), 0 .. Size - Cols - 1)
  <2> SUFFICES ASSUME NEW k \in 0 .. Size - Cols - 1
               PROVE  screen'[k] = OnPaper(out, k + Top(Pen(out)))
    BY <1>1 DEF Like
  <2>1. k \in Cells /\ k + Cols \in Cells /\ k + Cols + (Top(Pen(out)) - Cols) = k + Top(Pen(out))
    BY <1>4, SizeIs
  <2>2. screen'[k] = screen[k + Cols]
    BY <1>3, <2>1 DEF RowsUp
  <2> QED BY <1>4, <2>1, <2>2 DEF Like
<1>6. Scrolling'
  BY <1>1, <1>4, <1>5 DEF Scrolling
<1>7. \E f : screen' = [k \in Cells |-> f[k]]
  <2>1. screen' = [k \in Cells |-> screen'[k]]
    BY <1>3 DEF RowsUp
  <2> QED BY <2>1
<1> QED BY <1>1, <1>2, <1>6, <1>7 DEF Printed

(* Waiting for the blitter changes nothing on the screen.                  *)
LEMMA WaitPrints ==
  ASSUME Printed, Placed, Placed', program = "focal", program' = program, SCRLW
  PROVE  Printed'
<1>1. /\ at.main = "SCRLW" /\ at'.main = IF SkipsReady THEN "SCRLF" ELSE "SCRLW"
      /\ out' = out /\ curs' = curs /\ screen' = screen
      /\ SkipsReady => edge' = Size - Cols
  BY DEF SCRLW, Goes, Placed, Who, Spend, screenVars
<1>2. out \in Texts /\ curs \in 0 .. Size /\ Scrolling
  BY <1>1 DEF Printed
<1>3. Scrolling'
  BY <1>1, <1>2, SizeIs DEF Scrolling
<1> QED BY <1>1, <1>2, <1>3 DEF Printed

(* The new row is blanked cell by cell: there is nothing on the paper yet. *)
LEMMA FillPrints ==
  ASSUME MachineCosts, Landing, Printed, Placed, Placed', program = "focal", program' = program, SCRLF
  PROVE  Printed'
<1>1. /\ at.main = "SCRLF" /\ at'.main = "SCRLN" /\ out' = out /\ curs' = curs /\ edge' = edge
      /\ Write(<<"ind">>, edge, Blank)
  BY DEF SCRLF, Goes, Placed, Who
<1>2. out \in Texts /\ curs \in 0 .. Size /\ Scrolling
  BY <1>1 DEF Printed
<1>3. /\ Pen(out) = Top(Pen(out)) + Size - Cols /\ Top(Pen(out)) \in Nat /\ edge \in Size - Cols .. Size - 1
      /\ Like(screen, out, Top(Pen(out)), 0 .. edge - 1)
  BY <1>1, <1>2, PenIs DEF Scrolling
<1>4. edge \in Cells
  BY <1>3, SizeIs
<1>5. PICK f : screen = [k \in Cells |-> f[k]]
  BY DEF Printed
<1>6. screen' = [screen EXCEPT ![edge] = Blank]
  BY <1>1, <1>4, CellWritten DEF Writing
<1>7. /\ \E g : screen' = [k \in Cells |-> g[k]]
      /\ screen'[edge] = Blank /\ \A k \in Cells : k # edge => screen'[k] = screen[k]
  BY <1>4, <1>5, <1>6, StillScreen
<1>8. OnPaper(out, edge + Top(Pen(out))) = Blank
  <2> DEFINE p == edge + Top(Pen(out))
  <2>1. p \in Nat /\ Pen(out) <= p
    BY <1>3, SizeIs
  <2> HIDE DEF p
  <2>2. ~Inked(out, p)
    BY <1>2, <2>1, BlankAhead
  <2> QED BY <2>2, PaperShows DEF p
<1>9. Like(screen', out', Top(Pen(out)), 0 .. edge)
  <2> SUFFICES ASSUME NEW k \in 0 .. edge PROVE screen'[k] = OnPaper(out, k + Top(Pen(out)))
    BY <1>1 DEF Like
  <2>1. CASE k = edge
    BY <1>7, <1>8, <2>1
  <2>2. CASE k # edge
    <3>1. k \in Cells /\ k \in 0 .. edge - 1
      BY <1>3, <2>2, SizeIs
    <3> QED BY <1>3, <1>7, <2>2, <3>1 DEF Like
  <2> QED BY <2>1, <2>2
<1>10. Scrolling'
  BY <1>1, <1>3, <1>9 DEF Scrolling
<1> QED BY <1>1, <1>2, <1>7, <1>10 DEF Printed

(* With the row blank the screen shows the paper, the pen in its last row. *)
LEMMA RoundPrints ==
  ASSUME Printed, Placed, Placed', program = "focal", program' = program, SCRLN
  PROVE  Printed'
<1>1. /\ at.main = "SCRLN" /\ at'.main = IF edge + 1 = Size THEN "IDLE" ELSE "SCRLF"
      /\ out' = out /\ edge' = edge + 1 /\ screen' = screen
      /\ curs' = IF edge + 1 = Size THEN Size - Cols ELSE curs
  BY DEF SCRLN, Goes, Placed, Who, Spend, screenVars, AtEnd
<1>2. out \in Texts /\ curs \in 0 .. Size /\ Scrolling
  BY <1>1 DEF Printed
<1>3. /\ Pen(out) = Top(Pen(out)) + Size - Cols /\ Top(Pen(out)) \in Nat /\ edge \in Size - Cols .. Size - 1
      /\ Like(screen, out, Top(Pen(out)), 0 .. edge)
  BY <1>1, <1>2, PenIs DEF Scrolling
<1>4. CASE edge + 1 = Size
  <2>1. 0 .. edge = Cells /\ Size - Cols \in Cells
    BY <1>3, <1>4, SizeIs
  <2>2. Between'
    BY <1>1, <1>3, <1>4, <2>1, SizeIs DEF Between
  <2> QED BY <1>1, <1>2, <1>4, <2>1, <2>2, SizeIs DEF Printed
<1>5. CASE edge + 1 # Size
  <2>1. edge + 1 \in Size - Cols .. Size - 1 /\ (edge + 1) - 1 = edge
    BY <1>3, <1>5, SizeIs
  <2>2. Scrolling'
    BY <1>1, <1>3, <1>5, <2>1 DEF Scrolling
  <2> QED BY <1>1, <1>2, <1>5, <2>2 DEF Printed
<1> QED BY <1>4, <1>5

(* What is not printing leaves the screen and the paper alone.             *)
LEMMA OthersPrint ==
  ASSUME Printed, program' = program, at'.main = at.main, screen' = screen, out' = out, curs' = curs,
         edge' = edge
  PROVE  Printed'
<1>1. Between => Between'
  BY DEF Between
<1>2. Drawing => Drawing'
  BY DEF Drawing, Calling
<1>3. Clearing => Clearing'
  BY DEF Clearing, Calling
<1>4. Scrolling => Scrolling'
  BY DEF Scrolling
<1> QED BY <1>1, <1>2, <1>3, <1>4 DEF Printed

(* At the start the paper and the screen are blank.                        *)
LEMMA PrintStart == ASSUME TermInit PROVE Printed
<1>1. at.main = "IDLE" /\ curs = 0 /\ out = << >> /\ screen = [k \in Cells |-> Blank]
  BY DEF TermInit, DevicesInit
<1>2. out \in Texts /\ Len(out) = 0
  BY <1>1 DEF Texts
<1>3. Pen(out) = 0
  BY <1>2, PaperIs DEF Pen
<1>4. Top(0) = 0
  BY TopFacts
<1>5. \A k \in Cells : OnPaper(out, k + 0) = Blank
  <2> SUFFICES ASSUME NEW k \in Cells PROVE ~Inked(out, k + 0)
    BY PaperShows
  <2>1. k + 0 \in Nat
    BY SizeIs
  <2> QED BY <1>2, <1>3, <2>1, BlankAhead
<1>6. Between
  BY <1>1, <1>3, <1>4, <1>5 DEF Between, Like
<1>7. 0 \in Cells /\ 0 \in 0 .. Size
  BY SizeIs
<1>8. \E f : screen = [k \in Cells |-> f[k]]
  BY <1>1
<1> QED BY <1>1, <1>2, <1>6, <1>7, <1>8 DEF Printed

(* Every step keeps the screen with the paper.                             *)
LEMMA PrintStep ==
  ASSUME MachineCosts, LandInv, Printed, [TermNext]_termVars PROVE Printed'
<1>1. Placed /\ Landing /\ Placed'
  BY PacedStep DEF LandInv, PacedAll
<1>2. CASE UNCHANGED termVars
  <2>1. program' = program /\ at'.main = at.main /\ screen' = screen /\ out' = out /\ curs' = curs
        /\ edge' = edge
    BY <1>2 DEF termVars, devVars, screenVars
  <2> QED BY <2>1, OthersPrint
<1>3. CASE TermNext
  <2>1. program' = program
    BY <1>3 DEF TermNext
  <2>2. CASE program # "focal"
    BY <2>1, <2>2 DEF Printed
  <2>3. CASE program = "focal"
    <3>1. Focal \/ KBDISR \/ KMOD \/ KACK \/ Compute
      <4>1. ~Driver
        BY <1>1, <2>3, DriverIsElse
      <4> QED BY <1>3, <2>3, <4>1 DEF TermNext, Sleep
    <3>2. CASE Focal
      <4>1. CASE \E c \in Chars : PUTC(c)
        BY <1>1, <2>1, <2>3, <4>1, PutPrints
      <4>2. CASE STORE \/ NEXT
        BY <1>1, <2>1, <2>3, <4>2, StorePrints, NextPrints
      <4>3. CASE PNL1 \/ PNLN
        BY <1>1, <2>1, <2>3, <4>3, BlankPrints, FeedPrints
      <4>4. CASE SCRL \/ SCRLW
        BY <1>1, <2>1, <2>3, <4>4, ScrollPrints, WaitPrints
      <4>5. CASE SCRLF \/ SCRLN
        BY <1>1, <2>1, <2>3, <4>5, FillPrints, RoundPrints
      <4> QED BY <3>2, <4>1, <4>2, <4>3, <4>4, <4>5 DEF Focal
    <3>3. CASE KBDISR \/ KMOD \/ KACK
      <4>1. at'.main = at.main
        BY <1>1, <3>3 DEF KBDISR, KMOD, KACK, Goes, Placed, Who
      <4>2. screen' = screen /\ out' = out /\ curs' = curs /\ edge' = edge
        BY <3>3 DEF KBDISR, KMOD, KACK, Spend, AckKey, screenVars
      <4> QED BY <2>1, <4>1, <4>2, OthersPrint
    <3>4. CASE Compute
      <4>1. at'.main = at.main
        BY <1>1, <3>4 DEF Compute, Goes, Placed, Who
      <4>2. screen' = screen /\ out' = out /\ curs' = curs /\ edge' = edge
        BY <3>4 DEF Compute, Spend, screenVars
      <4> QED BY <2>1, <4>1, <4>2, OthersPrint
    <3> QED BY <3>1, <3>2, <3>3, <3>4
  <2> QED BY <2>2, <2>3
<1> QED BY <1>2, <1>3

(* Between two calls FOCAL's screen is the tail of the paper a teletype    *)
(* would have printed, whatever the screen's size and the characters       *)
(* printed and however often the keyboard interrupts, by a processor whose *)
(* instructions take what machine.py says.                                 *)
THEOREM ScreenIsTeletype == MachineCosts => (TermSpec => []Teletype)
<1> SUFFICES ASSUME MachineCosts PROVE TermSpec => []Teletype
  OBVIOUS
<1>1. TermInit => LandInv /\ Printed
  BY LandStart, PrintStart
<1>2. (LandInv /\ Printed) /\ [TermNext]_termVars => (LandInv /\ Printed)'
  BY LandStep, PrintStep
<1>3. LandInv /\ Printed => Teletype
  <2> SUFFICES ASSUME Printed, program = "focal", at.main = "IDLE"
               PROVE  screen = [k \in Cells |-> OnPaper(out, k + TopRow * Cols)]
    BY DEF Teletype
  <2>1. Between /\ \E f : screen = [k \in Cells |-> f[k]]
    BY DEF Printed
  <2>2. Top(Pen(out)) = TopRow * Cols
    BY DEF Top, Pen, TopRow
  <2> QED BY <2>1, <2>2 DEF Between, Like
<1> QED BY <1>1, <1>2, <1>3, PTL DEF TermSpec
=============================================================================
