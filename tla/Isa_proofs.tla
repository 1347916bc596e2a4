----------------------------- MODULE Isa_proofs -----------------------------
(***************************************************************************)
(* For every size of page and memory, every set of devices and every       *)
(* program: no instruction and no interrupt puts a register, the link, the *)
(* stack pointer or a word of memory outside its width.                    *)
(*                                                                         *)
(* And for every word and every statement: the two machines take the word  *)
(* for the same instruction, and the statement comes out as it was written.*)
(***************************************************************************)
EXTENDS Isa, Encoding, TLAPS

-----------------------------------------------------------------------------
(* Words: every operation on them leaves a word.                           *)

(* A remainder is below its modulus.                                       *)
LEMMA ModRange ==
  ASSUME NEW x \in Int, NEW n \in Nat \ {0}
  PROVE  x % n \in 0 .. n - 1
BY SMT

(* Sizes, as the widths of sim.py relate them.                             *)
LEMMA Sizes ==
  /\ AddrMod \in Nat \ {0} /\ WordMod \in Nat \ {0} /\ PageSize \in Nat \ {0}
  /\ WordMod = 2 * AddrMod
  /\ Addr \subseteq Word /\ Page \subseteq Addr /\ ZPage \subseteq Page
  /\ \A n \in Devices : n \in Addr
BY SizeAssumption, DeviceAssumption DEF WordMod, Addr, Word, Page, ZPage

(* The address part of any number is an address (sim.py, the & A).         *)
LEMMA AddrOf == \A x \in Int : x % AddrMod \in Addr
BY ModRange, Sizes DEF Addr

(* The word part of any number is a word (sim.py, the & W).                *)
LEMMA WordOf == \A x \in Int : x % WordMod \in Word
BY ModRange, Sizes DEF Word

(* The accumulating opcodes leave a word and a bit (sim.py mem_ref).       *)
LEMMA AluTyped ==
  ASSUME NEW op \in AluOps, NEW a \in Word, NEW v \in Word, NEW k \in Link
  PROVE  AluWord(op, a, v) \in Word /\ AluLink(op, a, v, k) \in Link
<1>1. (a + v) % WordMod \in Word
  BY WordOf DEF Word
<1>2. AluWord(op, a, v) \in Word
  BY <1>1, BitAssumption DEF AluWord, AluOps
<1>3. AluLink(op, a, v, k) \in Link
  BY DEF AluLink, AluOps, Link
<1> QED BY <1>2, <1>3

(* Doubling, halving, complement and step, the pieces of group 1.          *)
LEMMA Shifts ==
  ASSUME NEW a \in Word, NEW k \in Link
  PROVE  /\ (2 * a + k) % WordMod \in Word /\ (2 * a) % WordMod \in Word
         /\ (a + 1) % WordMod \in Word /\ WordMod - 1 - a \in Word
         /\ k * AddrMod + (a \div 2) \in Word
         /\ (a \div 2) + (IF Sign(a) THEN AddrMod ELSE 0) \in Word
         /\ a % 2 \in Link /\ 1 - k \in Link /\ 0 \in Word
<1>1. a \in Int /\ k \in {0, 1}
  BY DEF Word, Link
<1>2. /\ (2 * a + k) % WordMod \in Word /\ (2 * a) % WordMod \in Word
      /\ (a + 1) % WordMod \in Word
  BY <1>1, WordOf
<1>3. WordMod - 1 - a \in Word /\ 0 \in Word
  BY Sizes DEF Word
<1>4. a \div 2 \in 0 .. AddrMod - 1
  BY Sizes DEF Word
<1>5. /\ k * AddrMod + (a \div 2) \in Word
      /\ (a \div 2) + (IF Sign(a) THEN AddrMod ELSE 0) \in Word
  BY <1>1, <1>4, Sizes DEF Word
<1>6. a % 2 \in Link /\ 1 - k \in Link
  BY <1>1 DEF Link
<1> QED BY <1>2, <1>3, <1>5, <1>6

(* Group 1 leaves a word and a bit (sim.py opr_g1).                        *)
LEMMA Group1Typed ==
  ASSUME NEW mic \in SUBSET Micros, NEW a \in Word, NEW k \in Link
  PROVE  Group1(mic, a, k).ac \in Word /\ Group1(mic, a, k).l \in Link
<1> DEFINE a1 == IF "CLA" \in mic THEN 0 ELSE a
           l1 == IF "CLL" \in mic THEN 0 ELSE k
           a2 == IF "CMA" \in mic THEN WordMod - 1 - a1 ELSE a1
           l2 == IF "CML" \in mic THEN 1 - l1 ELSE l1
           a3 == IF "IAC" \in mic THEN (a2 + 1) % WordMod ELSE a2
           a4 == IF "RLA" \in mic THEN (2 * a3 + l2) % WordMod ELSE a3
           l4 == IF "RLA" \in mic THEN (IF Sign(a3) THEN 1 ELSE 0) ELSE l2
           a5 == IF "RRA" \in mic THEN l4 * AddrMod + (a4 \div 2) ELSE a4
           l5 == IF "RRA" \in mic THEN a4 % 2 ELSE l4
           a6 == IF "SHA" \in mic THEN (2 * a5) % WordMod ELSE a5
           a7 == IF "SRA" \in mic
                 THEN (a6 \div 2) + (IF Sign(a6) THEN AddrMod ELSE 0) ELSE a6
<1>1. a1 \in Word /\ l1 \in Link
  BY Shifts DEF Link
<1>2. a2 \in Word /\ l2 \in Link
  <2> HIDE DEF a1, l1
  <2> QED BY <1>1, Shifts
<1>3. a3 \in Word
  <2> HIDE DEF a2, l2
  <2> QED BY <1>2, Shifts
<1>4. a4 \in Word /\ l4 \in Link
  <2> HIDE DEF a3, l2
  <2> QED BY <1>2, <1>3, Shifts DEF Link
<1>5. a5 \in Word /\ l5 \in Link
  <2> HIDE DEF a4, l4
  <2> QED BY <1>4, Shifts
<1>6. a6 \in Word
  <2> HIDE DEF a5, l5
  <2> QED BY <1>5, Shifts
<1>7. a7 \in Word
  <2> HIDE DEF a6
  <2> QED BY <1>6, Shifts
<1>8. Group1(mic, a, k) = [ac |-> a7, l |-> l5]
  BY DEF Group1
<1> HIDE DEF a7, l5
<1> QED BY <1>5, <1>7, <1>8

(* What the fields of an instruction range over.                           *)
LEMMA InstrFields ==
  ASSUME NEW ins \in Instr
  PROVE  /\ ins.op \in AluOps \cup {"DAC", "SAD", "CAL", "JMP", "ISZ", "DSZ"}
              => ins.addr \in Page
         /\ ins.op = "OPR1" => ins.mic \in SUBSET Micros
         /\ ins.op = "ACK" => ins.dev \in Devices
BY Sizes DEF Instr, AluOps

-----------------------------------------------------------------------------
(* Instructions, operands, the stack.                                      *)

\* The part of TypeOK an operand is made of.
Typed == /\ ac \in Word /\ ix \in Word /\ l \in Link
         /\ pc \in Addr /\ sp \in SpVals /\ m \in [Addr -> Word]

(* An effective address is an address (sim.py ea).                         *)
LEMMA EaTyped ==
  ASSUME Typed, NEW ins, ins.addr \in Page
  PROVE  Ea(ins) \in Addr /\ m[Ea(ins)] \in Word
<1>1. ins.addr \in Addr
  BY Sizes
<1>2. m[ins.addr] % AddrMod \in Addr
  <2>1. m[ins.addr] \in Word
    BY <1>1 DEF Typed
  <2>2. m[ins.addr] \in Int
    BY <2>1 DEF Word
  <2> QED BY <2>2, AddrOf
<1>3. ASSUME NEW a \in Addr
      PROVE  Plus(a, ix) \in Addr
  <2>1. a + ix \in Int
    BY DEF Typed, Addr, Word
  <2> QED BY <2>1, AddrOf DEF Plus
<1>4. Ea(ins) \in Addr
  BY <1>1, <1>2, <1>3 DEF Ea
<1> QED BY <1>4 DEF Typed

(* A jump lands in memory: a direct one in the page it leaves from, which  *)
(* memory holds whole (sim.py jump_class).                                 *)
LEMMA TargetTyped ==
  ASSUME Typed, NEW ins, ins.addr \in Page
  PROVE  Target(ins) \in Addr
<1>1. pc % PageSize \in 0 .. PageSize - 1
  BY ModRange, Sizes DEF Typed, Addr
<1>2. pc - (pc % PageSize) + PageSize <= AddrMod
  BY SizeAssumption DEF Typed
<1>3. pc - (pc % PageSize) >= 0
  BY Sizes DEF Typed, Addr
<1>4. pc - (pc % PageSize) + ins.addr \in Addr
  BY <1>1, <1>2, <1>3, Sizes DEF Typed, Addr, Page
<1> QED BY <1>4, EaTyped DEF Target

(* The next instruction, or the one after it, is in memory (sim.py skip).  *)
LEMMA AfterTyped == Typed => After(TRUE) \in Addr /\ After(FALSE) \in Addr
BY AddrOf DEF After, Plus, Typed, Addr

(* A link and an address fill a word (sim.py push_lpc).                    *)
LEMMA LinkWordTyped ==
  ASSUME Typed, NEW a \in Addr
  PROVE  LinkWord(a) \in Word
BY Sizes DEF LinkWord, Typed, Link, Addr, Word

\* A stack is well formed when its pointer stays in the page.
Stacks == [sp : SpVals, m : [Addr -> Word]]

(* Stepping SP wraps inside its page (sim.py saddr, push, pop).            *)
LEMMA StackSlots ==
  ASSUME NEW s \in SpVals
  PROVE  StackAddr(s) \in Addr /\ SpDec(s) \in SpVals /\ SpInc(s) \in SpVals /\ s \in Word
BY SizeAssumption, Sizes DEF StackAddr, SpDec, SpInc, SpVals, Addr, Word

(* One push (sim.py push).                                                 *)
LEMMA PushTyped ==
  ASSUME NEW st \in Stacks, NEW v \in Word
  PROVE  PushWord(st, v) \in Stacks
<1>1. st.sp \in SpVals /\ st.m \in [Addr -> Word]
  BY DEF Stacks
<1>2. SpDec(st.sp) \in SpVals /\ StackAddr(SpDec(st.sp)) \in Addr
  BY <1>1, StackSlots
<1>3. [st.m EXCEPT ![StackAddr(SpDec(st.sp))] = v] \in [Addr -> Word]
  BY <1>1, <1>2
<1> QED BY <1>2, <1>3 DEF PushWord, Stack, Stacks

(* A push of any mask leaves SP in the stack page and memory in words      *)
(* (sim.py opr_g3).                                                        *)
LEMMA PushMaskTyped ==
  ASSUME Typed, NEW mask, NEW ret \in Addr
  PROVE  PushMask(mask, ret) \in Stacks
<1> DEFINE s0 == PushIf(0 \in mask, Stack(sp, m), sp)
           s1 == PushIf(1 \in mask, s0, LinkWord(ret))
           s2 == PushIf(2 \in mask, s1, ix)
<1>1. Stack(sp, m) \in Stacks
  BY DEF Typed, Stack, Stacks
<1>2. sp \in Word /\ LinkWord(ret) \in Word /\ ix \in Word /\ ac \in Word
  BY StackSlots, LinkWordTyped DEF Typed
<1>3. ASSUME NEW c, NEW st \in Stacks, NEW v \in Word
      PROVE  PushIf(c, st, v) \in Stacks
  BY PushTyped DEF PushIf
<1>4. s0 \in Stacks
  BY <1>1, <1>2, <1>3
<1>5. s1 \in Stacks
  <2> HIDE DEF s0
  <2> QED BY <1>2, <1>3, <1>4
<1>6. s2 \in Stacks
  <2> HIDE DEF s1
  <2> QED BY <1>2, <1>3, <1>5
<1>7. PushMask(mask, ret) = PushIf(3 \in mask, s2, ac)
  BY DEF PushMask
<1> HIDE DEF s2
<1> QED BY <1>2, <1>3, <1>6, <1>7

(* A pop of any mask gives words, and an SP in the stack page (sim.py      *)
(* opr_g3).                                                                *)
LEMMA PopMaskTyped ==
  ASSUME Typed, NEW mask, NEW st \in Stacks, NEW ret \in Addr
  PROVE  LET p == PopMask(mask, st, ret)
         IN  p.ac \in Word /\ p.ix \in Word /\ p.lpc \in Word /\ p.sp \in SpVals
<1> DEFINE s2 == IF 3 \in mask THEN SpInc(st.sp) ELSE st.sp
           s1 == IF 2 \in mask THEN SpInc(s2) ELSE s2
           s0 == IF 1 \in mask THEN SpInc(s1) ELSE s1
<1>1. st.sp \in SpVals /\ st.m \in [Addr -> Word]
  BY DEF Stacks
<1>2. s2 \in SpVals
  BY <1>1, StackSlots
<1>3. s1 \in SpVals
  BY <1>2, StackSlots
<1>4. s0 \in SpVals
  BY <1>3, StackSlots
<1>5. ASSUME NEW s \in SpVals
      PROVE  st.m[StackAddr(s)] \in Word
  BY <1>1, StackSlots
<1>6. st.m[StackAddr(s0)] % PageSize \in SpVals
  <2>1. st.m[StackAddr(s0)] \in Int
    BY <1>4, <1>5 DEF Word
  <2> QED BY <2>1, ModRange, Sizes DEF SpVals
<1>7. PopMask(mask, st, ret)
        = [ac  |-> IF 3 \in mask THEN st.m[StackAddr(st.sp)] ELSE ac,
           ix  |-> IF 2 \in mask THEN st.m[StackAddr(s2)] ELSE ix,
           lpc |-> IF 1 \in mask THEN st.m[StackAddr(s1)] ELSE LinkWord(ret),
           sp  |-> IF 0 \in mask THEN st.m[StackAddr(s0)] % PageSize ELSE s0]
  BY DEF PopMask
<1> HIDE DEF s2, s1, s0
<1>8. LinkWord(ret) \in Word /\ ac \in Word /\ ix \in Word
  BY LinkWordTyped DEF Typed
<1> QED BY <1>1, <1>2, <1>3, <1>4, <1>5, <1>6, <1>7, <1>8

-----------------------------------------------------------------------------
(* One instruction.                                                        *)

(* Reset (sim.py __init__, reset).                                         *)
LEMMA InitTyped == Init => TypeOK
<1> SUFFICES ASSUME Init PROVE TypeOK
  OBVIOUS
<1>1. /\ 0 \in Word /\ 0 \in SpVals /\ 0 \in Link /\ MaskMod - 1 \in Word /\ 0 \in Addr
  BY SizeAssumption, Sizes DEF Word, SpVals, Link, Addr
<1>2. pc \in Addr
  <2>1. DataInit[0] \in Int
    BY <1>1, ProgramAssumption DEF Word
  <2> QED BY <2>1, AddrOf DEF Init
<1> QED BY <1>1, <1>2, ProgramAssumption DEF Init, TypeOK

(* Every instruction keeps the widths (sim.py step and what it calls).     *)
LEMMA PerformTyped ==
  ASSUME TypeOK, NEW ins \in Instr, Perform(ins), prog' = prog
  PROVE  TypeOK'
<1>1. Typed /\ i \in BOOLEAN /\ waiting \in BOOLEAN /\ halted \in BOOLEAN
      /\ req \in [Devices -> BOOLEAN] /\ imask \in Word /\ prog' \in [Addr -> Instr]
  BY DEF TypeOK, Typed
<1>2. After(TRUE) \in Addr /\ After(FALSE) \in Addr
  BY <1>1, AfterTyped
<1>3. ASSUME ins.addr \in Page
      PROVE  Ea(ins) \in Addr /\ m[Ea(ins)] \in Word /\ Target(ins) \in Addr
  BY <1>1, <1>3, EaTyped, TargetTyped
<1>4. Reg(ins.r) \in Word
  BY <1>1 DEF Reg, Typed
<1>5. CASE Arith(ins)
  <2>1. ins.op \in AluOps /\ m[Ea(ins)] \in Word
    BY <1>3, <1>5, InstrFields DEF Arith
  <2>2. /\ AluWord(ins.op, Reg(ins.r), m[Ea(ins)]) \in Word
        /\ AluLink(ins.op, Reg(ins.r), m[Ea(ins)], l) \in Link
    BY <1>1, <1>4, <2>1, AluTyped DEF Typed
  <2>3. ac' \in Word /\ ix' \in Word /\ l' \in Link /\ pc' \in Addr
    BY <1>1, <1>2, <1>5, <2>2 DEF Arith, Typed
  <2> QED BY <1>1, <1>5, <2>3 DEF Arith, Typed, TypeOK
<1>6. CASE Deposit(ins)
  <2>1. m' \in [Addr -> Word] /\ pc' \in Addr
    BY <1>1, <1>2, <1>3, <1>4, <1>6, InstrFields DEF Deposit, Typed
  <2> QED BY <1>1, <1>6, <2>1 DEF Deposit, Typed, TypeOK
<1>7. CASE Compare(ins)
  <2>1. pc' \in Addr
    BY <1>2, <1>7 DEF Compare, After
  <2> QED BY <1>1, <1>7, <2>1 DEF Compare, Typed, TypeOK
<1>8. CASE Call(ins)
  <2>1. PushWord(Stack(sp, m), LinkWord(After(FALSE))) \in Stacks
    <3>1. Stack(sp, m) \in Stacks /\ LinkWord(After(FALSE)) \in Word
      BY <1>1, <1>2, LinkWordTyped DEF Stack, Stacks, Typed
    <3> QED BY <3>1, PushTyped
  <2>2. sp' \in SpVals /\ m' \in [Addr -> Word] /\ pc' \in Addr
    BY <1>3, <1>8, <2>1, InstrFields DEF Call, Stacks
  <2> QED BY <1>1, <1>8, <2>2 DEF Call, Typed, TypeOK
<1>9. CASE Jump(ins)
  <2>1. pc' \in Addr
    BY <1>3, <1>9, InstrFields DEF Jump
  <2> QED BY <1>1, <1>9, <2>1 DEF Jump, Typed, TypeOK
<1>10. CASE Count(ins)
  <2>1. Ea(ins) \in Addr /\ m[Ea(ins)] \in Word
    BY <1>3, <1>10, InstrFields DEF Count
  <2>2. (m[Ea(ins)] + (IF ins.op = "ISZ" THEN 1 ELSE WordMod - 1)) % WordMod \in Word
    <3>1. m[Ea(ins)] + (IF ins.op = "ISZ" THEN 1 ELSE WordMod - 1) \in Int
      BY <2>1, Sizes DEF Word
    <3> QED BY <3>1, WordOf
  <2>3. m' \in [Addr -> Word] /\ pc' \in Addr
    BY <1>1, <1>2, <1>10, <2>1, <2>2 DEF Count, Typed, After
  <2> QED BY <1>1, <1>10, <2>3 DEF Count, Typed, TypeOK
<1>11. CASE MaskIo(ins)
  <2>1. ac % MaskMod \in Word /\ WordMod - 1 - ac \in Word
    <3>1. ac % MaskMod \in 0 .. MaskMod - 1
      BY <1>1, ModRange, SizeAssumption DEF Typed, Word
    <3> QED BY <1>1, <3>1, SizeAssumption, Sizes DEF Typed, Word
  <2>2. BitIor(imask, ac % MaskMod) \in Word /\ BitAnd(imask, WordMod - 1 - ac) \in Word
    BY <1>1, <2>1, BitAssumption
  <2>3. ac' \in Word /\ imask' \in Word /\ pc' \in Addr
    BY <1>1, <1>2, <1>11, <2>1, <2>2 DEF MaskIo, Typed
  <2> QED BY <1>1, <1>11, <2>3 DEF MaskIo, Typed, TypeOK
<1>12. CASE SkipIo(ins) \/ WaitIo(ins) \/ SkipOn(ins)
  <2>1. pc' \in Addr /\ waiting' \in BOOLEAN
    BY <1>1, <1>2, <1>12 DEF SkipIo, WaitIo, SkipOn, After
  <2> QED BY <1>1, <1>12, <2>1 DEF SkipIo, WaitIo, SkipOn, Typed, TypeOK
<1>13. CASE Ack(ins)
  <2>1. req' \in [Devices -> BOOLEAN] /\ pc' \in Addr
    BY <1>1, <1>2, <1>13 DEF Ack
  <2> QED BY <1>1, <1>13, <2>1 DEF Ack, Typed, TypeOK
<1>14. CASE Operate(ins)
  <2>1. Group1(ins.mic, ac, l).ac \in Word /\ Group1(ins.mic, ac, l).l \in Link
    BY <1>1, <1>14, InstrFields, Group1Typed DEF Operate, Typed
  <2>2. (ix + 1) % WordMod \in Word
    BY <1>1, WordOf DEF Typed, Word
  <2>3. ac' \in Word /\ ix' \in Word /\ l' \in Link /\ pc' \in Addr
    BY <1>1, <1>2, <1>14, <2>1, <2>2 DEF Operate, Typed
  <2>4. halted' \in BOOLEAN
    BY <1>14 DEF Operate
  <2> QED BY <1>1, <1>14, <2>3, <2>4 DEF Operate, Typed, TypeOK
<1>15. ASSUME NEW f PROVE IField(f) \in BOOLEAN
  BY <1>1 DEF IField
<1>16. CASE Push(ins)
  <2>1. PushMask(ins.mask, After(FALSE)) \in Stacks
    BY <1>1, <1>2, PushMaskTyped
  <2>2. sp' \in SpVals /\ m' \in [Addr -> Word] /\ i' \in BOOLEAN /\ pc' \in Addr
    BY <1>2, <1>15, <1>16, <2>1 DEF Push, Stacks
  <2> QED BY <1>1, <1>16, <2>2 DEF Push, Typed, TypeOK
<1>17. CASE Pop(ins)
  <2> DEFINE popped == PopMask(ins.mask, Stack(sp, m), After(FALSE))
  <2>1. /\ popped.ac \in Word /\ popped.ix \in Word /\ popped.lpc \in Word
        /\ popped.sp \in SpVals
    BY <1>1, <1>2, PopMaskTyped DEF Stack, Stacks, Typed
  <2>2. /\ ac' = popped.ac /\ ix' = popped.ix /\ sp' = popped.sp
        /\ l' = LinkOf(popped.lpc) /\ pc' = popped.lpc % AddrMod
        /\ i' = IField(ins.ifield)
        /\ UNCHANGED <<m, req, imask, waiting, halted>>
    BY <1>17 DEF Pop
  <2> HIDE DEF popped
  <2>3. l' \in Link /\ i' \in BOOLEAN
    BY <1>15, <2>2 DEF LinkOf, Link
  <2>4. pc' \in Addr
    BY <2>1, <2>2, AddrOf DEF Word
  <2> QED BY <1>1, <2>1, <2>2, <2>3, <2>4 DEF Typed, TypeOK
<1> QED BY <1>5, <1>6, <1>7, <1>8, <1>9, <1>10, <1>11, <1>12, <1>13, <1>14, <1>16, <1>17
        DEF Perform

(* So does the entry of an interrupt, the only other step that writes      *)
(* memory (sim.py check_irq).                                              *)
LEMMA AcceptTyped ==
  ASSUME TypeOK, NEW n \in Devices, Accept(n)
  PROVE  TypeOK'
<1> DEFINE pushed == PushWord(Stack(sp, m), LinkWord(pc))
<1>1. pushed \in Stacks
  <2>1. Typed
    BY DEF TypeOK, Typed
  <2>2. Stack(sp, m) \in Stacks /\ LinkWord(pc) \in Word
    BY <2>1, LinkWordTyped DEF Stack, Stacks, Typed
  <2> QED BY <2>2, PushTyped
<1>2. pushed.m[n] \in Int
  <2> HIDE DEF pushed
  <2>1. pushed.m[n] \in Word
    BY <1>1, Sizes DEF Stacks
  <2> QED BY <2>1 DEF Word
<1>3. pushed.m[n] % AddrMod \in Addr
  BY <1>2, AddrOf
<1>4. /\ sp' = pushed.sp /\ m' = pushed.m /\ pc' = pushed.m[n] % AddrMod
      /\ i' = FALSE /\ waiting' = FALSE
      /\ UNCHANGED <<ac, ix, l, prog, req, imask, halted>>
  BY DEF Accept
<1> HIDE DEF pushed
<1>5. sp' \in SpVals /\ m' \in [Addr -> Word] /\ pc' \in Addr
  BY <1>1, <1>3, <1>4 DEF Stacks
<1> QED BY <1>4, <1>5 DEF TypeOK

(* Every step keeps the widths.                                            *)
LEMMA NextTyped == TypeOK /\ [Next]_vars => TypeOK'
<1> SUFFICES ASSUME TypeOK, [Next]_vars PROVE TypeOK'
  OBVIOUS
<1>1. CASE Execute
  <2>1. prog[pc] \in Instr
    BY DEF TypeOK
  <2> QED BY <1>1, <2>1, PerformTyped DEF Execute
<1>2. CASE \E n \in Devices : Accept(n)
  BY <1>2, AcceptTyped
<1>3. CASE Wake
  BY <1>3 DEF Wake, TypeOK
<1>4. CASE \E n \in Devices : Raise(n)
  BY <1>4 DEF Raise, TypeOK
<1>5. CASE UNCHANGED vars
  BY <1>5 DEF vars, TypeOK
<1> QED BY <1>1, <1>2, <1>3, <1>4, <1>5 DEF Next

(* Registers, link, stack pointer and memory keep their widths in every    *)
(* behaviour of every program, interrupts included (sim.py).               *)
THEOREM TypeCorrect == Spec => []TypeOK
BY InitTyped, NextTyped, PTL DEF Spec

-----------------------------------------------------------------------------
(* What is pushed is what is popped.                                       *)

(* The link and the address come apart again (sim.py push_lpc, opr_g3).    *)
LEMMA LinkWordBack ==
  ASSUME Typed, NEW a \in Addr
  PROVE  LinkOf(LinkWord(a)) = l /\ LinkWord(a) % AddrMod = a
<1>1. AddrMod \in Nat \ {0} /\ a \in 0 .. AddrMod - 1 /\ l \in {0, 1}
  BY Sizes DEF Typed, Addr, Link
<1>2. LinkOf(LinkWord(a)) = l
  BY <1>1 DEF LinkOf, LinkWord, Sign
<1>3. CASE l = 0
  BY <1>1, <1>2, <1>3 DEF LinkWord
<1>4. CASE l = 1
  <2>1. (AddrMod + a) % AddrMod = a
    BY <1>1, SMT
  <2> QED BY <1>1, <1>2, <1>4, <2>1 DEF LinkWord
<1> QED BY <1>1, <1>3, <1>4

(* Four pushes land in four different words.                               *)
LEMMA DistinctSlots ==
  ASSUME NEW s \in SpVals
  PROVE  LET d1 == SpDec(s)  d2 == SpDec(d1)  d3 == SpDec(d2)  d4 == SpDec(d3)
         IN  /\ {d1, d2, d3, d4} \subseteq SpVals
             /\ SpInc(d1) = s /\ d2 # d1 /\ d3 # d1 /\ d4 # d1
BY SizeAssumption DEF SpVals, SpDec, SpInc

(* Different slots are different addresses.                                *)
LEMMA DistinctAddrs ==
  \A s, t \in SpVals : StackAddr(s) = StackAddr(t) <=> s = t
BY SizeAssumption DEF SpVals, StackAddr

\* st is the stack below p: stepping back from p finds v, the rest is as it was.
OnTop(c, st, v, p) ==
  /\ p \in Stacks
  /\ p.sp = IF c THEN SpDec(st.sp) ELSE st.sp
  /\ (IF c THEN SpInc(p.sp) ELSE p.sp) = st.sp
  /\ c => p.m[StackAddr(p.sp)] = v
  /\ \A s \in SpVals : ~c \/ s # p.sp => p.m[StackAddr(s)] = st.m[StackAddr(s)]

(* One push, or none (sim.py push, pop).                                   *)
LEMMA PushIfBack ==
  ASSUME NEW st \in Stacks, NEW v \in Word, NEW c
  PROVE  OnTop(c, st, v, PushIf(c, st, v)) /\ PushIf(c, st, v) \in Stacks
<1>1. st.sp \in SpVals /\ st.m \in [Addr -> Word]
  BY DEF Stacks
<1>2. SpDec(st.sp) \in SpVals /\ SpInc(SpDec(st.sp)) = st.sp
  BY <1>1, DistinctSlots
<1>3. \A s \in SpVals : StackAddr(s) \in Addr
  BY StackSlots
<1>4. PushWord(st, v) \in Stacks
  BY PushTyped
<1>5. /\ PushWord(st, v).sp = SpDec(st.sp)
      /\ PushWord(st, v).m = [st.m EXCEPT ![StackAddr(SpDec(st.sp))] = v]
  BY DEF PushWord, Stack
<1>6. PushWord(st, v).m[StackAddr(SpDec(st.sp))] = v
  BY <1>1, <1>2, <1>3, <1>5
<1>7. ASSUME NEW s \in SpVals, s # SpDec(st.sp)
      PROVE  PushWord(st, v).m[StackAddr(s)] = st.m[StackAddr(s)]
  BY <1>1, <1>2, <1>3, <1>5, <1>7, DistinctAddrs
<1>8. CASE c
  BY <1>2, <1>4, <1>5, <1>6, <1>7, <1>8 DEF PushIf, OnTop
<1>9. CASE ~c
  BY <1>9 DEF PushIf, OnTop
<1> QED BY <1>8, <1>9

(* PSH m then POP m is the identity, for each of the sixteen masks and     *)
(* wherever SP stands, at the edge of its page too: AC, IX and SP come     *)
(* back, and a pushed LPC gives the link and the address it was made of    *)
(* (ucode.py G3, sim.py opr_g3).                                           *)
THEOREM PushPopIdentity ==
  ASSUME Typed, NEW mask \in SUBSET (0 .. 3), NEW ret \in Addr, NEW next \in Addr
  PROVE  LET p == PopMask(mask, PushMask(mask, ret), next)
         IN  /\ p.ac = ac /\ p.ix = ix /\ p.sp = sp
             /\ 1 \in mask => LinkOf(p.lpc) = l /\ p.lpc % AddrMod = ret
<1> DEFINE c(k) == k \in mask
           s0 == PushIf(c(0), Stack(sp, m), sp)
           s1 == PushIf(c(1), s0, LinkWord(ret))
           s2 == PushIf(c(2), s1, ix)
           s3 == PushIf(c(3), s2, ac)
<1>1. Stack(sp, m) \in Stacks /\ sp \in SpVals /\ Stack(sp, m).sp = sp
  BY DEF Typed, Stack, Stacks
<1>2. sp \in Word /\ LinkWord(ret) \in Word /\ ix \in Word /\ ac \in Word
  BY StackSlots, LinkWordTyped DEF Typed
<1>3. OnTop(c(0), Stack(sp, m), sp, s0) /\ s0 \in Stacks
  BY <1>1, <1>2, PushIfBack
<1>4. OnTop(c(1), s0, LinkWord(ret), s1) /\ s1 \in Stacks
  <2> HIDE DEF s0
  <2> QED BY <1>2, <1>3, PushIfBack
<1>5. OnTop(c(2), s1, ix, s2) /\ s2 \in Stacks
  <2> HIDE DEF s1
  <2> QED BY <1>2, <1>4, PushIfBack
<1>6. OnTop(c(3), s2, ac, s3)
  <2> HIDE DEF s2
  <2> QED BY <1>2, <1>5, PushIfBack
<1>7. /\ PushMask(mask, ret) = s3
      /\ PopMask(mask, s3, next)
           = LET t2 == IF c(3) THEN SpInc(s3.sp) ELSE s3.sp
                 t1 == IF c(2) THEN SpInc(t2) ELSE t2
                 t0 == IF c(1) THEN SpInc(t1) ELSE t1
             IN  [ac  |-> IF c(3) THEN s3.m[StackAddr(s3.sp)] ELSE ac,
                  ix  |-> IF c(2) THEN s3.m[StackAddr(t2)] ELSE ix,
                  lpc |-> IF c(1) THEN s3.m[StackAddr(t1)] ELSE LinkWord(next),
                  sp  |-> IF c(0) THEN s3.m[StackAddr(t0)] % PageSize ELSE t0]
  BY DEF PushMask, PopMask
<1> HIDE DEF s0, s1, s2, s3
<1>8. /\ s0.sp \in SpVals /\ s1.sp \in SpVals /\ s2.sp \in SpVals /\ s3.sp \in SpVals
  BY <1>3, <1>4, <1>5, <1>6 DEF OnTop, Stacks
\* Nothing pushed later lands on a word pushed earlier.
<1>9. c(2) => s3.m[StackAddr(s2.sp)] = ix
  <2>1. c(3) => s2.sp # s3.sp
    BY <1>6, <1>8, SizeAssumption DEF OnTop, SpDec, SpVals
  <2> QED BY <1>5, <1>6, <1>8, <2>1 DEF OnTop
<1>10. c(1) => s3.m[StackAddr(s1.sp)] = LinkWord(ret)
  <2>1. (c(2) => s1.sp # s2.sp) /\ (c(3) => s1.sp # s3.sp)
    BY <1>5, <1>6, <1>8, SizeAssumption DEF OnTop, SpDec, SpVals
  <2> QED BY <1>4, <1>5, <1>6, <1>8, <2>1 DEF OnTop
<1>11. c(0) => s3.m[StackAddr(s0.sp)] = sp
  <2>1. (c(1) => s0.sp # s1.sp) /\ (c(2) => s0.sp # s2.sp) /\ (c(3) => s0.sp # s3.sp)
    BY <1>4, <1>5, <1>6, <1>8, SizeAssumption DEF OnTop, SpDec, SpVals
  <2> QED BY <1>3, <1>4, <1>5, <1>6, <1>8, <2>1 DEF OnTop
<1>12. sp % PageSize = sp
  BY <1>1, SizeAssumption DEF SpVals
<1>13. PopMask(mask, s3, next)
         = [ac  |-> ac, ix |-> ix,
            lpc |-> IF c(1) THEN LinkWord(ret) ELSE LinkWord(next),
            sp  |-> IF c(0) THEN sp % PageSize ELSE s0.sp]
  <2> HIDE DEF c
  <2> QED BY <1>4, <1>5, <1>6, <1>7, <1>9, <1>10, <1>11 DEF OnTop
<1>14. /\ PopMask(mask, s3, next).ac = ac /\ PopMask(mask, s3, next).ix = ix
       /\ PopMask(mask, s3, next).sp = sp
       /\ c(1) => PopMask(mask, s3, next).lpc = LinkWord(ret)
  BY <1>1, <1>3, <1>12, <1>13 DEF OnTop
<1> QED BY <1>7, <1>14, LinkWordBack

(* An interrupt pushes LPC and a return pops it: the address, the link and *)
(* SP come back, whatever they were (sim.py check_irq, opr_g3).            *)
THEOREM ReturnFromEntry ==
  ASSUME Typed, NEW next \in Addr
  PROVE  LET p == PopMask({1}, PushWord(Stack(sp, m), LinkWord(pc)), next)
         IN  LinkOf(p.lpc) = l /\ p.lpc % AddrMod = pc /\ p.sp = sp
<1>1. PushMask({1}, pc) = PushWord(Stack(sp, m), LinkWord(pc))
  BY DEF PushMask, PushIf
<1>2. pc \in Addr
  BY DEF Typed
<1> QED BY <1>1, <1>2, PushPopIdentity

-----------------------------------------------------------------------------
(* What the tools make of a word (Encoding).  First the fields of a word,   *)
(* as numbers.                                                             *)

(* The powers of two that the tools shift by.                              *)
LEMMA Powers ==
  /\ 2 ^ 0 = 1 /\ 2 ^ 1 = 2 /\ 2 ^ 2 = 4 /\ 2 ^ 3 = 8 /\ 2 ^ 4 = 16 /\ 2 ^ 5 = 32 /\ 2 ^ 6 = 64
  /\ 2 ^ 7 = 128 /\ 2 ^ 8 = 256 /\ 2 ^ 9 = 512 /\ 2 ^ 10 = 1024 /\ 2 ^ 11 = 2048 /\ 2 ^ 12 = 4096
  /\ 2 ^ 13 = 8192 /\ 2 ^ 14 = 16384 /\ 2 ^ 17 = 131072 /\ 2 ^ 18 = 262144
BY SMT

(* The opcode and the two mode bits are the six bits MAP1 dispatches on.   *)
LEMMA SixBits ==
  ASSUME NEW w \in Nat
  PROVE  LET six == Field(w, 12, 6)
         IN  /\ six \div 4 = Field(w, 14, 4)
             /\ six % 4 = (IF Bit(w, 13) THEN 2 ELSE 0) + (IF Bit(w, 12) THEN 1 ELSE 0)
             /\ Field(w, 12, 2) = six % 4
             /\ Field(w, 14, 4) \in 0 .. 15
<1>1. /\ Field(w, 12, 6) = w \div 4096 % 64 /\ Field(w, 14, 4) = w \div 16384 % 16
      /\ Field(w, 12, 2) = w \div 4096 % 4
      /\ Bit(w, 13) <=> w \div 8192 % 2 = 1
      /\ Bit(w, 12) <=> w \div 4096 % 2 = 1
  BY Powers DEF Field, Bit
<1> DEFINE x == w \div 4096
<1>2. x \in Nat /\ w \div 8192 = x \div 2 /\ w \div 16384 = x \div 4
  OBVIOUS
<1> HIDE DEF x
<1>3. /\ (x % 64) \div 4 = (x \div 4) % 16 /\ (x % 64) % 4 = x % 4 /\ (x \div 4) % 16 \in 0 .. 15
      /\ x % 4 = (IF (x \div 2) % 2 = 1 THEN 2 ELSE 0) + (IF x % 2 = 1 THEN 1 ELSE 0)
  BY <1>2
<1> QED BY <1>1, <1>2, <1>3 DEF x

(* The low twelve bits of an IO word: the function, four bits that nothing *)
(* reads, and the pulses.                                                  *)
LEMMA PulseBits ==
  ASSUME NEW w \in Nat
  PROVE  /\ Field(w, 0, 4) = 1 => ~Bit(w, 1) /\ ~Bit(w, 2) /\ ~Bit(w, 3) /\ Bit(w, 0)
         /\ Field(w, 0, 4) = 4 => ~Bit(w, 0) /\ ~Bit(w, 1) /\ ~Bit(w, 3) /\ Bit(w, 2)
         /\ Field(w, 0, 4) = 0 => ~Bit(w, 0) /\ ~Bit(w, 2)
         /\ Field(w, 14, 4) = 14 /\ Field(w, 11, 3) = 0 => Field(w, 11, 7) = 14 * 8
<1>1. /\ Field(w, 0, 4) = w % 16 /\ Field(w, 14, 4) = w \div 16384 % 16
      /\ Field(w, 11, 3) = w \div 2048 % 8 /\ Field(w, 11, 7) = w \div 2048 % 128
      /\ Bit(w, 0) <=> w % 2 = 1
      /\ Bit(w, 1) <=> w \div 2 % 2 = 1
      /\ Bit(w, 2) <=> w \div 4 % 2 = 1
      /\ Bit(w, 3) <=> w \div 8 % 2 = 1
  <2>1. w \div 1 = w
    OBVIOUS
  <2> QED BY <2>1, Powers DEF Field, Bit
<1>2. /\ w % 16 = 1 => w % 2 = 1 /\ w \div 2 % 2 = 0 /\ w \div 4 % 2 = 0 /\ w \div 8 % 2 = 0
      /\ w % 16 = 4 => w % 2 = 0 /\ w \div 2 % 2 = 0 /\ w \div 4 % 2 = 1 /\ w \div 8 % 2 = 0
      /\ w % 16 = 0 => w % 2 = 0 /\ w \div 4 % 2 = 0
      /\ w \div 16384 % 16 = 14 /\ w \div 2048 % 8 = 0 => w \div 2048 % 128 = 112
  OBVIOUS
<1> QED BY <1>1, <1>2

-----------------------------------------------------------------------------
(* sim.py and ucode.py take a word apart alike, class by class.            *)
Strange(w) ==
  \/ Field(w, 14, 4) \in {12, 13}
  \/ /\ Field(w, 11, 7) = 14 * 8 /\ Field(w, 8, 3) \in {3, 4, 5}
     /\ Field(w, 0, 4) \notin {0, 1, 4}

(* Memory references.                                                      *)
LEMMA MemoryAlike ==
  ASSUME NEW w \in Nat, NEW h, Field(w, 14, 4) \in 0 .. 7
  PROVE  Dispatch(w, h) = Step(w, h)
<1> DEFINE op == Field(w, 14, 4)
           six == Field(w, 12, 6)
           ind == Bit(w, 13)
           idx == Bit(w, 12)
<1>1. six \div 4 = op /\ six % 4 = (IF ind THEN 2 ELSE 0) + (IF idx THEN 1 ELSE 0)
  BY SixBits
<1>2. op \in 0 .. 7 /\ ind \in BOOLEAN /\ idx \in BOOLEAN
  BY DEF Bit
<1>3. Step(w, h) =
        Memory(<<"TAD", "TAS", "AND", "XOR", "DAC", "LAC", "SAD", "IOR">>[op + 1],
                     Register(w), ind, idx, Field(w, 0, 11))
  BY <1>2 DEF Step
<1>4. Operation(op) = <<"TAD", "TAS", "AND", "XOR", "DAC", "LAC", "SAD", "IOR">>[op + 1]
  <2> HIDE DEF op
  <2> QED BY <1>2 DEF Operation, MAP2, FROMIR
<1> DEFINE label == MAP1(six)
<1>5. label = <<"EA_ZP", "EA_IDX", "EA_IN1", "EA_IX1">>[(six % 4) + 1]
  <2> HIDE DEF six, op
  <2> QED BY <1>1, <1>2 DEF MAP1, ByMode
<1> HIDE DEF op, six, ind, idx
<1>6. /\ label \in {"EA_ZP", "EA_IDX", "EA_IN1", "EA_IX1"}
      /\ Sequence(label) = <<ind, idx>>
  <2>1. CASE ~ind /\ ~idx
    <3>1. label = "EA_ZP"
      BY <1>1, <1>5, <2>1
    <3> QED BY <1>2, <2>1, <3>1 DEF Sequence
  <2>2. CASE ~ind /\ idx
    <3>1. label = "EA_IDX"
      BY <1>1, <1>5, <2>2
    <3> QED BY <1>2, <2>2, <3>1 DEF Sequence
  <2>3. CASE ind /\ ~idx
    <3>1. label = "EA_IN1"
      BY <1>1, <1>5, <2>3
    <3> QED BY <1>2, <2>3, <3>1 DEF Sequence
  <2>4. CASE ind /\ idx
    <3>1. label = "EA_IX1"
      BY <1>1, <1>5, <2>4
    <3> QED BY <1>2, <2>4, <3>1 DEF Sequence
  <2> QED BY <2>1, <2>2, <2>3, <2>4
<1>7. Dispatch(w, h) =
        Memory(Operation(op), Register(w), ind, idx, Field(w, 0, 11))
  <2> HIDE DEF label
  <2>1. MAP1(Field(w, 12, 6)) = label
    BY DEF label, six
  <2> QED BY <1>6, <2>1 DEF Dispatch, op
<1> QED BY <1>3, <1>4, <1>7

(* Jumps, calls and counts.                                                *)
LEMMA JumpAlike ==
  ASSUME NEW w \in Nat, NEW h, Field(w, 14, 4) \in 8 .. 11
  PROVE  Dispatch(w, h) = Step(w, h)
<1> DEFINE op == Field(w, 14, 4)
           six == Field(w, 12, 6)
           ind == Bit(w, 13)
           idx == Bit(w, 12)
           name == <<"CAL", "JMP", "ISZ", "DSZ">>[op - 7]
           far == PageOf(h) + Field(w, 0, 12)
           near == Field(w, 0, 12)
           label == MAP1(six)
<1>1. six \div 4 = op /\ six % 4 = (IF ind THEN 2 ELSE 0) + (IF idx THEN 1 ELSE 0)
  BY SixBits
<1>2. op \in 8 .. 11 /\ ind \in BOOLEAN /\ idx \in BOOLEAN
  BY DEF Bit
<1>3. Step(w, h) =
        Jumping(name, ind, idx, IF op <= 9 /\ ~ind /\ ~idx THEN far ELSE near)
  BY <1>2 DEF Step
<1>4. /\ op = 8 => name = "CAL"
      /\ op = 9 => name = "JMP"
      /\ op \in {10, 11} => Operation(op) = name
  <2> HIDE DEF op
  <2> QED BY <1>2 DEF Operation, MAP2, FROMIR
<1>5. label = CASE op = 8 -> <<"CAL_PG", "CAL_IX", "CAL_IN", "CAL_XI">>[(six % 4) + 1]
                [] op = 9 -> <<"JMP_PG", "JMP_IDX", "JMP_IN1", "JMP_IX1">>[(six % 4) + 1]
                [] OTHER  -> <<"JA_ZP", "JA_IDX", "JA_IN1", "JA_IX1">>[(six % 4) + 1]
  <2> HIDE DEF six, op
  <2> QED BY <1>1, <1>2 DEF MAP1, ByMode, CountsByMode
<1>6. MAP1(Field(w, 12, 6)) = label /\ Field(w, 14, 4) = op
  OBVIOUS
<1> HIDE DEF op, six, ind, idx, name, label
<1>7. /\ op = 8 => label \in {"CAL_PG", "CAL_IX", "CAL_IN", "CAL_XI"}
      /\ op = 9 => label \in {"JMP_PG", "JMP_IDX", "JMP_IN1", "JMP_IX1"}
      /\ op \in {10, 11} => label \in {"JA_ZP", "JA_IDX", "JA_IN1", "JA_IX1"}
      /\ Sequence(label) = <<ind, idx>>
      /\ label \in {"CAL_PG", "JMP_PG"} <=> op <= 9 /\ ~ind /\ ~idx
      /\ label # "JA_PG"
  <2>1. CASE ~ind /\ ~idx
    <3>1. label = CASE op = 8 -> "CAL_PG" [] op = 9 -> "JMP_PG" [] OTHER -> "JA_ZP"
      BY <1>1, <1>2, <1>5, <2>1
    <3>2. label \in {"CAL_PG", "JMP_PG", "JA_ZP"}
      BY <3>1
    <3>3. Sequence(label) = <<ind, idx>>
      BY <1>2, <2>1, <3>2 DEF Sequence
    <3>4. /\ op = 8 => label \in {"CAL_PG", "CAL_IX", "CAL_IN", "CAL_XI"}
          /\ op = 9 => label \in {"JMP_PG", "JMP_IDX", "JMP_IN1", "JMP_IX1"}
          /\ op \in {10, 11} => label \in {"JA_ZP", "JA_IDX", "JA_IN1", "JA_IX1"}
          /\ label \in {"CAL_PG", "JMP_PG"} <=> op <= 9 /\ ~ind /\ ~idx
          /\ label # "JA_PG"
      BY <1>2, <2>1, <3>1
    <3> QED BY <3>3, <3>4
  <2>2. CASE ~ind /\ idx
    <3>1. label = CASE op = 8 -> "CAL_IX" [] op = 9 -> "JMP_IDX" [] OTHER -> "JA_IDX"
      BY <1>1, <1>2, <1>5, <2>2
    <3>2. label \in {"CAL_IX", "JMP_IDX", "JA_IDX"}
      BY <3>1
    <3>3. Sequence(label) = <<ind, idx>>
      BY <1>2, <2>2, <3>2 DEF Sequence
    <3>4. /\ op = 8 => label \in {"CAL_PG", "CAL_IX", "CAL_IN", "CAL_XI"}
          /\ op = 9 => label \in {"JMP_PG", "JMP_IDX", "JMP_IN1", "JMP_IX1"}
          /\ op \in {10, 11} => label \in {"JA_ZP", "JA_IDX", "JA_IN1", "JA_IX1"}
          /\ label \in {"CAL_PG", "JMP_PG"} <=> op <= 9 /\ ~ind /\ ~idx
          /\ label # "JA_PG"
      BY <1>2, <2>2, <3>1
    <3> QED BY <3>3, <3>4
  <2>3. CASE ind /\ ~idx
    <3>1. label = CASE op = 8 -> "CAL_IN" [] op = 9 -> "JMP_IN1" [] OTHER -> "JA_IN1"
      BY <1>1, <1>2, <1>5, <2>3
    <3>2. label \in {"CAL_IN", "JMP_IN1", "JA_IN1"}
      BY <3>1
    <3>3. Sequence(label) = <<ind, idx>>
      BY <1>2, <2>3, <3>2 DEF Sequence
    <3>4. /\ op = 8 => label \in {"CAL_PG", "CAL_IX", "CAL_IN", "CAL_XI"}
          /\ op = 9 => label \in {"JMP_PG", "JMP_IDX", "JMP_IN1", "JMP_IX1"}
          /\ op \in {10, 11} => label \in {"JA_ZP", "JA_IDX", "JA_IN1", "JA_IX1"}
          /\ label \in {"CAL_PG", "JMP_PG"} <=> op <= 9 /\ ~ind /\ ~idx
          /\ label # "JA_PG"
      BY <1>2, <2>3, <3>1
    <3> QED BY <3>3, <3>4
  <2>4. CASE ind /\ idx
    <3>1. label = CASE op = 8 -> "CAL_XI" [] op = 9 -> "JMP_IX1" [] OTHER -> "JA_IX1"
      BY <1>1, <1>2, <1>5, <2>4
    <3>2. label \in {"CAL_XI", "JMP_IX1", "JA_IX1"}
      BY <3>1
    <3>3. Sequence(label) = <<ind, idx>>
      BY <1>2, <2>4, <3>2 DEF Sequence
    <3>4. /\ op = 8 => label \in {"CAL_PG", "CAL_IX", "CAL_IN", "CAL_XI"}
          /\ op = 9 => label \in {"JMP_PG", "JMP_IDX", "JMP_IN1", "JMP_IX1"}
          /\ op \in {10, 11} => label \in {"JA_ZP", "JA_IDX", "JA_IN1", "JA_IX1"}
          /\ label \in {"CAL_PG", "JMP_PG"} <=> op <= 9 /\ ~ind /\ ~idx
          /\ label # "JA_PG"
      BY <1>2, <2>4, <3>1
    <3> QED BY <3>3, <3>4
  <2> QED BY <1>2, <2>1, <2>2, <2>3, <2>4
<1>8. Operand(label, w, h) = IF op <= 9 /\ ~ind /\ ~idx THEN far ELSE near
  BY <1>7 DEF Operand
<1>9. Dispatch(w, h) =
        Jumping(name, ind, idx, IF op <= 9 /\ ~ind /\ ~idx THEN far ELSE near)
  <2> HIDE DEF far, near
  <2>1. CASE op = 8
    BY <1>4, <1>6, <1>7, <1>8, <2>1 DEF Dispatch
  <2>2. CASE op = 9
    BY <1>4, <1>6, <1>7, <1>8, <2>2 DEF Dispatch
  <2>3. CASE op \in {10, 11}
    BY <1>4, <1>6, <1>7, <1>8, <2>3 DEF Dispatch
  <2> QED BY <1>2, <2>1, <2>2, <2>3
<1> QED BY <1>3, <1>9

(* The operate groups.                                                     *)
LEMMA OperateAlike ==
  ASSUME NEW w \in Nat, NEW h, Field(w, 14, 4) = 15
  PROVE  Dispatch(w, h) = Step(w, h)
<1> DEFINE six == Field(w, 12, 6)
           mm == Field(w, 12, 2)
           label == MAP1(six)
<1>1. six \div 4 = 15 /\ six % 4 = mm /\ mm \in 0 .. 3
  BY SixBits
<1>2. Step(w, h) = opr(w)
  BY DEF Step
<1>3. label = <<"FETCH_G", "FETCH_S", "G3", "TRAP">>[mm + 1]
  <2> HIDE DEF six, mm
  <2> QED BY <1>1 DEF MAP1, ByMode
<1>4. MAP1(Field(w, 12, 6)) = label
  OBVIOUS
<1> HIDE DEF six, label
<1>5. group1(w) = MicrosOf(w)
  BY DEF group1, MicrosOf
<1>6. /\ mm = 0 => label = "FETCH_G" /\ opr(w) = Operating(MicrosOf(w))
      /\ mm = 1 => label = "FETCH_S" /\ opr(w) = Skipping(Bit(w, 11), Conditions(w))
      /\ mm = 2 => /\ label = "G3"
                   /\ opr(w) = Stacking(IF Bit(w, 11) THEN "POP" ELSE "PSH",
                                                 Registers(w), Interrupts(w))
      /\ mm = 3 => label = "TRAP" /\ opr(w) = Nothing
  BY <1>1, <1>3 DEF opr
<1> HIDE DEF mm
<1> QED BY <1>1, <1>2, <1>4, <1>5, <1>6 DEF Dispatch

(* Devices.  WAIT and the two skips are the engine's own.                  *)
LEMMA DeviceAlike ==
  ASSUME NEW w \in Nat, NEW h, Field(w, 14, 4) = 14, ~Strange(w)
  PROVE  Dispatch(w, h) = Step(w, h)
<1> DEFINE six == Field(w, 12, 6)
           dev == Field(w, 11, 3)
           sub == Field(w, 8, 3)
           low == Field(w, 0, 4)
<1>1. six \div 4 = 14
  BY SixBits
<1>2. Step(w, h) = io(w)
  BY DEF Step
<1>3. MAP1(Field(w, 12, 6)) = "IOT"
  <2> HIDE DEF six
  <2>1. MAP1(six) = "IOT"
    BY <1>1 DEF MAP1
  <2> QED BY <2>1 DEF six
<1>4. Dispatch(w, h) = EngineIo(w)
  BY <1>3 DEF Dispatch
<1>5. dev = 0 /\ sub \in {3, 4, 5} => low \in {0, 1, 4}
  BY PulseBits DEF Strange
<1>6. dev = 0 => io(w) = Device(dev, sub, io_cpu(sub, Pulses(w)))
  BY DEF io
<1>7. CASE dev = 0 /\ sub = 3 /\ Bit(w, 2)
  <2>1. low = 4
    BY <1>5, <1>7, PulseBits
  <2>2. Pulses(w) = {"IOP4"}
    BY <2>1, PulseBits DEF Pulses
  <2>3. io_cpu(sub, {"IOP4"}) = {"WAIT"}
    BY <1>7 DEF io_cpu
  <2>4. EngineIo(w) = Device(dev, sub, {"WAIT"})
    BY <1>7 DEF EngineIo
  <2> QED BY <1>2, <1>4, <1>6, <1>7, <2>2, <2>3, <2>4
<1>8. CASE dev = 0 /\ sub \in {4, 5} /\ Bit(w, 0)
  <2>1. low = 1
    BY <1>5, <1>8, PulseBits
  <2>2. Pulses(w) = {"IOP1"}
    BY <2>1, PulseBits DEF Pulses
  <2>3. io_cpu(sub, {"IOP1"}) = {IF sub = 4 THEN "SKI" ELSE "SKNI"}
    BY <1>8 DEF io_cpu
  <2>4. EngineIo(w) = Device(dev, sub, {IF sub = 4 THEN "SKI" ELSE "SKNI"})
    BY <1>8 DEF EngineIo
  <2> QED BY <1>2, <1>4, <1>6, <1>8, <2>2, <2>3, <2>4
<1>9. CASE ~(dev = 0 /\ sub = 3 /\ Bit(w, 2)) /\ ~(dev = 0 /\ sub \in {4, 5} /\ Bit(w, 0))
  BY <1>2, <1>4, <1>9 DEF EngineIo
<1> QED BY <1>7, <1>8, <1>9

(* So every word, but for the two kinds on which they part.                *)
LEMMA Alike ==
  ASSUME NEW w \in Nat, NEW h, ~Strange(w)
  PROVE  Dispatch(w, h) = Step(w, h)
<1>1. Field(w, 14, 4) \in 0 .. 15 /\ Field(w, 14, 4) \notin {12, 13}
  BY SixBits DEF Strange
<1>2. \/ Field(w, 14, 4) \in 0 .. 7 \/ Field(w, 14, 4) \in 8 .. 11
      \/ Field(w, 14, 4) = 14 \/ Field(w, 14, 4) = 15
  BY <1>1
<1> QED BY <1>2, MemoryAlike, JumpAlike, DeviceAlike, OperateAlike

-----------------------------------------------------------------------------
(* What the assembler emits, taken apart again.                            *)

(* A word cut in two: the bits above the lowest, and the lowest.           *)
Cut(w, n, q, r) == q \in Nat /\ r \in 0 .. n - 1 /\ w = q * n + r
LEMMA CutsApart ==
  ASSUME NEW w, NEW q, NEW r
  PROVE  /\ Cut(w, 2048, q, r) => w \div 2048 = q /\ w % 2048 = r
         /\ Cut(w, 4096, q, r) => w \div 4096 = q /\ w % 4096 = r
         /\ Cut(w, 8192, q, r) => w \div 8192 = q
         /\ Cut(w, 16384, q, r) => w \div 16384 = q
<1>1. Cut(w, 2048, q, r) => w \div 2048 = q /\ w % 2048 = r
  BY DEF Cut
<1>2. Cut(w, 4096, q, r) => w \div 4096 = q /\ w % 4096 = r
  BY DEF Cut
<1>3. Cut(w, 8192, q, r) => w \div 8192 = q
  BY DEF Cut
<1>4. Cut(w, 16384, q, r) => w \div 16384 = q
  BY SMTT(30) DEF Cut
<1> QED BY <1>1, <1>2, <1>3, <1>4

(* The opcode, three bits and an address, shifted where MR puts them; and   *)
(* the same of a jump, whose address has the twelfth bit as well.          *)
MemoryWord(w, op, u, v, k, a) ==
  /\ op \in 0 .. 15 /\ u \in 0 .. 1 /\ v \in 0 .. 1 /\ k \in 0 .. 1 /\ a \in 0 .. 2047
  /\ w = op * 16384 + u * 8192 + v * 4096 + k * 2048 + a
JumpWord(w, op, u, v, a) ==
  /\ op \in 0 .. 15 /\ u \in 0 .. 1 /\ v \in 0 .. 1 /\ a \in 0 .. 4095
  /\ w = op * 16384 + u * 8192 + v * 4096 + a
LEMMA MemoryPacked ==
  ASSUME NEW w, NEW op, NEW u, NEW v, NEW k, NEW a, MemoryWord(w, op, u, v, k, a)
  PROVE  /\ w \in Nat /\ Field(w, 14, 4) = op /\ Field(w, 0, 11) = a
         /\ Bit(w, 13) <=> u = 1
         /\ Bit(w, 12) <=> v = 1
         /\ Bit(w, 11) <=> k = 1
<1>1. w \in Nat /\ w \div 1 = w
  BY DEF MemoryWord
<1>2. /\ Field(w, 14, 4) = w \div 16384 % 16 /\ Field(w, 0, 11) = w % 2048
      /\ Bit(w, 13) <=> w \div 8192 % 2 = 1
      /\ Bit(w, 12) <=> w \div 4096 % 2 = 1
      /\ Bit(w, 11) <=> w \div 2048 % 2 = 1
  BY <1>1, Powers DEF Field, Bit
<1>3. w \div 16384 = op
  <2> DEFINE r == u * 8192 + v * 4096 + k * 2048 + a
  <2>1. Cut(w, 16384, op, r)
    BY SMTT(30) DEF Cut, MemoryWord
  <2> HIDE DEF r
  <2> QED BY <2>1, CutsApart
<1>4. w \div 8192 = 2 * op + u
  <2> DEFINE r == v * 4096 + k * 2048 + a
             q == 2 * op + u
  <2>1. Cut(w, 8192, q, r)
    BY DEF Cut, MemoryWord
  <2> HIDE DEF r, q
  <2>2. w \div 8192 = q
    BY <2>1, CutsApart
  <2> QED BY <2>2 DEF q
<1>5. w \div 4096 = 4 * op + 2 * u + v
  <2> DEFINE r == k * 2048 + a
             q == 4 * op + 2 * u + v
  <2>1. Cut(w, 4096, q, r)
    BY DEF Cut, MemoryWord
  <2> HIDE DEF r, q
  <2>2. w \div 4096 = q
    BY <2>1, CutsApart
  <2> QED BY <2>2 DEF q
<1>6. w \div 2048 = 8 * op + 4 * u + 2 * v + k /\ w % 2048 = a
  <2> DEFINE q == 8 * op + 4 * u + 2 * v + k
  <2>1. Cut(w, 2048, q, a)
    BY DEF Cut, MemoryWord
  <2> HIDE DEF q
  <2>2. w \div 2048 = q /\ w % 2048 = a
    BY <2>1, CutsApart
  <2> QED BY <2>2 DEF q
<1>7. op % 16 = op
  BY DEF MemoryWord
<1>8. (2 * op + u) % 2 = u
  BY DEF MemoryWord
<1>9. (4 * op + 2 * u + v) % 2 = v
  BY DEF MemoryWord
<1>10. (8 * op + 4 * u + 2 * v + k) % 2 = k
  BY DEF MemoryWord
<1>11. Field(w, 14, 4) = op /\ Field(w, 0, 11) = a
  BY <1>2, <1>3, <1>6, <1>7
<1>12. Bit(w, 13) <=> u = 1
  BY <1>2, <1>4, <1>8
<1>13. Bit(w, 12) <=> v = 1
  BY <1>2, <1>5, <1>9
<1>14. Bit(w, 11) <=> k = 1
  BY <1>2, <1>6, <1>10
<1> QED BY <1>1, <1>11, <1>12, <1>13, <1>14

LEMMA JumpPacked ==
  ASSUME NEW w, NEW op, NEW u, NEW v, NEW a, JumpWord(w, op, u, v, a)
  PROVE  /\ w \in Nat /\ Field(w, 14, 4) = op /\ Field(w, 0, 12) = a
         /\ Bit(w, 13) <=> u = 1
         /\ Bit(w, 12) <=> v = 1
<1>1. w \in Nat /\ w \div 1 = w
  BY SMTT(30) DEF JumpWord
<1>2. /\ Field(w, 14, 4) = w \div 16384 % 16 /\ Field(w, 0, 12) = w % 4096
      /\ Bit(w, 13) <=> w \div 8192 % 2 = 1
      /\ Bit(w, 12) <=> w \div 4096 % 2 = 1
  BY <1>1, Powers DEF Field, Bit
<1>3. w \div 16384 = op
  <2> DEFINE r == u * 8192 + v * 4096 + a
  <2>1. Cut(w, 16384, op, r)
    BY SMTT(30) DEF Cut, JumpWord
  <2> HIDE DEF r
  <2> QED BY <2>1, CutsApart, SMTT(30)
<1>4. w \div 8192 = 2 * op + u
  <2> DEFINE r == v * 4096 + a
             q == 2 * op + u
  <2>1. Cut(w, 8192, q, r)
    BY DEF Cut, JumpWord
  <2> HIDE DEF r, q
  <2>2. w \div 8192 = q
    BY <2>1, CutsApart
  <2> QED BY <2>2 DEF q
<1>5. w \div 4096 = 4 * op + 2 * u + v /\ w % 4096 = a
  <2> DEFINE q == 4 * op + 2 * u + v
  <2>1. Cut(w, 4096, q, a)
    BY DEF Cut, JumpWord
  <2> HIDE DEF q
  <2>2. w \div 4096 = q /\ w % 4096 = a
    BY <2>1, CutsApart
  <2> QED BY <2>2 DEF q
<1>6. op % 16 = op
  BY DEF JumpWord
<1>7. (2 * op + u) % 2 = u
  BY DEF JumpWord
<1>8. (4 * op + 2 * u + v) % 2 = v
  BY DEF JumpWord
<1>9. Field(w, 14, 4) = op /\ Field(w, 0, 12) = a
  BY <1>2, <1>3, <1>5, <1>6
<1>10. Bit(w, 13) <=> u = 1
  BY <1>2, <1>4, <1>7
<1>11. Bit(w, 12) <=> v = 1
  BY <1>2, <1>5, <1>8
<1> QED BY <1>1, <1>9, <1>10, <1>11

(* A memory reference is what it says, for every zero page address.        *)
LEMMA MemoryWritten ==
  ASSUME NEW s \in Statements, s.form = "mem", NEW from, NEW w \in Emitted(s, from)
  PROVE  w \in Nat /\ Step(w, from) = Memory(s.op, s.r, s.ind, s.idx, s.a)
<1>1. /\ s.op \in DOMAIN MEM /\ s.r \in {"AC", "IX"} /\ s.ind \in BOOLEAN /\ s.idx \in BOOLEAN
      /\ s.a \in Int
  BY DEF Statements
<1> DEFINE op == MEM[s.op]
           u == IF s.ind THEN 1 ELSE 0
           v == IF s.idx THEN 1 ELSE 0
           k == IF s.r = "IX" THEN 1 ELSE 0
<1>2. /\ op \in 0 .. 7
      /\ s.op = <<"TAD", "TAS", "AND", "XOR", "DAC", "LAC", "SAD", "IOR">>[op + 1]
  BY <1>1 DEF MEM
<1>3. w \in MR(op, s.ind, s.idx, s.r, s.a)
  BY DEF Emitted
<1> HIDE DEF op
<1>4. s.a \in 0 .. 2047 /\ w = op * 2 ^ 14 + Mode(s.ind, s.idx) + Raised(s.r = "IX", 11) + s.a
  BY <1>3 DEF MR
<1>5. Mode(s.ind, s.idx) = u * 8192 + v * 4096 /\ Raised(s.r = "IX", 11) = k * 2048
  BY <1>1, Powers DEF Mode, Raised
<1>6. u \in 0 .. 1 /\ v \in 0 .. 1 /\ k \in 0 .. 1
  BY <1>1
<1>7. (s.ind <=> u = 1) /\ (s.idx <=> v = 1) /\ (k = 1 => s.r = "IX") /\ (k # 1 => s.r = "AC")
  BY <1>1
<1> HIDE DEF u, v, k
<1>8. MemoryWord(w, op, u, v, k, s.a)
  BY <1>2, <1>4, <1>5, <1>6, Powers DEF MemoryWord
<1>9. /\ w \in Nat /\ Field(w, 14, 4) = op /\ Field(w, 0, 11) = s.a
      /\ Bit(w, 13) <=> u = 1
      /\ Bit(w, 12) <=> v = 1
      /\ Bit(w, 11) <=> k = 1
  BY <1>8, MemoryPacked
<1>10. Step(w, from) = Memory(s.op, Register(w), Bit(w, 13), Bit(w, 12), s.a)
  BY <1>2, <1>9 DEF Step
<1>11. Register(w) = s.r
  BY <1>7, <1>9 DEF Register
<1>12. Bit(w, 13) = s.ind /\ Bit(w, 12) = s.idx
  <2>1. Bit(w, 13) \in BOOLEAN /\ Bit(w, 12) \in BOOLEAN
    BY DEF Bit
  <2> QED BY <1>1, <1>7, <1>9, <2>1
<1> QED BY <1>9, <1>10, <1>11, <1>12

(* A jump is what it says, from every address: in the page it stands in    *)
(* when it is direct, except that zero passes from any page.               *)
LEMMA JumpWritten ==
  ASSUME NEW s \in Statements, s.form = "jump", NEW from \in Nat, NEW w \in Emitted(s, from)
  PROVE  /\ w \in Nat
         /\ \/ Step(w, from) = Jumping(s.op, s.ind, s.idx, s.a)
            \/ s.a = 0 /\ s.op \in {"CAL", "JMP"} /\ ~s.ind /\ ~s.idx
<1>1. s.op \in DOMAIN JMPC /\ s.ind \in BOOLEAN /\ s.idx \in BOOLEAN /\ s.a \in Int
  BY DEF Statements
<1> DEFINE op == JMPC[s.op]
           u == IF s.ind THEN 1 ELSE 0
           v == IF s.idx THEN 1 ELSE 0
           direct == s.op \in {"CAL", "JMP"} /\ ~s.ind /\ ~s.idx
<1>2. /\ op \in 8 .. 11 /\ s.op = <<"CAL", "JMP", "ISZ", "DSZ">>[op - 7]
      /\ s.op \in {"CAL", "JMP"} <=> op <= 9
  BY <1>1 DEF JMPC
<1>3. w \in IF direct THEN JPC(op, s.a, from) ELSE JC(op, s.ind, s.idx, s.a)
  BY DEF Emitted
<1> HIDE DEF op
<1>4. u \in 0 .. 1 /\ v \in 0 .. 1 /\ (s.ind <=> u = 1) /\ (s.idx <=> v = 1)
  BY <1>1
<1>5. Mode(s.ind, s.idx) = u * 8192 + v * 4096
  BY <1>1, Powers DEF Mode, Raised
<1> DEFINE a == IF direct THEN s.a % 4096 ELSE s.a
<1>6. JumpWord(w, op, u, v, a)
  <2>1. CASE direct
    <3> DEFINE low == s.a % 4096
    <3>1. w = op * 2 ^ 14 + low
      BY <1>1, <1>3, <2>1 DEF JPC
    <3>2. u = 0 /\ v = 0
      BY <2>1
    <3>3. a = low
      BY <2>1, SMTT(30)
    <3>4. low \in 0 .. 4095
      <4> DEFINE x == s.a
      <4>1. x \in Int
        BY <1>1
      <4> HIDE DEF x
      <4>2. x % 4096 \in 0 .. 4095
        BY <4>1, SMTT(30)
      <4> QED BY <4>2 DEF x
    <3> HIDE DEF u, v, a, direct, low
    <3>5. op \in Int /\ u * 8192 = 0 /\ v * 4096 = 0
      BY <1>2, <3>2, SMTT(30)
    <3> QED BY <1>2, <3>1, <3>2, <3>3, <3>4, <3>5, Powers DEF JumpWord
  <2>2. CASE ~direct
    <3>1. s.a \in 0 .. 4095 /\ w = op * 2 ^ 14 + Mode(s.ind, s.idx) + s.a
      BY <1>3, <2>2 DEF JC
    <3>2. a = s.a
      BY <2>2
    <3> HIDE DEF u, v, a, direct
    <3> QED BY <1>2, <1>4, <1>5, <3>1, <3>2, Powers, SMTT(30) DEF JumpWord
  <2> HIDE DEF u, v, a, direct
  <2> QED BY <2>1, <2>2
<1> HIDE DEF u, v, a
<1>7. /\ w \in Nat /\ Field(w, 14, 4) = op /\ Field(w, 0, 12) = a
      /\ Bit(w, 13) <=> u = 1
      /\ Bit(w, 12) <=> v = 1
  BY <1>6, JumpPacked
<1>8. Bit(w, 13) = s.ind /\ Bit(w, 12) = s.idx
  <2>1. Bit(w, 13) \in BOOLEAN /\ Bit(w, 12) \in BOOLEAN
    BY DEF Bit
  <2> QED BY <1>1, <1>4, <1>7, <2>1
<1>9. Step(w, from) =
        Jumping(s.op, s.ind, s.idx, IF direct THEN PageOf(from) + a ELSE a)
  <2>1. op <= 9 /\ ~Bit(w, 13) /\ ~Bit(w, 12) <=> direct
    BY <1>1, <1>2, <1>8
  <2> HIDE DEF direct
  <2>2. Step(w, from) =
          Jumping(s.op, Bit(w, 13), Bit(w, 12),
                        IF op <= 9 /\ ~Bit(w, 13) /\ ~Bit(w, 12)
                        THEN PageOf(from) + a ELSE a)
    BY <1>2, <1>7 DEF Step
  <2> QED BY <1>8, <2>1, <2>2
<1>10. CASE ~direct
  BY <1>7, <1>9, <1>10 DEF a
<1>11. CASE direct /\ s.a # 0
  <2>1. s.a \div 4096 = from \div 4096
    BY <1>1, <1>3, <1>11 DEF JPC
  <2>2. from - (from % 4096) + (s.a % 4096) = s.a
    BY <1>1, <2>1
  <2> QED BY <1>7, <1>9, <1>11, <2>2 DEF a, PageOf
<1>12. CASE direct /\ s.a = 0
  BY <1>7, <1>12
<1> QED BY <1>10, <1>11, <1>12

(* What the registers of a mask weigh.                                     *)
Weight(regs) ==
  (IF "SP" \in regs THEN 1 ELSE 0) + (IF "LPC" \in regs THEN 2 ELSE 0)
    + (IF "IX" \in regs THEN 4 ELSE 0) + (IF "AC" \in regs THEN 8 ELSE 0)

LEMMA OneMore ==
  ASSUME NEW r \in {"SP", "LPC", "IX", "AC"}, NEW regs, r \notin regs
  PROVE  Weight(regs \cup {r}) = Weight(regs) + 2 ^ SReg[r]
<1>1. CASE r = "SP"
  BY <1>1, Powers DEF Weight, SReg
<1>2. CASE r = "LPC"
  BY <1>2, Powers DEF Weight, SReg
<1>3. CASE r = "IX"
  BY <1>3, Powers DEF Weight, SReg
<1>4. CASE r = "AC"
  BY <1>4, Powers DEF Weight, SReg
<1> QED BY <1>1, <1>2, <1>3, <1>4

(* Registers named once each make the mask that has their bits, however    *)
(* many they are and in whatever order.                                    *)
LEMMA MaskWeighs ==
  ASSUME NEW n \in 1 .. 4, NEW regs \in [1 .. n -> DOMAIN SReg], Distinct(regs)
  PROVE  MaskOf(regs) = Weight({regs[k] : k \in DOMAIN regs})
<1> DEFINE one(k) == IF k \in DOMAIN regs THEN 2 ^ SReg[regs[k]] ELSE 0
           upto(c) == {regs[k] : k \in {k \in DOMAIN regs : k <= c}}
<1>1. DOMAIN SReg = {"SP", "LPC", "IX", "AC"} /\ DOMAIN regs = 1 .. n
  BY DEF SReg
<1>2. \A c \in 0 .. 3 : Weight(upto(c + 1)) = Weight(upto(c)) + one(c + 1)
  <2> SUFFICES ASSUME NEW c \in 0 .. 3
               PROVE  Weight(upto(c + 1)) = Weight(upto(c)) + one(c + 1)
    OBVIOUS
  <2>1. CASE c + 1 \in DOMAIN regs
    <3>1. upto(c + 1) = upto(c) \cup {regs[c + 1]}
      BY <1>1, <2>1
    <3>2. regs[c + 1] \notin upto(c)
      BY <1>1, <2>1 DEF Distinct
    <3>3. regs[c + 1] \in {"SP", "LPC", "IX", "AC"}
      BY <1>1, <2>1
    <3> HIDE DEF upto
    <3> QED BY <2>1, <3>1, <3>2, <3>3, OneMore
  <2>2. CASE c + 1 \notin DOMAIN regs
    <3>1. upto(c + 1) = upto(c)
      BY <1>1, <2>2
    <3>2. Weight(upto(c)) \in Int
      BY DEF Weight
    <3> HIDE DEF upto
    <3> QED BY <2>2, <3>1, <3>2
  <2> QED BY <2>1, <2>2
<1>3. Weight(upto(0)) = 0
  BY <1>1 DEF Weight
<1>4. upto(4) = {regs[k] : k \in DOMAIN regs}
  BY <1>1
<1>5. \A c \in 0 .. 4 : Weight(upto(c)) \in Int
  BY DEF Weight
<1>6. \A k \in 1 .. 4 : one(k) \in Int
  <2> SUFFICES ASSUME NEW k \in 1 .. 4 PROVE one(k) \in Int
    OBVIOUS
  <2>1. k \in DOMAIN regs => 2 ^ SReg[regs[k]] \in Int
    <3> SUFFICES ASSUME k \in DOMAIN regs PROVE 2 ^ SReg[regs[k]] \in Int
      OBVIOUS
    <3>1. regs[k] \in {"SP", "LPC", "IX", "AC"}
      BY <1>1
    <3>2. SReg[regs[k]] \in {0, 1, 2, 3}
      BY <3>1 DEF SReg
    <3> QED BY <3>2, Powers
  <2> QED BY <2>1
<1>7. MaskOf(regs) = one(1) + one(2) + one(3) + one(4)
  BY DEF MaskOf
<1> HIDE DEF one, upto
<1>8. /\ Weight(upto(1)) = Weight(upto(0)) + one(1) /\ Weight(upto(2)) = Weight(upto(1)) + one(2)
      /\ Weight(upto(3)) = Weight(upto(2)) + one(3) /\ Weight(upto(4)) = Weight(upto(3)) + one(4)
  <2>1. /\ Weight(upto(0 + 1)) = Weight(upto(0)) + one(0 + 1) /\ Weight(upto(1 + 1)) = Weight(upto(1)) + one(1 + 1)
        /\ Weight(upto(2 + 1)) = Weight(upto(2)) + one(2 + 1) /\ Weight(upto(3 + 1)) = Weight(upto(3)) + one(3 + 1)
    BY <1>2
  <2>2. 0 + 1 = 1 /\ 1 + 1 = 2 /\ 2 + 1 = 3 /\ 3 + 1 = 4
    OBVIOUS
  <2> QED BY <2>1, <2>2
<1>9. Weight(upto(4)) = one(1) + one(2) + one(3) + one(4)
  BY <1>3, <1>5, <1>6, <1>8
<1> QED BY <1>4, <1>7, <1>9

(* The word of a PSH or POP, taken apart.                                  *)
StackWord(w, d, p, q, t, u) ==
  /\ d \in 0 .. 1 /\ p \in 0 .. 1 /\ q \in 0 .. 1 /\ t \in 0 .. 1 /\ u \in 0 .. 1
  /\ w = 253952 + d * 2048 + p + 2 * q + 4 * t + 8 * u
LEMMA StackPacked ==
  ASSUME NEW w, NEW d, NEW p, NEW q, NEW t, NEW u, StackWord(w, d, p, q, t, u)
  PROVE  /\ w \in Nat
         /\ Field(w, 14, 4) = 15 /\ Field(w, 12, 2) = 2 /\ Field(w, 9, 2) = 0
         /\ Bit(w, 11) <=> d = 1
         /\ Bit(w, 0) <=> p = 1
         /\ Bit(w, 1) <=> q = 1
         /\ Bit(w, 2) <=> t = 1
         /\ Bit(w, 3) <=> u = 1
<1> DEFINE low == p + 2 * q + 4 * t + 8 * u
<1>1. low \in 0 .. 15 /\ (w = 253952 + low \/ w = 256000 + low) /\ w \in Nat
  BY SMT DEF StackWord
<1>2. (d = 0 => w = 253952 + low) /\ (d = 1 => w = 256000 + low) /\ d \in 0 .. 1
  BY SMT DEF StackWord
<1>3. (low % 2 = 1 <=> p = 1) /\ (low \div 2 % 2 = 1 <=> q = 1) /\ (low \div 4 % 2 = 1 <=> t = 1) /\ (low \div 8 % 2 = 1 <=> u = 1)
  BY SMT DEF StackWord
<1> HIDE DEF low
<1>4. w % 2 = low % 2 /\ w \div 2 % 2 = low \div 2 % 2 /\ w \div 4 % 2 = low \div 4 % 2 /\ w \div 8 % 2 = low \div 8 % 2
  BY <1>1, SMT
<1>5. w \div 16384 % 16 = 15 /\ w \div 4096 % 4 = 2 /\ w \div 512 % 4 = 0
  BY <1>1, SMT
<1>6. w \div 2048 % 2 = 1 <=> d = 1
  BY <1>1, <1>2, SMT
<1>7. w \div 1 = w
  BY <1>1, SMT
<1>8. /\ Field(w, 14, 4) = w \div 16384 % 16 /\ Field(w, 12, 2) = w \div 4096 % 4
      /\ Field(w, 9, 2) = w \div 512 % 4
      /\ Bit(w, 11) <=> w \div 2048 % 2 = 1
      /\ Bit(w, 0) <=> w % 2 = 1
      /\ Bit(w, 1) <=> w \div 2 % 2 = 1
      /\ Bit(w, 2) <=> w \div 4 % 2 = 1
      /\ Bit(w, 3) <=> w \div 8 % 2 = 1
  BY <1>1, <1>7, Powers, SMT DEF Field, Bit
<1>9. Field(w, 14, 4) = 15 /\ Field(w, 12, 2) = 2 /\ Field(w, 9, 2) = 0
  BY <1>5, <1>8, SMT
<1>10. (Bit(w, 0) <=> p = 1) /\ (Bit(w, 1) <=> q = 1) /\ (Bit(w, 2) <=> t = 1) /\ (Bit(w, 3) <=> u = 1)
  BY <1>3, <1>4, <1>8, SMT
<1> QED BY <1>1, <1>6, <1>8, <1>9, <1>10, SMT

(* PSH and POP move the registers they name, each once, and leave the      *)
(* interrupt system as it is.                                              *)
LEMMA StackWritten ==
  ASSUME NEW s \in Statements, s.form = "stack", NEW from, NEW w \in Emitted(s, from)
  PROVE  Distinct(s.regs) =>
           Step(w, from) = Stacking(s.d, {s.regs[k] : k \in DOMAIN s.regs}, "HOLD")
<1> SUFFICES ASSUME Distinct(s.regs)
             PROVE  Step(w, from) = Stacking(s.d, {s.regs[k] : k \in DOMAIN s.regs}, "HOLD")
  OBVIOUS
<1>1. s.d \in {"PSH", "POP"} /\ s.regs \in UNION {[1 .. n -> DOMAIN SReg] : n \in 1 .. 4}
  BY DEF Statements
<1>2. PICK n \in 1 .. 4 : s.regs \in [1 .. n -> DOMAIN SReg]
  BY <1>1
<1> DEFINE named == {s.regs[k] : k \in DOMAIN s.regs}
           d == IF s.d = "POP" THEN 1 ELSE 0
           p == IF "SP" \in named THEN 1 ELSE 0
           q == IF "LPC" \in named THEN 1 ELSE 0
           t == IF "IX" \in named THEN 1 ELSE 0
           u == IF "AC" \in named THEN 1 ELSE 0
<1>3. DOMAIN SReg = {"SP", "LPC", "IX", "AC"}
  BY DEF SReg
<1>4. named \subseteq {"SP", "LPC", "IX", "AC"}
  BY <1>2, <1>3
<1>5. MaskOf(s.regs) = Weight(named)
  BY <1>2, MaskWeighs
<1>6. w = G3(d, 0, MaskOf(s.regs))
  BY DEF Emitted
<1>7. (s.d = "POP" <=> d = 1) /\ ("SP" \in named <=> p = 1) /\ ("LPC" \in named <=> q = 1)
      /\ ("IX" \in named <=> t = 1) /\ ("AC" \in named <=> u = 1)
  OBVIOUS
<1>8. d \in 0 .. 1 /\ p \in 0 .. 1 /\ q \in 0 .. 1 /\ t \in 0 .. 1 /\ u \in 0 .. 1
  OBVIOUS
<1> HIDE DEF named
<1>9. Weight(named) = p + 2 * q + 4 * t + 8 * u
  BY DEF Weight
<1> HIDE DEF d, p, q, t, u
<1>10. StackWord(w, d, p, q, t, u)
  BY <1>5, <1>6, <1>8, <1>9, Powers, SMT DEF StackWord, G3, OPRG3
<1>11. /\ Field(w, 14, 4) = 15 /\ Field(w, 12, 2) = 2 /\ Field(w, 9, 2) = 0
       /\ Bit(w, 11) <=> d = 1
       /\ Bit(w, 0) <=> p = 1
       /\ Bit(w, 1) <=> q = 1
       /\ Bit(w, 2) <=> t = 1
       /\ Bit(w, 3) <=> u = 1
  BY <1>10, StackPacked
<1>12. Step(w, from) = opr(w)
  BY <1>11 DEF Step
<1>13. opr(w) = Stacking(IF Bit(w, 11) THEN "POP" ELSE "PSH", Registers(w), Interrupts(w))
  BY <1>11 DEF opr
<1>14. (IF Bit(w, 11) THEN "POP" ELSE "PSH") = s.d
  BY <1>1, <1>7, <1>11
<1>15. Interrupts(w) = "HOLD"
  BY <1>11 DEF Interrupts
<1>16. Registers(w) = named
  <2>1. \A r : r \in Registers(w) <=>
                  r \in {"SP", "LPC", "IX", "AC"} /\ Bit(w, [SP |-> 0, LPC |-> 1, IX |-> 2, AC |-> 3][r])
    BY <1>3 DEF Registers
  <2>2. /\ [SP |-> 0, LPC |-> 1, IX |-> 2, AC |-> 3]["SP"] = 0
        /\ [SP |-> 0, LPC |-> 1, IX |-> 2, AC |-> 3]["LPC"] = 1
        /\ [SP |-> 0, LPC |-> 1, IX |-> 2, AC |-> 3]["IX"] = 2
        /\ [SP |-> 0, LPC |-> 1, IX |-> 2, AC |-> 3]["AC"] = 3
    OBVIOUS
  <2>3. /\ "SP" \in Registers(w) <=> "SP" \in named
        /\ "LPC" \in Registers(w) <=> "LPC" \in named
        /\ "IX" \in Registers(w) <=> "IX" \in named
        /\ "AC" \in Registers(w) <=> "AC" \in named
    BY <1>7, <1>11, <2>1, <2>2
  <2>4. \A r : r \in Registers(w) => r \in {"SP", "LPC", "IX", "AC"}
    BY <2>1
  <2> HIDE DEF named
  <2>5. Registers(w) \subseteq named
    BY <2>3, <2>4
  <2>6. named \subseteq Registers(w)
    BY <1>4, <2>3
  <2> QED BY <2>5, <2>6
<1> QED BY <1>12, <1>13, <1>14, <1>15, <1>16 DEF named

(* What a name stands for is a number.                                     *)
LEMMA NamesAreWords ==
  ASSUME NEW n \in Mnemonics
  PROVE  Named(n) \in Nat
<1>1. \A bits : Set(bits) \in Nat
  BY Powers DEF Set, Raised
<1>2. \A dev \in Nat : \A sub \in Nat : \A pulses : iot(dev, sub, pulses) \in Nat
  BY <1>1, Powers DEF iot
<1>3. \A parts : Opr1(parts) \in Nat
  BY <1>1, Powers DEF Opr1, OPRG1
<1>4. ASSUME n \in DOMAIN IOTs PROVE IOTs[n] \in Nat
  BY <1>2, <1>4 DEF IOTs
<1>5. ASSUME n \in DOMAIN G2 PROVE Opr2(G2[n]) \in Nat
  <2>1. G2[n][1] \in 0 .. 1 /\ G2[n][2] \in 0 .. 6
    BY <1>5 DEF G2
  <2> QED BY <2>1, Powers DEF Opr2, OPRG2
<1>6. ASSUME n \in DOMAIN Plain PROVE Plain[n] \in Nat
  BY <1>6, Powers DEF Plain, G3, OPRG3
<1> QED BY <1>3, <1>4, <1>5, <1>6 DEF Named, Mnemonics

(* A register's bit in the mask is a number.                                *)
LEMMA RegisterBit ==
  ASSUME NEW r \in DOMAIN SReg
  PROVE  2 ^ SReg[r] \in Nat
<1>1. r \in {"SP", "LPC", "IX", "AC"}
  BY DEF SReg
<1>2. CASE r = "SP"
  BY <1>2, Powers DEF SReg
<1>3. CASE r = "LPC"
  BY <1>3, Powers DEF SReg
<1>4. CASE r = "IX"
  BY <1>4, Powers DEF SReg
<1>5. CASE r = "AC"
  BY <1>5, Powers DEF SReg
<1> QED BY <1>1, <1>2, <1>3, <1>4, <1>5

(* So is what the assembler emits of any statement.                         *)
LEMMA EmittedIsWord ==
  ASSUME NEW s \in Statements, NEW from \in Nat, NEW w \in Emitted(s, from)
  PROVE  w \in Nat
<1>1. s.form \in {"mem", "jump", "name", "stack", "word"}
  BY DEF Statements
<1>2. CASE s.form = "mem"
  BY <1>2, MemoryWritten
<1>3. CASE s.form = "jump"
  BY <1>3, JumpWritten
<1>4. CASE s.form = "name"
  <2>1. s.name \in Mnemonics
    BY <1>4 DEF Statements
  <2> QED BY <1>4, <2>1, NamesAreWords DEF Emitted
<1>5. CASE s.form = "stack"
  <2>1. s.d \in {"PSH", "POP"} /\ s.regs \in UNION {[1 .. n -> DOMAIN SReg] : n \in 1 .. 4}
    BY <1>5 DEF Statements
  <2>2. \A k \in DOMAIN s.regs : 2 ^ SReg[s.regs[k]] \in Nat
    <3> SUFFICES ASSUME NEW k \in DOMAIN s.regs PROVE 2 ^ SReg[s.regs[k]] \in Nat
      OBVIOUS
    <3>1. s.regs[k] \in DOMAIN SReg
      BY <2>1
    <3> QED BY <3>1, RegisterBit
  <2>3. MaskOf(s.regs) \in Nat
    BY <2>2 DEF MaskOf
  <2>4. w = G3(IF s.d = "POP" THEN 1 ELSE 0, 0, MaskOf(s.regs))
    BY <1>5 DEF Emitted
  <2> QED BY <2>3, <2>4, Powers DEF G3, OPRG3
<1>6. CASE s.form = "word"
  <2>1. s.w \in 0 .. 2 ^ 18 - 1
    BY <1>6 DEF Statements
  <2> QED BY <1>6, <2>1, Powers DEF Emitted
<1> QED BY <1>1, <1>2, <1>3, <1>4, <1>5, <1>6

(* What is in memory was emitted for the statement, and what the machines  *)
(* make of it is their reading of that word.                               *)
Read ==
  /\ statement \in Statements /\ here \in Nat
  /\ at \in {"SOURCE", "MEMORY", "REFUSED", "DECODED"}
  /\ at \in {"MEMORY", "DECODED"} => word \in Emitted(statement, here)
  /\ at = "DECODED" => sim = Step(word, here) /\ engine = Dispatch(word, here)

(* The two parts of a pair.                                                *)
LEMMA InPair ==
  ASSUME NEW A, NEW B, NEW x \in A \X B
  PROVE  x[1] \in A /\ x[2] \in B
OBVIOUS

(* Addresses are numbers.                                                  *)
LEMMA AddressIsNat ==
  ASSUME NEW h \in MemoryAddr
  PROVE  h \in Nat
BY Powers, SMTT(30) DEF MemoryAddr

(* At first nothing is in memory.                                          *)
LEMMA ReadInit ==
  ASSUME EncInit
  PROVE  Read
<1>1. PICK s \in Sources : statement = s[1] /\ here = s[2]
  BY DEF EncInit
<1>2. s \in Statements \X MemoryAddr
  BY SourcesAssumption
<1>3. s[1] \in Statements /\ s[2] \in MemoryAddr
  BY <1>2, InPair, Zenon
<1>4. here \in Nat
  BY <1>1, <1>3, AddressIsNat, Zenon
<1> QED BY <1>1, <1>3, <1>4 DEF Read, EncInit

(* Assembling puts a word there, decoding reads it twice.                  *)
LEMMA ReadNext == Read /\ [Assemble \/ Decode]_encVars => Read'
<1> SUFFICES ASSUME Read, [Assemble \/ Decode]_encVars PROVE Read'
  OBVIOUS
<1>1. CASE Assemble
  BY <1>1 DEF Read, Assemble
<1>2. CASE Decode
  BY <1>2 DEF Read, Decode
<1>3. CASE UNCHANGED encVars
  BY <1>3 DEF Read, encVars
<1> QED BY <1>1, <1>2, <1>3

(* The two machines take every word for the same instruction, up to the    *)
(* words that have no name.                                                *)
LEMMA ReadIsSame == Read => SameMachine
<1> SUFFICES ASSUME Read, at = "DECODED", ~Unnamed PROVE engine = sim
  BY DEF SameMachine
<1>1. word \in Nat
  BY EmittedIsWord DEF Read
<1>2. ~Strange(word)
  BY DEF Strange, Unnamed
<1> QED BY <1>1, <1>2, Alike DEF Read

(* Statements with operands come out as they were written.                 *)
LEMMA ReadIsWritten == Read => AsWritten
<1> SUFFICES ASSUME Read, at = "DECODED" PROVE AsWritten
  BY DEF AsWritten
<1>1. /\ statement \in Statements /\ here \in Nat /\ word \in Emitted(statement, here)
      /\ sim = Step(word, here)
  BY DEF Read
<1>2. statement.form \in {"mem", "jump", "name", "stack", "word"}
  BY <1>1 DEF Statements
<1>3. CASE statement.form = "mem"
  BY <1>1, <1>3, MemoryWritten DEF AsWritten
<1>4. CASE statement.form = "jump"
  <2>1. \/ sim = Jumping(statement.op, statement.ind, statement.idx, statement.a)
        \/ statement.a = 0 /\ statement.op \in {"CAL", "JMP"} /\ ~statement.ind /\ ~statement.idx
    BY <1>1, <1>4, JumpWritten
  <2> QED BY <1>4, <2>1 DEF AsWritten
<1>5. CASE statement.form = "stack"
  BY <1>1, <1>5, StackWritten DEF AsWritten
<1>6. CASE statement.form \in {"name", "word"}
  BY <1>6 DEF AsWritten
<1> QED BY <1>2, <1>3, <1>4, <1>5, <1>6

(* Whatever is assembled, or stands in memory without having been: sim.py  *)
(* and the map ROMs of ucode.py take it for the same instruction, but for  *)
(* the reserved opcodes and the CLA bit in a WAIT, SKI or SKNI.            *)
THEOREM OneInstructionSet == EncSpec => []SameMachine
<1>1. EncInit => Read
  BY ReadInit
<1> QED BY <1>1, ReadNext, ReadIsSame, PTL DEF EncSpec

(* For every operand, mode, register, mask and address: what gen_casm.py   *)
(* emits for a statement decodes to that statement, but for a jump to zero *)
(* and a register named twice.                                             *)
THEOREM OperandsAsWritten == EncSpec => []AsWritten
<1>1. EncInit => Read
  BY ReadInit
<1> QED BY <1>1, ReadNext, ReadIsWritten, PTL DEF EncSpec
=============================================================================
