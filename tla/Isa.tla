-------------------------------- MODULE Isa --------------------------------
(***************************************************************************)
(* The instruction set, as sim.py executes it.                             *)
(*                                                                         *)
(* Execute is one call of CPU.step, with one action per instruction class. *)
(* Accept(n) is the entry of an interrupt, Raise(n) a device asking for    *)
(* one, Wake the end of a WAIT.  Next leaves the moment of an interrupt    *)
(* open: it says what an interrupt may do wherever it falls between two    *)
(* instructions.  Sim fixes the moment as the interpreter's loop does, and *)
(* Micro shows the control store implements what is said here.             *)
(***************************************************************************)
EXTENDS Words

CONSTANTS
  Programs,      \* the instructions memory may hold: functions on Addr
  DataInit       \* the data words at reset

ASSUME ProgramAssumption ==
  /\ Programs \subseteq [Addr -> Instr]
  /\ DataInit \in [Addr -> Word]

VARIABLES
  ac, ix, l, pc, sp,     \* the registers
  i,                     \* interrupts enabled
  m,                     \* memory, data words
  prog,                  \* memory, instructions
  req,                   \* req[n]: device n holds its request up
  imask,                 \* one bit per device: let it through
  waiting, halted

vars == <<ac, ix, l, pc, sp, i, m, prog, req, imask, waiting, halted>>

TypeOK ==
  /\ ac \in Word /\ ix \in Word /\ l \in Link
  /\ pc \in Addr /\ sp \in SpVals
  /\ i \in BOOLEAN /\ waiting \in BOOLEAN /\ halted \in BOOLEAN
  /\ m \in [Addr -> Word]
  /\ prog \in [Addr -> Instr]
  /\ req \in [Devices -> BOOLEAN]
  /\ imask \in Word

(* A machine just built and reset: the mask lets every line through, I is  *)
(* off, SP is zero, PC comes from vector entry 0.                          *)
Init ==
  /\ ac = 0 /\ ix = 0 /\ l = 0 /\ sp = 0
  /\ i = FALSE /\ waiting = FALSE /\ halted = FALSE
  /\ m = DataInit
  /\ pc = DataInit[0] % AddrMod
  /\ prog \in Programs
  /\ req = [n \in Devices |-> FALSE]
  /\ imask = MaskMod - 1

-----------------------------------------------------------------------------
(* Operands, the ALU, the stack.                                           *)

\* PC after an instruction that skips or does not.
After(skip) == Plus(pc, IF skip THEN 2 ELSE 1)

Reg(r) == IF r = "IX" THEN ix ELSE ac

Ea(ins) ==
  LET a == IF ins.ind THEN m[ins.addr] % AddrMod ELSE ins.addr
  IN  IF ins.idx THEN Plus(a, ix) ELSE a

\* A direct CAL or JMP stays in the page of the instruction itself.
Target(ins) ==
  IF ins.ind \/ ins.idx THEN Ea(ins) ELSE pc - (pc % PageSize) + ins.addr

LinkDropsL(addr) == addr
LinkWord(addr) == l * AddrMod + addr

\* The stack is a pair: where SP points and what memory holds.
Stack(s, mem) == [sp |-> s, m |-> mem]

PushWordThenStep(st, v) == Stack(SpDec(st.sp), [st.m EXCEPT ![StackAddr(st.sp)] = v])
PushWord(st, v) ==
  Stack(SpDec(st.sp), [st.m EXCEPT ![StackAddr(SpDec(st.sp))] = v])

PushIf(cond, st, v) == IF cond THEN PushWord(st, v) ELSE st

\* PSH walks the mask upward and writes the SP the instruction began with.
PushMask(mask, ret) ==
  LET s0 == PushIf(0 \in mask, Stack(sp, m), sp)
      s1 == PushIf(1 \in mask, s0, LinkWord(ret))
      s2 == PushIf(2 \in mask, s1, ix)
  IN  PushIf(3 \in mask, s2, ac)

\* POP walks it downward; a popped SP is final, with no step after it.
PopMask(mask, st, ret) ==
  LET s2 == IF 3 \in mask THEN SpInc(st.sp) ELSE st.sp
      s1 == IF 2 \in mask THEN SpInc(s2) ELSE s2
      s0 == IF 1 \in mask THEN SpInc(s1) ELSE s1
  IN  [ac  |-> IF 3 \in mask THEN st.m[StackAddr(st.sp)] ELSE ac,
       ix  |-> IF 2 \in mask THEN st.m[StackAddr(s2)] ELSE ix,
       lpc |-> IF 1 \in mask THEN st.m[StackAddr(s1)] ELSE LinkWord(ret),
       sp  |-> IF 0 \in mask THEN st.m[StackAddr(s0)] % PageSize ELSE s0]

LinkOf(word) == IF Sign(word) THEN 1 ELSE 0

IField(f) == CASE f = "DI" -> FALSE [] f = "EI" -> TRUE [] OTHER -> i

-----------------------------------------------------------------------------
(* Opcodes 0..7.                                                           *)

Arith(ins) ==
  LET v == m[Ea(ins)]
      a == Reg(ins.r)
  IN  /\ ins.op \in AluOps
      /\ ac' = IF ins.r = "AC" THEN AluWord(ins.op, a, v) ELSE ac
      /\ ix' = IF ins.r = "IX" THEN AluWord(ins.op, a, v) ELSE ix
      /\ l'  = AluLink(ins.op, a, v, l)
      /\ pc' = After(FALSE)
      /\ UNCHANGED <<sp, i, m, req, imask, waiting, halted>>

Deposit(ins) ==
  /\ ins.op = "DAC"
  /\ m'  = [m EXCEPT ![Ea(ins)] = Reg(ins.r)]
  /\ pc' = After(FALSE)
  /\ UNCHANGED <<ac, ix, l, sp, i, req, imask, waiting, halted>>

Compare(ins) ==
  /\ ins.op = "SAD"
  /\ pc' = After(m[Ea(ins)] # Reg(ins.r))
  /\ UNCHANGED <<ac, ix, l, sp, i, m, req, imask, waiting, halted>>

(* Opcodes 8..11.                                                          *)

Call(ins) ==
  LET pushed == PushWord(Stack(sp, m), LinkWord(After(FALSE)))
  IN  /\ ins.op = "CAL"
      /\ pc' = Target(ins)
      /\ sp' = pushed.sp /\ m' = pushed.m
      /\ UNCHANGED <<ac, ix, l, i, req, imask, waiting, halted>>

Jump(ins) ==
  /\ ins.op = "JMP"
  /\ pc' = Target(ins)
  /\ UNCHANGED <<ac, ix, l, sp, i, m, req, imask, waiting, halted>>

\* ISZ and DSZ write the stepped word back and skip on zero; L stays.
Count(ins) ==
  LET ea == Ea(ins)
      v  == (m[ea] + (IF ins.op = "ISZ" THEN 1 ELSE WordMod - 1)) % WordMod
  IN  /\ ins.op \in {"ISZ", "DSZ"}
      /\ m'  = [m EXCEPT ![ea] = v]
      /\ pc' = After(v = 0)
      /\ UNCHANGED <<ac, ix, l, sp, i, req, imask, waiting, halted>>

(* Opcode 14, device 0, and the acknowledge every device has.              *)

MaskIo(ins) ==
  /\ ins.op \in {"IMRD", "IMWR", "IMSET", "IMCLR"}
  /\ ac' = IF ins.op = "IMRD" THEN imask ELSE ac
  /\ imask' = CASE ins.op = "IMRD"  -> imask
                [] ins.op = "IMWR"  -> ac % MaskMod
                [] ins.op = "IMSET" -> BitIor(imask, ac % MaskMod)
                [] ins.op = "IMCLR" -> BitAnd(imask, WordMod - 1 - ac)
  /\ pc' = After(FALSE)
  /\ UNCHANGED <<ix, l, sp, i, m, req, waiting, halted>>

SkipIo(ins) ==
  /\ ins.op \in {"SKI", "SKNI"}
  /\ pc' = After(i = (ins.op = "SKI"))
  /\ UNCHANGED <<ac, ix, l, sp, i, m, req, imask, waiting, halted>>

WaitIo(ins) ==
  /\ ins.op = "WAIT"
  /\ waiting' = TRUE
  /\ pc' = After(FALSE)
  /\ UNCHANGED <<ac, ix, l, sp, i, m, req, imask, halted>>

\* HACK in the bare harness, TACK and KACK in the device model.
Ack(ins) ==
  /\ ins.op = "ACK"
  /\ req' = [req EXCEPT ![ins.dev] = FALSE]
  /\ pc'  = After(FALSE)
  /\ UNCHANGED <<ac, ix, l, sp, i, m, imask, waiting, halted>>

(* Opcode 15: the three operate groups.                                    *)

Operate(ins) ==
  /\ ins.op = "OPR1"
  /\ ac' = Group1(ins.mic, ac, l).ac
  /\ l'  = Group1(ins.mic, ac, l).l
  /\ ix' = IF "IXC" \in ins.mic THEN (ix + 1) % WordMod ELSE ix
  /\ halted' = ("HLT" \in ins.mic)
  /\ pc' = After(FALSE)
  /\ UNCHANGED <<sp, i, m, req, imask, waiting>>

\* The selected conditions are ORed, then inverted by bit 11.
Condition(ins) ==
  LET any == \/ "Z" \in ins.test /\ ac = 0
             \/ "L" \in ins.test /\ l = 1
             \/ "M" \in ins.test /\ Sign(ac)
  IN  IF ins.inv THEN ~any ELSE any

SkipOn(ins) ==
  /\ ins.op = "OPR2"
  /\ pc' = After(Condition(ins))
  /\ UNCHANGED <<ac, ix, l, sp, i, m, req, imask, waiting, halted>>

Push(ins) ==
  LET pushed == PushMask(ins.mask, After(FALSE))
  IN  /\ ins.op = "PSH"
      /\ sp' = pushed.sp /\ m' = pushed.m
      /\ i'  = IField(ins.ifield)
      /\ pc' = After(FALSE)
      /\ UNCHANGED <<ac, ix, l, req, imask, waiting, halted>>

Pop(ins) ==
  LET popped == PopMask(ins.mask, Stack(sp, m), After(FALSE))
  IN  /\ ins.op = "POP"
      /\ ac' = popped.ac /\ ix' = popped.ix /\ sp' = popped.sp
      /\ l'  = LinkOf(popped.lpc)
      /\ pc' = popped.lpc % AddrMod
      /\ i'  = IField(ins.ifield)
      /\ UNCHANGED <<m, req, imask, waiting, halted>>

-----------------------------------------------------------------------------
Perform(ins) ==
  \/ Arith(ins) \/ Deposit(ins) \/ Compare(ins)
  \/ Call(ins) \/ Jump(ins) \/ Count(ins)
  \/ MaskIo(ins) \/ SkipIo(ins) \/ WaitIo(ins) \/ Ack(ins)
  \/ Operate(ins) \/ SkipOn(ins) \/ Push(ins) \/ Pop(ins)

Execute ==
  /\ ~waiting /\ ~halted
  /\ Perform(prog[pc])
  /\ UNCHANGED prog

\* Device n drives vector entry n, if it asks and its mask bit is set.
Open(n) == req[n] /\ (imask \div 2^n) % 2 = 1

Accept(n) ==
  LET pushed == PushWord(Stack(sp, m), LinkWord(pc))
  IN  /\ i /\ Open(n) /\ ~halted
      /\ sp' = pushed.sp /\ m' = pushed.m
      /\ i' = FALSE
      /\ pc' = pushed.m[n] % AddrMod
      /\ waiting' = FALSE
      /\ UNCHANGED <<ac, ix, l, prog, req, imask, halted>>

\* Any request ends a WAIT, the masked ones too.
PendingOpen == \E n \in Devices : Open(n)
Pending == \E n \in Devices : req[n]

Wake ==
  /\ waiting /\ Pending
  /\ waiting' = FALSE
  /\ UNCHANGED <<ac, ix, l, pc, sp, i, m, prog, req, imask, halted>>

Raise(n) ==
  /\ ~req[n]
  /\ req' = [req EXCEPT ![n] = TRUE]
  /\ UNCHANGED <<ac, ix, l, pc, sp, i, m, prog, imask, waiting, halted>>

Next ==
  \/ Execute
  \/ Wake
  \/ \E n \in Devices : Accept(n)
  \/ \E n \in Devices : Raise(n)

Spec == Init /\ [][Next]_vars
=============================================================================
