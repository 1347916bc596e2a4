------------------------------- MODULE Micro -------------------------------
(***************************************************************************)
(* The control store and its engine: ucode.py, one Cycle for each call of  *)
(* Micro.cycle, and the claim that it implements Isa.                      *)
(*                                                                         *)
(* An instruction here takes one cycle or fifteen, its last cycle may be   *)
(* the fetch of the next one, and an interrupt is noticed in the middle of *)
(* such a fetch.  The history variable arch is the architectural state:    *)
(* it follows the registers at each fetch and at each I/O cycle, and is    *)
(* what an outside observer of Isa would see.                              *)
(*                                                                         *)
(* The interrupt mask is all ones: the engine leaves device 0's mask       *)
(* operations to a device model that nothing in the repository supplies.   *)
(***************************************************************************)
EXTENDS Words, FiniteSetsExt, Sequences

CONSTANTS Programs, DataInit   \* as in Isa

ASSUME StoreAssumption ==
  /\ Programs \subseteq [Addr -> Instr]
  /\ DataInit \in [Addr -> Word]

\* The mask has a bit for every device: all ones lets them all through.
ASSUME MaskAssumption == \A n \in Devices : ((MaskMod - 1) \div 2^n) % 2 = 1

VARIABLES
  ac, ix, l, pc, sp, i, m, prog, req, waiting, halted,   \* as in Isa
  ir, msk,            \* the instruction, and its stack mask still to walk
  di, do, ar,         \* memory data in and out, memory address
  pgl,                \* the page of the instruction in ir
  irqDev,             \* the device the priority encoder picked
  upc,                \* the microword: n-th from the label at
  arch                \* the architectural state

regs == <<ac, ix, l, pc, sp, i, m, ir, msk, di, do, ar, pgl, irqDev, upc, arch>>
microVars == <<regs, prog, req, waiting, halted>>

-----------------------------------------------------------------------------
(* The control store.  A word is the idle one except for what it sets.     *)

Idle == [asrc |-> "NONE", bsrc |-> "DI", alu |-> "ADD", dosrc |-> "HOLD",
         rdst |-> "NONE", lctl |-> "HOLD", arsrc |-> "HOLD", mem |-> "IDLE",
         ictl |-> "IHOLD", seq |-> "NEXT", cc |-> "NEVER", spup |-> FALSE,
         na |-> "FETCH"]

Fetch   == [Idle EXCEPT !.mem = "RD", !.arsrc = "PCNEXT", !.seq = "MAP"]
Read    == [Idle EXCEPT !.mem = "RD"]
Write   == [Idle EXCEPT !.mem = "WR"]
ToFetch == [Idle EXCEPT !.seq = "JUMP", !.na = "FETCH"]

FetchWords ==
  [FETCH   |-> << Fetch >>,
   FETCH_A |-> << [Fetch EXCEPT !.asrc = "FROMIR", !.alu = "FROMIR", !.rdst = "FROMIR",
                                !.lctl = "FROMALU"] >>,
   FETCH_G |-> << [Fetch EXCEPT !.asrc = "AC", !.alu = "G1"] >>,
   FETCH_S |-> << [Fetch EXCEPT !.seq = "SKIPF", !.cc = "G2"] >>,
   FETCH_I |-> << [Fetch EXCEPT !.ictl = "IFROMIR"] >>]

\* AR from the operand field, from IX plus it, from memory, from IX plus memory.
ByField(w, src) == [w EXCEPT !.arsrc = "ALU", !.bsrc = src, !.alu = "PASSB"]
ByIndex(w, src) == [w EXCEPT !.arsrc = "ALU", !.asrc = "IX", !.bsrc = src]
ByMemory(w)     == [w EXCEPT !.arsrc = "DI"]
Pointer(src)    == << ByField(Idle, src), Read >>

\* EA_* also loads DO, which is what makes DAC three cycles.
EaTail == [Idle EXCEPT !.dosrc = "FROMIR", !.seq = "MAP2"]
EaWords ==
  [EA_ZP  |-> << ByField([EaTail EXCEPT !.asrc = "FROMIR"], "IRF11") >>,
   EA_IDX |-> << ByIndex(EaTail, "IRF11") >>,
   EA_IN1 |-> Pointer("IRF11") \o << ByMemory([EaTail EXCEPT !.asrc = "FROMIR"]) >>,
   EA_IX1 |-> Pointer("IRF11") \o << ByIndex(EaTail, "DI") >>]

JmpTail == [ToFetch EXCEPT !.rdst = "PC"]
JmpWords ==
  [JMP_PG  |-> << [JmpTail EXCEPT !.arsrc = "PAGE"] >>,
   JMP_IDX |-> << ByIndex(JmpTail, "IRF12") >>,
   JMP_IN1 |-> Pointer("IRF12") \o << ByMemory(JmpTail) >>,
   JMP_IX1 |-> Pointer("IRF12") \o << ByIndex(JmpTail, "DI") >>]

JaTail == [Idle EXCEPT !.seq = "MAP2"]
JaWords ==
  [JA_ZP  |-> << ByField(JaTail, "IRF12") >>,
   JA_IDX |-> << ByIndex(JaTail, "IRF12") >>,
   JA_IN1 |-> Pointer("IRF12") \o << ByMemory(JaTail) >>,
   JA_IX1 |-> Pointer("IRF12") \o << ByIndex(JaTail, "DI") >>]

OpWords ==
  [OP_RD  |-> << [Read EXCEPT !.arsrc = "PC", !.seq = "JUMP", !.na = "FETCH_A"] >>,
   OP_DAC |-> << [ToFetch EXCEPT !.mem = "WR", !.arsrc = "PC"] >>,
   OP_SAD |-> << Read, [Idle EXCEPT !.arsrc = "PC", !.seq = "SKIPC", !.cc = "NZ"] >>,
   SKIP   |-> << [ToFetch EXCEPT !.arsrc = "PCNEXT"] >>,
   OP_ISZ |-> << Read,
                 [Idle EXCEPT !.alu = "FROMIR", !.dosrc = "ALU"],
                 [Write EXCEPT !.seq = "BRANCH", !.cc = "Z", !.na = "SKIP"],
                 [ToFetch EXCEPT !.arsrc = "PC"] >>,
   G3     |-> << [Idle EXCEPT !.seq = "MAPMASK"] >>,
   IOT    |-> << [ToFetch EXCEPT !.mem = "IO", !.arsrc = "PC"] >>]

StepDown(src) ==
  [Idle EXCEPT !.asrc = "SP", !.alu = "DEC", !.rdst = "SP", !.arsrc = "STACK", !.dosrc = src]
Walk == [Idle EXCEPT !.ictl = "IFROMIR", !.seq = "MAPMASK"]

PushWords(src) == << StepDown(src), [Walk EXCEPT !.mem = "WR", !.arsrc = "PC"] >>
PopWords(up, last) ==
  << [Idle EXCEPT !.arsrc = "STACKR"], [Read EXCEPT !.spup = up], last >>
PopIntoHoldsAr(r) == [Walk EXCEPT !.alu = "PASSB", !.rdst = r]
PopInto(r) == [Walk EXCEPT !.alu = "PASSB", !.rdst = r, !.arsrc = "PC"]

StackWords ==
  [PSH_SP  |-> PushWords("SP"), PSH_LPC |-> PushWords("LPC"),
   PSH_IX  |-> PushWords("IX"), PSH_AC  |-> PushWords("AC"),
   POP_AC  |-> PopWords(TRUE, PopInto("AC")),
   POP_IX  |-> PopWords(TRUE, PopInto("IX")),
   POP_LPC |-> PopWords(TRUE, [Walk EXCEPT !.arsrc = "DI", !.rdst = "PC",
                                           !.lctl = "FROMDI"]),
   POP_SP  |-> PopWords(FALSE, PopInto("SP"))]

CalWords ==
  LET cal(target) == << StepDown("LPC"), [Write EXCEPT !.seq = "JUMP", !.na = target] >>
  IN  [CAL_PG |-> cal("JMP_PG"),  CAL_IX |-> cal("JMP_IDX"),
       CAL_IN |-> cal("JMP_IN1"), CAL_XI |-> cal("JMP_IX1")]

IrqWords ==
  [IRQ |-> << [StepDown("LPC") EXCEPT !.ictl = "ICLR"],
              Write,
              ByField(Idle, "DEV"),
              Read,
              ByMemory(JmpTail) >>]

\* The sections share no label.
f ++ g == [at \in DOMAIN f \cup DOMAIN g |-> IF at \in DOMAIN f THEN f[at] ELSE g[at]]

Microprogram == FetchWords ++ EaWords ++ JmpWords ++ JaWords ++ OpWords
                ++ StackWords ++ CalWords ++ IrqWords

-----------------------------------------------------------------------------
(* The map ROMs.                                                           *)

\* Direct, indexed, indirect, both.
Mode(ins, labels) ==
  labels[1 + (IF ins.ind THEN 2 ELSE 0) + (IF ins.idx THEN 1 ELSE 0)]

Map1(ins) ==
  CASE ins.op \in AluOps \cup {"DAC", "SAD"} ->
         Mode(ins, <<"EA_ZP", "EA_IDX", "EA_IN1", "EA_IX1">>)
    [] ins.op = "JMP" -> Mode(ins, <<"JMP_PG", "JMP_IDX", "JMP_IN1", "JMP_IX1">>)
    [] ins.op = "CAL" -> Mode(ins, <<"CAL_PG", "CAL_IX", "CAL_IN", "CAL_XI">>)
    [] ins.op \in {"ISZ", "DSZ"} ->
         Mode(ins, <<"JA_ZP", "JA_IDX", "JA_IN1", "JA_IX1">>)
    [] ins.op = "OPR1" -> "FETCH_G"
    [] ins.op = "OPR2" -> "FETCH_S"
    [] ins.op \in {"PSH", "POP"} -> "G3"
    [] OTHER -> "IOT"

Map2(ins) ==
  CASE ins.op = "DAC" -> "OP_DAC"
    [] ins.op = "SAD" -> "OP_SAD"
    [] ins.op \in {"ISZ", "DSZ"} -> "OP_ISZ"
    [] OTHER -> "OP_RD"

\* The priority encoder: lowest register first to push, highest to pop.
PopsUpward(op, mask) == Min(mask)
MaskBit(op, mask) == IF op = "PSH" THEN Min(mask) ELSE Max(mask)

MaskEntry(op, mask) ==
  IF mask = {} THEN "FETCH_I"
  ELSE (IF op = "PSH" THEN <<"PSH_SP", "PSH_LPC", "PSH_IX", "PSH_AC">>
        ELSE <<"POP_SP", "POP_LPC", "POP_IX", "POP_AC">>)[1 + MaskBit(op, mask)]

-----------------------------------------------------------------------------
(* One cycle, in the order the engine takes it.                            *)

Word0 == Microprogram[upc.at][upc.n]

Goto(label) == [at |-> label, n |-> 1]

Fetches == {"FETCH", "FETCH_A", "FETCH_G", "FETCH_S", "FETCH_I"}
Fetching == upc.at \in Fetches

FoldsOnly == Fetches \ {"FETCH"}
IrqChecks == Fetches
IrqNow == upc.at \in IrqChecks /\ i /\ \E n \in Devices : req[n]

RegOfIr == IF ir.r = "IX" THEN ix ELSE ac

BusA == CASE Word0.asrc = "NONE" -> 0   [] Word0.asrc = "AC" -> ac
          [] Word0.asrc = "IX"   -> ix  [] Word0.asrc = "SP" -> sp
          [] Word0.asrc = "FROMIR" -> RegOfIr

BusB == CASE Word0.bsrc = "DI"  -> di
          [] Word0.bsrc = "DEV" -> irqDev
          [] OTHER -> ir.addr

AluOut ==
  LET held(w) == [r |-> w % WordMod, l |-> l]
  IN  CASE Word0.alu = "ADD"   -> held(BusA + BusB)
        [] Word0.alu = "PASSB" -> held(BusB)
        [] Word0.alu = "DEC"   -> held(BusA + WordMod - 1)
        [] Word0.alu = "G1"    -> [r |-> Group1(ir.mic, ac, l).ac, l |-> Group1(ir.mic, ac, l).l]
        [] Word0.alu = "FROMIR" /\ ir.op = "ISZ" -> held(BusA + BusB + 1)
        [] Word0.alu = "FROMIR" /\ ir.op = "DSZ" -> held(BusB + WordMod - 1)
        [] OTHER -> [r |-> AluWord(ir.op, BusA, BusB), l |-> AluLink(ir.op, BusA, BusB, l)]

\* A word that tests a condition leaves what it tests alone.
Cond(cc) ==
  CASE cc = "Z"  -> do = 0
    [] cc = "NZ" -> RegOfIr # di
    [] cc = "G2" -> ir.inv # (\/ "Z" \in ir.test /\ ac = 0
                              \/ "L" \in ir.test /\ l = 1
                              \/ "M" \in ir.test /\ Sign(ac))
    [] OTHER -> FALSE

\* A taken skip discards the word just read, and so does an interrupt.
Skipping == upc.at = "FETCH_S" /\ Cond(Word0.cc)
NewIr == Fetching /\ ~IrqNow /\ ~Skipping

\* Code is not data: a fetch leaves in DI a word no microword may use.
Memory ==
  /\ di' = IF Word0.mem # "RD" THEN di ELSE IF Fetching THEN 0 ELSE m[ar]
  /\ m'  = IF Word0.mem = "WR" THEN [m EXCEPT ![ar] = do] ELSE m

\* Device 0 is decoded in the engine, ACK is the device model's.
DoesIo == Word0.mem = "IO"
IoSkip == DoesIo /\ ir.op \in {"SKI", "SKNI"} /\ i = (ir.op = "SKI")
IoCycle ==
  /\ waiting' = (DoesIo /\ ir.op = "WAIT")
  /\ req' = IF DoesIo /\ ir.op = "ACK" THEN [req EXCEPT ![ir.dev] = FALSE] ELSE req

DataOut ==
  do' = CASE Word0.dosrc = "HOLD"   -> do
          [] Word0.dosrc = "FROMIR" -> RegOfIr
          [] Word0.dosrc = "LPC"    -> l * AddrMod + pc
          [] Word0.dosrc = "ALU"    -> AluOut.r
          [] Word0.dosrc = "AC"     -> ac
          [] Word0.dosrc = "IX"     -> ix
          [] Word0.dosrc = "SP"     -> sp

Dst == IF Word0.rdst = "FROMIR" THEN ir.r ELSE Word0.rdst

SpUncut(w) == w
SpField(w) == w % PageSize

Registers ==
  /\ ac' = IF Dst = "AC" \/ Word0.alu = "G1" THEN AluOut.r ELSE ac
  /\ ix' = CASE Dst = "IX" -> AluOut.r
             [] Word0.alu = "G1" /\ "IXC" \in ir.mic -> (ix + 1) % WordMod
             [] OTHER -> ix
  /\ sp' = CASE Dst = "SP" -> SpField(AluOut.r)
             [] Word0.spup -> SpField(sp + 1)
             [] OTHER -> sp
  /\ halted' = (Word0.alu = "G1" /\ "HLT" \in ir.mic)

Flags ==
  /\ l' = CASE Word0.alu = "G1" \/ Word0.lctl = "FROMALU" -> AluOut.l
            [] Word0.lctl = "FROMDI" -> IF Sign(di') THEN 1 ELSE 0
            [] OTHER -> l
  /\ i' = CASE Word0.ictl = "ICLR" -> FALSE
            [] Word0.ictl = "IFROMIR" /\ ir.ifield # "HOLD" -> ir.ifield = "EI"
            [] OTHER -> i

TakesSkip(word) == word.seq = "SKIPC" /\ Cond(word.cc)

\* The four paths into AR; PC steps before the mux and may load from it.
Addresses ==
  LET stepped == IF IoSkip \/ (Word0.arsrc = "PCNEXT" /\ ~IrqNow) THEN Plus(pc, 1) ELSE pc
      skipped == Plus(stepped, 1)
      muxed == CASE Word0.arsrc = "HOLD"   -> ar
                 [] Word0.arsrc = "ALU"    -> AluOut.r % AddrMod
                 [] Word0.arsrc \in {"PC", "PCNEXT"} -> stepped
                 [] Word0.arsrc = "DI"     -> di' % AddrMod
                 [] Word0.arsrc = "PAGE"   -> pgl * PageSize + ir.addr
                 [] Word0.arsrc = "STACK"  -> StackAddr(SpField(AluOut.r))
                 [] Word0.arsrc = "STACKR" -> StackAddr(sp')
  IN  /\ ar' = IF TakesSkip(Word0) THEN skipped ELSE muxed
      /\ pc' = IF TakesSkip(Word0) THEN skipped ELSE IF Dst = "PC" THEN muxed ELSE stepped

\* The page is the fetched instruction's, PC already naming the next.
PageOfNext(next) == next \div PageSize
PageOf(next) == Plus(next, AddrMod - 1) \div PageSize

Load ==
  /\ ir'  = IF NewIr THEN prog[ar] ELSE ir
  /\ pgl' = IF NewIr THEN PageOf(pc') ELSE pgl

\* One step of the microsequencer; the mask loses the bit it dispatches on.
Sequencer ==
  LET left == CASE ~NewIr -> msk
                [] ir'.op \in {"PSH", "POP"} -> ir'.mask
                [] OTHER -> {}
      walks == /\ ~IrqNow
               /\ \/ Word0.seq = "MAPMASK"
                  \/ Word0.seq = "MAP" /\ Map1(ir') = "G3"
  IN  /\ irqDev' = IF IrqNow THEN Min({n \in Devices : req[n]}) ELSE irqDev
      /\ msk' = IF walks /\ left # {} THEN left \ {MaskBit(ir'.op, left)} ELSE left
      /\ upc' =
           CASE IrqNow -> Goto("IRQ")
             [] walks  -> Goto(MaskEntry(ir'.op, left))
             [] Word0.seq = "NEXT" -> [upc EXCEPT !.n = @ + 1]
             [] Word0.seq = "JUMP" -> Goto(Word0.na)
             [] Word0.seq = "MAP2" -> Goto(Map2(ir))
             [] Word0.seq = "SKIPC" \/ (Skipping /\ ~IrqNow) -> Goto("FETCH")
             [] Word0.seq = "BRANCH" ->
                  IF Cond(Word0.cc) THEN Goto(Word0.na) ELSE [upc EXCEPT !.n = @ + 1]
             [] OTHER -> Goto(Map1(ir'))

\* The instruction before a fetch is over in it, unless the fetch is the first
\* half of a skip; PC then names the instruction that follows.
Settled == DoesIo \/ (Fetching /\ (IrqNow \/ ~Skipping))

Observe ==
  arch' = IF Settled
          THEN [ac |-> ac', ix |-> ix', l |-> l', sp |-> sp', i |-> i', m |-> m',
                pc |-> IF NewIr THEN Plus(pc', AddrMod - 1) ELSE pc']
          ELSE arch

Cycle ==
  /\ ~waiting /\ ~halted
  /\ Memory /\ IoCycle /\ DataOut /\ Registers /\ Flags /\ Addresses /\ Load
  /\ Sequencer /\ Observe
  /\ UNCHANGED prog

\* WAIT holds the sequencer until any device asks.
WaitCycle ==
  /\ waiting /\ \E n \in Devices : req[n]
  /\ waiting' = FALSE
  /\ UNCHANGED <<regs, prog, req, halted>>

Raise(n) ==
  /\ ~req[n]
  /\ req' = [req EXCEPT ![n] = TRUE]
  /\ UNCHANGED <<regs, prog, waiting, halted>>

MicroInit ==
  /\ ac = 0 /\ ix = 0 /\ l = 0 /\ sp = 0 /\ i = FALSE
  /\ di = 0 /\ do = 0 /\ msk = {} /\ pgl = 0 /\ irqDev = 0
  /\ waiting = FALSE /\ halted = FALSE
  /\ m = DataInit
  /\ pc = DataInit[0] % AddrMod
  /\ ar = pc
  /\ prog \in Programs
  /\ ir = [op |-> "TAD", r |-> "AC", ind |-> FALSE, idx |-> FALSE, addr |-> 0]
  /\ req = [n \in Devices |-> FALSE]
  /\ upc = Goto("FETCH")
  /\ arch = [ac |-> 0, ix |-> 0, l |-> 0, sp |-> 0, i |-> FALSE, m |-> m, pc |-> pc]

MicroNext == Cycle \/ WaitCycle \/ \E n \in Devices : Raise(n)

\* Cycles pass: that is all the engine owes.
MicroSpec == MicroInit /\ [][MicroNext]_microVars /\ WF_microVars(Cycle \/ WaitCycle)

-----------------------------------------------------------------------------
(* Properties.                                                             *)

MicroTypeOK ==
  /\ ac \in Word /\ ix \in Word /\ l \in Link /\ i \in BOOLEAN
  /\ di \in Word /\ do \in Word
  /\ pc \in Addr /\ ar \in Addr /\ sp \in SpVals
  /\ m \in [Addr -> Word] /\ req \in [Devices -> BOOLEAN]
  /\ waiting \in BOOLEAN /\ halted \in BOOLEAN
  /\ ir \in Instr /\ msk \subseteq 0 .. 3
  /\ irqDev \in Devices \cup {0}
  /\ pgl \in Nat /\ pgl * PageSize + PageSize <= AddrMod
  /\ arch \in [ac : Word, ix : Word, l : Link, sp : SpVals, i : BOOLEAN,
               m : [Addr -> Word], pc : Addr]
  /\ upc \in [at : DOMAIN Microprogram, n : Nat \ {0}]
  /\ upc.n <= Len(Microprogram[upc.at])

ISA == INSTANCE Isa WITH
         ac <- arch.ac, ix <- arch.ix, l <- arch.l, pc <- arch.pc, sp <- arch.sp,
         i <- arch.i, m <- arch.m, imask <- MaskMod - 1

(* Seen at its instruction boundaries the control store runs the           *)
(* instruction set: every instruction whole, every interrupt between two   *)
(* of them, whatever was folded into the fetch (ucode.py cycle, SPEC 6).   *)
ImplementsIsa == ISA!Spec

\* Nothing but PC, on to the next word.
PassesOn ==
  /\ arch'.pc = ISA!After(FALSE)
  /\ UNCHANGED <<arch.ac, arch.ix, arch.l, arch.sp, arch.i, arch.m, prog, req, waiting, halted>>

\* A request noticed in the fetch of a skip that holds: the skip is lost.
LosesSkip ==
  LET ins == prog[arch.pc]
  IN  /\ ins.op = "OPR2" /\ ISA!Condition(ins)
      /\ arch.i /\ ISA!Pending /\ ~waiting /\ ~halted
      /\ PassesOn

\* A request noticed in the fetch of a bare DI: entered with interrupts off.
IsBareDi(ins) == ins.op \in {"PSH", "POP"} /\ ins.mask = {} /\ ins.ifield = "DI"
AcceptsLate(n) ==
  LET pushed == ISA!PushWord(ISA!Stack(arch.sp, arch.m), ISA!LinkWord(arch.pc))
  IN  /\ IsBareDi(prog[Plus(arch.pc, AddrMod - 1)])
      /\ ~arch.i /\ req[n] /\ ~waiting /\ ~halted
      /\ arch'.sp = pushed.sp /\ arch'.m = pushed.m /\ arch'.pc = pushed.m[n] % AddrMod
      /\ UNCHANGED <<arch.ac, arch.ix, arch.l, arch.i, prog, req, waiting, halted>>

\* The mask is a device's, which the engine does not have.
PassesMask ==
  /\ prog[arch.pc].op \in {"IMRD", "IMWR", "IMSET", "IMCLR"} /\ ~waiting /\ ~halted
  /\ PassesOn

Departs == LosesSkip \/ PassesMask \/ \E n \in Devices : AcceptsLate(n)

(* The three places where the control store parts from the instruction set *)
(* are all there are, and nothing goes wrong in them but what they say: a  *)
(* lost skip leaves every register right and the interrupt is entered      *)
(* whole behind it, a late entry saves the word behind the DI (ucode.py    *)
(* cycle, the check at the fetch).                                         *)
PartsNowhereElse == ISA!Init /\ [][ISA!Next \/ Departs]_(ISA!vars)

(* AR already holds PC at every fetch, whichever word the sequencer came   *)
(* from, which is what makes the fetch one cycle (ucode.py FETCH).         *)
ArHoldsPc == Fetching => ar = pc

(* A request that finds interrupts on is answered, in every loop a program *)
(* can be in, or interrupts go off first, or the machine stops (ucode.py   *)
(* cycle, the check at the fetch).                                         *)
Answered == (i /\ \E n \in Devices : req[n]) ~> (~i \/ halted)
=============================================================================
