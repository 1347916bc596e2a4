------------------------------ MODULE Encoding ------------------------------
(***************************************************************************)
(* An instruction's way through the tools: what gen_casm.py makes the      *)
(* assembler emit for a statement, and what the two machines, CPU.step of  *)
(* sim.py and the maps of ucode.py, take that word to be.                  *)
(*                                                                         *)
(* The other modules start from decoded instructions.  Here are the three  *)
(* tables that have to agree for that to be fair: they were written apart, *)
(* one as bit positions to set, one as tests in order, one as a dispatch   *)
(* on six bits with the rest of the word read later by whatever microword  *)
(* needs it.                                                               *)
(*                                                                         *)
(* What a word comes to is a record: the operation and what it uses of the *)
(* word's fields.  Words have their real width.                            *)
(***************************************************************************)
EXTENDS Integers, FiniteSets, Sequences, TLC

CONSTANT Sources       \* statements and bare words, and the addresses they stand at

VARIABLES
  statement, here,
  at,
  word,                \* the word in memory
  sim, engine          \* what each machine takes it to be

encVars == <<statement, here, at, word, sim, engine>>

Bit(w, k)      == w \div 2 ^ k % 2 = 1
Field(w, k, n) == w \div 2 ^ k % 2 ^ n
Raised(flag, k) == IF flag THEN 2 ^ k ELSE 0
\* The low twelve bits, those of this set raised.
Set(bits) ==
  Raised(0 \in bits, 0) + Raised(1 \in bits, 1) + Raised(2 \in bits, 2) + Raised(3 \in bits, 3)
    + Raised(4 \in bits, 4) + Raised(5 \in bits, 5) + Raised(6 \in bits, 6) + Raised(7 \in bits, 7)
    + Raised(8 \in bits, 8) + Raised(9 \in bits, 9) + Raised(10 \in bits, 10) + Raised(11 \in bits, 11)

-----------------------------------------------------------------------------
(* gen_casm.py: the word of a statement, or none when it is refused.       *)

MEM  == [TAD |-> 0, TAS |-> 1, AND |-> 2, XOR |-> 3, DAC |-> 4, LAC |-> 5, SAD |-> 6, IOR |-> 7]
JMPC == [CAL |-> 8, JMP |-> 9, ISZ |-> 10, DSZ |-> 11]

ModeSwapped(ind, idx) == Raised(ind, 12) + Raised(idx, 13)
Mode(ind, idx) == Raised(ind, 13) + Raised(idx, 12)
MR(op, ind, idx, r, a) ==
  IF a \in 0 .. 2047 THEN {op * 2 ^ 14 + Mode(ind, idx) + Raised(r = "IX", 11) + a} ELSE {}
\* Address zero may be a label not resolved yet and passes from any page.
JPC(op, a, from) ==
  IF a # 0 /\ a \div 4096 # from \div 4096 THEN {} ELSE {op * 2 ^ 14 + (a % 4096)}
JC(op, ind, idx, a) ==
  IF a \in 0 .. 4095 THEN {op * 2 ^ 14 + Mode(ind, idx) + a} ELSE {}

iot(dev, sub, pulses) ==
  14 * 2 ^ 14 + dev * 2 ^ 11 + sub * 2 ^ 8
    + Set({k \in 0 .. 3 : <<"IOP1", "IOP2", "IOP4", "CLA">>[k + 1] \in pulses})
IOTs ==
  LET skip == {"IOP1"}
      read == {"IOP2", "CLA"}
      act  == {"IOP4"}
  IN  [SCROLL |-> iot(1, 0, act), SKBSY |-> iot(1, 0, skip), SKRDY |-> iot(1, 1, skip),
       TARM |-> iot(2, 0, act), TACK |-> iot(2, 1, act), TLOAD |-> iot(2, 2, act),
       SKIRQ |-> iot(2, 0, skip), KRAW |-> iot(3, 0, read), KMOD |-> iot(3, 1, read),
       SKKB |-> iot(3, 2, skip), KACK |-> iot(3, 3, act), LEDS |-> iot(4, 0, act),
       IMRD |-> iot(0, 0, read), IMWR |-> iot(0, 0, act), IMSET |-> iot(0, 1, act),
       IMCLR |-> iot(0, 2, act), SKI |-> iot(0, 4, skip), SKNI |-> iot(0, 5, skip),
       WAIT |-> iot(0, 3, act), HTON |-> iot(5, 0, act), HTOFF |-> iot(5, 1, act),
       HOUT |-> iot(5, 2, act), HACK |-> iot(5, 3, act)]

OPRG1 == 15 * 2 ^ 14
OPRG2 == 15 * 2 ^ 14 + 2 ^ 12
OPRG3 == 15 * 2 ^ 14 + 2 ^ 13
G1 == [CLA |-> 11, CLL |-> 10, CMA |-> 9, CML |-> 8, RLA |-> 7, RRA |-> 6, SHA |-> 5,
       SRA |-> 4, IAC |-> 3, IXC |-> 2, HLT |-> 0]
G1_COMBO ==
  [NOP |-> {}, CLC |-> {"CLA", "CMA"}, STL |-> {"CLL", "CML"}, CLAL |-> {"CLA", "CLL"},
   CIA |-> {"CMA", "IAC"}, LSR |-> {"CLL", "RRA"}, LSL |-> {"CLL", "RLA"},
   GLK |-> {"CLA", "RLA"}, ONEA |-> {"CLA", "IAC"}, ONEX |-> {"CLA", "IXC"}]
Opr1(parts) == OPRG1 + Set({G1[p] : p \in parts})
\* Inverted or not, and the conditions: 1 zero, 2 link, 4 minus.
G2 == [SKZ |-> <<0, 1>>, SKNZ |-> <<1, 1>>, SKL |-> <<0, 2>>, SKNL |-> <<1, 2>>,
       SKM |-> <<0, 4>>, SKNM |-> <<1, 4>>, SKP |-> <<1, 0>>, SZA |-> <<0, 1>>,
       SNA |-> <<1, 1>>, SNL |-> <<0, 2>>, SZL |-> <<1, 2>>, SMA |-> <<0, 4>>,
       SPA |-> <<1, 4>>, SKLE |-> <<0, 5>>, SKGT |-> <<1, 5>>, SKLZ |-> <<0, 6>>,
       SKGZ |-> <<1, 6>>]
Opr2(nm) == OPRG2 + nm[1] * 2 ^ 11 + nm[2]
\* Up to four registers.  The mask is their sum, so a register named twice is not that register.
SReg == [SP |-> 0, LPC |-> 1, IX |-> 2, AC |-> 3]
MaskOf(regs) ==
  LET one(k) == IF k \in DOMAIN regs THEN 2 ^ SReg[regs[k]] ELSE 0
  IN  one(1) + one(2) + one(3) + one(4)
G3(d, ifield, mask) == OPRG3 + d * 2 ^ 11 + ifield * 2 ^ 9 + mask
Plain == [RET |-> G3(1, 0, 2), RTI |-> G3(1, 2, 2), EI |-> G3(0, 2, 0), DI |-> G3(0, 1, 0)]

Mnemonics == UNION {DOMAIN IOTs, DOMAIN G1, DOMAIN G1_COMBO, DOMAIN G2, DOMAIN Plain}
Named(n) ==
  CASE n \in DOMAIN IOTs     -> IOTs[n]
    [] n \in DOMAIN G1       -> Opr1({n})
    [] n \in DOMAIN G1_COMBO -> Opr1(G1_COMBO[n])
    [] n \in DOMAIN G2       -> Opr2(G2[n])
    [] n \in DOMAIN Plain    -> Plain[n]

Emitted(s, from) ==
  CASE s.form = "mem"   -> MR(MEM[s.op], s.ind, s.idx, s.r, s.a)
    [] s.form = "jump"  -> IF s.op \in {"CAL", "JMP"} /\ ~s.ind /\ ~s.idx
                           THEN JPC(JMPC[s.op], s.a, from)
                           ELSE JC(JMPC[s.op], s.ind, s.idx, s.a)
    [] s.form = "name"  -> {Named(s.name)}
    [] s.form = "stack" -> {G3(IF s.d = "POP" THEN 1 ELSE 0, 0, MaskOf(s.regs))}
    [] s.form = "word"  -> {s.w}

\* A statement, and where it stands.
MemoryAddr == 0 .. 2 ^ 17 - 1
Statements ==
  [form : {"mem"}, op : DOMAIN MEM, r : {"AC", "IX"}, ind : BOOLEAN, idx : BOOLEAN, a : Int]
  \cup [form : {"jump"}, op : DOMAIN JMPC, ind : BOOLEAN, idx : BOOLEAN, a : Int]
  \cup [form : {"name"}, name : Mnemonics]
  \cup [form : {"stack"}, d : {"PSH", "POP"}, regs : UNION {[1 .. n -> DOMAIN SReg] : n \in 1 .. 4}]
  \cup [form : {"word"}, w : 0 .. 2 ^ 18 - 1]
ASSUME SourcesAssumption == Sources \subseteq Statements \X MemoryAddr

-----------------------------------------------------------------------------
(* What a word can come to.                                                *)

Memory(op, r, ind, idx, a) == [op |-> op, r |-> r, ind |-> ind, idx |-> idx, a |-> a]
Jumping(op, ind, idx, a)   == [op |-> op, ind |-> ind, idx |-> idx, a |-> a]
Operating(mic)               == [op |-> "OPR1", mic |-> mic]
Skipping(inv, test)          == [op |-> "OPR2", inv |-> inv, test |-> test]
Stacking(d, regs, ifield)     == [op |-> d, regs |-> regs, ifield |-> ifield]
Device(dev, sub, does)     == [op |-> "IOT", dev |-> dev, sub |-> sub, does |-> does]
Nothing                    == [op |-> "nothing"]

\* Fields that both machines read bit for bit alike.
Register(w) == IF Bit(w, 11) THEN "IX" ELSE "AC"
PageOf(a)   == a - (a % 4096)
\* What the group tested before the sign took a bit of it.
WithoutSign(w) == {c \in {"Z", "L"} : Bit(w, [Z |-> 0, L |-> 1][c])}
Conditions(w) == {c \in {"Z", "L", "M"} : Bit(w, [Z |-> 0, L |-> 1, M |-> 2][c])}
Registers(w)  == {r \in DOMAIN SReg : Bit(w, [SP |-> 0, LPC |-> 1, IX |-> 2, AC |-> 3][r])}
Interrupts(w)     == CASE Field(w, 9, 2) = 1 -> "DI" [] Field(w, 9, 2) = 2 -> "EI" [] OTHER -> "HOLD"
Pulses(w)     == {p \in {"IOP1", "IOP2", "IOP4", "CLA"} :
                    Bit(w, [IOP1 |-> 0, IOP2 |-> 1, IOP4 |-> 2, CLA |-> 3][p])}

-----------------------------------------------------------------------------
(* sim.py.                                                                 *)

MicrosOf(w) ==
  {m \in DOMAIN G1 : Bit(w, [CLA |-> 11, CLL |-> 10, CMA |-> 9, CML |-> 8, IAC |-> 3, IXC |-> 2,
                             RLA |-> 7, RRA |-> 6, SHA |-> 5, SRA |-> 4, HLT |-> 0][m])}
opr(w) ==
  CASE Field(w, 12, 2) = 0 -> Operating(MicrosOf(w))
    [] Field(w, 12, 2) = 1 -> Skipping(Bit(w, 11), Conditions(w))
    [] Field(w, 12, 2) = 2 -> Stacking(IF Bit(w, 11) THEN "POP" ELSE "PSH", Registers(w), Interrupts(w))
    [] OTHER               -> Nothing

\* The processor's own device does what its pulses and its function select.
io_cpu(sub, pulses) ==
  (pulses \cap {"CLA"})
    \cup {d \in {"IMRD"} : "IOP2" \in pulses /\ sub = 0}
    \cup {d \in {"SKI", "SKNI"} : "IOP1" \in pulses /\ sub = (IF d = "SKI" THEN 4 ELSE 5)}
    \cup {d \in {"IMWR", "IMSET", "IMCLR", "WAIT"} :
            "IOP4" \in pulses /\ sub = [IMWR |-> 0, IMSET |-> 1, IMCLR |-> 2, WAIT |-> 3][d]}
\* machine.py, and on the bare machine device 5, which looks at no pulse.
io_device(dev, sub, pulses) ==
  (pulses \cap {"CLA"})
    \cup {d \in {"SKBSY", "SKRDY"} : dev = 1 /\ "IOP1" \in pulses /\ (sub = 1) = (d = "SKRDY")}
    \cup {d \in {"SCROLL"} : dev = 1 /\ "IOP4" \in pulses}
    \cup {d \in {"SKIRQ"} : dev = 2 /\ "IOP1" \in pulses}
    \cup {d \in {"TARM", "TACK", "TLOAD"} :
            dev = 2 /\ "IOP4" \in pulses /\ sub = [TARM |-> 0, TACK |-> 1, TLOAD |-> 2][d]}
    \cup {d \in {"SKKB"} : dev = 3 /\ "IOP1" \in pulses /\ sub = 2}
    \cup {d \in {"KRAW", "KMOD"} :
            dev = 3 /\ "IOP2" \in pulses /\ sub = (IF d = "KRAW" THEN 0 ELSE 1)}
    \cup {d \in {"KACK"} : dev = 3 /\ "IOP4" \in pulses /\ sub = 3}
    \cup {d \in {"LEDS"} : dev = 4 /\ "IOP4" \in pulses}
harness(sub) ==
  {d \in {"HTON", "HTOFF", "HOUT", "HACK"} :
     sub = [HTON |-> 0, HTOFF |-> 1, HOUT |-> 2, HACK |-> 3][d]}
io(w) ==
  LET dev == Field(w, 11, 3)
      sub == Field(w, 8, 3)
  IN  Device(dev, sub, CASE dev = 0 -> io_cpu(sub, Pulses(w))
                         [] dev = 5 -> harness(sub)
                         [] OTHER   -> io_device(dev, sub, Pulses(w)))

Step(w, ipc) ==
  LET op  == Field(w, 14, 4)
      ind == Bit(w, 13)
      idx == Bit(w, 12)
  IN  CASE op <= 7 ->
             Memory(<<"TAD", "TAS", "AND", "XOR", "DAC", "LAC", "SAD", "IOR">>[op + 1],
                    Register(w), ind, idx, Field(w, 0, 11))
        [] op \in 8 .. 11 ->
             Jumping(<<"CAL", "JMP", "ISZ", "DSZ">>[op - 7], ind, idx,
                     IF op <= 9 /\ ~ind /\ ~idx THEN PageOf(ipc) + Field(w, 0, 12)
                     ELSE Field(w, 0, 12))
        [] op = 14 -> io(w)
        [] OTHER   -> opr(w)

-----------------------------------------------------------------------------
(* ucode.py.                                                               *)

\* MAP1, on IR[17:12]: the opcode and the two bits that are the addressing
\* mode or the operate group.
ByMode(labels, mm) == labels[mm + 1]
JumpsByPage(mm) == ByMode(<<"JA_PG", "JA_IDX", "JA_IN1", "JA_IX1">>, mm)
CountsByMode(mm) == ByMode(<<"JA_ZP", "JA_IDX", "JA_IN1", "JA_IX1">>, mm)
MAP1(six) ==
  LET op == six \div 4
      mm == six % 4
  IN  CASE op <= 7         -> ByMode(<<"EA_ZP", "EA_IDX", "EA_IN1", "EA_IX1">>, mm)
        [] op = 9          -> ByMode(<<"JMP_PG", "JMP_IDX", "JMP_IN1", "JMP_IX1">>, mm)
        [] op = 8          -> ByMode(<<"CAL_PG", "CAL_IX", "CAL_IN", "CAL_XI">>, mm)
        [] op \in {10, 11} -> CountsByMode(mm)
        [] op \in {12, 13} -> "TRAP"
        [] op = 14         -> "IOT"
        [] op = 15         -> ByMode(<<"FETCH_G", "FETCH_S", "G3", "TRAP">>, mm)
MAP2(op) ==
  CASE op \in {0, 1, 2, 3, 5, 7} -> "OP_RD" [] op = 4 -> "OP_DAC" [] op = 6 -> "OP_SAD"
    [] op \in {8, 9} -> "OP_JMP" [] op \in {10, 11} -> "OP_ISZ" [] OTHER -> "TRAP"

\* The ALU reads its function from IR where a microword says FROMIR.
FROMIR(op) ==
  CASE op = 0 -> "TAD" [] op = 1 -> "TAS" [] op = 2 -> "AND" [] op = 3 -> "XOR"
    [] op = 7 -> "IOR" [] op = 10 -> "ISZ" [] op = 11 -> "DSZ" [] OTHER -> "LAC"
Operation(op) ==
  CASE MAP2(op) = "OP_DAC" -> "DAC" [] MAP2(op) = "OP_SAD" -> "SAD" [] OTHER -> FROMIR(op)

\* How each address sequence forms its address: from memory, by index, and of
\* an operand of eleven bits (IRF11), of twelve (IRF12) or in the page.
Sequence(label) ==
  CASE label \in {"EA_ZP", "JMP_PG", "CAL_PG", "JA_ZP", "JA_PG"} -> <<FALSE, FALSE>>
    [] label \in {"EA_IDX", "JMP_IDX", "CAL_IX", "JA_IDX"}       -> <<FALSE, TRUE>>
    [] label \in {"EA_IN1", "JMP_IN1", "CAL_IN", "JA_IN1"}       -> <<TRUE, FALSE>>
    [] label \in {"EA_IX1", "JMP_IX1", "CAL_XI", "JA_IX1"}       -> <<TRUE, TRUE>>
Operand(label, w, from) ==
  IF label \in {"JMP_PG", "CAL_PG", "JA_PG"} THEN PageOf(from) + Field(w, 0, 12) ELSE Field(w, 0, 12)

group1(w) ==
  {m \in DOMAIN G1 : Bit(w, [CLA |-> 11, CLL |-> 10, CMA |-> 9, CML |-> 8, IAC |-> 3, IXC |-> 2,
                             RLA |-> 7, RRA |-> 6, SHA |-> 5, SRA |-> 4, HLT |-> 0][m])}

\* WAIT and the two skips are the engine's; every other IO word goes to the
\* device model, which is machine.py's.
EngineIo(w) ==
  LET dev == Field(w, 11, 3)
      sub == Field(w, 8, 3)
  IN  IF dev = 0 /\ sub = 3 /\ Bit(w, 2) THEN Device(dev, sub, {"WAIT"})
      ELSE IF dev = 0 /\ sub \in {4, 5} /\ Bit(w, 0)
           THEN Device(dev, sub, {IF sub = 4 THEN "SKI" ELSE "SKNI"})
           ELSE io(w)

Dispatch(w, from) ==
  LET label == MAP1(Field(w, 12, 6))
      op    == Field(w, 14, 4)
      form  == Sequence(label)
  IN  CASE label \in {"EA_ZP", "EA_IDX", "EA_IN1", "EA_IX1"} ->
             Memory(Operation(op), Register(w), form[1], form[2], Field(w, 0, 11))
        [] label \in {"JMP_PG", "JMP_IDX", "JMP_IN1", "JMP_IX1"} ->
             Jumping("JMP", form[1], form[2], Operand(label, w, from))
        [] label \in {"CAL_PG", "CAL_IX", "CAL_IN", "CAL_XI"} ->
             Jumping("CAL", form[1], form[2], Operand(label, w, from))
        [] label \in {"JA_PG", "JA_ZP", "JA_IDX", "JA_IN1", "JA_IX1"} ->
             Jumping(Operation(op), form[1], form[2], Operand(label, w, from))
        [] label = "FETCH_G" -> Operating(group1(w))
        [] label = "FETCH_S" -> Skipping(Bit(w, 11), Conditions(w))
        [] label = "G3"      -> Stacking(IF Bit(w, 11) THEN "POP" ELSE "PSH", Registers(w), Interrupts(w))
        [] label = "IOT"     -> EngineIo(w)
        [] label = "TRAP"    -> Nothing

-----------------------------------------------------------------------------

Assemble ==
  /\ at = "SOURCE"
  /\ \/ \E w \in Emitted(statement, here) : word' = w /\ at' = "MEMORY"
     \/ Emitted(statement, here) = {} /\ at' = "REFUSED" /\ UNCHANGED word
  /\ UNCHANGED <<statement, here, sim, engine>>

Decode ==
  /\ at = "MEMORY" /\ at' = "DECODED"
  /\ sim' = Step(word, here) /\ engine' = Dispatch(word, here)
  /\ UNCHANGED <<statement, here, word>>

EncInit ==
  /\ \E s \in Sources : statement = s[1] /\ here = s[2]
  /\ at = "SOURCE" /\ word = 0 /\ sim = Nothing /\ engine = Nothing
EncSpec == EncInit /\ [][Assemble \/ Decode]_encVars

-----------------------------------------------------------------------------
(* Properties.                                                             *)

\* A statement with operands becomes the instruction it writes out: operation,
\* register, mode and address, or the registers of the mask.  The two it is
\* not said of go wrong in silence: a jump to zero from another page, which
\* passes for a label not resolved yet, and a register named twice.
Distinct(regs) == \A j, k \in DOMAIN regs : regs[j] = regs[k] => j = k
AsWritten ==
  at = "DECODED" =>
    LET s == statement
    IN  CASE s.form = "mem"   -> sim = Memory(s.op, s.r, s.ind, s.idx, s.a)
          [] s.form = "jump"  ->
               \/ sim = Jumping(s.op, s.ind, s.idx, s.a)
               \/ s.a = 0 /\ s.op \in {"CAL", "JMP"} /\ ~s.ind /\ ~s.idx
          [] s.form = "stack" ->
               Distinct(s.regs) => sim = Stacking(s.d, {s.regs[k] : k \in DOMAIN s.regs}, "HOLD")
          [] OTHER            -> TRUE

\* A named instruction does what its name says: an IO name that one thing, a
\* skip its condition whatever AC and L hold, a combination the effect it is
\* named for in the order the group works in, on words of five bits.
NoBits(a, b) == 0
Narrow == INSTANCE Words WITH PageSize <- 4, AddrMod <- 16, MaskMod <- 4, Devices <- {1},
                              BitAnd <- NoBits, BitIor <- NoBits, BitXor <- NoBits
Skips(a, l) ==
  sim.inv # \/ "Z" \in sim.test /\ a = 0
            \/ "L" \in sim.test /\ l = 1
            \/ "M" \in sim.test /\ Narrow!Sign(a)
Skip(n, a, l) ==
  CASE n \in {"SKZ", "SZA"}  -> a = 0
    [] n \in {"SKNZ", "SNA"} -> a # 0
    [] n \in {"SKL", "SNL"}  -> l = 1
    [] n \in {"SKNL", "SZL"} -> l = 0
    [] n \in {"SKM", "SMA"}  -> Narrow!Sign(a)
    [] n \in {"SKNM", "SPA"} -> ~Narrow!Sign(a)
    [] n = "SKP"             -> TRUE
    [] n = "SKLE"            -> a = 0 \/ Narrow!Sign(a)
    [] n = "SKGT"            -> a # 0 /\ ~Narrow!Sign(a)
    [] n = "SKLZ"            -> l = 1 \/ Narrow!Sign(a)
    [] n = "SKGZ"            -> l = 0 /\ ~Narrow!Sign(a)
Combination(n, a, l) ==
  LET mod == Narrow!WordMod
      ac(v) == [ac |-> v, l |-> l]
  IN  CASE n = "NOP"  -> ac(a)
        [] n = "CLC"  -> ac(mod - 1)
        [] n = "CIA"  -> ac((mod - a) % mod)
        [] n = "ONEA" -> ac(1)
        [] n = "STL"  -> [ac |-> a, l |-> 1]
        [] n = "CLAL" -> [ac |-> 0, l |-> 0]
        [] n = "LSR"  -> [ac |-> a \div 2, l |-> a % 2]
        [] n = "LSL"  -> [ac |-> (2 * a) % mod, l |-> (2 * a) \div mod]
        [] n = "GLK"  -> [ac |-> l, l |-> 0]
AsNamed ==
  at = "DECODED" /\ statement.form = "name" =>
    LET n == statement.name
        state == Narrow!Word \X Narrow!Link
    IN  /\ n \in DOMAIN IOTs =>
             sim.does = {n} \cup (IF n \in {"KRAW", "KMOD", "IMRD"} THEN {"CLA"} ELSE {})
        /\ n \in DOMAIN G1 => sim = Operating({n})
        /\ n \in DOMAIN G2 => \A s \in state : Skips(s[1], s[2]) = Skip(n, s[1], s[2])
        /\ n \in DOMAIN G1_COMBO \ {"ONEX"} =>
             \A s \in state : Narrow!Group1(sim.mic, s[1], s[2]) = Combination(n, s[1], s[2])
        /\ n = "RET" => sim = Stacking("POP", {"LPC"}, "HOLD")
        /\ n = "RTI" => sim = Stacking("POP", {"LPC"}, "EI")
        /\ n \in {"EI", "DI"} => sim = Stacking("PSH", {}, n)

\* The two machines take every word to be the same instruction, whether or not
\* the assembler can emit it.  They part on the reserved opcodes, which sim.py
\* lets fall through to the operate group and ucode.py passes over, and on the
\* CLA bit in a word that is WAIT, SKI or SKNI, which has no name.
Unnamed ==
  \/ Field(word, 14, 4) \in {12, 13}
  \/ Field(word, 11, 7) = 14 * 8 /\ Field(word, 8, 3) \in {3, 4, 5} /\ Field(word, 0, 4) \notin {0, 1, 4}
SameMachine == at = "DECODED" /\ ~Unnamed => engine = sim
=============================================================================
