---------------------------- MODULE Micro_proofs ----------------------------
(***************************************************************************)
(* For every size of the machine and every program: the control store      *)
(* keeps each register to its width, the sequencer stays in the store, and *)
(* AR is PC at every fetch.  The proofs look the words up first, then say  *)
(* of all of them at once what any word must respect (Sane), then follow   *)
(* the parts of a cycle in the engine's order.                             *)
(***************************************************************************)
EXTENDS Micro, TLAPS, NaturalsInduction, WellFoundedInduction

-----------------------------------------------------------------------------
(* Words: every operation on them leaves a word.                           *)

(* A remainder is below its modulus.                                       *)
LEMMA ModRange ==
  ASSUME NEW x \in Int, NEW n \in Nat \ {0}
  PROVE  x % n \in 0 .. n - 1
BY SMT

(* Sizes, as the widths of sim.py relate them.                             *)
LEMMA Sizes ==
  /\ AddrMod \in Nat \ {0} /\ WordMod \in Nat \ {0} /\ PageSize \in Nat \ {0}
  /\ WordMod = 2 * AddrMod
  /\ Addr \subseteq Word /\ Page \subseteq Addr /\ ZPage \subseteq Page
  /\ \A n \in Devices : n \in Addr
BY SizeAssumption, DeviceAssumption DEF WordMod, Addr, Word, Page, ZPage

(* The address part of any number is an address (sim.py, the & A).         *)
LEMMA AddrOf == \A x \in Int : x % AddrMod \in Addr
BY ModRange, Sizes DEF Addr

(* The word part of any number is a word (sim.py, the & W).                *)
LEMMA WordOf == \A x \in Int : x % WordMod \in Word
BY ModRange, Sizes DEF Word

(* The accumulating opcodes leave a word and a bit (sim.py mem_ref).       *)
LEMMA AluTyped ==
  ASSUME NEW op \in AluOps, NEW a \in Word, NEW v \in Word, NEW k \in Link
  PROVE  AluWord(op, a, v) \in Word /\ AluLink(op, a, v, k) \in Link
<1>1. (a + v) % WordMod \in Word
  BY WordOf DEF Word
<1>2. AluWord(op, a, v) \in Word
  BY <1>1, BitAssumption DEF AluWord, AluOps
<1>3. AluLink(op, a, v, k) \in Link
  BY DEF AluLink, AluOps, Link
<1> QED BY <1>2, <1>3

(* Doubling, halving, complement and step, the pieces of group 1.          *)
LEMMA Shifts ==
  ASSUME NEW a \in Word, NEW k \in Link
  PROVE  /\ (2 * a + k) % WordMod \in Word /\ (2 * a) % WordMod \in Word
         /\ (a + 1) % WordMod \in Word /\ WordMod - 1 - a \in Word
         /\ k * AddrMod + (a \div 2) \in Word
         /\ (a \div 2) + (IF Sign(a) THEN AddrMod ELSE 0) \in Word
         /\ a % 2 \in Link /\ 1 - k \in Link /\ 0 \in Word
<1>1. a \in Int /\ k \in {0, 1}
  BY DEF Word, Link
<1>2. /\ (2 * a + k) % WordMod \in Word /\ (2 * a) % WordMod \in Word
      /\ (a + 1) % WordMod \in Word
  BY <1>1, WordOf
<1>3. WordMod - 1 - a \in Word /\ 0 \in Word
  BY Sizes DEF Word
<1>4. a \div 2 \in 0 .. AddrMod - 1
  BY Sizes DEF Word
<1>5. /\ k * AddrMod + (a \div 2) \in Word
      /\ (a \div 2) + (IF Sign(a) THEN AddrMod ELSE 0) \in Word
  BY <1>1, <1>4, Sizes DEF Word
<1>6. a % 2 \in Link /\ 1 - k \in Link
  BY <1>1 DEF Link
<1> QED BY <1>2, <1>3, <1>5, <1>6

(* Group 1 leaves a word and a bit (sim.py opr_g1).                        *)
LEMMA Group1Typed ==
  ASSUME NEW mic \in SUBSET Micros, NEW a \in Word, NEW k \in Link
  PROVE  Group1(mic, a, k).ac \in Word /\ Group1(mic, a, k).l \in Link
<1> DEFINE a1 == IF "CLA" \in mic THEN 0 ELSE a
           l1 == IF "CLL" \in mic THEN 0 ELSE k
           a2 == IF "CMA" \in mic THEN WordMod - 1 - a1 ELSE a1
           l2 == IF "CML" \in mic THEN 1 - l1 ELSE l1
           a3 == IF "IAC" \in mic THEN (a2 + 1) % WordMod ELSE a2
           a4 == IF "RLA" \in mic THEN (2 * a3 + l2) % WordMod ELSE a3
           l4 == IF "RLA" \in mic THEN (IF Sign(a3) THEN 1 ELSE 0) ELSE l2
           a5 == IF "RRA" \in mic THEN l4 * AddrMod + (a4 \div 2) ELSE a4
           l5 == IF "RRA" \in mic THEN a4 % 2 ELSE l4
           a6 == IF "SHA" \in mic THEN (2 * a5) % WordMod ELSE a5
           a7 == IF "SRA" \in mic
                 THEN (a6 \div 2) + (IF Sign(a6) THEN AddrMod ELSE 0) ELSE a6
<1>1. a1 \in Word /\ l1 \in Link
  BY Shifts DEF Link
<1>2. a2 \in Word /\ l2 \in Link
  <2> HIDE DEF a1, l1
  <2> QED BY <1>1, Shifts
<1>3. a3 \in Word
  <2> HIDE DEF a2, l2
  <2> QED BY <1>2, Shifts
<1>4. a4 \in Word /\ l4 \in Link
  <2> HIDE DEF a3, l2
  <2> QED BY <1>2, <1>3, Shifts DEF Link
<1>5. a5 \in Word /\ l5 \in Link
  <2> HIDE DEF a4, l4
  <2> QED BY <1>4, Shifts
<1>6. a6 \in Word
  <2> HIDE DEF a5, l5
  <2> QED BY <1>5, Shifts
<1>7. a7 \in Word
  <2> HIDE DEF a6
  <2> QED BY <1>6, Shifts
<1>8. Group1(mic, a, k) = [ac |-> a7, l |-> l5]
  BY DEF Group1
<1> HIDE DEF a7, l5
<1> QED BY <1>5, <1>7, <1>8

-----------------------------------------------------------------------------
(* The store, looked up.                                                   *)

(* The labels of each section (ucode.py, the sections of MICROPROGRAM).    *)
LEMMA Labels ==
  /\ DOMAIN FetchWords = {"FETCH", "FETCH_A", "FETCH_G", "FETCH_S", "FETCH_I"}
  /\ DOMAIN EaWords = {"EA_ZP", "EA_IDX", "EA_IN1", "EA_IX1"}
  /\ DOMAIN JmpWords = {"JMP_PG", "JMP_IDX", "JMP_IN1", "JMP_IX1"}
  /\ DOMAIN JaWords = {"JA_ZP", "JA_IDX", "JA_IN1", "JA_IX1"}
  /\ DOMAIN OpWords = {"OP_RD", "OP_DAC", "OP_SAD", "SKIP", "OP_ISZ", "G3", "IOT"}
  /\ DOMAIN StackWords = {"PSH_SP", "PSH_LPC", "PSH_IX", "PSH_AC",
                          "POP_AC", "POP_IX", "POP_LPC", "POP_SP"}
  /\ DOMAIN CalWords = {"CAL_PG", "CAL_IX", "CAL_IN", "CAL_XI"}
  /\ DOMAIN IrqWords = {"IRQ"}
BY DEF FetchWords, EaWords, JmpWords, JaWords, OpWords, StackWords, CalWords, IrqWords

(* Joining two tables keeps both, the first one's entry where they share   *)
(* a label.                                                                *)
LEMMA Merge ==
  ASSUME NEW f, NEW g
  PROVE  /\ DOMAIN (f ++ g) = DOMAIN f \cup DOMAIN g
         /\ \A a \in DOMAIN f : (f ++ g)[a] = f[a]
         /\ \A a \in DOMAIN g \ DOMAIN f : (f ++ g)[a] = g[a]
BY DEF ++

(* Joined, the sections give back their own words: no label is in two of   *)
(* them.                                                                   *)
LEMMA Lookup ==
  /\ \A a \in DOMAIN FetchWords : Microprogram[a] = FetchWords[a]
  /\ \A a \in DOMAIN EaWords : Microprogram[a] = EaWords[a]
  /\ \A a \in DOMAIN JmpWords : Microprogram[a] = JmpWords[a]
  /\ \A a \in DOMAIN JaWords : Microprogram[a] = JaWords[a]
  /\ \A a \in DOMAIN OpWords : Microprogram[a] = OpWords[a]
  /\ \A a \in DOMAIN StackWords : Microprogram[a] = StackWords[a]
  /\ \A a \in DOMAIN CalWords : Microprogram[a] = CalWords[a]
  /\ \A a \in DOMAIN IrqWords : Microprogram[a] = IrqWords[a]
  /\ DOMAIN Microprogram = DOMAIN FetchWords \cup DOMAIN EaWords \cup DOMAIN JmpWords
       \cup DOMAIN JaWords \cup DOMAIN OpWords \cup DOMAIN StackWords \cup DOMAIN CalWords
       \cup DOMAIN IrqWords
<1> DEFINE M2 == FetchWords ++ EaWords
           M3 == M2 ++ JmpWords
           M4 == M3 ++ JaWords
           M5 == M4 ++ OpWords
           M6 == M5 ++ StackWords
           M7 == M6 ++ CalWords
<1>1. Microprogram = M7 ++ IrqWords
  BY DEF Microprogram
<1>2. DOMAIN M2 = DOMAIN FetchWords \cup DOMAIN EaWords
  BY Merge
<1>3. DOMAIN M3 = DOMAIN M2 \cup DOMAIN JmpWords
  BY Merge
<1>4. DOMAIN M4 = DOMAIN M3 \cup DOMAIN JaWords
  BY Merge
<1>5. DOMAIN M5 = DOMAIN M4 \cup DOMAIN OpWords
  BY Merge
<1>6. DOMAIN M6 = DOMAIN M5 \cup DOMAIN StackWords
  BY Merge
<1>7. DOMAIN M7 = DOMAIN M6 \cup DOMAIN CalWords
  BY Merge
<1>8. /\ \A a \in DOMAIN M7 : Microprogram[a] = M7[a]
      /\ \A a \in DOMAIN M6 : M7[a] = M6[a]
      /\ \A a \in DOMAIN M5 : M6[a] = M5[a]
      /\ \A a \in DOMAIN M4 : M5[a] = M4[a]
      /\ \A a \in DOMAIN M3 : M4[a] = M3[a]
      /\ \A a \in DOMAIN M2 : M3[a] = M2[a]
      /\ \A a \in DOMAIN FetchWords : M2[a] = FetchWords[a]
  BY <1>1, Merge
<1>9. /\ \A a \in DOMAIN IrqWords \ DOMAIN M7 : Microprogram[a] = IrqWords[a]
      /\ \A a \in DOMAIN CalWords \ DOMAIN M6 : M7[a] = CalWords[a]
      /\ \A a \in DOMAIN StackWords \ DOMAIN M5 : M6[a] = StackWords[a]
      /\ \A a \in DOMAIN OpWords \ DOMAIN M4 : M5[a] = OpWords[a]
      /\ \A a \in DOMAIN JaWords \ DOMAIN M3 : M4[a] = JaWords[a]
      /\ \A a \in DOMAIN JmpWords \ DOMAIN M2 : M3[a] = JmpWords[a]
      /\ \A a \in DOMAIN EaWords \ DOMAIN FetchWords : M2[a] = EaWords[a]
  <2>1. \A a \in DOMAIN IrqWords \ DOMAIN M7 : Microprogram[a] = IrqWords[a]
    <3>1. \A a \in DOMAIN IrqWords \ DOMAIN M7 : (M7 ++ IrqWords)[a] = IrqWords[a]
      BY Merge
    <3> QED BY <1>1, <3>1
  <2>2. \A a \in DOMAIN CalWords \ DOMAIN M6 : M7[a] = CalWords[a]
    BY Merge
  <2>3. \A a \in DOMAIN StackWords \ DOMAIN M5 : M6[a] = StackWords[a]
    BY Merge
  <2>4. \A a \in DOMAIN OpWords \ DOMAIN M4 : M5[a] = OpWords[a]
    BY Merge
  <2>5. \A a \in DOMAIN JaWords \ DOMAIN M3 : M4[a] = JaWords[a]
    BY Merge
  <2>6. \A a \in DOMAIN JmpWords \ DOMAIN M2 : M3[a] = JmpWords[a]
    BY Merge
  <2>7. \A a \in DOMAIN EaWords \ DOMAIN FetchWords : M2[a] = EaWords[a]
    BY Merge
  <2> QED BY <2>1, <2>2, <2>3, <2>4, <2>5, <2>6, <2>7
<1> HIDE DEF M2, M3, M4, M5, M6, M7
<1>10. \A a \in DOMAIN FetchWords : Microprogram[a] = FetchWords[a]
  BY <1>2, <1>3, <1>4, <1>5, <1>6, <1>7, <1>8
<1>11. \A a \in DOMAIN EaWords : Microprogram[a] = EaWords[a]
  BY <1>2, <1>3, <1>4, <1>5, <1>6, <1>7, <1>8, <1>9, Labels
<1>12. \A a \in DOMAIN JmpWords : Microprogram[a] = JmpWords[a]
  BY <1>2, <1>3, <1>4, <1>5, <1>6, <1>7, <1>8, <1>9, Labels
<1>13. \A a \in DOMAIN JaWords : Microprogram[a] = JaWords[a]
  BY <1>2, <1>3, <1>4, <1>5, <1>6, <1>7, <1>8, <1>9, Labels
<1>14. \A a \in DOMAIN OpWords : Microprogram[a] = OpWords[a]
  BY <1>2, <1>3, <1>4, <1>5, <1>6, <1>7, <1>8, <1>9, Labels
<1>15. \A a \in DOMAIN StackWords : Microprogram[a] = StackWords[a]
  BY <1>2, <1>3, <1>4, <1>5, <1>6, <1>7, <1>8, <1>9, Labels
<1>16. \A a \in DOMAIN CalWords : Microprogram[a] = CalWords[a]
  BY <1>2, <1>3, <1>4, <1>5, <1>6, <1>7, <1>8, <1>9, Labels
<1>17. \A a \in DOMAIN IrqWords : Microprogram[a] = IrqWords[a]
  BY <1>2, <1>3, <1>4, <1>5, <1>6, <1>7, <1>8, <1>9, Labels
<1>18. DOMAIN Microprogram = DOMAIN M7 \cup DOMAIN IrqWords
  BY <1>1, Merge
<1> QED BY <1>2, <1>3, <1>4, <1>5, <1>6, <1>7, <1>10, <1>11, <1>12, <1>13, <1>14, <1>15, <1>16, <1>17, <1>18

(* The words of each section, one by one (ucode.py MICROPROGRAM).          *)
LEMMA FetchTable ==
  /\ Microprogram["FETCH"][1] = Fetch
  /\ Microprogram["FETCH_A"][1] =
       [Fetch EXCEPT !.asrc = "FROMIR", !.alu = "FROMIR", !.rdst = "FROMIR", !.lctl = "FROMALU"]
  /\ Microprogram["FETCH_G"][1] = [Fetch EXCEPT !.asrc = "AC", !.alu = "G1"]
  /\ Microprogram["FETCH_S"][1] = [Fetch EXCEPT !.seq = "SKIPF", !.cc = "G2"]
  /\ Microprogram["FETCH_I"][1] = [Fetch EXCEPT !.ictl = "IFROMIR"]
  /\ \A at \in Fetches : Len(Microprogram[at]) = 1
<1>1. \A at \in Fetches : Microprogram[at] = FetchWords[at]
  BY Lookup, Labels DEF Fetches
<1> QED BY <1>1 DEF FetchWords, Fetches

(* The operand addresses of the accumulator opcodes.                       *)
LEMMA EaTable ==
  /\ Microprogram["EA_ZP"][1] = ByField([EaTail EXCEPT !.asrc = "FROMIR"], "IRF11")
  /\ Microprogram["EA_IDX"][1] = ByIndex(EaTail, "IRF11")
  /\ Microprogram["EA_IN1"][3] = ByMemory([EaTail EXCEPT !.asrc = "FROMIR"])
  /\ Microprogram["EA_IX1"][3] = ByIndex(EaTail, "DI")
  /\ \A at \in {"EA_ZP", "EA_IDX"} : Len(Microprogram[at]) = 1
  /\ \A at \in {"EA_IN1", "EA_IX1"} : /\ Len(Microprogram[at]) = 3
                                      /\ Microprogram[at][1] = ByField(Idle, "IRF11")
                                      /\ Microprogram[at][2] = Read
<1>1. \A at \in DOMAIN EaWords : Microprogram[at] = EaWords[at]
  BY Lookup
<1> QED BY <1>1, Labels DEF EaWords, Pointer

(* The operand addresses of ISZ and DSZ.                                   *)
LEMMA JaTable ==
  /\ Microprogram["JA_ZP"][1] = ByField(JaTail, "IRF12")
  /\ Microprogram["JA_IDX"][1] = ByIndex(JaTail, "IRF12")
  /\ Microprogram["JA_IN1"][3] = ByMemory(JaTail)
  /\ Microprogram["JA_IX1"][3] = ByIndex(JaTail, "DI")
  /\ \A at \in {"JA_ZP", "JA_IDX"} : Len(Microprogram[at]) = 1
  /\ \A at \in {"JA_IN1", "JA_IX1"} : /\ Len(Microprogram[at]) = 3
                                      /\ Microprogram[at][1] = ByField(Idle, "IRF12")
                                      /\ Microprogram[at][2] = Read
<1>1. \A at \in DOMAIN JaWords : Microprogram[at] = JaWords[at]
  BY Lookup
<1> QED BY <1>1, Labels DEF JaWords, Pointer

(* The targets of JMP and CAL.                                             *)
LEMMA JmpTable ==
  /\ Microprogram["JMP_PG"][1] = [JmpTail EXCEPT !.arsrc = "PAGE"]
  /\ Microprogram["JMP_IDX"][1] = ByIndex(JmpTail, "IRF12")
  /\ Microprogram["JMP_IN1"][3] = ByMemory(JmpTail)
  /\ Microprogram["JMP_IX1"][3] = ByIndex(JmpTail, "DI")
  /\ \A at \in {"JMP_PG", "JMP_IDX"} : Len(Microprogram[at]) = 1
  /\ \A at \in {"JMP_IN1", "JMP_IX1"} : /\ Len(Microprogram[at]) = 3
                                        /\ Microprogram[at][1] = ByField(Idle, "IRF12")
                                        /\ Microprogram[at][2] = Read
<1>1. \A at \in DOMAIN JmpWords : Microprogram[at] = JmpWords[at]
  BY Lookup
<1> QED BY <1>1, Labels DEF JmpWords, Pointer

(* The bodies of the memory opcodes, G3's dispatch and the I/O cycle.      *)
LEMMA OpTable ==
  /\ Microprogram["OP_RD"] = << [Read EXCEPT !.arsrc = "PC", !.seq = "JUMP", !.na = "FETCH_A"] >>
  /\ Microprogram["OP_DAC"] = << [ToFetch EXCEPT !.mem = "WR", !.arsrc = "PC"] >>
  /\ Microprogram["OP_SAD"] = << Read, [Idle EXCEPT !.arsrc = "PC", !.seq = "SKIPC", !.cc = "NZ"] >>
  /\ Microprogram["SKIP"] = << [ToFetch EXCEPT !.arsrc = "PCNEXT"] >>
  /\ Microprogram["OP_ISZ"] = << Read,
                 [Idle EXCEPT !.alu = "FROMIR", !.dosrc = "ALU"],
                 [Write EXCEPT !.seq = "BRANCH", !.cc = "Z", !.na = "SKIP"],
                 [ToFetch EXCEPT !.arsrc = "PC"] >>
  /\ Microprogram["G3"] = << [Idle EXCEPT !.seq = "MAPMASK"] >>
  /\ Microprogram["IOT"] = << [ToFetch EXCEPT !.mem = "IO", !.arsrc = "PC"] >>
<1>1. \A at \in DOMAIN OpWords : Microprogram[at] = OpWords[at]
  BY Lookup
<1> QED BY <1>1, Labels DEF OpWords

(* The one word before a mask is walked.                                   *)
LEMMA G3Word ==
  Len(Microprogram["G3"]) = 1 /\ Microprogram["G3"][1] = [Idle EXCEPT !.seq = "MAPMASK"]
BY OpTable

(* Three words a register popped, two a register pushed.                   *)
LEMMA StackTable ==
  /\ Microprogram["PSH_SP"] = PushWords("SP") /\ Microprogram["PSH_LPC"] = PushWords("LPC")
  /\ Microprogram["PSH_IX"] = PushWords("IX") /\ Microprogram["PSH_AC"] = PushWords("AC")
  /\ Microprogram["POP_AC"] = PopWords(TRUE, PopInto("AC"))
  /\ Microprogram["POP_IX"] = PopWords(TRUE, PopInto("IX"))
  /\ Microprogram["POP_LPC"] =
       PopWords(TRUE, [Walk EXCEPT !.arsrc = "DI", !.rdst = "PC", !.lctl = "FROMDI"])
  /\ Microprogram["POP_SP"] = PopWords(FALSE, PopInto("SP"))
<1>1. \A at \in DOMAIN StackWords : Microprogram[at] = StackWords[at]
  BY Lookup
<1> QED BY <1>1, Labels DEF StackWords

(* CAL pushes and goes on as JMP does.                                     *)
LEMMA CalTable ==
  /\ Microprogram["CAL_PG"] = << StepDown("LPC"), [Write EXCEPT !.seq = "JUMP", !.na = "JMP_PG"] >>
  /\ Microprogram["CAL_IX"] = << StepDown("LPC"), [Write EXCEPT !.seq = "JUMP", !.na = "JMP_IDX"] >>
  /\ Microprogram["CAL_IN"] = << StepDown("LPC"), [Write EXCEPT !.seq = "JUMP", !.na = "JMP_IN1"] >>
  /\ Microprogram["CAL_XI"] = << StepDown("LPC"), [Write EXCEPT !.seq = "JUMP", !.na = "JMP_IX1"] >>
<1>1. \A at \in DOMAIN CalWords : Microprogram[at] = CalWords[at]
  BY Lookup
<1> QED BY <1>1, Labels DEF CalWords

(* The entry of an interrupt.                                              *)
LEMMA IrqTable ==
  Microprogram["IRQ"] = << [StepDown("LPC") EXCEPT !.ictl = "ICLR"], Write,
                           ByField(Idle, "DEV"), Read, ByMemory(JmpTail) >>
<1>1. \A at \in DOMAIN IrqWords : Microprogram[at] = IrqWords[at]
  BY Lookup
<1> QED BY <1>1, Labels DEF IrqWords

-----------------------------------------------------------------------------
(* Arithmetic.                                                             *)

(* A remainder is what is left of a multiple.                              *)
LEMMA Remainder ==
  ASSUME NEW n \in Nat \ {0}, NEW k \in Nat, NEW r \in 0 .. n - 1
  PROVE  (n * k + r) % n = r
BY SMT

(* Quotient and remainder.                                                 *)
LEMMA Division ==
  ASSUME NEW x \in Nat, NEW n \in Nat \ {0}
  PROVE  x \div n \in Nat /\ (x \div n) * n = x - (x % n) /\ x % n \in 0 .. n - 1
<1>1. (x \div n) * n = x - (x % n)
  BY SMT
<1>2. x \div n \in Nat
  BY SMT
<1>3. x % n \in 0 .. n - 1
  BY SMT
<1> QED BY <1>1, <1>2, <1>3

(* What a modulus leaves alone, and a multiple added to it.                *)
LEMMA Small ==
  ASSUME NEW n \in Nat \ {0}, NEW r \in 0 .. n - 1
  PROVE  r % n = r /\ (n + r) % n = r /\ (2 * n + r) % n = r /\ (3 * n + r) % n = r
BY SMT

(* A word's address is the sum's, whichever of the two is cut first.       *)
LEMMA CutTwice ==
  ASSUME NEW a \in Word, NEW b \in Word
  PROVE  /\ ((a + b) % WordMod) % AddrMod = Plus(a, b)
         /\ Plus(a % AddrMod, b) = Plus(a, b) /\ Plus(b, a) = Plus(a, b)
<1> DEFINE r == a % AddrMod
           s == b % AddrMod
           H(x) == IF x < AddrMod THEN 0 ELSE 1
<1>1. a \in Nat /\ b \in Nat /\ a < 2 * AddrMod /\ b < 2 * AddrMod
  BY Sizes DEF Word
<1>2. r \in 0 .. AddrMod - 1 /\ s \in 0 .. AddrMod - 1
  BY <1>1, Sizes, Division
<1>3. a = r \/ a = AddrMod + r
  <2>1. CASE a < AddrMod
    BY <1>1, <2>1, Sizes, Small
  <2>2. CASE a >= AddrMod
    <3>1. a - AddrMod \in 0 .. AddrMod - 1
      BY <1>1, <2>2, Sizes
    <3>2. (AddrMod + (a - AddrMod)) % AddrMod = a - AddrMod
      BY <3>1, Sizes, Small
    <3> QED BY <1>1, <3>1, <3>2, Sizes
  <2> QED BY <1>1, <2>1, <2>2, Sizes
<1>4. (a + b) % WordMod = a + b \/ (a + b) % WordMod = a + b - 2 * AddrMod
  <2>1. CASE a + b < WordMod
    <3>1. a + b \in 0 .. WordMod - 1
      BY <1>1, <2>1, Sizes
    <3>2. (a + b) % WordMod = a + b
      BY <3>1, Sizes, Small
    <3> QED BY <3>2
  <2>2. CASE a + b >= WordMod
    <3>1. a + b - WordMod \in 0 .. WordMod - 1
      BY <1>1, <2>2, Sizes
    <3>2. (WordMod + (a + b - WordMod)) % WordMod = a + b - WordMod
      BY <3>1, Sizes, Small
    <3> QED BY <1>1, <3>1, <3>2, Sizes
  <2> QED BY <1>1, <2>1, <2>2, Sizes
<1>5. ASSUME NEW x \in Nat
      PROVE  (AddrMod + x) % AddrMod = x % AddrMod /\ (2 * AddrMod + x) % AddrMod = x % AddrMod
  <2> DEFINE q == x \div AddrMod
             t == x % AddrMod
  <2>1. q \in Nat /\ t \in 0 .. AddrMod - 1 /\ q * AddrMod = x - t
    BY Sizes, Division
  <2>2. AddrMod \in Nat \ {0}
    BY Sizes
  <2> HIDE DEF q, t
  <2>3. AddrMod * (q + 1) + t = AddrMod + x /\ q + 1 \in Nat
    BY <2>1, <2>2
  <2>4. AddrMod * (q + 2) + t = 2 * AddrMod + x /\ q + 2 \in Nat
    BY <2>1, <2>2
  <2>5. (AddrMod * (q + 1) + t) % AddrMod = t
    BY <2>1, <2>2, <2>3, Remainder
  <2>6. (AddrMod * (q + 2) + t) % AddrMod = t
    BY <2>1, <2>2, <2>4, Remainder
  <2> QED BY <2>3, <2>4, <2>5, <2>6 DEF t
<1> HIDE DEF r, s
<1>6. ((a + b) % WordMod) % AddrMod = (a + b) % AddrMod
  <2>1. CASE (a + b) % WordMod = a + b
    BY <2>1
  <2>2. CASE (a + b) % WordMod = a + b - 2 * AddrMod
    <3>1. a + b - 2 * AddrMod \in Nat
      BY <1>1, <2>2, Sizes, WordOf DEF Word
    <3>2. (2 * AddrMod + (a + b - 2 * AddrMod)) % AddrMod = (a + b - 2 * AddrMod) % AddrMod
      BY <3>1, <1>5
    <3>3. 2 * AddrMod + (a + b - 2 * AddrMod) = a + b
      BY <1>1, Sizes
    <3> QED BY <2>2, <3>2, <3>3
  <2> QED BY <1>4, <2>1, <2>2
<1>7. (r + b) % AddrMod = (a + b) % AddrMod
  <2>1. CASE a = r
    BY <2>1
  <2>2. CASE a = AddrMod + r
    <3>1. r + b \in Nat /\ AddrMod + (r + b) = a + b
      BY <1>1, <1>2, <2>2, Sizes
    <3>2. (AddrMod + (r + b)) % AddrMod = (r + b) % AddrMod
      BY <3>1, <1>5
    <3> QED BY <3>1, <3>2
  <2> QED BY <1>3, <2>1, <2>2
<1>8. b + a = a + b
  BY <1>1
<1> QED BY <1>6, <1>7, <1>8 DEF Plus, r

(* A page holds a whole number of words of the memory, and so the stack    *)
(* pointer's field wraps where the word does.                              *)
LEMMA PageFits ==
  ASSUME NEW a \in Addr
  PROVE  /\ a \div PageSize \in Nat
         /\ (a \div PageSize) * PageSize = a - (a % PageSize)
         /\ (a \div PageSize) * PageSize + PageSize <= AddrMod
<1>1. a \in Nat /\ PageSize \in Nat \ {0}
  BY Sizes DEF Addr
<1> QED BY <1>1, Division, SizeAssumption

(* The stack pointer's field steps as the stack page does, and the stack   *)
(* page is no vector entry (ucode.py SPUP, the DEC of SP).                 *)
LEMMA StepSp ==
  ASSUME NEW s \in SpVals
  PROVE  /\ SpField((s + WordMod - 1) % WordMod) = SpDec(s)
         /\ SpField(s + 1) = SpInc(s)
         /\ SpDec(s) \in SpVals /\ SpInc(s) \in SpVals
         /\ StackAddr(s) \in Addr /\ StackAddr(s) \in Word
         /\ \A n \in Page : n # StackAddr(s)
<1>1. s \in Nat /\ s < PageSize /\ PageSize \in Nat \ {0} /\ AddrMod \in Nat /\ AddrMod >= 3 * PageSize
      /\ WordMod = 2 * AddrMod /\ PageSize >= 4
  BY Sizes, SizeAssumption DEF SpVals
<1>2. SpField(s + 1) = SpInc(s)
  <2>1. CASE s = PageSize - 1
    <3>1. (PageSize + 0) % PageSize = 0
      BY <1>1, Small
    <3> QED BY <1>1, <2>1, <3>1 DEF SpField, SpInc
  <2>2. CASE s # PageSize - 1
    <3>1. (s + 1) % PageSize = s + 1
      BY <1>1, <2>2, Small
    <3> QED BY <2>2, <3>1 DEF SpField, SpInc
  <2> QED BY <2>1, <2>2
<1>3. SpField((s + WordMod - 1) % WordMod) = SpDec(s)
  <2>1. CASE s = 0
    <3>1. (s + WordMod - 1) % WordMod = WordMod - 1
      BY <1>1, <2>1, Small, Sizes
    <3> DEFINE a == AddrMod - 1
               q == a \div PageSize
    <3>2. a \in Addr /\ a \in Nat
      BY <1>1 DEF Addr
    <3>3. q \in Nat /\ q * PageSize = a - (a % PageSize) /\ q * PageSize + PageSize <= AddrMod
          /\ a % PageSize \in 0 .. PageSize - 1
      BY <1>1, <3>2, PageFits, Division
    <3>4. AddrMod = PageSize * (q + 1)
      <4>1. q * PageSize + PageSize = AddrMod
        <5> HIDE DEF q
        <5> QED BY <1>1, <3>2, <3>3
      <4> HIDE DEF q, a
      <4> QED BY <1>1, <3>3, <4>1
    <3>5. WordMod - 1 = PageSize * (2 * q + 1) + (PageSize - 1)
      <4> HIDE DEF q, a
      <4> QED BY <1>1, <3>3, <3>4
    <3>6. (PageSize * (2 * q + 1) + (PageSize - 1)) % PageSize = PageSize - 1
      <4> HIDE DEF q, a
      <4>1. 2 * q + 1 \in Nat /\ PageSize - 1 \in 0 .. PageSize - 1
        BY <1>1, <3>3
      <4> QED BY <1>1, <4>1, Remainder
    <3> QED BY <2>1, <3>1, <3>5, <3>6 DEF SpField, SpDec
  <2>2. CASE s # 0
    <3>1. s - 1 \in 0 .. WordMod - 1 /\ s + WordMod - 1 = WordMod + (s - 1)
      BY <1>1, <2>2
    <3>2. (WordMod + (s - 1)) % WordMod = s - 1
      BY <3>1, Sizes, Small
    <3>3. (s - 1) % PageSize = s - 1
      BY <1>1, <2>2, Small
    <3> QED BY <2>2, <3>1, <3>2, <3>3 DEF SpField, SpDec
  <2> QED BY <2>1, <2>2
<1>4. SpDec(s) \in SpVals /\ SpInc(s) \in SpVals
  BY <1>1 DEF SpDec, SpInc, SpVals
<1>5. StackAddr(s) \in Addr /\ StackAddr(s) \in Word /\ \A n \in Page : n # StackAddr(s)
  BY <1>1 DEF StackAddr, Addr, Word, Page
<1> QED BY <1>2, <1>3, <1>4, <1>5

-----------------------------------------------------------------------------
(* Every word of the store.                                                *)

(* What every word of the store respects, whatever it is for.              *)
EaAt    == {"EA_ZP", "EA_IDX", "EA_IN1", "EA_IX1"}
JaAt    == {"JA_ZP", "JA_IDX", "JA_IN1", "JA_IX1"}
JmpAt   == {"JMP_PG", "JMP_IDX", "JMP_IN1", "JMP_IX1"}
CalAt   == {"CAL_PG", "CAL_IX", "CAL_IN", "CAL_XI"}
StackAt == {"PSH_SP", "PSH_LPC", "PSH_IX", "PSH_AC", "POP_AC", "POP_IX", "POP_LPC", "POP_SP"}
Sane(at, n) ==
  LET w == Microprogram[at][n]
  IN  /\ w.asrc \in {"NONE", "AC", "IX", "SP", "FROMIR"}
      /\ w.bsrc \in {"DI", "DEV", "IRF11", "IRF12"}
      /\ w.bsrc \in {"IRF11", "IRF12"} => at \in EaAt \cup JaAt \cup JmpAt
      /\ w.alu \in {"ADD", "PASSB", "DEC", "G1", "FROMIR"}
      /\ w.alu = "G1" => at = "FETCH_G"
      /\ w.alu = "FROMIR" => at \in {"FETCH_A", "OP_ISZ"}
      /\ w.dosrc \in {"HOLD", "FROMIR", "LPC", "ALU", "AC", "IX", "SP"}
      /\ w.rdst \in {"NONE", "AC", "IX", "SP", "PC", "FROMIR"}
      /\ w.rdst = "FROMIR" => at = "FETCH_A"
      /\ w.lctl \in {"HOLD", "FROMALU", "FROMDI"}
      /\ w.lctl = "FROMALU" => at = "FETCH_A"
      /\ w.arsrc \in {"HOLD", "ALU", "PC", "PCNEXT", "DI", "PAGE", "STACK", "STACKR"}
      /\ w.arsrc = "PAGE" => at = "JMP_PG"
      /\ w.mem \in {"IDLE", "RD", "WR", "IO"} /\ (w.mem = "IO" => at = "IOT")
      /\ w.seq \in {"NEXT", "JUMP", "MAP", "MAP2", "SKIPC", "SKIPF", "BRANCH", "MAPMASK"}
      /\ w.seq \in {"NEXT", "BRANCH"} => n < Len(Microprogram[at])
      /\ w.seq = "MAP2" => at \in EaAt \cup JaAt
      /\ w.seq = "JUMP" => \/ w.na = "FETCH"
                           \/ w.na = "FETCH_A" /\ at = "OP_RD"
                           \/ w.na \in JmpAt /\ at \in CalAt
      /\ w.seq = "BRANCH" => w.na = "SKIP" /\ at = "OP_ISZ"
      /\ at \in Fetches <=> w.seq \in {"MAP", "SKIPF"}
      /\ at = "FETCH_S" <=> w.seq = "SKIPF"
      /\ w.seq = "MAPMASK" => at = "G3" \/ at \in StackAt
      /\ at \in Fetches => w.mem = "RD" /\ w.arsrc = "PCNEXT" /\ n = 1
      /\ \/ w.arsrc \in {"PC", "PCNEXT"} \/ w.rdst = "PC"
         \/ w.seq \in {"NEXT", "MAP2", "BRANCH"}
         \/ w.seq = "JUMP" /\ w.na \notin Fetches
         \/ w.seq = "MAPMASK" /\ at = "G3"

(* Every word is sane: the fetches.                                        *)
LEMMA SaneFetch ==
  \A at \in DOMAIN FetchWords : \A n \in 1 .. Len(Microprogram[at]) : Sane(at, n)
<1>1. \A n \in 1 .. Len(Microprogram["FETCH"]) : Sane("FETCH", n)
  <2>1. Len(Microprogram["FETCH"]) = 1
    BY FetchTable DEF Fetches
  <2>2. Microprogram["FETCH"][1] = Fetch
    BY FetchTable
  <2>3. Sane("FETCH", 1)
    BY <2>1, <2>2 DEF Sane, EaAt, JaAt, JmpAt, CalAt, StackAt, Fetches, Fetch, Idle
  <2> QED BY <2>1, <2>3
<1>2. \A n \in 1 .. Len(Microprogram["FETCH_A"]) : Sane("FETCH_A", n)
  <2>1. Len(Microprogram["FETCH_A"]) = 1
    BY FetchTable DEF Fetches
  <2>2. Microprogram["FETCH_A"][1] = [Fetch EXCEPT !.asrc = "FROMIR", !.alu = "FROMIR", !.rdst = "FROMIR", !.lctl = "FROMALU"]
    BY FetchTable
  <2>3. Sane("FETCH_A", 1)
    BY <2>1, <2>2 DEF Sane, EaAt, JaAt, JmpAt, CalAt, StackAt, Fetches, Fetch, Idle
  <2> QED BY <2>1, <2>3
<1>3. \A n \in 1 .. Len(Microprogram["FETCH_G"]) : Sane("FETCH_G", n)
  <2>1. Len(Microprogram["FETCH_G"]) = 1
    BY FetchTable DEF Fetches
  <2>2. Microprogram["FETCH_G"][1] = [Fetch EXCEPT !.asrc = "AC", !.alu = "G1"]
    BY FetchTable
  <2>3. Sane("FETCH_G", 1)
    BY <2>1, <2>2 DEF Sane, EaAt, JaAt, JmpAt, CalAt, StackAt, Fetches, Fetch, Idle
  <2> QED BY <2>1, <2>3
<1>4. \A n \in 1 .. Len(Microprogram["FETCH_S"]) : Sane("FETCH_S", n)
  <2>1. Len(Microprogram["FETCH_S"]) = 1
    BY FetchTable DEF Fetches
  <2>2. Microprogram["FETCH_S"][1] = [Fetch EXCEPT !.seq = "SKIPF", !.cc = "G2"]
    BY FetchTable
  <2>3. Sane("FETCH_S", 1)
    BY <2>1, <2>2 DEF Sane, EaAt, JaAt, JmpAt, CalAt, StackAt, Fetches, Fetch, Idle
  <2> QED BY <2>1, <2>3
<1>5. \A n \in 1 .. Len(Microprogram["FETCH_I"]) : Sane("FETCH_I", n)
  <2>1. Len(Microprogram["FETCH_I"]) = 1
    BY FetchTable DEF Fetches
  <2>2. Microprogram["FETCH_I"][1] = [Fetch EXCEPT !.ictl = "IFROMIR"]
    BY FetchTable
  <2>3. Sane("FETCH_I", 1)
    BY <2>1, <2>2 DEF Sane, EaAt, JaAt, JmpAt, CalAt, StackAt, Fetches, Fetch, Idle
  <2> QED BY <2>1, <2>3
<1> QED BY Labels, <1>1, <1>2, <1>3, <1>4, <1>5

(* The operand addresses.                                                  *)
LEMMA SaneEa ==
  \A at \in DOMAIN EaWords : \A n \in 1 .. Len(Microprogram[at]) : Sane(at, n)
<1>1. \A n \in 1 .. Len(Microprogram["EA_ZP"]) : Sane("EA_ZP", n)
  <2>1. Len(Microprogram["EA_ZP"]) = 1
    BY EaTable
  <2>2. Microprogram["EA_ZP"][1] = ByField([EaTail EXCEPT !.asrc = "FROMIR"], "IRF11")
    BY EaTable
  <2>3. Sane("EA_ZP", 1)
    BY <2>1, <2>2 DEF Sane, EaAt, JaAt, JmpAt, CalAt, StackAt, Fetches, ByField, EaTail, Idle
  <2> QED BY <2>1, <2>3
<1>2. \A n \in 1 .. Len(Microprogram["EA_IDX"]) : Sane("EA_IDX", n)
  <2>1. Len(Microprogram["EA_IDX"]) = 1
    BY EaTable
  <2>2. Microprogram["EA_IDX"][1] = ByIndex(EaTail, "IRF11")
    BY EaTable
  <2>3. Sane("EA_IDX", 1)
    BY <2>1, <2>2 DEF Sane, EaAt, JaAt, JmpAt, CalAt, StackAt, Fetches, ByIndex, EaTail, Idle
  <2> QED BY <2>1, <2>3
<1>3. \A n \in 1 .. Len(Microprogram["EA_IN1"]) : Sane("EA_IN1", n)
  <2>1. Len(Microprogram["EA_IN1"]) = 3
    BY EaTable
  <2>2. Microprogram["EA_IN1"][1] = ByField(Idle, "IRF11")
    BY EaTable
  <2>3. Sane("EA_IN1", 1)
    BY <2>1, <2>2 DEF Sane, EaAt, JaAt, JmpAt, CalAt, StackAt, Fetches, ByField, Idle
  <2>4. Microprogram["EA_IN1"][2] = Read
    BY EaTable
  <2>5. Sane("EA_IN1", 2)
    BY <2>1, <2>4 DEF Sane, EaAt, JaAt, JmpAt, CalAt, StackAt, Fetches, Read, Idle
  <2>6. Microprogram["EA_IN1"][3] = ByMemory([EaTail EXCEPT !.asrc = "FROMIR"])
    BY EaTable
  <2>7. Sane("EA_IN1", 3)
    BY <2>1, <2>6 DEF Sane, EaAt, JaAt, JmpAt, CalAt, StackAt, Fetches, ByMemory, EaTail, Idle
  <2> QED BY <2>1, <2>3, <2>5, <2>7
<1>4. \A n \in 1 .. Len(Microprogram["EA_IX1"]) : Sane("EA_IX1", n)
  <2>1. Len(Microprogram["EA_IX1"]) = 3
    BY EaTable
  <2>2. Microprogram["EA_IX1"][1] = ByField(Idle, "IRF11")
    BY EaTable
  <2>3. Sane("EA_IX1", 1)
    BY <2>1, <2>2 DEF Sane, EaAt, JaAt, JmpAt, CalAt, StackAt, Fetches, ByField, Idle
  <2>4. Microprogram["EA_IX1"][2] = Read
    BY EaTable
  <2>5. Sane("EA_IX1", 2)
    BY <2>1, <2>4 DEF Sane, EaAt, JaAt, JmpAt, CalAt, StackAt, Fetches, Read, Idle
  <2>6. Microprogram["EA_IX1"][3] = ByIndex(EaTail, "DI")
    BY EaTable
  <2>7. Sane("EA_IX1", 3)
    BY <2>1, <2>6 DEF Sane, EaAt, JaAt, JmpAt, CalAt, StackAt, Fetches, ByIndex, EaTail, Idle
  <2> QED BY <2>1, <2>3, <2>5, <2>7
<1> QED BY Labels, <1>1, <1>2, <1>3, <1>4

(* Those of ISZ and DSZ.                                                   *)
LEMMA SaneJa ==
  \A at \in DOMAIN JaWords : \A n \in 1 .. Len(Microprogram[at]) : Sane(at, n)
<1>1. \A n \in 1 .. Len(Microprogram["JA_ZP"]) : Sane("JA_ZP", n)
  <2>1. Len(Microprogram["JA_ZP"]) = 1
    BY JaTable
  <2>2. Microprogram["JA_ZP"][1] = ByField(JaTail, "IRF12")
    BY JaTable
  <2>3. Sane("JA_ZP", 1)
    BY <2>1, <2>2 DEF Sane, EaAt, JaAt, JmpAt, CalAt, StackAt, Fetches, ByField, JaTail, Idle
  <2> QED BY <2>1, <2>3
<1>2. \A n \in 1 .. Len(Microprogram["JA_IDX"]) : Sane("JA_IDX", n)
  <2>1. Len(Microprogram["JA_IDX"]) = 1
    BY JaTable
  <2>2. Microprogram["JA_IDX"][1] = ByIndex(JaTail, "IRF12")
    BY JaTable
  <2>3. Sane("JA_IDX", 1)
    BY <2>1, <2>2 DEF Sane, EaAt, JaAt, JmpAt, CalAt, StackAt, Fetches, ByIndex, JaTail, Idle
  <2> QED BY <2>1, <2>3
<1>3. \A n \in 1 .. Len(Microprogram["JA_IN1"]) : Sane("JA_IN1", n)
  <2>1. Len(Microprogram["JA_IN1"]) = 3
    BY JaTable
  <2>2. Microprogram["JA_IN1"][1] = ByField(Idle, "IRF12")
    BY JaTable
  <2>3. Sane("JA_IN1", 1)
    BY <2>1, <2>2 DEF Sane, EaAt, JaAt, JmpAt, CalAt, StackAt, Fetches, ByField, Idle
  <2>4. Microprogram["JA_IN1"][2] = Read
    BY JaTable
  <2>5. Sane("JA_IN1", 2)
    BY <2>1, <2>4 DEF Sane, EaAt, JaAt, JmpAt, CalAt, StackAt, Fetches, Read, Idle
  <2>6. Microprogram["JA_IN1"][3] = ByMemory(JaTail)
    BY JaTable
  <2>7. Sane("JA_IN1", 3)
    BY <2>1, <2>6 DEF Sane, EaAt, JaAt, JmpAt, CalAt, StackAt, Fetches, ByMemory, JaTail, Idle
  <2> QED BY <2>1, <2>3, <2>5, <2>7
<1>4. \A n \in 1 .. Len(Microprogram["JA_IX1"]) : Sane("JA_IX1", n)
  <2>1. Len(Microprogram["JA_IX1"]) = 3
    BY JaTable
  <2>2. Microprogram["JA_IX1"][1] = ByField(Idle, "IRF12")
    BY JaTable
  <2>3. Sane("JA_IX1", 1)
    BY <2>1, <2>2 DEF Sane, EaAt, JaAt, JmpAt, CalAt, StackAt, Fetches, ByField, Idle
  <2>4. Microprogram["JA_IX1"][2] = Read
    BY JaTable
  <2>5. Sane("JA_IX1", 2)
    BY <2>1, <2>4 DEF Sane, EaAt, JaAt, JmpAt, CalAt, StackAt, Fetches, Read, Idle
  <2>6. Microprogram["JA_IX1"][3] = ByIndex(JaTail, "DI")
    BY JaTable
  <2>7. Sane("JA_IX1", 3)
    BY <2>1, <2>6 DEF Sane, EaAt, JaAt, JmpAt, CalAt, StackAt, Fetches, ByIndex, JaTail, Idle
  <2> QED BY <2>1, <2>3, <2>5, <2>7
<1> QED BY Labels, <1>1, <1>2, <1>3, <1>4

(* The targets.                                                            *)
LEMMA SaneJmp ==
  \A at \in DOMAIN JmpWords : \A n \in 1 .. Len(Microprogram[at]) : Sane(at, n)
<1>1. \A n \in 1 .. Len(Microprogram["JMP_PG"]) : Sane("JMP_PG", n)
  <2>1. Len(Microprogram["JMP_PG"]) = 1
    BY JmpTable
  <2>2. Microprogram["JMP_PG"][1] = [JmpTail EXCEPT !.arsrc = "PAGE"]
    BY JmpTable
  <2>3. Sane("JMP_PG", 1)
    BY <2>1, <2>2 DEF Sane, EaAt, JaAt, JmpAt, CalAt, StackAt, Fetches, JmpTail, ToFetch, Idle
  <2> QED BY <2>1, <2>3
<1>2. \A n \in 1 .. Len(Microprogram["JMP_IDX"]) : Sane("JMP_IDX", n)
  <2>1. Len(Microprogram["JMP_IDX"]) = 1
    BY JmpTable
  <2>2. Microprogram["JMP_IDX"][1] = ByIndex(JmpTail, "IRF12")
    BY JmpTable
  <2>3. Sane("JMP_IDX", 1)
    BY <2>1, <2>2 DEF Sane, EaAt, JaAt, JmpAt, CalAt, StackAt, Fetches, ByIndex, JmpTail, ToFetch, Idle
  <2> QED BY <2>1, <2>3
<1>3. \A n \in 1 .. Len(Microprogram["JMP_IN1"]) : Sane("JMP_IN1", n)
  <2>1. Len(Microprogram["JMP_IN1"]) = 3
    BY JmpTable
  <2>2. Microprogram["JMP_IN1"][1] = ByField(Idle, "IRF12")
    BY JmpTable
  <2>3. Sane("JMP_IN1", 1)
    BY <2>1, <2>2 DEF Sane, EaAt, JaAt, JmpAt, CalAt, StackAt, Fetches, ByField, Idle
  <2>4. Microprogram["JMP_IN1"][2] = Read
    BY JmpTable
  <2>5. Sane("JMP_IN1", 2)
    BY <2>1, <2>4 DEF Sane, EaAt, JaAt, JmpAt, CalAt, StackAt, Fetches, Read, Idle
  <2>6. Microprogram["JMP_IN1"][3] = ByMemory(JmpTail)
    BY JmpTable
  <2>7. Sane("JMP_IN1", 3)
    BY <2>1, <2>6 DEF Sane, EaAt, JaAt, JmpAt, CalAt, StackAt, Fetches, ByMemory, JmpTail, ToFetch, Idle
  <2> QED BY <2>1, <2>3, <2>5, <2>7
<1>4. \A n \in 1 .. Len(Microprogram["JMP_IX1"]) : Sane("JMP_IX1", n)
  <2>1. Len(Microprogram["JMP_IX1"]) = 3
    BY JmpTable
  <2>2. Microprogram["JMP_IX1"][1] = ByField(Idle, "IRF12")
    BY JmpTable
  <2>3. Sane("JMP_IX1", 1)
    BY <2>1, <2>2 DEF Sane, EaAt, JaAt, JmpAt, CalAt, StackAt, Fetches, ByField, Idle
  <2>4. Microprogram["JMP_IX1"][2] = Read
    BY JmpTable
  <2>5. Sane("JMP_IX1", 2)
    BY <2>1, <2>4 DEF Sane, EaAt, JaAt, JmpAt, CalAt, StackAt, Fetches, Read, Idle
  <2>6. Microprogram["JMP_IX1"][3] = ByIndex(JmpTail, "DI")
    BY JmpTable
  <2>7. Sane("JMP_IX1", 3)
    BY <2>1, <2>6 DEF Sane, EaAt, JaAt, JmpAt, CalAt, StackAt, Fetches, ByIndex, JmpTail, ToFetch, Idle
  <2> QED BY <2>1, <2>3, <2>5, <2>7
<1> QED BY Labels, <1>1, <1>2, <1>3, <1>4

(* The bodies.                                                             *)
LEMMA SaneOp ==
  \A at \in DOMAIN OpWords : \A n \in 1 .. Len(Microprogram[at]) : Sane(at, n)
<1>1. \A n \in 1 .. Len(Microprogram["OP_RD"]) : Sane("OP_RD", n)
  <2>1. Len(Microprogram["OP_RD"]) = 1
    BY OpTable
  <2>2. Microprogram["OP_RD"][1] = [Read EXCEPT !.arsrc = "PC", !.seq = "JUMP", !.na = "FETCH_A"]
    BY OpTable
  <2>3. Sane("OP_RD", 1)
    BY <2>1, <2>2 DEF Sane, EaAt, JaAt, JmpAt, CalAt, StackAt, Fetches, Read, Idle
  <2> QED BY <2>1, <2>3
<1>2. \A n \in 1 .. Len(Microprogram["OP_DAC"]) : Sane("OP_DAC", n)
  <2>1. Len(Microprogram["OP_DAC"]) = 1
    BY OpTable
  <2>2. Microprogram["OP_DAC"][1] = [ToFetch EXCEPT !.mem = "WR", !.arsrc = "PC"]
    BY OpTable
  <2>3. Sane("OP_DAC", 1)
    BY <2>1, <2>2 DEF Sane, EaAt, JaAt, JmpAt, CalAt, StackAt, Fetches, ToFetch, Idle
  <2> QED BY <2>1, <2>3
<1>3. \A n \in 1 .. Len(Microprogram["OP_SAD"]) : Sane("OP_SAD", n)
  <2>1. Len(Microprogram["OP_SAD"]) = 2
    BY OpTable
  <2>2. Microprogram["OP_SAD"][1] = Read
    BY OpTable
  <2>3. Sane("OP_SAD", 1)
    BY <2>1, <2>2 DEF Sane, EaAt, JaAt, JmpAt, CalAt, StackAt, Fetches, Read, Idle
  <2>4. Microprogram["OP_SAD"][2] = [Idle EXCEPT !.arsrc = "PC", !.seq = "SKIPC", !.cc = "NZ"]
    BY OpTable
  <2>5. Sane("OP_SAD", 2)
    BY <2>1, <2>4 DEF Sane, EaAt, JaAt, JmpAt, CalAt, StackAt, Fetches, Idle
  <2> QED BY <2>1, <2>3, <2>5
<1>4. \A n \in 1 .. Len(Microprogram["SKIP"]) : Sane("SKIP", n)
  <2>1. Len(Microprogram["SKIP"]) = 1
    BY OpTable
  <2>2. Microprogram["SKIP"][1] = [ToFetch EXCEPT !.arsrc = "PCNEXT"]
    BY OpTable
  <2>3. Sane("SKIP", 1)
    BY <2>1, <2>2 DEF Sane, EaAt, JaAt, JmpAt, CalAt, StackAt, Fetches, ToFetch, Idle
  <2> QED BY <2>1, <2>3
<1>5. \A n \in 1 .. Len(Microprogram["OP_ISZ"]) : Sane("OP_ISZ", n)
  <2>1. Len(Microprogram["OP_ISZ"]) = 4
    BY OpTable
  <2>2. Microprogram["OP_ISZ"][1] = Read
    BY OpTable
  <2>3. Sane("OP_ISZ", 1)
    BY <2>1, <2>2 DEF Sane, EaAt, JaAt, JmpAt, CalAt, StackAt, Fetches, Read, Idle
  <2>4. Microprogram["OP_ISZ"][2] = [Idle EXCEPT !.alu = "FROMIR", !.dosrc = "ALU"]
    BY OpTable
  <2>5. Sane("OP_ISZ", 2)
    BY <2>1, <2>4 DEF Sane, EaAt, JaAt, JmpAt, CalAt, StackAt, Fetches, Idle
  <2>6. Microprogram["OP_ISZ"][3] = [Write EXCEPT !.seq = "BRANCH", !.cc = "Z", !.na = "SKIP"]
    BY OpTable
  <2>7. Sane("OP_ISZ", 3)
    BY <2>1, <2>6 DEF Sane, EaAt, JaAt, JmpAt, CalAt, StackAt, Fetches, Write, Idle
  <2>8. Microprogram["OP_ISZ"][4] = [ToFetch EXCEPT !.arsrc = "PC"]
    BY OpTable
  <2>9. Sane("OP_ISZ", 4)
    BY <2>1, <2>8 DEF Sane, EaAt, JaAt, JmpAt, CalAt, StackAt, Fetches, ToFetch, Idle
  <2> QED BY <2>1, <2>3, <2>5, <2>7, <2>9
<1>6. \A n \in 1 .. Len(Microprogram["G3"]) : Sane("G3", n)
  <2>1. Len(Microprogram["G3"]) = 1
    BY OpTable
  <2>2. Microprogram["G3"][1] = [Idle EXCEPT !.seq = "MAPMASK"]
    BY OpTable
  <2>3. Sane("G3", 1)
    BY <2>1, <2>2 DEF Sane, EaAt, JaAt, JmpAt, CalAt, StackAt, Fetches, Idle
  <2> QED BY <2>1, <2>3
<1>7. \A n \in 1 .. Len(Microprogram["IOT"]) : Sane("IOT", n)
  <2>1. Len(Microprogram["IOT"]) = 1
    BY OpTable
  <2>2. Microprogram["IOT"][1] = [ToFetch EXCEPT !.mem = "IO", !.arsrc = "PC"]
    BY OpTable
  <2>3. Sane("IOT", 1)
    BY <2>1, <2>2 DEF Sane, EaAt, JaAt, JmpAt, CalAt, StackAt, Fetches, ToFetch, Idle
  <2> QED BY <2>1, <2>3
<1> QED BY Labels, <1>1, <1>2, <1>3, <1>4, <1>5, <1>6, <1>7

(* The stack words.                                                        *)
LEMMA SaneStack ==
  \A at \in DOMAIN StackWords : \A n \in 1 .. Len(Microprogram[at]) : Sane(at, n)
<1>1. \A n \in 1 .. Len(Microprogram["PSH_SP"]) : Sane("PSH_SP", n)
  <2>1. Len(Microprogram["PSH_SP"]) = 2
    BY StackTable DEF PushWords, PopWords
  <2>2. Microprogram["PSH_SP"][1] = StepDown("SP")
    BY StackTable DEF PushWords, PopWords
  <2>3. Sane("PSH_SP", 1)
    BY <2>1, <2>2 DEF Sane, EaAt, JaAt, JmpAt, CalAt, StackAt, Fetches, StepDown, Idle
  <2>4. Microprogram["PSH_SP"][2] = [Walk EXCEPT !.mem = "WR", !.arsrc = "PC"]
    BY StackTable DEF PushWords, PopWords
  <2>5. Sane("PSH_SP", 2)
    BY <2>1, <2>4 DEF Sane, EaAt, JaAt, JmpAt, CalAt, StackAt, Fetches, Walk, Idle
  <2> QED BY <2>1, <2>3, <2>5
<1>2. \A n \in 1 .. Len(Microprogram["PSH_LPC"]) : Sane("PSH_LPC", n)
  <2>1. Len(Microprogram["PSH_LPC"]) = 2
    BY StackTable DEF PushWords, PopWords
  <2>2. Microprogram["PSH_LPC"][1] = StepDown("LPC")
    BY StackTable DEF PushWords, PopWords
  <2>3. Sane("PSH_LPC", 1)
    BY <2>1, <2>2 DEF Sane, EaAt, JaAt, JmpAt, CalAt, StackAt, Fetches, StepDown, Idle
  <2>4. Microprogram["PSH_LPC"][2] = [Walk EXCEPT !.mem = "WR", !.arsrc = "PC"]
    BY StackTable DEF PushWords, PopWords
  <2>5. Sane("PSH_LPC", 2)
    BY <2>1, <2>4 DEF Sane, EaAt, JaAt, JmpAt, CalAt, StackAt, Fetches, Walk, Idle
  <2> QED BY <2>1, <2>3, <2>5
<1>3. \A n \in 1 .. Len(Microprogram["PSH_IX"]) : Sane("PSH_IX", n)
  <2>1. Len(Microprogram["PSH_IX"]) = 2
    BY StackTable DEF PushWords, PopWords
  <2>2. Microprogram["PSH_IX"][1] = StepDown("IX")
    BY StackTable DEF PushWords, PopWords
  <2>3. Sane("PSH_IX", 1)
    BY <2>1, <2>2 DEF Sane, EaAt, JaAt, JmpAt, CalAt, StackAt, Fetches, StepDown, Idle
  <2>4. Microprogram["PSH_IX"][2] = [Walk EXCEPT !.mem = "WR", !.arsrc = "PC"]
    BY StackTable DEF PushWords, PopWords
  <2>5. Sane("PSH_IX", 2)
    BY <2>1, <2>4 DEF Sane, EaAt, JaAt, JmpAt, CalAt, StackAt, Fetches, Walk, Idle
  <2> QED BY <2>1, <2>3, <2>5
<1>4. \A n \in 1 .. Len(Microprogram["PSH_AC"]) : Sane("PSH_AC", n)
  <2>1. Len(Microprogram["PSH_AC"]) = 2
    BY StackTable DEF PushWords, PopWords
  <2>2. Microprogram["PSH_AC"][1] = StepDown("AC")
    BY StackTable DEF PushWords, PopWords
  <2>3. Sane("PSH_AC", 1)
    BY <2>1, <2>2 DEF Sane, EaAt, JaAt, JmpAt, CalAt, StackAt, Fetches, StepDown, Idle
  <2>4. Microprogram["PSH_AC"][2] = [Walk EXCEPT !.mem = "WR", !.arsrc = "PC"]
    BY StackTable DEF PushWords, PopWords
  <2>5. Sane("PSH_AC", 2)
    BY <2>1, <2>4 DEF Sane, EaAt, JaAt, JmpAt, CalAt, StackAt, Fetches, Walk, Idle
  <2> QED BY <2>1, <2>3, <2>5
<1>5. \A n \in 1 .. Len(Microprogram["POP_AC"]) : Sane("POP_AC", n)
  <2>1. Len(Microprogram["POP_AC"]) = 3
    BY StackTable DEF PushWords, PopWords
  <2>2. Microprogram["POP_AC"][1] = [Idle EXCEPT !.arsrc = "STACKR"]
    BY StackTable DEF PushWords, PopWords
  <2>3. Sane("POP_AC", 1)
    BY <2>1, <2>2 DEF Sane, EaAt, JaAt, JmpAt, CalAt, StackAt, Fetches, Idle
  <2>4. Microprogram["POP_AC"][2] = [Read EXCEPT !.spup = TRUE]
    BY StackTable DEF PushWords, PopWords
  <2>5. Sane("POP_AC", 2)
    BY <2>1, <2>4 DEF Sane, EaAt, JaAt, JmpAt, CalAt, StackAt, Fetches, Read, Idle
  <2>6. Microprogram["POP_AC"][3] = PopInto("AC")
    BY StackTable DEF PushWords, PopWords
  <2>7. Sane("POP_AC", 3)
    BY <2>1, <2>6 DEF Sane, EaAt, JaAt, JmpAt, CalAt, StackAt, Fetches, PopInto, Walk, Idle
  <2> QED BY <2>1, <2>3, <2>5, <2>7
<1>6. \A n \in 1 .. Len(Microprogram["POP_IX"]) : Sane("POP_IX", n)
  <2>1. Len(Microprogram["POP_IX"]) = 3
    BY StackTable DEF PushWords, PopWords
  <2>2. Microprogram["POP_IX"][1] = [Idle EXCEPT !.arsrc = "STACKR"]
    BY StackTable DEF PushWords, PopWords
  <2>3. Sane("POP_IX", 1)
    BY <2>1, <2>2 DEF Sane, EaAt, JaAt, JmpAt, CalAt, StackAt, Fetches, Idle
  <2>4. Microprogram["POP_IX"][2] = [Read EXCEPT !.spup = TRUE]
    BY StackTable DEF PushWords, PopWords
  <2>5. Sane("POP_IX", 2)
    BY <2>1, <2>4 DEF Sane, EaAt, JaAt, JmpAt, CalAt, StackAt, Fetches, Read, Idle
  <2>6. Microprogram["POP_IX"][3] = PopInto("IX")
    BY StackTable DEF PushWords, PopWords
  <2>7. Sane("POP_IX", 3)
    BY <2>1, <2>6 DEF Sane, EaAt, JaAt, JmpAt, CalAt, StackAt, Fetches, PopInto, Walk, Idle
  <2> QED BY <2>1, <2>3, <2>5, <2>7
<1>7. \A n \in 1 .. Len(Microprogram["POP_LPC"]) : Sane("POP_LPC", n)
  <2>1. Len(Microprogram["POP_LPC"]) = 3
    BY StackTable DEF PushWords, PopWords
  <2>2. Microprogram["POP_LPC"][1] = [Idle EXCEPT !.arsrc = "STACKR"]
    BY StackTable DEF PushWords, PopWords
  <2>3. Sane("POP_LPC", 1)
    BY <2>1, <2>2 DEF Sane, EaAt, JaAt, JmpAt, CalAt, StackAt, Fetches, Idle
  <2>4. Microprogram["POP_LPC"][2] = [Read EXCEPT !.spup = TRUE]
    BY StackTable DEF PushWords, PopWords
  <2>5. Sane("POP_LPC", 2)
    BY <2>1, <2>4 DEF Sane, EaAt, JaAt, JmpAt, CalAt, StackAt, Fetches, Read, Idle
  <2>6. Microprogram["POP_LPC"][3] = [Walk EXCEPT !.arsrc = "DI", !.rdst = "PC", !.lctl = "FROMDI"]
    BY StackTable DEF PushWords, PopWords
  <2>7. Sane("POP_LPC", 3)
    BY <2>1, <2>6 DEF Sane, EaAt, JaAt, JmpAt, CalAt, StackAt, Fetches, Walk, Idle
  <2> QED BY <2>1, <2>3, <2>5, <2>7
<1>8. \A n \in 1 .. Len(Microprogram["POP_SP"]) : Sane("POP_SP", n)
  <2>1. Len(Microprogram["POP_SP"]) = 3
    BY StackTable DEF PushWords, PopWords
  <2>2. Microprogram["POP_SP"][1] = [Idle EXCEPT !.arsrc = "STACKR"]
    BY StackTable DEF PushWords, PopWords
  <2>3. Sane("POP_SP", 1)
    BY <2>1, <2>2 DEF Sane, EaAt, JaAt, JmpAt, CalAt, StackAt, Fetches, Idle
  <2>4. Microprogram["POP_SP"][2] = [Read EXCEPT !.spup = FALSE]
    BY StackTable DEF PushWords, PopWords
  <2>5. Sane("POP_SP", 2)
    BY <2>1, <2>4 DEF Sane, EaAt, JaAt, JmpAt, CalAt, StackAt, Fetches, Read, Idle
  <2>6. Microprogram["POP_SP"][3] = PopInto("SP")
    BY StackTable DEF PushWords, PopWords
  <2>7. Sane("POP_SP", 3)
    BY <2>1, <2>6 DEF Sane, EaAt, JaAt, JmpAt, CalAt, StackAt, Fetches, PopInto, Walk, Idle
  <2> QED BY <2>1, <2>3, <2>5, <2>7
<1> QED BY Labels, <1>1, <1>2, <1>3, <1>4, <1>5, <1>6, <1>7, <1>8

(* The calls.                                                              *)
LEMMA SaneCal ==
  \A at \in DOMAIN CalWords : \A n \in 1 .. Len(Microprogram[at]) : Sane(at, n)
<1>1. \A n \in 1 .. Len(Microprogram["CAL_PG"]) : Sane("CAL_PG", n)
  <2>1. Len(Microprogram["CAL_PG"]) = 2
    BY CalTable
  <2>2. Microprogram["CAL_PG"][1] = StepDown("LPC")
    BY CalTable
  <2>3. Sane("CAL_PG", 1)
    BY <2>1, <2>2 DEF Sane, EaAt, JaAt, JmpAt, CalAt, StackAt, Fetches, StepDown, Idle
  <2>4. Microprogram["CAL_PG"][2] = [Write EXCEPT !.seq = "JUMP", !.na = "JMP_PG"]
    BY CalTable
  <2>5. Sane("CAL_PG", 2)
    BY <2>1, <2>4 DEF Sane, EaAt, JaAt, JmpAt, CalAt, StackAt, Fetches, Write, Idle
  <2> QED BY <2>1, <2>3, <2>5
<1>2. \A n \in 1 .. Len(Microprogram["CAL_IX"]) : Sane("CAL_IX", n)
  <2>1. Len(Microprogram["CAL_IX"]) = 2
    BY CalTable
  <2>2. Microprogram["CAL_IX"][1] = StepDown("LPC")
    BY CalTable
  <2>3. Sane("CAL_IX", 1)
    BY <2>1, <2>2 DEF Sane, EaAt, JaAt, JmpAt, CalAt, StackAt, Fetches, StepDown, Idle
  <2>4. Microprogram["CAL_IX"][2] = [Write EXCEPT !.seq = "JUMP", !.na = "JMP_IDX"]
    BY CalTable
  <2>5. Sane("CAL_IX", 2)
    BY <2>1, <2>4 DEF Sane, EaAt, JaAt, JmpAt, CalAt, StackAt, Fetches, Write, Idle
  <2> QED BY <2>1, <2>3, <2>5
<1>3. \A n \in 1 .. Len(Microprogram["CAL_IN"]) : Sane("CAL_IN", n)
  <2>1. Len(Microprogram["CAL_IN"]) = 2
    BY CalTable
  <2>2. Microprogram["CAL_IN"][1] = StepDown("LPC")
    BY CalTable
  <2>3. Sane("CAL_IN", 1)
    BY <2>1, <2>2 DEF Sane, EaAt, JaAt, JmpAt, CalAt, StackAt, Fetches, StepDown, Idle
  <2>4. Microprogram["CAL_IN"][2] = [Write EXCEPT !.seq = "JUMP", !.na = "JMP_IN1"]
    BY CalTable
  <2>5. Sane("CAL_IN", 2)
    BY <2>1, <2>4 DEF Sane, EaAt, JaAt, JmpAt, CalAt, StackAt, Fetches, Write, Idle
  <2> QED BY <2>1, <2>3, <2>5
<1>4. \A n \in 1 .. Len(Microprogram["CAL_XI"]) : Sane("CAL_XI", n)
  <2>1. Len(Microprogram["CAL_XI"]) = 2
    BY CalTable
  <2>2. Microprogram["CAL_XI"][1] = StepDown("LPC")
    BY CalTable
  <2>3. Sane("CAL_XI", 1)
    BY <2>1, <2>2 DEF Sane, EaAt, JaAt, JmpAt, CalAt, StackAt, Fetches, StepDown, Idle
  <2>4. Microprogram["CAL_XI"][2] = [Write EXCEPT !.seq = "JUMP", !.na = "JMP_IX1"]
    BY CalTable
  <2>5. Sane("CAL_XI", 2)
    BY <2>1, <2>4 DEF Sane, EaAt, JaAt, JmpAt, CalAt, StackAt, Fetches, Write, Idle
  <2> QED BY <2>1, <2>3, <2>5
<1> QED BY Labels, <1>1, <1>2, <1>3, <1>4

(* The entry of an interrupt.                                              *)
LEMMA SaneIrq ==
  \A at \in DOMAIN IrqWords : \A n \in 1 .. Len(Microprogram[at]) : Sane(at, n)
<1>1. \A n \in 1 .. Len(Microprogram["IRQ"]) : Sane("IRQ", n)
  <2>1. Len(Microprogram["IRQ"]) = 5
    BY IrqTable
  <2>2. Microprogram["IRQ"][1] = [StepDown("LPC") EXCEPT !.ictl = "ICLR"]
    BY IrqTable
  <2>3. Sane("IRQ", 1)
    BY <2>1, <2>2 DEF Sane, EaAt, JaAt, JmpAt, CalAt, StackAt, Fetches, StepDown, Idle
  <2>4. Microprogram["IRQ"][2] = Write
    BY IrqTable
  <2>5. Sane("IRQ", 2)
    BY <2>1, <2>4 DEF Sane, EaAt, JaAt, JmpAt, CalAt, StackAt, Fetches, Write, Idle
  <2>6. Microprogram["IRQ"][3] = ByField(Idle, "DEV")
    BY IrqTable
  <2>7. Sane("IRQ", 3)
    BY <2>1, <2>6 DEF Sane, EaAt, JaAt, JmpAt, CalAt, StackAt, Fetches, ByField, Idle
  <2>8. Microprogram["IRQ"][4] = Read
    BY IrqTable
  <2>9. Sane("IRQ", 4)
    BY <2>1, <2>8 DEF Sane, EaAt, JaAt, JmpAt, CalAt, StackAt, Fetches, Read, Idle
  <2>10. Microprogram["IRQ"][5] = ByMemory(JmpTail)
    BY IrqTable
  <2>11. Sane("IRQ", 5)
    BY <2>1, <2>10 DEF Sane, EaAt, JaAt, JmpAt, CalAt, StackAt, Fetches, ByMemory, JmpTail, ToFetch, Idle
  <2> QED BY <2>1, <2>3, <2>5, <2>7, <2>9, <2>11
<1> QED BY Labels, <1>1

(* The whole store.                                                        *)
LEMMA SaneStore ==
  \A at \in DOMAIN Microprogram : \A n \in 1 .. Len(Microprogram[at]) : Sane(at, n)
BY Lookup, SaneFetch, SaneEa, SaneJa, SaneJmp, SaneOp, SaneStack, SaneCal, SaneIrq

(* The labels the map ROMs give are those of the words for that opcode.    *)
Pushes == {"PSH_SP", "PSH_LPC", "PSH_IX", "PSH_AC"}
Pops   == {"POP_SP", "POP_LPC", "POP_IX", "POP_AC"}
Firsts == EaAt \cup JaAt \cup JmpAt \cup CalAt \cup StackAt \cup Fetches
            \cup {"OP_RD", "OP_DAC", "OP_SAD", "OP_ISZ", "G3", "IOT", "SKIP", "IRQ"}

(* The labels and how many words follow each.                              *)
LEMMA Places ==
  /\ DOMAIN Microprogram = Firsts
  /\ \A at \in Firsts : Len(Microprogram[at]) \in Nat \ {0}
<1>1. DOMAIN Microprogram = Firsts
  BY Lookup, Labels DEF Firsts, EaAt, JaAt, JmpAt, CalAt, StackAt, Fetches
<1>2. \A at \in Fetches : Len(Microprogram[at]) = 1
  BY FetchTable
<1>3. \A at \in EaAt \cup JaAt \cup JmpAt : Len(Microprogram[at]) \in {1, 3}
  BY EaTable, JaTable, JmpTable DEF EaAt, JaAt, JmpAt
<1>4. \A at \in CalAt : Len(Microprogram[at]) = 2
  BY CalTable DEF CalAt
<1>5. \A at \in StackAt : Len(Microprogram[at]) \in {2, 3}
  <2>1. \A src : Len(PushWords(src)) = 2
    BY DEF PushWords
  <2>2. /\ Len(Microprogram["POP_AC"]) = 3 /\ Len(Microprogram["POP_IX"]) = 3
        /\ Len(Microprogram["POP_LPC"]) = 3 /\ Len(Microprogram["POP_SP"]) = 3
    BY StackTable DEF PopWords
  <2>3. \A at \in Pushes : Len(Microprogram[at]) = 2
    BY <2>1, StackTable DEF Pushes
  <2>4. \A at \in Pops : Len(Microprogram[at]) = 3
    BY <2>2 DEF Pops
  <2> QED BY <2>3, <2>4 DEF StackAt, Pushes, Pops
<1>6. \A at \in {"OP_RD", "OP_DAC", "OP_SAD", "OP_ISZ", "G3", "IOT", "SKIP", "IRQ"} :
         Len(Microprogram[at]) \in {1, 2, 4, 5}
  <2>1. Len(Microprogram["OP_RD"]) = 1 /\ Len(Microprogram["OP_DAC"]) = 1
    BY OpTable
  <2>2. Len(Microprogram["OP_SAD"]) = 2 /\ Len(Microprogram["SKIP"]) = 1
    BY OpTable
  <2>3. Len(Microprogram["OP_ISZ"]) = 4
    BY OpTable
  <2>4. Len(Microprogram["G3"]) = 1 /\ Len(Microprogram["IOT"]) = 1
    BY OpTable
  <2>5. Len(Microprogram["IRQ"]) = 5
    BY IrqTable
  <2> QED BY <2>1, <2>2, <2>3, <2>4, <2>5
<1> QED BY <1>1, <1>2, <1>3, <1>4, <1>5, <1>6, SMTT(30) DEF Firsts

-----------------------------------------------------------------------------
(* Widths.                                                                 *)

(* Which instruction each word serves, and where AR already is PC.         *)
OpFits ==
  /\ upc.at \in {"FETCH_A", "OP_RD"} => ir.op \in AluOps
  /\ upc.at = "FETCH_G" => ir.op = "OPR1"
  /\ upc.at \in EaAt => ir.op \in AluOps \cup {"DAC", "SAD"}
  /\ upc.at \in JaAt \cup {"OP_ISZ"} => ir.op \in {"ISZ", "DSZ"}
  /\ upc.at \in JmpAt \cup CalAt => ir.op \in {"JMP", "CAL"}

ArFits == upc.at \in Fetches \cup {"G3"} => ar = pc

TypeInv == MicroTypeOK /\ prog \in [Addr -> Instr] /\ OpFits /\ ArFits

(* Where the values of the registers lie.                                  *)
LEMMA Ranges ==
  /\ Word \subseteq Nat /\ Addr \subseteq Nat /\ SpVals \subseteq Nat /\ SpVals \subseteq Word
  /\ Devices \subseteq Addr /\ 0 \in Word /\ 0 \in Addr /\ AddrMod - 1 \in Nat
  /\ \A x \in Nat : /\ x % WordMod \in Word /\ x % AddrMod \in Addr /\ x % PageSize \in SpVals
                    /\ (x + WordMod - 1) % WordMod \in Word
                    /\ (x + 1) % WordMod \in Word
  /\ \A x, y \in Nat : /\ Plus(x, y) \in Addr /\ (x + y) % WordMod \in Word
                       /\ (x + y + 1) % WordMod \in Word
  /\ \A k \in Link, a \in Addr : k * AddrMod + a \in Word
<1>1. /\ Word \subseteq Nat /\ Addr \subseteq Nat /\ SpVals \subseteq Nat
      /\ Devices \subseteq Addr /\ 0 \in Word /\ 0 \in Addr /\ AddrMod - 1 \in Nat
  BY Sizes DEF Word, Addr, SpVals
<1>2. SpVals \subseteq Word
  BY Sizes, SizeAssumption DEF Word, SpVals
<1>3. \A x \in Int : x % WordMod \in Word /\ x % AddrMod \in Addr /\ x % PageSize \in SpVals
  BY ModRange, Sizes DEF Word, Addr, SpVals
<1>4. \A x \in Nat : x + WordMod - 1 \in Int
  BY Sizes
<1>5. \A k \in Link, a \in Addr : k * AddrMod + a \in Word
  BY Sizes DEF Link, Addr, Word
<1>6. \A x, y \in Nat : Plus(x, y) \in Addr
  BY <1>3 DEF Plus
<1> QED BY <1>1, <1>2, <1>3, <1>4, <1>5, <1>6

(* The word the sequencer is at is one of the store.                       *)
LEMMA SaneWord == MicroTypeOK => Sane(upc.at, upc.n) /\ Word0 = Microprogram[upc.at][upc.n]
<1>1. ASSUME MicroTypeOK
      PROVE  upc.at \in DOMAIN Microprogram /\ upc.n \in 1 .. Len(Microprogram[upc.at])
  <2>1. upc.at \in DOMAIN Microprogram /\ upc.n \in Nat \ {0} /\ upc.n <= Len(Microprogram[upc.at])
    BY <1>1 DEF MicroTypeOK
  <2>2. Len(Microprogram[upc.at]) \in Nat
    BY <2>1, Places
  <2> QED BY <2>1, <2>2
<1> QED BY <1>1, SaneStore DEF Word0

(* What the fields of an instruction range over, and which opcodes there   *)
(* are.                                                                    *)
LEMMA InstrOps ==
  ASSUME NEW ins \in Instr
  PROVE  /\ ins.op \in AluOps \cup {"DAC", "SAD"} => ins.r \in {"AC", "IX"}
         /\ ins.op \in {"PSH", "POP"} => ins.mask \in SUBSET (0 .. 3)
         /\ ins.op \in AluOps \cup {"DAC", "SAD", "CAL", "JMP", "ISZ", "DSZ"}
              => ins.addr \in Page
         /\ ins.op = "OPR1" => ins.mic \in SUBSET Micros
         /\ ins.op = "ACK" => ins.dev \in Devices
         /\ ins.op \in AluOps \cup {"DAC", "SAD", "CAL", "JMP", "ISZ", "DSZ", "OPR1", "OPR2",
                "PSH", "POP", "IMRD", "IMWR", "IMSET", "IMCLR", "SKI", "SKNI", "WAIT", "ACK"}
BY Sizes DEF Instr, AluOps

(* The two buses carry words (ucode.py, the A and B muxes).                *)
LEMMA BusTyped ==
  ASSUME TypeInv
  PROVE  BusA \in Word /\ BusB \in Word /\ RegOfIr \in Word
<1>1. Sane(upc.at, upc.n) /\ Word0 = Microprogram[upc.at][upc.n] /\ MicroTypeOK
  BY SaneWord DEF TypeInv
<1>2. RegOfIr \in Word
  BY <1>1 DEF MicroTypeOK, RegOfIr
<1>3. BusA \in Word
  <2>1. 0 \in Word /\ sp \in Word
    BY <1>1, Ranges DEF MicroTypeOK
  <2>2. Word0.asrc \in {"NONE", "AC", "IX", "SP", "FROMIR"}
    BY <1>1 DEF Sane
  <2> QED BY <1>1, <1>2, <2>1, <2>2 DEF MicroTypeOK, BusA
<1>4. BusB \in Word
  <2>1. Word0.bsrc \in {"DI", "DEV", "IRF11", "IRF12"}
    BY <1>1 DEF Sane
  <2>2. CASE Word0.bsrc = "DI"
    BY <1>1, <2>2 DEF MicroTypeOK, BusB
  <2>3. CASE Word0.bsrc = "DEV"
    BY <1>1, <2>3, Ranges, Sizes DEF MicroTypeOK, BusB
  <2>4. CASE Word0.bsrc \in {"IRF11", "IRF12"}
    <3>1. ir.op \in AluOps \cup {"DAC", "SAD", "CAL", "JMP", "ISZ", "DSZ"}
      BY <1>1, <2>4 DEF Sane, TypeInv, OpFits
    <3>2. ir.addr \in Word
      BY <1>1, <3>1, InstrOps, Sizes DEF MicroTypeOK
    <3> QED BY <2>4, <3>2 DEF BusB
  <2> QED BY <2>1, <2>2, <2>3, <2>4
<1> QED BY <1>2, <1>3, <1>4

(* The ALU leaves a word and a bit.                                        *)
LEMMA AluOutTyped ==
  ASSUME TypeInv
  PROVE  AluOut.r \in Word /\ AluOut.l \in Link
<1>1. Sane(upc.at, upc.n) /\ Word0 = Microprogram[upc.at][upc.n] /\ MicroTypeOK
  BY SaneWord DEF TypeInv
<1>2. BusA \in Word /\ BusB \in Word
  BY BusTyped
<1>3. l \in Link /\ ac \in Word /\ ir \in Instr
  BY <1>1 DEF MicroTypeOK
<1>4. BusA \in Nat /\ BusB \in Nat
  BY <1>2, Ranges
<1>5. /\ (BusA + BusB) % WordMod \in Word /\ BusB % WordMod \in Word
      /\ (BusA + WordMod - 1) % WordMod \in Word /\ (BusA + BusB + 1) % WordMod \in Word
      /\ (BusB + WordMod - 1) % WordMod \in Word
  BY <1>4, Ranges
<1>6. Word0.alu \in {"ADD", "PASSB", "DEC", "G1", "FROMIR"}
  BY <1>1 DEF Sane
<1>7. CASE Word0.alu \in {"ADD", "PASSB", "DEC"}
  BY <1>3, <1>5, <1>7 DEF AluOut
<1>8. CASE Word0.alu = "G1"
  <2>1. ir.mic \in SUBSET Micros
    BY <1>1, <1>3, <1>8, InstrOps DEF Sane, TypeInv, OpFits
  <2>2. Group1(ir.mic, ac, l).ac \in Word /\ Group1(ir.mic, ac, l).l \in Link
    BY <1>3, <2>1, Group1Typed
  <2> DEFINE g == Group1(ir.mic, ac, l)
  <2>3. g.ac \in Word /\ g.l \in Link
    BY <2>2
  <2>4. AluOut = [r |-> g.ac, l |-> g.l]
    BY <1>8 DEF AluOut
  <2> HIDE DEF g
  <2> QED BY <2>3, <2>4
<1>9. CASE Word0.alu = "FROMIR"
  <2>1. ir.op \in AluOps \/ ir.op \in {"ISZ", "DSZ"}
    BY <1>1, <1>9 DEF Sane, TypeInv, OpFits
  <2>2. CASE ir.op \in {"ISZ", "DSZ"}
    BY <1>3, <1>5, <1>9, <2>2 DEF AluOut
  <2>3. CASE ir.op \in AluOps
    <3>1. AluWord(ir.op, BusA, BusB) \in Word /\ AluLink(ir.op, BusA, BusB, l) \in Link
      BY <1>2, <1>3, <2>3, AluTyped
    <3>2. ir.op \notin {"ISZ", "DSZ"}
      BY <2>3 DEF AluOps
    <3> QED BY <1>9, <3>1, <3>2 DEF AluOut
  <2> QED BY <2>1, <2>2, <2>3
<1> QED BY <1>6, <1>7, <1>8, <1>9

(* DI, DO and memory hold words.                                           *)
LEMMA MemoryTyped ==
  ASSUME TypeInv, Memory, DataOut
  PROVE  di' \in Word /\ m' \in [Addr -> Word] /\ do' \in Word
<1>1. MicroTypeOK /\ Sane(upc.at, upc.n) /\ Word0 = Microprogram[upc.at][upc.n]
  BY SaneWord DEF TypeInv
<1>2. 0 \in Word
  BY Sizes DEF Word
<1>3. di' \in Word /\ m' \in [Addr -> Word]
  BY <1>1, <1>2 DEF MicroTypeOK, Memory
<1>4. Word0.dosrc \in {"HOLD", "FROMIR", "LPC", "ALU", "AC", "IX", "SP"}
  BY <1>1 DEF Sane
<1>5. l * AddrMod + pc \in Word
  BY <1>1, Ranges, SMTT(30) DEF MicroTypeOK
<1>6. sp \in Word
  BY <1>1, Ranges DEF MicroTypeOK
<1>7. do' \in Word
  BY <1>1, <1>4, <1>5, <1>6, BusTyped, AluOutTyped DEF MicroTypeOK, DataOut
<1> QED BY <1>3, <1>7

(* So do the registers, SP its field, the flags a bit.                     *)
LEMMA RegistersTyped ==
  ASSUME TypeInv, Registers, Flags, di' \in Word
  PROVE  /\ ac' \in Word /\ ix' \in Word /\ sp' \in SpVals /\ halted' \in BOOLEAN
         /\ l' \in Link /\ i' \in BOOLEAN
<1>1. MicroTypeOK
  BY DEF TypeInv
<1>2. AluOut.r \in Word /\ AluOut.l \in Link
  BY AluOutTyped
<1>3. ac' \in Word
  BY <1>1, <1>2 DEF MicroTypeOK, Registers
<1>4. ix' \in Word
  <2>1. (ix + 1) % WordMod \in Word
    BY <1>1, Ranges DEF MicroTypeOK
  <2> QED BY <1>1, <1>2, <2>1 DEF MicroTypeOK, Registers
<1>5. sp' \in SpVals
  <2>1. SpField(AluOut.r) \in SpVals /\ SpField(sp + 1) \in SpVals
    <3>1. sp \in SpVals
      BY <1>1 DEF MicroTypeOK
    <3>2. sp + 1 \in Nat
      BY <3>1 DEF SpVals
    <3>3. AluOut.r \in Nat
      BY <1>2 DEF Word
    <3> QED BY <3>2, <3>3, Ranges DEF SpField
  <2> QED BY <1>1, <2>1 DEF MicroTypeOK, Registers
<1>6. l' \in Link
  BY <1>1, <1>2 DEF MicroTypeOK, Flags, Link
<1>7. i' \in BOOLEAN
  BY <1>1 DEF MicroTypeOK, Flags
<1>8. halted' \in BOOLEAN
  BY DEF Registers
<1> QED BY <1>3, <1>4, <1>5, <1>6, <1>7, <1>8

(* AR and PC are addresses, whichever of the paths loads them.             *)
LEMMA AddressesTyped ==
  ASSUME TypeInv, Addresses, di' \in Word, sp' \in SpVals
  PROVE  ar' \in Addr /\ pc' \in Addr
<1> DEFINE stepped == IF IoSkip \/ (Word0.arsrc = "PCNEXT" /\ ~IrqNow) THEN Plus(pc, 1) ELSE pc
           skipped == Plus(stepped, 1)
           muxed == CASE Word0.arsrc = "HOLD"   -> ar
                      [] Word0.arsrc = "ALU"    -> AluOut.r % AddrMod
                      [] Word0.arsrc \in {"PC", "PCNEXT"} -> stepped
                      [] Word0.arsrc = "DI"     -> di' % AddrMod
                      [] Word0.arsrc = "PAGE"   -> pgl * PageSize + ir.addr
                      [] Word0.arsrc = "STACK"  -> StackAddr(SpField(AluOut.r))
                      [] Word0.arsrc = "STACKR" -> StackAddr(sp')
<1>1. MicroTypeOK /\ Sane(upc.at, upc.n) /\ Word0 = Microprogram[upc.at][upc.n]
  BY SaneWord DEF TypeInv
<1>2. stepped \in Addr
  BY <1>1, Ranges DEF MicroTypeOK
<1>3. skipped \in Addr
  <2> HIDE DEF stepped
  <2> QED BY <1>2, Ranges
<1>4. muxed \in Addr
  <2> HIDE DEF stepped
  <2>1. Word0.arsrc \in {"HOLD", "ALU", "PC", "PCNEXT", "DI", "PAGE", "STACK", "STACKR"}
    BY <1>1 DEF Sane
  <2>2. CASE Word0.arsrc \in {"HOLD", "PC", "PCNEXT"}
    BY <1>1, <1>2, <2>2 DEF MicroTypeOK
  <2>3. CASE Word0.arsrc \in {"ALU", "DI"}
    <3>1. AluOut.r % AddrMod \in Addr /\ di' % AddrMod \in Addr
      BY AluOutTyped, AddrOf DEF Word
    <3> QED BY <2>3, <3>1
  <2>4. CASE Word0.arsrc = "PAGE"
    <3>1. ir.op \in {"JMP", "CAL"}
      BY <1>1, <2>4 DEF Sane, TypeInv, OpFits, JmpAt
    <3>2. ir.addr \in Page
      BY <1>1, <3>1, InstrOps DEF MicroTypeOK
    <3> DEFINE base == pgl * PageSize
    <3>3. base \in Nat /\ base + PageSize <= AddrMod
      BY <1>1, Sizes DEF MicroTypeOK
    <3>4. base + ir.addr \in Addr
      <4> HIDE DEF base
      <4> QED BY <3>2, <3>3, Sizes DEF Page, Addr
    <3> QED BY <2>4, <3>4
  <2>5. CASE Word0.arsrc \in {"STACK", "STACKR"}
    <3>1. SpField(AluOut.r) \in SpVals
      BY AluOutTyped, Ranges DEF SpField
    <3>2. StackAddr(SpField(AluOut.r)) \in Addr /\ StackAddr(sp') \in Addr
      BY <3>1, StepSp
    <3> QED BY <2>5, <3>2
  <2> QED BY <2>1, <2>2, <2>3, <2>4, <2>5
<1>5. /\ ar' = IF TakesSkip(Word0) THEN skipped ELSE muxed
      /\ pc' = IF TakesSkip(Word0) THEN skipped ELSE IF Dst = "PC" THEN muxed ELSE stepped
  BY DEF Addresses
<1> HIDE DEF stepped, skipped, muxed
<1> QED BY <1>2, <1>3, <1>4, <1>5

(* The page latched with an instruction is one of the memory.              *)
LEMMA LoadTyped ==
  ASSUME TypeInv, Load, pc' \in Addr
  PROVE  ir' \in Instr /\ pgl' \in Nat /\ pgl' * PageSize + PageSize <= AddrMod
<1>1. MicroTypeOK /\ prog \in [Addr -> Instr]
  BY DEF TypeInv
<1>2. ir' \in Instr
  BY <1>1 DEF MicroTypeOK, Load
<1>3. PageOf(pc') \in Nat /\ PageOf(pc') * PageSize + PageSize <= AddrMod
  <2>1. Plus(pc', AddrMod - 1) \in Addr
    BY Ranges
  <2> QED BY <2>1, PageFits DEF PageOf
<1>4. CASE NewIr
  <2>1. pgl' = PageOf(pc')
    BY <1>4 DEF Load
  <2> DEFINE q == PageOf(pc')
  <2>2. q \in Nat /\ q * PageSize + PageSize <= AddrMod /\ pgl' = q
    BY <1>3, <2>1
  <2> HIDE DEF q
  <2> QED BY <1>2, <2>2
<1>5. CASE ~NewIr
  BY <1>1, <1>5 DEF Load, MicroTypeOK
<1> QED BY <1>2, <1>4, <1>5

-----------------------------------------------------------------------------
(* Where the sequencer goes.                                               *)

(* MAP1 leads to the words of the opcode it maps, and only PSH and POP to  *)
(* the walk.                                                               *)
LEMMA ModeLabels ==
  ASSUME NEW ins \in Instr
  PROVE  /\ ins.op \in AluOps \cup {"DAC", "SAD"} => Map1(ins) \in EaAt
         /\ ins.op = "JMP" => Map1(ins) \in JmpAt
         /\ ins.op = "CAL" => Map1(ins) \in CalAt
         /\ ins.op \in {"ISZ", "DSZ"} => Map1(ins) \in JaAt
         /\ ins.op = "OPR1" => Map1(ins) = "FETCH_G"
         /\ ins.op = "OPR2" => Map1(ins) = "FETCH_S"
         /\ ins.op \in {"PSH", "POP"} <=> Map1(ins) = "G3"
         /\ ins.op \in {"IMRD", "IMWR", "IMSET", "IMCLR", "SKI", "SKNI", "WAIT", "ACK"}
              => Map1(ins) = "IOT"
<1>1. ins.op \in AluOps \cup {"DAC", "SAD"} => Map1(ins) \in EaAt
  BY DEF Map1, Mode, AluOps, EaAt
<1>2. ins.op = "JMP" => Map1(ins) \in JmpAt
  BY DEF Map1, Mode, AluOps, JmpAt
<1>3. ins.op = "CAL" => Map1(ins) \in CalAt
  BY DEF Map1, Mode, AluOps, CalAt
<1>4. ins.op \in {"ISZ", "DSZ"} => Map1(ins) \in JaAt
  BY DEF Map1, Mode, AluOps, JaAt
<1>5. /\ ins.op = "OPR1" => Map1(ins) = "FETCH_G"
      /\ ins.op = "OPR2" => Map1(ins) = "FETCH_S"
      /\ ins.op \in {"PSH", "POP"} => Map1(ins) = "G3"
      /\ ins.op \in {"IMRD", "IMWR", "IMSET", "IMCLR", "SKI", "SKNI", "WAIT", "ACK"}
           => Map1(ins) = "IOT"
  BY DEF Map1, AluOps
<1>6. Map1(ins) = "G3" => ins.op \in {"PSH", "POP"}
  BY <1>1, <1>2, <1>3, <1>4, <1>5, InstrOps DEF EaAt, JmpAt, CalAt, JaAt
<1> QED BY <1>1, <1>2, <1>3, <1>4, <1>5, <1>6

(* A nonempty set of numbers has a least one, and a small one a greatest.  *)
LEMMA MinOf ==
  ASSUME NEW S \in SUBSET Nat, S # {}
  PROVE  Min(S) \in S /\ \A x \in S : Min(S) <= x
<1>1. PICK x \in S : \A y \in S : ~(<<y, x>> \in OpToRel(<, Nat))
  BY NatLessThanWellFounded, WFMin
<1>2. \A y \in S : x <= y
  <2> SUFFICES ASSUME NEW y \in S, ~(x <= y) PROVE FALSE
    OBVIOUS
  <2>1. x \in Nat /\ y \in Nat /\ y < x
    OBVIOUS
  <2>2. <<y, x>> \in OpToRel(<, Nat)
    BY <2>1 DEF OpToRel
  <2> QED BY <1>1, <2>2
<1> QED BY <1>2 DEF Min

(* The greatest bit of a mask that is not empty is in it.                  *)
LEMMA MaxOf ==
  ASSUME NEW S \in SUBSET (0 .. 3), S # {}
  PROVE  Max(S) \in S /\ \A x \in S : Max(S) >= x
<1>1. \A y \in S : y \in {0, 1, 2, 3}
  OBVIOUS
<1>2. \E x \in S : \A y \in S : x >= y
  <2>1. CASE 3 \in S
    BY <1>1, <2>1
  <2>2. CASE 3 \notin S /\ 2 \in S
    BY <1>1, <2>2
  <2>3. CASE 3 \notin S /\ 2 \notin S /\ 1 \in S
    BY <1>1, <2>3
  <2>4. CASE 3 \notin S /\ 2 \notin S /\ 1 \notin S
    <3>1. S = {0}
      BY <1>1, <2>4
    <3> QED BY <3>1
  <2> QED BY <2>1, <2>2, <2>3, <2>4
<1> QED BY <1>2 DEF Max

(* The priority encoder picks a bit of the mask, or the mask is empty and  *)
(* the next word is a fetch.                                               *)
LEMMA MaskEntries ==
  ASSUME NEW op, NEW mask \in SUBSET (0 .. 3)
  PROVE  /\ mask = {} => MaskEntry(op, mask) = "FETCH_I"
         /\ mask # {} => /\ MaskBit(op, mask) \in mask
                         /\ MaskEntry(op, mask) =
                              (IF op = "PSH" THEN <<"PSH_SP", "PSH_LPC", "PSH_IX", "PSH_AC">>
                               ELSE <<"POP_SP", "POP_LPC", "POP_IX", "POP_AC">>)
                                [1 + MaskBit(op, mask)]
         /\ MaskEntry(op, mask) \in StackAt \cup {"FETCH_I"}
<1>1. mask # {} => MaskBit(op, mask) \in mask
  BY MinOf, MaxOf DEF MaskBit
<1>2. /\ mask = {} => MaskEntry(op, mask) = "FETCH_I"
      /\ mask # {} => MaskEntry(op, mask) =
                              (IF op = "PSH" THEN <<"PSH_SP", "PSH_LPC", "PSH_IX", "PSH_AC">>
                               ELSE <<"POP_SP", "POP_LPC", "POP_IX", "POP_AC">>)
                                [1 + MaskBit(op, mask)]
  BY DEF MaskEntry
<1>3. ASSUME NEW b \in {0, 1, 2, 3}
      PROVE  /\ <<"PSH_SP", "PSH_LPC", "PSH_IX", "PSH_AC">>[1 + b] \in StackAt
             /\ <<"POP_SP", "POP_LPC", "POP_IX", "POP_AC">>[1 + b] \in StackAt
  BY DEF StackAt
<1>4. mask # {} => MaskBit(op, mask) \in {0, 1, 2, 3}
  <2>1. \A b \in 0 .. 3 : b \in {0, 1, 2, 3}
    OBVIOUS
  <2> QED BY <1>1, <2>1
<1> QED BY <1>1, <1>2, <1>3, <1>4

(* The mask walk goes on, and the set of bits it still has to visit.       *)
Left == CASE ~NewIr -> msk
          [] NewIr /\ ir'.op \in {"PSH", "POP"} -> ir'.mask
          [] OTHER -> {}
Walks == /\ ~IrqNow
         /\ \/ Word0.seq = "MAPMASK"
            \/ Word0.seq = "MAP" /\ Map1(ir') = "G3"

(* What is left of a mask is a part of it.                                 *)
LEMMA LeftTyped == TypeInv /\ ir' \in Instr => Left \in SUBSET (0 .. 3)
BY InstrOps DEF TypeInv, MicroTypeOK, Left

(* The sequencer, in those terms.                                          *)
LEMMA SequencerIs ==
  ASSUME Sequencer
  PROVE  /\ irqDev' = IF IrqNow THEN Min({n \in Devices : req[n]}) ELSE irqDev
         /\ msk' = IF Walks /\ Left # {} THEN Left \ {MaskBit(ir'.op, Left)} ELSE Left
         /\ upc' =
              CASE IrqNow -> Goto("IRQ")
                [] Walks  -> Goto(MaskEntry(ir'.op, Left))
                [] Word0.seq = "NEXT" -> [upc EXCEPT !.n = @ + 1]
                [] Word0.seq = "JUMP" -> Goto(Word0.na)
                [] Word0.seq = "MAP2" -> Goto(Map2(ir))
                [] Word0.seq = "SKIPC" \/ (Skipping /\ ~IrqNow) -> Goto("FETCH")
                [] Word0.seq = "BRANCH" ->
                     IF Cond(Word0.cc) THEN Goto(Word0.na) ELSE [upc EXCEPT !.n = @ + 1]
                [] OTHER -> Goto(Map1(ir'))
BY DEF Sequencer, Left, Walks

(* The device an interrupt is for is one that asks.                        *)
LEMMA IrqTyped ==
  ASSUME TypeInv, Sequencer
  PROVE  irqDev' \in Devices \cup {0} /\ (IrqNow => irqDev' \in Devices /\ req[irqDev'])
<1> DEFINE asking == {n \in Devices : req[n]}
<1>1. CASE IrqNow
  <2>1. asking # {} /\ asking \in SUBSET Nat
    BY <1>1, DeviceAssumption DEF IrqNow
  <2>2. Min(asking) \in asking
    BY <2>1, MinOf
  <2>3. irqDev' = Min(asking)
    BY <1>1, SequencerIs
  <2> QED BY <2>2, <2>3
<1>2. CASE ~IrqNow
  BY <1>2, SequencerIs DEF TypeInv, MicroTypeOK
<1> QED BY <1>1, <1>2

(* The mask register holds a mask.                                         *)
LEMMA MaskTyped ==
  ASSUME TypeInv, Sequencer, ir' \in Instr
  PROVE  msk' \in SUBSET (0 .. 3)
BY LeftTyped, SequencerIs

(* A word that is not a fetch leaves the instruction where it is.          *)
LEMMA SameInstr ==
  ASSUME TypeInv, Load, ~Fetching
  PROVE  ir' = ir /\ pgl' = pgl /\ ~NewIr /\ ~IrqNow /\ ~Skipping
BY DEF Load, NewIr, IrqNow, IrqChecks, Skipping, Fetching, Fetches

(* A word that loads AR from PC, or PC from AR's mux, or skips, leaves     *)
(* them the same.                                                          *)
LEMMA FoldedAr ==
  ASSUME Addresses,
         Word0.arsrc \in {"PC", "PCNEXT"} \/ Word0.rdst = "PC" \/ TakesSkip(Word0)
  PROVE  ar' = pc'
<1>1. CASE TakesSkip(Word0)
  BY <1>1 DEF Addresses
<1>2. CASE ~TakesSkip(Word0) /\ Word0.arsrc \in {"PC", "PCNEXT"}
  BY <1>2 DEF Addresses
<1>3. CASE ~TakesSkip(Word0) /\ Word0.rdst = "PC"
  <2>1. Dst = "PC"
    BY <1>3 DEF Dst
  <2> QED BY <1>3, <2>1 DEF Addresses
<1> QED BY <1>1, <1>2, <1>3

(* A jump to a label lands on a word.                                      *)
LEMMA GotoFits ==
  ASSUME NEW at \in Firsts, upc' = Goto(at)
  PROVE  /\ upc'.at = at /\ upc'.n = 1
         /\ upc' \in [at : DOMAIN Microprogram, n : Nat \ {0}]
         /\ upc'.n <= Len(Microprogram[upc'.at])
BY Places DEF Goto

(* Where the sequencer goes suits the instruction, and AR is PC wherever a *)
(* fetch comes next.                                                       *)
LEMMA SequencerFits ==
  ASSUME TypeInv, Sequencer, Load, Addresses, ir' \in Instr
  PROVE  /\ upc' \in [at : DOMAIN Microprogram, n : Nat \ {0}]
         /\ upc'.n <= Len(Microprogram[upc'.at])
         /\ OpFits' /\ ArFits'
<1>1. Sane(upc.at, upc.n) /\ Word0 = Microprogram[upc.at][upc.n] /\ MicroTypeOK
  BY SaneWord DEF TypeInv
<1>2. upc.at \in Firsts /\ upc.n \in Nat \ {0} /\ upc \in [at : DOMAIN Microprogram, n : Nat \ {0}]
      /\ Len(Microprogram[upc.at]) \in Nat
  BY <1>1, Places DEF MicroTypeOK
<1>3. Fetching <=> Word0.seq \in {"MAP", "SKIPF"}
  BY <1>1 DEF Sane, Fetching
<1>4. CASE IrqNow
  <2>1. upc' = Goto("IRQ")
    BY <1>1, <1>3, <1>4, SequencerIs, SMTT(30) DEF Sane, IrqNow, IrqChecks, Fetching, Walks
  <2> QED BY <2>1, GotoFits, SMTT(30) DEF Firsts, OpFits, ArFits, Fetches, EaAt, JaAt, JmpAt, CalAt
<1>5. CASE Walks
  <2>1. upc' = Goto(MaskEntry(ir'.op, Left)) /\ ~IrqNow
    BY <1>1, <1>5, SequencerIs DEF Sane, Walks, Skipping
  <2>2. MaskEntry(ir'.op, Left) \in StackAt \cup {"FETCH_I"}
    BY LeftTyped, MaskEntries
  <2>3. Word0.arsrc \in {"PC", "PCNEXT"} \/ Word0.rdst = "PC" \/ upc.at = "G3"
    BY <1>1, <1>5 DEF Sane, Walks, Fetching
  <2>4. CASE upc.at # "G3"
    BY <2>1, <2>2, <2>3, <2>4, FoldedAr, GotoFits
       DEF Firsts, StackAt, OpFits, ArFits, Fetches, EaAt, JaAt, JmpAt, CalAt
  <2>5. CASE upc.at = "G3"
    <3>1. ar = pc
      BY <2>5 DEF TypeInv, ArFits
    <3>2. upc.n = 1 /\ Word0 = [Idle EXCEPT !.seq = "MAPMASK"]
      <4>1. Len(Microprogram[upc.at]) = 1 /\ Microprogram[upc.at][1] = [Idle EXCEPT !.seq = "MAPMASK"]
        BY <2>5, G3Word
      <4>2. upc.n <= Len(Microprogram[upc.at])
        BY <1>1 DEF MicroTypeOK
      <4> QED BY <1>1, <1>2, <4>1, <4>2
    <3>3. Word0.arsrc = "HOLD" /\ Word0.rdst = "NONE" /\ Word0.mem = "IDLE" /\ Word0.seq = "MAPMASK"
      BY <3>2 DEF Idle
    <3>4. ar' = ar /\ pc' = pc
      BY <3>3 DEF Addresses, IoSkip, DoesIo, Dst, TakesSkip
    <3> QED BY <2>1, <2>2, <3>1, <3>4, GotoFits
            DEF Firsts, StackAt, OpFits, ArFits, Fetches, EaAt, JaAt, JmpAt, CalAt
  <2> QED BY <2>4, <2>5, SMTT(30)
<1>6. CASE ~Fetching /\ ~Walks
  <2>1. ir' = ir /\ ~IrqNow /\ ~Skipping
    BY <1>6, SameInstr, SMTT(30)
  <2>2. Word0.seq \in {"NEXT", "JUMP", "MAP2", "SKIPC", "BRANCH"}
    BY <1>1, <1>3, <1>6, <2>1 DEF Sane, Walks
  <2>3. ASSUME upc' = [upc EXCEPT !.n = @ + 1], Word0.seq \in {"NEXT", "BRANCH"}
        PROVE  /\ upc' \in [at : DOMAIN Microprogram, n : Nat \ {0}]
               /\ upc'.n <= Len(Microprogram[upc'.at])
               /\ OpFits' /\ ArFits'
    <3>1. upc.n < Len(Microprogram[upc.at])
      BY <1>1, <2>3 DEF Sane
    <3>2. upc'.at = upc.at /\ upc'.n = upc.n + 1
      BY <1>2, <2>3
    <3>3. upc.at \notin Fetches \cup {"G3"}
      <4>1. ASSUME upc.at = "G3" PROVE FALSE
        <5>1. Len(Microprogram[upc.at]) = 1
          BY <4>1, G3Word
        <5> QED BY <1>2, <3>1, <5>1
      <4> QED BY <1>6, <4>1 DEF Fetching
    <3>4. upc' \in [at : DOMAIN Microprogram, n : Nat \ {0}] /\ upc'.n <= Len(Microprogram[upc'.at])
      BY <1>2, <2>3, <3>1, <3>2
    <3>5. OpFits' /\ ArFits'
      BY <2>1, <3>2, <3>3 DEF TypeInv, OpFits, ArFits
    <3> QED BY <3>4, <3>5, SMTT(30)
  <2>4. CASE Word0.seq = "NEXT"
    BY <1>6, <2>1, <2>3, <2>4, SequencerIs
  <2>5. CASE Word0.seq = "BRANCH"
    <3>1. CASE Cond(Word0.cc)
      <4>1. upc' = Goto("SKIP")
        BY <1>1, <1>6, <2>1, <2>5, <3>1, SequencerIs DEF Sane
      <4> QED BY <4>1, GotoFits, SMTT(30) DEF Firsts, OpFits, ArFits, Fetches, EaAt, JaAt, JmpAt, CalAt
    <3>2. CASE ~Cond(Word0.cc)
      BY <1>6, <2>1, <2>3, <2>5, <3>2, SequencerIs
    <3> QED BY <3>1, <3>2
  <2>6. CASE Word0.seq = "JUMP"
    <3>1. upc' = Goto(Word0.na)
      BY <1>6, <2>1, <2>6, SequencerIs
    <3>2. \/ Word0.na = "FETCH"
          \/ Word0.na = "FETCH_A" /\ upc.at = "OP_RD"
          \/ Word0.na \in JmpAt /\ upc.at \in CalAt
      BY <1>1, <2>6 DEF Sane
    <3>3. Word0.na \in Fetches => ar' = pc'
      BY <1>1, <2>6, FoldedAr DEF Sane, CalAt
    <3> QED BY <2>1, <3>1, <3>2, <3>3, GotoFits
            DEF Firsts, TypeInv, OpFits, ArFits, Fetches, EaAt, JaAt, JmpAt, CalAt
  <2>7. CASE Word0.seq = "MAP2"
    <3>1. upc' = Goto(Map2(ir)) /\ upc.at \in EaAt \cup JaAt
      BY <1>1, <1>6, <2>1, <2>7, SequencerIs DEF Sane
    <3>2. ir.op \in AluOps \cup {"DAC", "SAD", "ISZ", "DSZ"}
      BY <3>1 DEF TypeInv, OpFits
    <3>3. \/ Map2(ir) \in {"OP_DAC", "OP_SAD"}
          \/ Map2(ir) = "OP_ISZ" /\ ir.op \in {"ISZ", "DSZ"}
          \/ Map2(ir) = "OP_RD" /\ ir.op \in AluOps
      BY <3>2 DEF Map2
    <3> QED BY <2>1, <3>1, <3>3, GotoFits
            DEF Firsts, OpFits, ArFits, Fetches, EaAt, JaAt, JmpAt, CalAt
  <2>8. CASE Word0.seq = "SKIPC"
    <3>1. upc' = Goto("FETCH")
      BY <1>6, <2>1, <2>8, SequencerIs
    <3>2. ar' = pc'
      BY <1>1, <2>8, FoldedAr DEF Sane
    <3> QED BY <3>1, <3>2, GotoFits DEF Firsts, OpFits, ArFits, Fetches, EaAt, JaAt, JmpAt, CalAt
  <2> QED BY <2>2, <2>4, <2>5, <2>6, <2>7, <2>8
<1>7. CASE Fetching /\ ~IrqNow /\ ~Walks
  <2>1. Word0.arsrc = "PCNEXT" /\ Word0.seq \in {"MAP", "SKIPF"}
    BY <1>1, <1>3, <1>7 DEF Sane, Fetching
  <2>2. ar' = pc'
    BY <2>1, FoldedAr
  <2>3. CASE Skipping
    <3>1. upc' = Goto("FETCH")
      BY <1>7, <2>1, <2>3, SequencerIs
    <3> QED BY <2>2, <3>1, GotoFits DEF Firsts, OpFits, ArFits, Fetches, EaAt, JaAt, JmpAt, CalAt
  <2>4. CASE ~Skipping
    <3>1. upc' = Goto(Map1(ir'))
      BY <1>7, <2>1, <2>4, SequencerIs
    <3>2. /\ Map1(ir') \in EaAt => ir'.op \in AluOps \cup {"DAC", "SAD"}
          /\ Map1(ir') \in JaAt => ir'.op \in {"ISZ", "DSZ"}
          /\ Map1(ir') \in JmpAt \cup CalAt => ir'.op \in {"JMP", "CAL"}
          /\ Map1(ir') = "FETCH_G" => ir'.op = "OPR1"
          /\ Map1(ir') \in EaAt \cup JaAt \cup JmpAt \cup CalAt \cup {"FETCH_G", "FETCH_S", "G3", "IOT"}
      BY InstrOps, ModeLabels DEF EaAt, JaAt, JmpAt, CalAt
    <3> QED BY <2>2, <3>1, <3>2, GotoFits
            DEF Firsts, OpFits, ArFits, Fetches, EaAt, JaAt, JmpAt, CalAt
  <2> QED BY <2>3, <2>4, SMTT(30)
<1> QED BY <1>4, <1>5, <1>6, <1>7

-----------------------------------------------------------------------------
(* The cycle.                                                              *)

(* Requests and WAIT stay bits.                                            *)
LEMMA IoTyped ==
  ASSUME TypeInv, IoCycle
  PROVE  req' \in [Devices -> BOOLEAN] /\ waiting' \in BOOLEAN
BY DEF TypeInv, MicroTypeOK, IoCycle

(* The architectural state has the registers' types.                       *)
LEMMA ObserveTyped ==
  ASSUME TypeInv, Observe,
         ac' \in Word, ix' \in Word, l' \in Link, sp' \in SpVals, i' \in BOOLEAN,
         m' \in [Addr -> Word], pc' \in Addr
  PROVE  arch' \in [ac : Word, ix : Word, l : Link, sp : SpVals, i : BOOLEAN,
                    m : [Addr -> Word], pc : Addr]
<1>1. Plus(pc', AddrMod - 1) \in Addr
  BY Ranges
<1>2. CASE Settled
  BY <1>1, <1>2 DEF Observe
<1>3. CASE ~Settled
  BY <1>3 DEF Observe, TypeInv, MicroTypeOK
<1> QED BY <1>2, <1>3

(* A cycle keeps widths, opcode and AR.                                    *)
LEMMA CycleTyped ==
  ASSUME TypeInv, Cycle
  PROVE  TypeInv'
<1>1. /\ Memory /\ IoCycle /\ DataOut /\ Registers /\ Flags /\ Addresses /\ Load
      /\ Sequencer /\ Observe /\ prog' = prog
  BY DEF Cycle
<1>2. di' \in Word /\ m' \in [Addr -> Word] /\ do' \in Word
  BY <1>1, MemoryTyped
<1>3. /\ ac' \in Word /\ ix' \in Word /\ sp' \in SpVals /\ halted' \in BOOLEAN
      /\ l' \in Link /\ i' \in BOOLEAN
  BY <1>1, <1>2, RegistersTyped
<1>4. ar' \in Addr /\ pc' \in Addr
  BY <1>1, <1>2, <1>3, AddressesTyped
<1>5. ir' \in Instr /\ pgl' \in Nat /\ pgl' * PageSize + PageSize <= AddrMod
  BY <1>1, <1>4, LoadTyped
<1>6. irqDev' \in Devices \cup {0} /\ msk' \subseteq 0 .. 3
  BY <1>1, <1>5, IrqTyped, MaskTyped
<1>7. /\ upc' \in [at : DOMAIN Microprogram, n : Nat \ {0}]
      /\ upc'.n <= Len(Microprogram[upc'.at])
      /\ OpFits' /\ ArFits'
  BY <1>1, <1>5, SequencerFits
<1>8. req' \in [Devices -> BOOLEAN] /\ waiting' \in BOOLEAN
  BY <1>1, IoTyped
<1>9. arch' \in [ac : Word, ix : Word, l : Link, sp : SpVals, i : BOOLEAN,
                 m : [Addr -> Word], pc : Addr]
  BY <1>1, <1>2, <1>3, <1>4, ObserveTyped
<1>10. prog' \in [Addr -> Instr]
  BY <1>1 DEF TypeInv
<1>11. MicroTypeOK'
  BY <1>2, <1>3, <1>4, <1>5, <1>6, <1>7, <1>8, <1>9 DEF MicroTypeOK
<1> QED BY <1>7, <1>10, <1>11 DEF TypeInv

(* Reset has them.                                                         *)
LEMMA MicroInitTyped == MicroInit => TypeInv
<1> SUFFICES ASSUME MicroInit PROVE TypeInv
  OBVIOUS
<1>1. 0 \in Word /\ 0 \in Addr /\ 0 \in SpVals /\ 0 \in Link
  BY Ranges, Sizes DEF SpVals, Link
<1>2. DataInit \in [Addr -> Word] /\ prog \in [Addr -> Instr] /\ m = DataInit
  BY StoreAssumption DEF MicroInit
<1>3. pc \in Addr /\ ar = pc
  <2>1. DataInit[0] \in Nat
    BY <1>1, <1>2, Ranges
  <2> QED BY <2>1, Ranges DEF MicroInit
<1>4. ir \in Instr
  <2>1. 0 \in ZPage
    BY SizeAssumption DEF ZPage
  <2> QED BY <2>1 DEF MicroInit, Instr, AluOps
<1>5. /\ upc.at = "FETCH" /\ upc \in [at : DOMAIN Microprogram, n : Nat \ {0}]
      /\ upc.n <= Len(Microprogram[upc.at])
  BY Places DEF MicroInit, Goto, Firsts, Fetches
<1>6. arch \in [ac : Word, ix : Word, l : Link, sp : SpVals, i : BOOLEAN,
                m : [Addr -> Word], pc : Addr]
  BY <1>1, <1>2, <1>3 DEF MicroInit
<1>7. pgl = 0 /\ 0 * PageSize + PageSize <= AddrMod
  BY SizeAssumption DEF MicroInit
<1>8. MicroTypeOK
  <2>1. /\ ac \in Word /\ ix \in Word /\ l \in Link /\ i \in BOOLEAN
        /\ di \in Word /\ do \in Word /\ sp \in SpVals
    BY <1>1 DEF MicroInit
  <2>2. /\ req \in [Devices -> BOOLEAN] /\ waiting \in BOOLEAN /\ halted \in BOOLEAN
        /\ msk \subseteq 0 .. 3 /\ irqDev \in Devices \cup {0}
    BY DEF MicroInit
  <2>3. pgl \in Nat /\ pgl * PageSize + PageSize <= AddrMod
    BY <1>7
  <2> QED BY <1>2, <1>3, <1>4, <1>5, <1>6, <2>1, <2>2, <2>3 DEF MicroTypeOK
<1>9. OpFits /\ ArFits
  BY <1>3, <1>5 DEF OpFits, ArFits, EaAt, JaAt, JmpAt, CalAt
<1> QED BY <1>2, <1>8, <1>9 DEF TypeInv

(* So does every step.                                                     *)
LEMMA MicroNextTyped == TypeInv /\ [MicroNext]_microVars => TypeInv'
<1> SUFFICES ASSUME TypeInv, [MicroNext]_microVars PROVE TypeInv'
  OBVIOUS
<1>1. CASE Cycle
  BY <1>1, CycleTyped
<1>2. ASSUME UNCHANGED <<regs, prog>>, req' \in [Devices -> BOOLEAN], waiting' \in BOOLEAN,
             halted' \in BOOLEAN
      PROVE  TypeInv'
  <2>1. MicroTypeOK'
    BY <1>2 DEF TypeInv, MicroTypeOK, regs
  <2>2. OpFits' /\ ArFits' /\ prog' \in [Addr -> Instr]
    BY <1>2 DEF TypeInv, OpFits, ArFits, regs
  <2> QED BY <2>1, <2>2 DEF TypeInv
<1>3. CASE WaitCycle
  BY <1>2, <1>3 DEF WaitCycle, TypeInv, MicroTypeOK
<1>4. CASE \E n \in Devices : Raise(n)
  BY <1>2, <1>4 DEF Raise, TypeInv, MicroTypeOK
<1>5. CASE UNCHANGED microVars
  BY <1>2, <1>5 DEF microVars, TypeInv, MicroTypeOK
<1> QED BY <1>1, <1>3, <1>4, <1>5 DEF MicroNext

(* Registers, memory and the two instruction registers keep their widths   *)
(* through every word of the control store, and the sequencer never leaves *)
(* it (ucode.py cycle, the masks it applies and next_upc).                 *)
THEOREM MicroTyped == MicroSpec => []MicroTypeOK
<1>1. TypeInv => MicroTypeOK
  BY DEF TypeInv
<1> QED BY <1>1, MicroInitTyped, MicroNextTyped, PTL DEF MicroSpec

(* Whichever word the sequencer came from, AR is PC at a fetch (ucode.py   *)
(* FETCH, the AR each preceding word loads).                               *)
THEOREM FetchFindsPc == MicroSpec => []ArHoldsPc
<1>1. TypeInv => ArHoldsPc
  BY DEF TypeInv, ArFits, ArHoldsPc, Fetching
<1> QED BY <1>1, MicroInitTyped, MicroNextTyped, PTL DEF MicroSpec

-----------------------------------------------------------------------------
(***************************************************************************)
(* The control store implements the instruction set.  Stage says what the  *)
(* registers hold at every word of the store with respect to arch, the     *)
(* state before the instruction: it is the inductive invariant.  One lemma *)
(* for each label says its words take Stage to Stage; then each fetch is   *)
(* shown to end an instruction, to end the entry of an interrupt, to       *)
(* change nothing, or to be one of the departures.  A lost skip and a mask *)
(* operation passed over leave Stage as it is; an entry behind a bare DI   *)
(* leaves it until its end, and Late is what holds meanwhile.  Clean rules *)
(* the three out.                                                          *)
(***************************************************************************)

(* The two vocabularies.                                                   *)

(* Isa and Micro speak of the same words.                                  *)
LEMMA SameWords ==
  /\ \A a, n : ISA!Plus(a, n) = Plus(a, n)
  /\ \A s : ISA!SpDec(s) = SpDec(s) /\ ISA!SpInc(s) = SpInc(s) /\ ISA!StackAddr(s) = StackAddr(s)
  /\ \A w : ISA!Sign(w) = Sign(w)
  /\ \A op, a, v : ISA!AluWord(op, a, v) = AluWord(op, a, v)
  /\ \A op, a, v, k : ISA!AluLink(op, a, v, k) = AluLink(op, a, v, k)
  /\ \A mic, a, k : ISA!Group1(mic, a, k) = Group1(mic, a, k)
  /\ ISA!WordMod = WordMod
<1>1. ISA!WordMod = WordMod /\ \A w : ISA!Sign(w) = Sign(w)
  BY DEF WordMod, ISA!WordMod, ISA!Sign, Sign
<1>2. \A op, a, v : ISA!AluWord(op, a, v) = AluWord(op, a, v)
  BY <1>1 DEF ISA!AluWord, AluWord
<1>3. \A op, a, v, k : ISA!AluLink(op, a, v, k) = AluLink(op, a, v, k)
  BY <1>1, SMTT(30) DEF ISA!AluLink, AluLink
<1>4. \A mic, a, k : ISA!Group1(mic, a, k) = Group1(mic, a, k)
  BY <1>1 DEF ISA!Group1, Group1
<1>5. \A a, n : ISA!Plus(a, n) = Plus(a, n)
  BY DEF ISA!Plus, Plus
<1>6. \A s : ISA!SpDec(s) = SpDec(s) /\ ISA!SpInc(s) = SpInc(s) /\ ISA!StackAddr(s) = StackAddr(s)
  BY DEF ISA!SpDec, SpDec, ISA!SpInc, SpInc, ISA!StackAddr, StackAddr
<1> QED BY <1>1, <1>2, <1>3, <1>4, <1>5, <1>6

-----------------------------------------------------------------------------
(* Where an instruction is, word by word.                                  *)

\* The instruction in IR is the one arch is about to execute.
Current == ir = prog[arch.pc] /\ pgl = arch.pc \div PageSize
Kept    == ac = arch.ac /\ ix = arch.ix /\ l = arch.l
Still   == sp = arch.sp /\ m = arch.m
Next1   == pc = ISA!After(FALSE)
Rested  == Kept /\ Still /\ i = arch.i /\ pc = arch.pc
Started == Current /\ Kept /\ Still /\ i = arch.i /\ Next1

\* Where SP and memory are once v is pushed.
After1(st) == sp = st.sp /\ m = st.m
Return(ret) == ISA!PushWord(ISA!Stack(arch.sp, arch.m), ISA!LinkWord(ret))
\* Halfway: SP has stepped, the word is in DO and its slot in AR.
Pushing(st, v) == sp = SpDec(st.sp) /\ m = st.m /\ ar = StackAddr(sp) /\ do = v

\* The two bits of the mode, in the label.
Mode2 ==
  /\ ir.ind = (upc.at \in {"EA_IN1", "EA_IX1", "JA_IN1", "JA_IX1", "JMP_IN1", "JMP_IX1"})
  /\ ir.idx = (upc.at \in {"EA_IDX", "EA_IX1", "JA_IDX", "JA_IX1", "JMP_IDX", "JMP_IX1"})
  /\ upc.n = 2 => ar = ir.addr
  /\ upc.n = 3 => di = arch.m[ir.addr]

Stepped == (arch.m[ISA!Ea(ir)] + (IF ir.op = "ISZ" THEN 1 ELSE WordMod - 1)) % WordMod
Counted == /\ Current /\ Kept /\ i = arch.i /\ Next1 /\ sp = arch.sp
           /\ m = [arch.m EXCEPT ![ISA!Ea(ir)] = Stepped]

\* An instruction is over and not yet seen to be.
Ran ==
  /\ ir = prog[arch.pc] /\ Kept /\ i = arch.i
  /\ \/ /\ ir.op = "DAC" /\ sp = arch.sp
        /\ m = [arch.m EXCEPT ![ISA!Ea(ir)] = ISA!Reg(ir.r)] /\ Next1
     \/ /\ ir.op = "SAD" /\ Still
        /\ pc = ISA!After(arch.m[ISA!Ea(ir)] # ISA!Reg(ir.r))
     \/ ir.op = "JMP" /\ Still /\ pc = ISA!Target(ir)
     \/ ir.op = "CAL" /\ After1(Return(ISA!After(FALSE))) /\ pc = ISA!Target(ir)
     \/ /\ ir.op \in {"ISZ", "DSZ"} /\ sp = arch.sp
        /\ m = [arch.m EXCEPT ![ISA!Ea(ir)] = Stepped] /\ pc = ISA!After(Stepped = 0)
     \/ ir.op = "OPR2" /\ Still /\ ISA!Condition(ir) /\ pc = ISA!After(TRUE)

\* A request noticed; its entry over and not yet seen to be.
Noticed == irqDev \in Devices /\ req[irqDev] /\ Kept
Entered == Noticed /\ ~i /\ After1(Return(arch.pc)) /\ pc = m[irqDev] % AddrMod
Took == Entered /\ arch.i

\* The stack while a mask is walked: before the push of bit b.
Pushed1 == ISA!PushIf(0 \in ir.mask, ISA!Stack(arch.sp, arch.m), arch.sp)
Pushed2 == ISA!PushIf(1 \in ir.mask, Pushed1, ISA!LinkWord(ISA!After(FALSE)))
Pushed3 == ISA!PushIf(2 \in ir.mask, Pushed2, arch.ix)
Pushed4 == ISA!PushIf(3 \in ir.mask, Pushed3, arch.ac)
Pushed(b) == CASE b = 0 -> ISA!Stack(arch.sp, arch.m) [] b = 1 -> Pushed1 [] b = 2 -> Pushed2
               [] b = 3 -> Pushed3 [] b = 4 -> Pushed4
PushedWord(b) == CASE b = 0 -> arch.sp [] b = 1 -> ISA!LinkWord(ISA!After(FALSE))
                   [] b = 2 -> arch.ix [] b = 3 -> arch.ac

IAllowed == i \in {arch.i, ISA!IField(ir.ifield)}
IDone == i = ISA!IField(ir.ifield)
PushStage(b) ==
  /\ Current /\ Kept /\ Next1 /\ IAllowed /\ ir.op = "PSH"
  /\ b \in ir.mask /\ msk = {k \in ir.mask : k > b}
  /\ upc.n = 1 => After1(Pushed(b))
  /\ upc.n = 2 => Pushing(Pushed(b), PushedWord(b))

\* SP before the pop of bit b; what is popped before it.
PopSp2 == IF 3 \in ir.mask THEN SpInc(arch.sp) ELSE arch.sp
PopSp1 == IF 2 \in ir.mask THEN SpInc(PopSp2) ELSE PopSp2
PopSp0 == IF 1 \in ir.mask THEN SpInc(PopSp1) ELSE PopSp1
PopSp(b) == CASE b = 3 -> arch.sp [] b = 2 -> PopSp2 [] b = 1 -> PopSp1 [] b = 0 -> PopSp0
Popped(b) ==
  /\ m = arch.m
  /\ ac = IF 3 \in ir.mask /\ b < 3 THEN m[StackAddr(arch.sp)] ELSE arch.ac
  /\ ix = IF 2 \in ir.mask /\ b < 2 THEN m[StackAddr(PopSp2)] ELSE arch.ix
  /\ l  = IF 1 \in ir.mask /\ b < 1 THEN ISA!LinkOf(m[StackAddr(PopSp1)]) ELSE arch.l
  /\ pc = IF 1 \in ir.mask /\ b < 1 THEN m[StackAddr(PopSp1)] % AddrMod ELSE ISA!After(FALSE)
PopStage(b) ==
  /\ Current /\ IAllowed /\ ir.op = "POP" /\ Popped(b)
  /\ b \in ir.mask /\ msk = {k \in ir.mask : k < b}
  /\ upc.n < 3 => sp = PopSp(b)
  /\ upc.n = 2 => ar = StackAddr(sp)
  /\ upc.n = 3 => di = m[StackAddr(PopSp(b))] /\ sp = IF b = 0 THEN PopSp0 ELSE PopSp(b - 1)

AtFetch  == Rested \/ Ran \/ Took
AtFetchA == Started /\ ir.op \in AluOps /\ di = arch.m[ISA!Ea(ir)]
AtFetchI ==
  /\ Current /\ IAllowed /\ (ir.mask # {} => IDone)
  /\ \/ ir.op = "PSH" /\ Kept /\ Next1 /\ After1(Pushed(4))
     \/ ir.op = "POP" /\ Popped(-1)
        /\ sp = IF 0 \in ir.mask THEN m[StackAddr(PopSp0)] % PageSize ELSE PopSp0
AtEa  == Started /\ ir.op \in AluOps \cup {"DAC", "SAD"} /\ Mode2
AtJa  == Started /\ ir.op \in {"ISZ", "DSZ"} /\ Mode2
AtJmp ==
  /\ Current /\ Kept /\ i = arch.i /\ Next1 /\ Mode2
  /\ \/ ir.op = "JMP" /\ Still
     \/ ir.op = "CAL" /\ After1(Return(ISA!After(FALSE)))
AtCal ==
  /\ Current /\ Kept /\ i = arch.i /\ Next1 /\ ir.op = "CAL"
  /\ ir.ind = (upc.at \in {"CAL_IN", "CAL_XI"}) /\ ir.idx = (upc.at \in {"CAL_IX", "CAL_XI"})
  /\ upc.n = 1 => Still
  /\ upc.n = 2 => Pushing(ISA!Stack(arch.sp, arch.m), ISA!LinkWord(ISA!After(FALSE)))
AtRead    == Started /\ ir.op \in AluOps /\ ar = ISA!Ea(ir)
AtDeposit == Started /\ ir.op = "DAC" /\ ar = ISA!Ea(ir) /\ do = ISA!Reg(ir.r)
AtCompare ==
  /\ Started /\ ir.op = "SAD"
  /\ upc.n = 1 => ar = ISA!Ea(ir)
  /\ upc.n = 2 => di = arch.m[ISA!Ea(ir)]
AtCount ==
  /\ ir.op \in {"ISZ", "DSZ"}
  /\ upc.n < 4 => Started /\ ar = ISA!Ea(ir)
  /\ upc.n = 2 => di = arch.m[ISA!Ea(ir)]
  /\ upc.n = 3 => do = Stepped
  /\ upc.n = 4 => Counted /\ Stepped # 0
AtSkip == ir.op \in {"ISZ", "DSZ"} /\ Counted /\ Stepped = 0
AtG3   == Started /\ ir.op \in {"PSH", "POP"} /\ msk = ir.mask
AtIot  == Started /\ ir.op \in {"IMRD", "IMWR", "IMSET", "IMCLR", "SKI", "SKNI", "WAIT", "ACK"}
Entry  ==
  /\ Noticed
  /\ upc.n = 1 => Rested
  /\ upc.n > 1 => ~i /\ pc = arch.pc
  /\ upc.n = 2 => Pushing(ISA!Stack(arch.sp, arch.m), ISA!LinkWord(arch.pc))
  /\ upc.n > 2 => After1(Return(arch.pc))
  /\ upc.n = 4 => ar = irqDev
  /\ upc.n = 5 => di = m[irqDev]
AtIrq  == Entry /\ arch.i

\* What the registers hold wherever the sequencer is.
Stage ==
  /\ upc.at = "FETCH" => AtFetch
  /\ upc.at = "FETCH_A" => AtFetchA
  /\ upc.at = "FETCH_G" => Started /\ ir.op = "OPR1"
  /\ upc.at = "FETCH_S" => Started /\ ir.op = "OPR2"
  /\ upc.at = "FETCH_I" => AtFetchI
  /\ upc.at \in EaAt => AtEa
  /\ upc.at \in JaAt => AtJa
  /\ upc.at \in JmpAt => AtJmp
  /\ upc.at \in CalAt => AtCal
  /\ upc.at = "OP_RD" => AtRead
  /\ upc.at = "OP_DAC" => AtDeposit
  /\ upc.at = "OP_SAD" => AtCompare
  /\ upc.at = "OP_ISZ" => AtCount
  /\ upc.at = "SKIP" => AtSkip
  /\ upc.at = "G3" => AtG3
  /\ upc.at = "IOT" => AtIot
  /\ upc.at = "PSH_SP" => PushStage(0)
  /\ upc.at = "PSH_LPC" => PushStage(1)
  /\ upc.at = "PSH_IX" => PushStage(2)
  /\ upc.at = "PSH_AC" => PushStage(3)
  /\ upc.at = "POP_SP" => PopStage(0)
  /\ upc.at = "POP_LPC" => PopStage(1)
  /\ upc.at = "POP_IX" => PopStage(2)
  /\ upc.at = "POP_AC" => PopStage(3)
  /\ upc.at = "IRQ" => AtIrq

\* An entry noticed in the fetch of a bare DI.
Late ==
  /\ ~arch.i /\ IsBareDi(prog[Plus(arch.pc, AddrMod - 1)])
  /\ \/ upc.at = "IRQ" /\ Entry
     \/ upc.at = "FETCH" /\ Entered

-----------------------------------------------------------------------------
(* What stays.                                                             *)

(* What depends on the instruction and the state before it only: it stays  *)
(* while a microprogram runs.                                              *)
LEMMA Frozen ==
  ASSUME arch' = arch, ir' = ir, prog' = prog
  PROVE  /\ ISA!Ea(ir)' = ISA!Ea(ir) /\ ISA!Target(ir)' = ISA!Target(ir)
         /\ ISA!After(TRUE)' = ISA!After(TRUE) /\ ISA!After(FALSE)' = ISA!After(FALSE)
         /\ ISA!Reg(ir.r)' = ISA!Reg(ir.r)
         /\ Stepped' = Stepped
         /\ ISA!LinkWord(ISA!After(FALSE))' = ISA!LinkWord(ISA!After(FALSE))
         /\ ISA!LinkWord(arch.pc)' = ISA!LinkWord(arch.pc)
         /\ ISA!Stack(arch.sp, arch.m)' = ISA!Stack(arch.sp, arch.m)
         /\ Return(ISA!After(FALSE))' = Return(ISA!After(FALSE))
         /\ Return(arch.pc)' = Return(arch.pc)
         /\ ISA!IField(ir.ifield)' = ISA!IField(ir.ifield)
<1>1. ISA!Ea(ir)' = ISA!Ea(ir)
  BY DEF ISA!Ea, ISA!Plus
<1>2. ISA!Target(ir)' = ISA!Target(ir)
  BY <1>1 DEF ISA!Target
<1>3. ISA!After(TRUE)' = ISA!After(TRUE) /\ ISA!After(FALSE)' = ISA!After(FALSE)
  BY DEF ISA!After, ISA!Plus
<1>4. ISA!Reg(ir.r)' = ISA!Reg(ir.r)
  BY DEF ISA!Reg
<1>5. Stepped' = Stepped
  BY <1>1 DEF Stepped
<1>6. /\ ISA!LinkWord(ISA!After(FALSE))' = ISA!LinkWord(ISA!After(FALSE))
      /\ ISA!LinkWord(arch.pc)' = ISA!LinkWord(arch.pc)
  BY <1>3 DEF ISA!LinkWord
<1>7. ISA!Stack(arch.sp, arch.m)' = ISA!Stack(arch.sp, arch.m)
  BY DEF ISA!Stack
<1>8. /\ Return(ISA!After(FALSE))' = Return(ISA!After(FALSE))
      /\ Return(arch.pc)' = Return(arch.pc)
  BY <1>6, <1>7 DEF Return, ISA!PushWord, ISA!SpDec, ISA!StackAddr, ISA!Stack
<1>9. ISA!IField(ir.ifield)' = ISA!IField(ir.ifield)
  BY DEF ISA!IField
<1> QED BY <1>1, <1>2, <1>3, <1>4, <1>5, <1>6, <1>7, <1>8, <1>9

(* So does what the walk of a stack mask has reached.                      *)
LEMMA FrozenStack ==
  ASSUME arch' = arch, ir' = ir, prog' = prog, NEW b
  PROVE  /\ Pushed(b)' = Pushed(b) /\ PushedWord(b)' = PushedWord(b)
         /\ PopSp(b)' = PopSp(b) /\ PopSp0' = PopSp0 /\ PopSp1' = PopSp1 /\ PopSp2' = PopSp2
<1>1. Pushed1' = Pushed1
  BY Frozen DEF Pushed1, ISA!PushIf, ISA!PushWord, ISA!Stack, ISA!SpDec, ISA!StackAddr
<1>2. Pushed2' = Pushed2
  BY Frozen, <1>1 DEF Pushed2, ISA!PushIf, ISA!PushWord, ISA!Stack, ISA!SpDec, ISA!StackAddr
<1>3. Pushed3' = Pushed3
  BY Frozen, <1>2 DEF Pushed3, ISA!PushIf, ISA!PushWord, ISA!Stack, ISA!SpDec, ISA!StackAddr
<1>4. Pushed4' = Pushed4
  BY Frozen, <1>3 DEF Pushed4, ISA!PushIf, ISA!PushWord, ISA!Stack, ISA!SpDec, ISA!StackAddr
<1>5. Pushed(b)' = Pushed(b)
  BY Frozen, <1>1, <1>2, <1>3, <1>4 DEF Pushed
<1>6. PushedWord(b)' = PushedWord(b)
  BY Frozen DEF PushedWord
<1>7. PopSp2' = PopSp2
  BY DEF PopSp2, SpInc
<1>8. PopSp1' = PopSp1
  BY <1>7 DEF PopSp1, SpInc
<1>9. PopSp0' = PopSp0
  BY <1>8 DEF PopSp0, SpInc
<1>10. PopSp(b)' = PopSp(b)
  BY <1>7, <1>8, <1>9 DEF PopSp
<1> QED BY <1>5, <1>6, <1>7, <1>8, <1>9, <1>10

(* Inside an instruction arch and IR stay, and no request is looked at.    *)
LEMMA Inner ==
  ASSUME TypeInv, Cycle, ~Fetching, Word0.mem # "IO"
  PROVE  /\ UNCHANGED <<arch, ir, pgl, prog, req, irqDev>> /\ ~waiting'
         /\ ~IrqNow /\ ~Skipping /\ ~IoSkip /\ Left = msk
         /\ Walks <=> Word0.seq = "MAPMASK"
<1>1. ir' = ir /\ pgl' = pgl /\ ~NewIr /\ ~IrqNow /\ ~Skipping
  BY SameInstr DEF Cycle
<1>2. ~DoesIo /\ ~IoSkip /\ ~Settled
  BY <1>1 DEF DoesIo, IoSkip, Settled
<1>3. arch' = arch /\ req' = req /\ ~waiting' /\ prog' = prog
  BY <1>2 DEF Cycle, Observe, IoCycle
<1>4. irqDev' = irqDev
  BY <1>1, SequencerIs DEF Cycle
<1>5. Left = msk
  BY <1>1 DEF Left
<1>6. Walks <=> Word0.seq = "MAPMASK"
  <2>1. Word0.seq # "MAP"
    BY SaneWord DEF TypeInv, Sane, Fetching
  <2> QED BY <1>1, <2>1 DEF Walks
<1> QED BY <1>1, <1>2, <1>3, <1>4, <1>5, <1>6

(* Where such a word leads.                                                *)
LEMMA InnerNext ==
  ASSUME TypeInv, Cycle, ~Fetching, Word0.mem # "IO"
  PROVE  /\ Word0.seq = "NEXT" => upc'.at = upc.at /\ upc'.n = upc.n + 1
         /\ Word0.seq = "JUMP" => upc'.at = Word0.na /\ upc'.n = 1
         /\ Word0.seq = "MAP2" => upc'.at = Map2(ir) /\ upc'.n = 1
         /\ Word0.seq = "SKIPC" => upc'.at = "FETCH" /\ upc'.n = 1
         /\ Word0.seq = "MAPMASK" => upc'.at = MaskEntry(ir.op, msk) /\ upc'.n = 1
         /\ Word0.seq = "BRANCH" =>
              IF Cond(Word0.cc) THEN upc'.at = Word0.na /\ upc'.n = 1
                                ELSE upc'.at = upc.at /\ upc'.n = upc.n + 1
         /\ Word0.seq # "MAPMASK" => msk' = msk
         /\ Word0.seq = "MAPMASK" =>
              msk' = IF msk # {} THEN msk \ {MaskBit(ir.op, msk)} ELSE {}
<1>1. ~IrqNow /\ ~Skipping /\ Left = msk /\ (Walks <=> Word0.seq = "MAPMASK") /\ ir' = ir
  BY Inner
<1>2. Sequencer /\ upc \in [at : DOMAIN Microprogram, n : Nat \ {0}]
  BY DEF Cycle, TypeInv, MicroTypeOK
<1>3. CASE Word0.seq = "NEXT"
  <2>1. upc' = [upc EXCEPT !.n = @ + 1] /\ msk' = msk
    BY <1>1, <1>2, <1>3, SequencerIs
  <2> QED BY <1>2, <1>3, <2>1
<1>4. CASE Word0.seq = "JUMP"
  BY <1>1, <1>2, <1>4, SequencerIs DEF Goto
<1>5. CASE Word0.seq = "MAP2"
  BY <1>1, <1>2, <1>5, SequencerIs DEF Goto
<1>6. CASE Word0.seq = "SKIPC"
  BY <1>1, <1>2, <1>6, SequencerIs DEF Goto
<1>7. CASE Word0.seq = "MAPMASK"
  <2>1. upc' = Goto(MaskEntry(ir.op, msk))
    BY <1>1, <1>2, <1>7, SequencerIs
  <2>2. msk' = IF msk # {} THEN msk \ {MaskBit(ir.op, msk)} ELSE {}
    BY <1>1, <1>2, <1>7, SequencerIs
  <2> QED BY <1>7, <2>1, <2>2 DEF Goto
<1>8. CASE Word0.seq = "BRANCH"
  <2>1. upc' = (IF Cond(Word0.cc) THEN Goto(Word0.na) ELSE [upc EXCEPT !.n = @ + 1]) /\ msk' = msk
    BY <1>1, <1>2, <1>8, SequencerIs
  <2> QED BY <1>2, <1>8, <2>1 DEF Goto
<1>9. Word0.seq \notin {"NEXT", "JUMP", "MAP2", "SKIPC", "MAPMASK", "BRANCH"} => msk' = msk
  BY <1>1, <1>2, SequencerIs
<1> QED BY <1>3, <1>4, <1>5, <1>6, <1>7, <1>8, <1>9

(* A word that loads no register but DI, DO and AR.                        *)
Plain(w) ==
  /\ w.mem \in {"IDLE", "RD"} /\ w.rdst = "NONE" /\ w.lctl = "HOLD" /\ w.ictl = "IHOLD"
  /\ w.spup = FALSE /\ w.alu # "G1" /\ w.arsrc # "PCNEXT"
  /\ w.seq \in {"NEXT", "JUMP", "MAP2"}

(* Such a word leaves the registers, memory and IR alone.                  *)
LEMMA PlainStep ==
  ASSUME TypeInv, Cycle, ~Fetching, Plain(Word0)
  PROVE  /\ UNCHANGED <<ac, ix, l, sp, m, i, pc, msk, arch, ir, pgl, prog, req, irqDev>>
         /\ Word0.arsrc = "HOLD" => ar' = ar
         /\ Word0.arsrc = "ALU" => ar' = AluOut.r % AddrMod
         /\ Word0.arsrc = "PC" => ar' = pc
         /\ Word0.arsrc = "DI" => ar' = di' % AddrMod
         /\ Word0.arsrc = "STACKR" => ar' = StackAddr(sp)
         /\ Word0.mem = "RD" => di' = m[ar]
         /\ Word0.mem = "IDLE" => di' = di
         /\ Word0.dosrc = "HOLD" => do' = do
         /\ Word0.dosrc = "FROMIR" => do' = RegOfIr
         /\ Word0.dosrc = "ALU" => do' = AluOut.r
<1>1. /\ UNCHANGED <<arch, ir, pgl, prog, req, irqDev>> /\ ~waiting'
      /\ ~IrqNow /\ ~Skipping /\ ~IoSkip
  BY Inner DEF Plain
<1>2. Dst = "NONE" /\ ~TakesSkip(Word0)
  BY DEF Plain, Dst, TakesSkip
<1>3. ac' = ac /\ ix' = ix /\ sp' = sp
  BY <1>2 DEF Plain, Cycle, Registers
<1>4. l' = l /\ i' = i
  BY DEF Plain, Cycle, Flags
<1>5. m' = m /\ (Word0.mem = "RD" => di' = m[ar]) /\ (Word0.mem = "IDLE" => di' = di)
  BY DEF Plain, Cycle, Memory
<1>6. msk' = msk
  BY InnerNext DEF Plain
<1>7. pc' = pc
  BY <1>1, <1>2 DEF Plain, Cycle, Addresses
<1>8. /\ Word0.arsrc = "HOLD" => ar' = ar
      /\ Word0.arsrc = "ALU" => ar' = AluOut.r % AddrMod
      /\ Word0.arsrc = "PC" => ar' = pc
  BY <1>1, <1>2 DEF Plain, Cycle, Addresses
<1>9. Word0.arsrc = "DI" => ar' = di' % AddrMod
  BY <1>1, <1>2 DEF Plain, Cycle, Addresses
<1>10. Word0.arsrc = "STACKR" => ar' = StackAddr(sp)
  BY <1>1, <1>2, <1>3 DEF Plain, Cycle, Addresses
<1>11. /\ Word0.dosrc = "HOLD" => do' = do
       /\ Word0.dosrc = "FROMIR" => do' = RegOfIr
       /\ Word0.dosrc = "ALU" => do' = AluOut.r
  BY DEF Cycle, DataOut
<1> QED BY <1>1, <1>3, <1>4, <1>5, <1>6, <1>7, <1>8, <1>9, <1>10, <1>11

(* What a word leaves alone stays where it was with respect to arch.       *)
LEMMA Stays ==
  ASSUME UNCHANGED <<ac, ix, l, pc, i, arch, ir, pgl, prog>>
  PROVE  /\ Current' = Current /\ Kept' = Kept /\ Next1' = Next1
         /\ (pc = arch.pc)' = (pc = arch.pc) /\ (i = arch.i)' = (i = arch.i)
         /\ IAllowed' = IAllowed
         /\ UNCHANGED <<sp, m>> => Started' = Started /\ Still' = Still /\ Rested' = Rested
<1>1. Current' = Current
  BY DEF Current
<1>2. Kept' = Kept
  BY DEF Kept
<1>3. Next1' = Next1
  BY Frozen DEF Next1
<1>4. IAllowed' = IAllowed
  BY Frozen DEF IAllowed
<1>5. UNCHANGED <<sp, m>> => Still' = Still
  BY DEF Still
<1>6. UNCHANGED <<sp, m>> => Started' = Started
  BY <1>1, <1>2, <1>3, <1>5 DEF Started
<1>7. UNCHANGED <<sp, m>> => Rested' = Rested
  BY <1>2, <1>5 DEF Rested
<1> QED BY <1>1, <1>2, <1>3, <1>4, <1>5, <1>6, <1>7

-----------------------------------------------------------------------------
(* Addresses.                                                              *)

(* The words that form an address, by what they put in AR.                 *)
Direct   == {"EA_ZP", "JA_ZP"}
Indexed  == {"EA_IDX", "JA_IDX", "JMP_IDX"}
Deferred == {"EA_IN1", "JA_IN1", "JMP_IN1"}
Both     == {"EA_IX1", "JA_IX1", "JMP_IX1"}
LastOf(at) == IF at \in Deferred \cup Both THEN 3 ELSE 1

Forms(at, w) ==
  /\ w.mem = "IDLE" /\ w.lctl = "HOLD" /\ w.ictl = "IHOLD" /\ w.spup = FALSE
  /\ at \in Direct => w.arsrc = "ALU" /\ w.alu = "PASSB" /\ w.bsrc \in {"IRF11", "IRF12"}
  /\ at \in Indexed => /\ w.arsrc = "ALU" /\ w.alu = "ADD" /\ w.asrc = "IX"
                       /\ w.bsrc \in {"IRF11", "IRF12"}
  /\ at \in Deferred => w.arsrc = "DI" /\ w.alu = "ADD"
  /\ at \in Both => w.arsrc = "ALU" /\ w.alu = "ADD" /\ w.asrc = "IX" /\ w.bsrc = "DI"
  /\ at = "JMP_PG" => w.arsrc = "PAGE" /\ w.alu = "ADD"

AddressWord(at, n) ==
  LET w == Microprogram[at][n]
  IN  /\ n <= LastOf(at)
      /\ n < LastOf(at) => Plain(w) /\ w.seq = "NEXT" /\ w.dosrc = "HOLD"
      /\ n < LastOf(at) /\ n = 1 => /\ w.arsrc = "ALU" /\ w.alu = "PASSB" /\ w.mem = "IDLE"
                                 /\ w.bsrc \in {"IRF11", "IRF12"}
      /\ n < LastOf(at) /\ n = 2 => w.arsrc = "HOLD" /\ w.mem = "RD"
      /\ n = LastOf(at) => Forms(at, w)
      /\ n = LastOf(at) /\ at \in EaAt => Plain(w) /\ w.seq = "MAP2" /\ w.dosrc = "FROMIR"
      /\ n = LastOf(at) /\ at \in JaAt => Plain(w) /\ w.seq = "MAP2"
      /\ n = LastOf(at) /\ at \in JmpAt => w.rdst = "PC" /\ w.seq = "JUMP" /\ w.na = "FETCH"

(* The words of the operand addresses are of that form.                    *)
LEMMA EaAddressWords == \A at \in EaAt : \A n \in 1 .. Len(Microprogram[at]) : AddressWord(at, n)
<1>1. \A n \in 1 .. Len(Microprogram["EA_ZP"]) : AddressWord("EA_ZP", n)
  <2>1. Len(Microprogram["EA_ZP"]) = 1
    BY EaTable
  <2>2. LastOf("EA_ZP") = 1
    BY DEF LastOf, Deferred, Both
  <2>3. Microprogram["EA_ZP"][1] = ByField([EaTail EXCEPT !.asrc = "FROMIR"], "IRF11")
    BY EaTable
  <2>4. AddressWord("EA_ZP", 1)
    BY <2>2, <2>3
       DEF AddressWord, Forms, Plain, EaAt, JaAt, JmpAt, Direct, Indexed, Deferred, Both, ByField, EaTail, Idle
  <2> QED BY <2>1, <2>4
<1>2. \A n \in 1 .. Len(Microprogram["EA_IDX"]) : AddressWord("EA_IDX", n)
  <2>1. Len(Microprogram["EA_IDX"]) = 1
    BY EaTable
  <2>2. LastOf("EA_IDX") = 1
    BY DEF LastOf, Deferred, Both
  <2>3. Microprogram["EA_IDX"][1] = ByIndex(EaTail, "IRF11")
    BY EaTable
  <2>4. AddressWord("EA_IDX", 1)
    BY <2>2, <2>3
       DEF AddressWord, Forms, Plain, EaAt, JaAt, JmpAt, Direct, Indexed, Deferred, Both, ByIndex, EaTail, Idle
  <2> QED BY <2>1, <2>4
<1>3. \A n \in 1 .. Len(Microprogram["EA_IN1"]) : AddressWord("EA_IN1", n)
  <2>1. Len(Microprogram["EA_IN1"]) = 3
    BY EaTable
  <2>2. LastOf("EA_IN1") = 3
    BY DEF LastOf, Deferred, Both
  <2>3. Microprogram["EA_IN1"][1] = ByField(Idle, "IRF11")
    BY EaTable
  <2>4. AddressWord("EA_IN1", 1)
    BY <2>2, <2>3
       DEF AddressWord, Forms, Plain, EaAt, JaAt, JmpAt, Direct, Indexed, Deferred, Both, ByField, Idle
  <2>5. Microprogram["EA_IN1"][2] = Read
    BY EaTable
  <2>6. AddressWord("EA_IN1", 2)
    BY <2>2, <2>5
       DEF AddressWord, Forms, Plain, EaAt, JaAt, JmpAt, Direct, Indexed, Deferred, Both, Read, Idle
  <2>7. Microprogram["EA_IN1"][3] = ByMemory([EaTail EXCEPT !.asrc = "FROMIR"])
    BY EaTable
  <2>8. AddressWord("EA_IN1", 3)
    BY <2>2, <2>7
       DEF AddressWord, Forms, Plain, EaAt, JaAt, JmpAt, Direct, Indexed, Deferred, Both, ByMemory, EaTail, Idle
  <2> QED BY <2>1, <2>4, <2>6, <2>8
<1>4. \A n \in 1 .. Len(Microprogram["EA_IX1"]) : AddressWord("EA_IX1", n)
  <2>1. Len(Microprogram["EA_IX1"]) = 3
    BY EaTable
  <2>2. LastOf("EA_IX1") = 3
    BY DEF LastOf, Deferred, Both
  <2>3. Microprogram["EA_IX1"][1] = ByField(Idle, "IRF11")
    BY EaTable
  <2>4. AddressWord("EA_IX1", 1)
    BY <2>2, <2>3
       DEF AddressWord, Forms, Plain, EaAt, JaAt, JmpAt, Direct, Indexed, Deferred, Both, ByField, Idle
  <2>5. Microprogram["EA_IX1"][2] = Read
    BY EaTable
  <2>6. AddressWord("EA_IX1", 2)
    BY <2>2, <2>5
       DEF AddressWord, Forms, Plain, EaAt, JaAt, JmpAt, Direct, Indexed, Deferred, Both, Read, Idle
  <2>7. Microprogram["EA_IX1"][3] = ByIndex(EaTail, "DI")
    BY EaTable
  <2>8. AddressWord("EA_IX1", 3)
    BY <2>2, <2>7
       DEF AddressWord, Forms, Plain, EaAt, JaAt, JmpAt, Direct, Indexed, Deferred, Both, ByIndex, EaTail, Idle
  <2> QED BY <2>1, <2>4, <2>6, <2>8
<1> QED BY <1>1, <1>2, <1>3, <1>4 DEF EaAt

(* Those of ISZ and DSZ.                                                   *)
LEMMA JaAddressWords == \A at \in JaAt : \A n \in 1 .. Len(Microprogram[at]) : AddressWord(at, n)
<1>1. \A n \in 1 .. Len(Microprogram["JA_ZP"]) : AddressWord("JA_ZP", n)
  <2>1. Len(Microprogram["JA_ZP"]) = 1
    BY JaTable
  <2>2. LastOf("JA_ZP") = 1
    BY DEF LastOf, Deferred, Both
  <2>3. Microprogram["JA_ZP"][1] = ByField(JaTail, "IRF12")
    BY JaTable
  <2>4. AddressWord("JA_ZP", 1)
    BY <2>2, <2>3
       DEF AddressWord, Forms, Plain, EaAt, JaAt, JmpAt, Direct, Indexed, Deferred, Both, ByField, JaTail, Idle
  <2> QED BY <2>1, <2>4
<1>2. \A n \in 1 .. Len(Microprogram["JA_IDX"]) : AddressWord("JA_IDX", n)
  <2>1. Len(Microprogram["JA_IDX"]) = 1
    BY JaTable
  <2>2. LastOf("JA_IDX") = 1
    BY DEF LastOf, Deferred, Both
  <2>3. Microprogram["JA_IDX"][1] = ByIndex(JaTail, "IRF12")
    BY JaTable
  <2>4. AddressWord("JA_IDX", 1)
    BY <2>2, <2>3
       DEF AddressWord, Forms, Plain, EaAt, JaAt, JmpAt, Direct, Indexed, Deferred, Both, ByIndex, JaTail, Idle
  <2> QED BY <2>1, <2>4
<1>3. \A n \in 1 .. Len(Microprogram["JA_IN1"]) : AddressWord("JA_IN1", n)
  <2>1. Len(Microprogram["JA_IN1"]) = 3
    BY JaTable
  <2>2. LastOf("JA_IN1") = 3
    BY DEF LastOf, Deferred, Both
  <2>3. Microprogram["JA_IN1"][1] = ByField(Idle, "IRF12")
    BY JaTable
  <2>4. AddressWord("JA_IN1", 1)
    BY <2>2, <2>3
       DEF AddressWord, Forms, Plain, EaAt, JaAt, JmpAt, Direct, Indexed, Deferred, Both, ByField, Idle
  <2>5. Microprogram["JA_IN1"][2] = Read
    BY JaTable
  <2>6. AddressWord("JA_IN1", 2)
    BY <2>2, <2>5
       DEF AddressWord, Forms, Plain, EaAt, JaAt, JmpAt, Direct, Indexed, Deferred, Both, Read, Idle
  <2>7. Microprogram["JA_IN1"][3] = ByMemory(JaTail)
    BY JaTable
  <2>8. AddressWord("JA_IN1", 3)
    BY <2>2, <2>7
       DEF AddressWord, Forms, Plain, EaAt, JaAt, JmpAt, Direct, Indexed, Deferred, Both, ByMemory, JaTail, Idle
  <2> QED BY <2>1, <2>4, <2>6, <2>8
<1>4. \A n \in 1 .. Len(Microprogram["JA_IX1"]) : AddressWord("JA_IX1", n)
  <2>1. Len(Microprogram["JA_IX1"]) = 3
    BY JaTable
  <2>2. LastOf("JA_IX1") = 3
    BY DEF LastOf, Deferred, Both
  <2>3. Microprogram["JA_IX1"][1] = ByField(Idle, "IRF12")
    BY JaTable
  <2>4. AddressWord("JA_IX1", 1)
    BY <2>2, <2>3
       DEF AddressWord, Forms, Plain, EaAt, JaAt, JmpAt, Direct, Indexed, Deferred, Both, ByField, Idle
  <2>5. Microprogram["JA_IX1"][2] = Read
    BY JaTable
  <2>6. AddressWord("JA_IX1", 2)
    BY <2>2, <2>5
       DEF AddressWord, Forms, Plain, EaAt, JaAt, JmpAt, Direct, Indexed, Deferred, Both, Read, Idle
  <2>7. Microprogram["JA_IX1"][3] = ByIndex(JaTail, "DI")
    BY JaTable
  <2>8. AddressWord("JA_IX1", 3)
    BY <2>2, <2>7
       DEF AddressWord, Forms, Plain, EaAt, JaAt, JmpAt, Direct, Indexed, Deferred, Both, ByIndex, JaTail, Idle
  <2> QED BY <2>1, <2>4, <2>6, <2>8
<1> QED BY <1>1, <1>2, <1>3, <1>4 DEF JaAt

(* Those of the jumps.                                                     *)
LEMMA JmpAddressWords == \A at \in JmpAt : \A n \in 1 .. Len(Microprogram[at]) : AddressWord(at, n)
<1>1. \A n \in 1 .. Len(Microprogram["JMP_PG"]) : AddressWord("JMP_PG", n)
  <2>1. Len(Microprogram["JMP_PG"]) = 1
    BY JmpTable
  <2>2. LastOf("JMP_PG") = 1
    BY DEF LastOf, Deferred, Both
  <2>3. Microprogram["JMP_PG"][1] = [JmpTail EXCEPT !.arsrc = "PAGE"]
    BY JmpTable
  <2>4. AddressWord("JMP_PG", 1)
    BY <2>2, <2>3
       DEF AddressWord, Forms, Plain, EaAt, JaAt, JmpAt, Direct, Indexed, Deferred, Both, JmpTail, ToFetch, Idle
  <2> QED BY <2>1, <2>4
<1>2. \A n \in 1 .. Len(Microprogram["JMP_IDX"]) : AddressWord("JMP_IDX", n)
  <2>1. Len(Microprogram["JMP_IDX"]) = 1
    BY JmpTable
  <2>2. LastOf("JMP_IDX") = 1
    BY DEF LastOf, Deferred, Both
  <2>3. Microprogram["JMP_IDX"][1] = ByIndex(JmpTail, "IRF12")
    BY JmpTable
  <2>4. AddressWord("JMP_IDX", 1)
    BY <2>2, <2>3
       DEF AddressWord, Forms, Plain, EaAt, JaAt, JmpAt, Direct, Indexed, Deferred, Both, ByIndex, JmpTail, ToFetch, Idle
  <2> QED BY <2>1, <2>4
<1>3. \A n \in 1 .. Len(Microprogram["JMP_IN1"]) : AddressWord("JMP_IN1", n)
  <2>1. Len(Microprogram["JMP_IN1"]) = 3
    BY JmpTable
  <2>2. LastOf("JMP_IN1") = 3
    BY DEF LastOf, Deferred, Both
  <2>3. Microprogram["JMP_IN1"][1] = ByField(Idle, "IRF12")
    BY JmpTable
  <2>4. AddressWord("JMP_IN1", 1)
    BY <2>2, <2>3
       DEF AddressWord, Forms, Plain, EaAt, JaAt, JmpAt, Direct, Indexed, Deferred, Both, ByField, Idle
  <2>5. Microprogram["JMP_IN1"][2] = Read
    BY JmpTable
  <2>6. AddressWord("JMP_IN1", 2)
    BY <2>2, <2>5
       DEF AddressWord, Forms, Plain, EaAt, JaAt, JmpAt, Direct, Indexed, Deferred, Both, Read, Idle
  <2>7. Microprogram["JMP_IN1"][3] = ByMemory(JmpTail)
    BY JmpTable
  <2>8. AddressWord("JMP_IN1", 3)
    BY <2>2, <2>7
       DEF AddressWord, Forms, Plain, EaAt, JaAt, JmpAt, Direct, Indexed, Deferred, Both, ByMemory, JmpTail, ToFetch, Idle
  <2> QED BY <2>1, <2>4, <2>6, <2>8
<1>4. \A n \in 1 .. Len(Microprogram["JMP_IX1"]) : AddressWord("JMP_IX1", n)
  <2>1. Len(Microprogram["JMP_IX1"]) = 3
    BY JmpTable
  <2>2. LastOf("JMP_IX1") = 3
    BY DEF LastOf, Deferred, Both
  <2>3. Microprogram["JMP_IX1"][1] = ByField(Idle, "IRF12")
    BY JmpTable
  <2>4. AddressWord("JMP_IX1", 1)
    BY <2>2, <2>3
       DEF AddressWord, Forms, Plain, EaAt, JaAt, JmpAt, Direct, Indexed, Deferred, Both, ByField, Idle
  <2>5. Microprogram["JMP_IX1"][2] = Read
    BY JmpTable
  <2>6. AddressWord("JMP_IX1", 2)
    BY <2>2, <2>5
       DEF AddressWord, Forms, Plain, EaAt, JaAt, JmpAt, Direct, Indexed, Deferred, Both, Read, Idle
  <2>7. Microprogram["JMP_IX1"][3] = ByIndex(JmpTail, "DI")
    BY JmpTable
  <2>8. AddressWord("JMP_IX1", 3)
    BY <2>2, <2>7
       DEF AddressWord, Forms, Plain, EaAt, JaAt, JmpAt, Direct, Indexed, Deferred, Both, ByIndex, JmpTail, ToFetch, Idle
  <2> QED BY <2>1, <2>4, <2>6, <2>8
<1> QED BY <1>1, <1>2, <1>3, <1>4 DEF JmpAt

(* The sums the address words form are the instruction set's.              *)
LEMMA Sums ==
  ASSUME TypeInv
  PROVE  /\ Word0.alu = "PASSB" => AluOut.r = BusB
         /\ Word0.alu = "ADD" => AluOut.r = (BusA + BusB) % WordMod
         /\ Word0.asrc = "IX" => BusA = ix
         /\ Word0.bsrc = "DI" => BusB = di
         /\ Word0.bsrc \in {"IRF11", "IRF12"} => BusB = ir.addr
         /\ Word0.bsrc = "DEV" => BusB = irqDev
<1>1. BusB % WordMod = BusB
  BY BusTyped, Sizes, Small DEF Word
<1>2. Word0.alu = "PASSB" => AluOut.r = BusB
  BY <1>1 DEF AluOut
<1>3. Word0.alu = "ADD" => AluOut.r = (BusA + BusB) % WordMod
  BY DEF AluOut
<1> QED BY <1>2, <1>3 DEF BusA, BusB

(* The instruction's operand address, target and next address, in the      *)
(* engine's terms.                                                         *)
LEMMA EaIs ==
  ASSUME TypeInv
  PROVE  /\ ISA!Ea(ir) = IF ir.idx
                         THEN Plus(IF ir.ind THEN arch.m[ir.addr] % AddrMod ELSE ir.addr, arch.ix)
                         ELSE IF ir.ind THEN arch.m[ir.addr] % AddrMod ELSE ir.addr
         /\ ISA!Target(ir) = IF ir.ind \/ ir.idx THEN ISA!Ea(ir)
                             ELSE arch.pc - (arch.pc % PageSize) + ir.addr
         /\ ISA!After(FALSE) = Plus(arch.pc, 1) /\ ISA!After(TRUE) = Plus(arch.pc, 2)
<1>1. ISA!Ea(ir) = IF ir.idx
                         THEN Plus(IF ir.ind THEN arch.m[ir.addr] % AddrMod ELSE ir.addr, arch.ix)
                         ELSE IF ir.ind THEN arch.m[ir.addr] % AddrMod ELSE ir.addr
  BY SameWords DEF ISA!Ea
<1>2. ISA!After(FALSE) = Plus(arch.pc, 1) /\ ISA!After(TRUE) = Plus(arch.pc, 2)
  BY SameWords DEF ISA!After
<1> QED BY <1>1, <1>2 DEF ISA!Target

(* A memory operand's address is in the page of the vectors or the code,   *)
(* never in the stack's, so what a push writes is never a pointer.         *)
LEMMA Pointers ==
  ASSUME TypeInv, ir.op \in AluOps \cup {"DAC", "SAD", "ISZ", "DSZ", "JMP", "CAL"}
  PROVE  /\ ir.addr \in Page /\ ir.addr \in Addr /\ ir.addr \in Word /\ ir.addr % AddrMod = ir.addr
         /\ arch.m[ir.addr] \in Word
<1>1. ir.addr \in Page
  BY InstrOps DEF TypeInv, MicroTypeOK
<1>2. ir.addr \in Addr /\ ir.addr \in Word
  BY <1>1, Sizes
<1>3. ir.addr % AddrMod = ir.addr
  BY <1>2, Sizes, Small DEF Addr
<1>4. arch.m[ir.addr] \in Word
  BY <1>2 DEF TypeInv, MicroTypeOK
<1> QED BY <1>1, <1>2, <1>3, <1>4

(* The address the last word of a sequence puts in AR is the operand's.    *)
LEMMA Formed ==
  ASSUME TypeInv, Forms(upc.at, Word0), Mode2, ix = arch.ix, upc.n = LastOf(upc.at),
         upc.at \in EaAt \cup JaAt \cup JmpAt, upc.at # "JMP_PG",
         ir.op \in AluOps \cup {"DAC", "SAD", "ISZ", "DSZ", "JMP", "CAL"}
  PROVE  /\ Word0.arsrc \in {"ALU", "DI"}
         /\ Word0.arsrc = "ALU" => AluOut.r % AddrMod = ISA!Ea(ir)
         /\ Word0.arsrc = "DI" => di % AddrMod = ISA!Ea(ir)
<1>1. /\ ir.addr \in Word /\ ir.addr % AddrMod = ir.addr /\ arch.m[ir.addr] \in Word
      /\ ix \in Word /\ di \in Word
  BY Pointers DEF TypeInv, MicroTypeOK
<1>2. CASE upc.at \in Direct
  <2>1. ~ir.ind /\ ~ir.idx
    BY <1>2 DEF Mode2, Direct
  <2>2. AluOut.r = ir.addr /\ Word0.arsrc = "ALU"
    BY <1>2, Sums DEF Forms
  <2> QED BY <1>1, <2>1, <2>2, EaIs
<1>3. CASE upc.at \in Indexed
  <2>1. ~ir.ind /\ ir.idx
    BY <1>3 DEF Mode2, Indexed
  <2>2. AluOut.r = (ix + ir.addr) % WordMod /\ Word0.arsrc = "ALU"
    BY <1>3, Sums DEF Forms
  <2>3. ((ix + ir.addr) % WordMod) % AddrMod = Plus(ir.addr, ix)
    BY <1>1, CutTwice
  <2> QED BY <2>1, <2>2, <2>3, EaIs
<1>4. CASE upc.at \in Deferred
  <2>1. ir.ind /\ ~ir.idx /\ di = arch.m[ir.addr]
    BY <1>4 DEF Mode2, Deferred, LastOf
  <2>2. Word0.arsrc = "DI"
    BY <1>4 DEF Forms
  <2> QED BY <2>1, <2>2, EaIs
<1>5. CASE upc.at \in Both
  <2>1. ir.ind /\ ir.idx /\ di = arch.m[ir.addr]
    BY <1>5 DEF Mode2, Both, LastOf
  <2>2. AluOut.r = (ix + di) % WordMod /\ Word0.arsrc = "ALU"
    BY <1>5, Sums DEF Forms
  <2>3. ((ix + di) % WordMod) % AddrMod = Plus(di % AddrMod, ix)
    <3>1. ((ix + di) % WordMod) % AddrMod = Plus(ix, di)
      BY <1>1, CutTwice
    <3>2. Plus(di % AddrMod, ix) = Plus(di, ix) /\ Plus(ix, di) = Plus(di, ix)
      BY <1>1, CutTwice
    <3> QED BY <3>1, <3>2
  <2> QED BY <2>1, <2>2, <2>3, EaIs
<1> QED BY <1>2, <1>3, <1>4, <1>5 DEF EaAt, JaAt, JmpAt, Direct, Indexed, Deferred, Both

-----------------------------------------------------------------------------

(* The first two words of a deferred address read the pointer.             *)
LEMMA PointerStep ==
  ASSUME TypeInv, Cycle, upc.at \in EaAt \cup JaAt \cup JmpAt, upc.n < LastOf(upc.at), Mode2,
         ir.op \in AluOps \cup {"DAC", "SAD", "ISZ", "DSZ", "JMP", "CAL"},
         \A a \in Page : m[a] = arch.m[a]
  PROVE  /\ UNCHANGED <<ac, ix, l, sp, m, i, pc, msk, arch, ir, pgl, prog, req, irqDev>>
         /\ upc'.at = upc.at /\ Mode2'
<1>1. /\ AddressWord(upc.at, upc.n) /\ Word0 = Microprogram[upc.at][upc.n] /\ ~Fetching
      /\ upc.n \in Nat \ {0}
  <2>1. upc.n \in 1 .. Len(Microprogram[upc.at])
    <3>1. Len(Microprogram[upc.at]) \in Nat
      BY Places DEF TypeInv, MicroTypeOK
    <3> QED BY <3>1 DEF TypeInv, MicroTypeOK
  <2> QED BY <2>1, EaAddressWords, JaAddressWords, JmpAddressWords, SMTT(30)
          DEF Word0, Fetching, Fetches, EaAt, JaAt, JmpAt
<1>2. Plain(Word0) /\ Word0.seq = "NEXT" /\ Word0.mem # "IO"
  BY <1>1 DEF AddressWord, Plain
<1>3. /\ UNCHANGED <<ac, ix, l, sp, m, i, pc, msk, arch, ir, pgl, prog, req, irqDev>>
      /\ upc'.at = upc.at /\ upc'.n = upc.n + 1
  BY <1>1, <1>2, PlainStep, InnerNext
<1>4. upc.n = 1 \/ upc.n = 2
  BY <1>1 DEF LastOf
<1>5. upc.n = 1 => ar' = ir.addr
  BY <1>1, <1>2, PlainStep, Sums, Pointers DEF AddressWord
<1>6. upc.n = 2 => di' = arch.m[ir.addr]
  BY <1>1, <1>2, PlainStep, Pointers DEF AddressWord, Mode2
<1>7. Mode2'
  BY <1>3, <1>4, <1>5, <1>6 DEF Mode2
<1> QED BY <1>3, <1>7

(* The operand address of the accumulator opcodes, and DO with it.         *)
LEMMA EaStep ==
  ASSUME TypeInv, Stage, Cycle, upc.at \in EaAt
  PROVE  Stage'
<1>1. AtEa
  BY DEF Stage
<1>2. ir.op \in AluOps \cup {"DAC", "SAD"} /\ Started /\ Mode2 /\ m = arch.m
  BY <1>1 DEF AtEa, Started, Still
<1>3. AddressWord(upc.at, upc.n) /\ Word0 = Microprogram[upc.at][upc.n] /\ ~Fetching
  <2>1. upc.n \in 1 .. Len(Microprogram[upc.at])
    <3>1. Len(Microprogram[upc.at]) \in Nat
      BY Places DEF TypeInv, MicroTypeOK
    <3> QED BY <3>1 DEF TypeInv, MicroTypeOK
  <2> QED BY <2>1, EaAddressWords DEF Word0, Fetching, Fetches, EaAt
<1>4. CASE upc.n < LastOf(upc.at)
  <2>1. /\ UNCHANGED <<ac, ix, l, sp, m, i, pc, arch, ir, pgl, prog>>
        /\ upc'.at = upc.at /\ Mode2'
    BY <1>2, <1>4, PointerStep
  <2>2. AtEa'
    BY <1>2, <2>1, Stays DEF AtEa
  <2> QED BY <2>1, <2>2 DEF Stage, EaAt, JaAt, JmpAt, CalAt
<1>5. CASE upc.n = LastOf(upc.at)
  <2>1. Forms(upc.at, Word0) /\ Plain(Word0) /\ Word0.seq = "MAP2" /\ Word0.dosrc = "FROMIR"
        /\ Word0.mem = "IDLE"
    BY <1>3, <1>5 DEF AddressWord, Forms
  <2>2. /\ UNCHANGED <<ac, ix, l, sp, m, i, pc, arch, ir, pgl, prog>>
        /\ upc'.at = Map2(ir) /\ upc'.n = 1 /\ do' = RegOfIr
    BY <1>3, <2>1, PlainStep, InnerNext
  <2>3. ar' = ISA!Ea(ir)
    <3>1. ix = arch.ix /\ upc.at # "JMP_PG"
      BY <1>2 DEF Started, Kept, EaAt
    <3> QED BY <1>2, <1>3, <1>5, <2>1, <3>1, Formed, PlainStep
  <2>4. RegOfIr = ISA!Reg(ir.r)
    BY <1>2 DEF Started, Kept, RegOfIr, ISA!Reg
  <2>5. /\ Started' /\ ar' = ISA!Ea(ir)' /\ do' = ISA!Reg(ir.r)' /\ ir' = ir
    BY <1>2, <2>2, <2>3, <2>4, Stays, Frozen
  <2>6. CASE ir.op = "DAC"
    <3>1. upc'.at = "OP_DAC" /\ AtDeposit'
      BY <2>2, <2>5, <2>6 DEF Map2, AtDeposit
    <3> QED BY <2>2, <3>1 DEF Stage, EaAt, JaAt, JmpAt, CalAt
  <2>7. CASE ir.op = "SAD"
    <3>1. upc'.at = "OP_SAD" /\ AtCompare'
      BY <2>2, <2>5, <2>7 DEF Map2, AtCompare
    <3> QED BY <2>2, <3>1 DEF Stage, EaAt, JaAt, JmpAt, CalAt
  <2>8. CASE ir.op \in AluOps
    <3>1. upc'.at = "OP_RD" /\ AtRead'
      BY <2>2, <2>5, <2>8 DEF Map2, AtRead, AluOps
    <3> QED BY <2>2, <3>1 DEF Stage, EaAt, JaAt, JmpAt, CalAt
  <2> QED BY <1>2, <2>6, <2>7, <2>8
<1>6. upc.n < LastOf(upc.at) \/ upc.n = LastOf(upc.at)
  BY <1>3 DEF AddressWord, LastOf, TypeInv, MicroTypeOK
<1> QED BY <1>4, <1>5, <1>6

(* The operand address of ISZ and DSZ.                                     *)
LEMMA JaStep ==
  ASSUME TypeInv, Stage, Cycle, upc.at \in JaAt
  PROVE  Stage'
<1>1. AtJa
  BY DEF Stage, EaAt, JaAt
<1>2. ir.op \in {"ISZ", "DSZ"} /\ Started /\ Mode2 /\ m = arch.m
  BY <1>1 DEF AtJa, Started, Still
<1>3. AddressWord(upc.at, upc.n) /\ Word0 = Microprogram[upc.at][upc.n] /\ ~Fetching
  <2>1. upc.n \in 1 .. Len(Microprogram[upc.at])
    <3>1. Len(Microprogram[upc.at]) \in Nat
      BY Places DEF TypeInv, MicroTypeOK
    <3> QED BY <3>1 DEF TypeInv, MicroTypeOK
  <2> QED BY <2>1, JaAddressWords DEF Word0, Fetching, Fetches, JaAt
<1>4. CASE upc.n < LastOf(upc.at)
  <2>1. /\ UNCHANGED <<ac, ix, l, sp, m, i, pc, arch, ir, pgl, prog>>
        /\ upc'.at = upc.at /\ Mode2'
    BY <1>2, <1>4, PointerStep
  <2>2. AtJa'
    BY <1>2, <2>1, Stays DEF AtJa
  <2> QED BY <2>1, <2>2 DEF Stage, EaAt, JaAt, JmpAt, CalAt
<1>5. CASE upc.n = LastOf(upc.at)
  <2>1. Forms(upc.at, Word0) /\ Plain(Word0) /\ Word0.seq = "MAP2" /\ Word0.mem = "IDLE"
    BY <1>3, <1>5 DEF AddressWord, Forms
  <2>2. /\ UNCHANGED <<ac, ix, l, sp, m, i, pc, arch, ir, pgl, prog>>
        /\ upc'.at = "OP_ISZ" /\ upc'.n = 1
    <3>1. Map2(ir) = "OP_ISZ"
      BY <1>2 DEF Map2
    <3> QED BY <1>3, <2>1, <3>1, PlainStep, InnerNext
  <2>3. ar' = ISA!Ea(ir)
    <3>1. ix = arch.ix /\ upc.at # "JMP_PG"
      BY <1>2 DEF Started, Kept, JaAt
    <3> QED BY <1>2, <1>3, <1>5, <2>1, <3>1, Formed, PlainStep
  <2>4. /\ Started' /\ ar' = ISA!Ea(ir)' /\ ir' = ir
    BY <1>2, <2>2, <2>3, Stays, Frozen
  <2>5. AtCount'
    BY <1>2, <2>2, <2>4 DEF AtCount
  <2> QED BY <2>2, <2>5 DEF Stage, EaAt, JaAt, JmpAt, CalAt
<1>6. upc.n < LastOf(upc.at) \/ upc.n = LastOf(upc.at)
  BY <1>3 DEF AddressWord, LastOf, TypeInv, MicroTypeOK
<1> QED BY <1>4, <1>5, <1>6

(* The words that load PC from AR's mux and go to the fetch.               *)
LEMMA JumpStep ==
  ASSUME TypeInv, Cycle, ~Fetching,
         Word0.mem = "IDLE", Word0.rdst = "PC", Word0.lctl = "HOLD", Word0.ictl = "IHOLD",
         Word0.spup = FALSE, Word0.alu # "G1", Word0.seq = "JUMP", Word0.na = "FETCH"
  PROVE  /\ UNCHANGED <<ac, ix, l, sp, m, i, arch, ir, pgl, prog, req, irqDev>>
         /\ Word0.arsrc = "ALU" => pc' = AluOut.r % AddrMod
         /\ Word0.arsrc = "DI" => pc' = di % AddrMod
         /\ Word0.arsrc = "PAGE" => pc' = pgl * PageSize + ir.addr
         /\ upc'.at = "FETCH"
<1>1. /\ UNCHANGED <<arch, ir, pgl, prog, req, irqDev>> /\ ~IrqNow /\ ~IoSkip
  BY Inner
<1>2. Dst = "PC" /\ ~TakesSkip(Word0)
  BY DEF Dst, TakesSkip
<1>3. ac' = ac /\ ix' = ix /\ sp' = sp
  BY <1>2 DEF Cycle, Registers
<1>4. l' = l /\ i' = i
  BY DEF Cycle, Flags
<1>5. m' = m /\ di' = di
  BY DEF Cycle, Memory
<1>6. upc'.at = "FETCH"
  BY InnerNext
<1>7. /\ Word0.arsrc = "ALU" => pc' = AluOut.r % AddrMod
      /\ Word0.arsrc = "DI" => pc' = di % AddrMod
  BY <1>1, <1>2, <1>5 DEF Cycle, Addresses
<1>8. Word0.arsrc = "PAGE" => pc' = pgl * PageSize + ir.addr
  BY <1>1, <1>2 DEF Cycle, Addresses
<1> QED BY <1>1, <1>3, <1>4, <1>5, <1>6, <1>7, <1>8

(* Pushing a word leaves every pointer alone.                              *)
LEMMA BelowStack ==
  ASSUME TypeInv, NEW ret, After1(Return(ret))
  PROVE  \A a \in Page : m[a] = arch.m[a]
<1>1. arch.sp \in SpVals /\ arch.m \in [Addr -> Word]
  BY DEF TypeInv, MicroTypeOK
<1>2. m = [arch.m EXCEPT ![StackAddr(SpDec(arch.sp))] = ISA!LinkWord(ret)]
  BY SameWords DEF After1, Return, ISA!PushWord, ISA!Stack
<1>3. \A a \in Page : a # StackAddr(SpDec(arch.sp)) /\ a \in Addr
  <2>1. SpDec(arch.sp) \in SpVals
    BY <1>1, StepSp
  <2> QED BY <2>1, StepSp, Sizes
<1> QED BY <1>1, <1>2, <1>3

(* The target of a jump, and of a call once it has pushed.                 *)
LEMMA JmpStep ==
  ASSUME TypeInv, Stage, Cycle, upc.at \in JmpAt
  PROVE  Stage'
<1>1. AtJmp
  BY DEF Stage, EaAt, JaAt, JmpAt
<1>2. /\ ir.op \in {"JMP", "CAL"} /\ Current /\ Kept /\ i = arch.i /\ Next1 /\ Mode2
      /\ \/ ir.op = "JMP" /\ Still
         \/ ir.op = "CAL" /\ After1(Return(ISA!After(FALSE)))
  BY <1>1 DEF AtJmp
<1>3. AddressWord(upc.at, upc.n) /\ Word0 = Microprogram[upc.at][upc.n] /\ ~Fetching
  <2>1. upc.n \in 1 .. Len(Microprogram[upc.at])
    <3>1. Len(Microprogram[upc.at]) \in Nat
      BY Places DEF TypeInv, MicroTypeOK
    <3> QED BY <3>1 DEF TypeInv, MicroTypeOK
  <2> QED BY <2>1, JmpAddressWords DEF Word0, Fetching, Fetches, JmpAt
<1>4. CASE upc.n < LastOf(upc.at)
  <2>1. \A a \in Page : m[a] = arch.m[a]
    BY <1>2, BelowStack DEF Still
  <2>2. /\ UNCHANGED <<ac, ix, l, sp, m, i, pc, arch, ir, pgl, prog>>
        /\ upc'.at = upc.at /\ Mode2'
    BY <1>2, <1>4, <2>1, PointerStep
  <2>3. AtJmp'
    <3>1. After1(Return(ISA!After(FALSE)))' = After1(Return(ISA!After(FALSE)))
      BY <2>2, Frozen DEF After1
    <3> QED BY <1>2, <2>2, <3>1, Stays DEF AtJmp
  <2> QED BY <2>2, <2>3 DEF Stage, EaAt, JaAt, JmpAt, CalAt
<1>5. CASE upc.n = LastOf(upc.at)
  <2>1. /\ Forms(upc.at, Word0) /\ Word0.rdst = "PC" /\ Word0.seq = "JUMP" /\ Word0.na = "FETCH"
        /\ Word0.mem = "IDLE" /\ Word0.lctl = "HOLD" /\ Word0.ictl = "IHOLD"
        /\ Word0.spup = FALSE /\ Word0.alu # "G1"
    BY <1>3, <1>5 DEF AddressWord, Forms, JmpAt, Direct, Indexed, Deferred, Both
  <2>2. /\ UNCHANGED <<ac, ix, l, sp, m, i, arch, ir, pgl, prog>> /\ upc'.at = "FETCH"
    BY <1>3, <2>1, JumpStep
  <2>3. pc' = ISA!Target(ir)
    <3>1. CASE upc.at = "JMP_PG"
      <4>1. pc' = pgl * PageSize + ir.addr
        BY <1>3, <2>1, <3>1, JumpStep DEF Forms
      <4>2. ~ir.ind /\ ~ir.idx
        BY <1>2, <3>1 DEF Mode2
      <4>3. pgl * PageSize = arch.pc - (arch.pc % PageSize)
        <5>1. arch.pc \in Addr
          BY DEF TypeInv, MicroTypeOK
        <5> QED BY <1>2, <5>1, PageFits DEF Current
      <4> QED BY <4>1, <4>2, <4>3, EaIs
    <3>2. CASE upc.at # "JMP_PG"
      <4>1. pc' = ISA!Ea(ir)
        <5>1. ix = arch.ix
          BY <1>2 DEF Kept
        <5> QED BY <1>2, <1>3, <1>5, <2>1, <3>2, <5>1, Formed, JumpStep
      <4>2. ir.ind \/ ir.idx
        BY <1>2, <3>2 DEF Mode2, JmpAt
      <4> QED BY <4>1, <4>2, EaIs
    <3> QED BY <3>1, <3>2
  <2>4. Ran'
    <3>1. ir' = prog'[arch'.pc] /\ Kept' /\ i' = arch'.i /\ pc' = ISA!Target(ir)'
      BY <1>2, <2>2, <2>3, Frozen DEF Current, Kept
    <3>2. CASE ir.op = "JMP" /\ Still
      <4>1. Still'
        BY <2>2, <3>2 DEF Still
      <4> QED BY <2>2, <3>1, <3>2, <4>1 DEF Ran
    <3>3. CASE ir.op = "CAL" /\ After1(Return(ISA!After(FALSE)))
      <4>1. After1(Return(ISA!After(FALSE)))'
        BY <2>2, <3>3, Frozen DEF After1
      <4> QED BY <2>2, <3>1, <3>3, <4>1 DEF Ran
    <3> QED BY <1>2, <3>2, <3>3
  <2> QED BY <2>2, <2>4 DEF Stage, AtFetch, EaAt, JaAt, JmpAt, CalAt
<1>6. upc.n < LastOf(upc.at) \/ upc.n = LastOf(upc.at)
  BY <1>3 DEF AddressWord, LastOf, TypeInv, MicroTypeOK
<1> QED BY <1>4, <1>5, <1>6

(* Two steps of PC, and one taken back.                                    *)
LEMMA NextNext ==
  ASSUME TypeInv
  PROVE  /\ Plus(Plus(arch.pc, 1), 1) = Plus(arch.pc, 2)
         /\ Plus(Plus(pc, 1), AddrMod - 1) = pc
         /\ Plus(Plus(arch.pc, 1), AddrMod - 1) = arch.pc
<1>1. ASSUME NEW a \in Addr
      PROVE  Plus(Plus(a, 1), 1) = Plus(a, 2) /\ Plus(Plus(a, 1), AddrMod - 1) = a
  <2>1. a \in Nat /\ a < AddrMod /\ AddrMod \in Nat /\ AddrMod >= 12 /\ 0 \in 0 .. AddrMod - 1
        /\ 1 \in 0 .. AddrMod - 1 /\ AddrMod \in Nat \ {0}
    BY SizeAssumption DEF Addr
  <2>2. CASE a + 2 < AddrMod
    <3>1. a + 1 \in 0 .. AddrMod - 1 /\ a + 2 \in 0 .. AddrMod - 1 /\ a \in 0 .. AddrMod - 1
      BY <2>1, <2>2
    <3>2. Plus(a, 1) = a + 1 /\ (a + 2) % AddrMod = a + 2 /\ (AddrMod + a) % AddrMod = a
      BY <2>1, <3>1, Small DEF Plus
    <3>3. (a + 1) + 1 = a + 2 /\ (a + 1) + (AddrMod - 1) = AddrMod + a
      BY <2>1
    <3> QED BY <3>2, <3>3 DEF Plus
  <2>3. CASE a + 2 = AddrMod
    <3>1. a + 1 \in 0 .. AddrMod - 1 /\ a \in 0 .. AddrMod - 1
      BY <2>1, <2>3
    <3>2. Plus(a, 1) = a + 1 /\ (AddrMod + a) % AddrMod = a
      BY <2>1, <3>1, Small DEF Plus
    <3>3. (a + 1) + 1 = a + 2 /\ (a + 1) + (AddrMod - 1) = AddrMod + a
      BY <2>1
    <3> QED BY <3>2, <3>3 DEF Plus
  <2>4. CASE a + 1 = AddrMod
    <3>1. Plus(a, 1) = 0
      <4>1. (AddrMod + 0) % AddrMod = 0
        BY <2>1, Small
      <4> QED BY <2>1, <2>4, <4>1 DEF Plus
    <3>2. (AddrMod + 1) % AddrMod = 1 /\ 1 % AddrMod = 1 /\ (AddrMod - 1) % AddrMod = AddrMod - 1
      <4>1. AddrMod - 1 \in 0 .. AddrMod - 1
        BY <2>1
      <4> QED BY <2>1, <4>1, Small
    <3>3. a + 2 = AddrMod + 1 /\ 0 + (AddrMod - 1) = AddrMod - 1 /\ 0 + 1 = 1 /\ a = AddrMod - 1
      BY <2>1, <2>4
    <3>4. Plus(0, 1) = Plus(a, 2) /\ Plus(0, AddrMod - 1) = a
      BY <3>2, <3>3 DEF Plus
    <3> QED BY <3>1, <3>4
  <2> QED BY <2>1, <2>2, <2>3, <2>4
<1> QED BY <1>1 DEF TypeInv, MicroTypeOK

-----------------------------------------------------------------------------
(* The bodies.                                                             *)

(* OP_RD reads the operand, and the fetch after it finishes the opcode.    *)
LEMMA ReadStep ==
  ASSUME TypeInv, Stage, Cycle, upc.at = "OP_RD"
  PROVE  Stage'
<1>1. Word0 = [Read EXCEPT !.arsrc = "PC", !.seq = "JUMP", !.na = "FETCH_A"] /\ ~Fetching
  <2>1. upc.n = 1
    BY OpTable DEF TypeInv, MicroTypeOK
  <2> QED BY <2>1, OpTable DEF Word0, Fetching, Fetches
<1>2. Plain(Word0) /\ Word0.mem = "RD" /\ Word0.seq = "JUMP" /\ Word0.na = "FETCH_A"
  BY <1>1 DEF Plain, Read, Idle
<1>3. /\ UNCHANGED <<ac, ix, l, sp, m, i, pc, arch, ir, pgl, prog>> /\ di' = m[ar]
      /\ upc'.at = "FETCH_A"
  BY <1>1, <1>2, PlainStep, InnerNext
<1>4. AtRead
  BY DEF Stage, EaAt, JaAt, JmpAt, CalAt
<1>5. AtFetchA'
  BY <1>3, <1>4, Stays, Frozen DEF AtRead, AtFetchA, Started, Still
<1> QED BY <1>3, <1>5 DEF Stage, EaAt, JaAt, JmpAt, CalAt

(* A word that writes DO where AR says and loads no register.              *)
LEMMA WriteStep ==
  ASSUME TypeInv, Cycle, ~Fetching,
         Word0.mem = "WR", Word0.rdst = "NONE", Word0.lctl = "HOLD",
         Word0.spup = FALSE, Word0.alu # "G1", Word0.arsrc \in {"HOLD", "PC"},
         Word0.seq # "SKIPC"
  PROVE  /\ UNCHANGED <<ac, ix, l, sp, pc, di, arch, ir, pgl, prog, req, irqDev>>
         /\ m' = [m EXCEPT ![ar] = do]
         /\ Word0.ictl = "IHOLD" => i' = i
         /\ Word0.ictl = "IFROMIR" => i' = IF ir.ifield = "HOLD" THEN i ELSE ir.ifield = "EI"
         /\ Word0.dosrc = "HOLD" => do' = do
         /\ Word0.arsrc = "HOLD" => ar' = ar
<1>1. /\ UNCHANGED <<arch, ir, pgl, prog, req, irqDev>> /\ ~IrqNow /\ ~IoSkip
  BY Inner
<1>2. Dst = "NONE" /\ ~TakesSkip(Word0)
  BY DEF Dst, TakesSkip
<1>3. ac' = ac /\ ix' = ix /\ sp' = sp
  BY <1>2 DEF Cycle, Registers
<1>4. l' = l
  BY DEF Cycle, Flags
<1>5. Word0.ictl = "IHOLD" => i' = i
  BY DEF Cycle, Flags
<1>6. Word0.ictl = "IFROMIR" => i' = IF ir.ifield = "HOLD" THEN i ELSE ir.ifield = "EI"
  BY DEF Cycle, Flags
<1>7. m' = [m EXCEPT ![ar] = do] /\ di' = di
  BY DEF Cycle, Memory
<1>8. pc' = pc /\ (Word0.arsrc = "HOLD" => ar' = ar)
  BY <1>1, <1>2 DEF Cycle, Addresses
<1>9. Word0.dosrc = "HOLD" => do' = do
  BY DEF Cycle, DataOut
<1> QED BY <1>1, <1>3, <1>4, <1>5, <1>6, <1>7, <1>8, <1>9

(* OP_DAC writes DO at the operand's address.                              *)
LEMMA DepositStep ==
  ASSUME TypeInv, Stage, Cycle, upc.at = "OP_DAC"
  PROVE  Stage'
<1>1. Word0 = [ToFetch EXCEPT !.mem = "WR", !.arsrc = "PC"] /\ ~Fetching
  <2>1. upc.n = 1
    BY OpTable DEF TypeInv, MicroTypeOK
  <2> QED BY <2>1, OpTable DEF Word0, Fetching, Fetches
<1>2. /\ Word0.mem = "WR" /\ Word0.rdst = "NONE" /\ Word0.lctl = "HOLD" /\ Word0.ictl = "IHOLD"
      /\ Word0.spup = FALSE /\ Word0.alu # "G1" /\ Word0.arsrc = "PC"
      /\ Word0.seq = "JUMP" /\ Word0.na = "FETCH"
  BY <1>1 DEF ToFetch, Idle
<1>3. /\ UNCHANGED <<ac, ix, l, sp, i, pc, arch, ir, pgl, prog>> /\ m' = [m EXCEPT ![ar] = do]
      /\ upc'.at = "FETCH"
  BY <1>1, <1>2, WriteStep, InnerNext
<1>4. AtDeposit
  BY DEF Stage, EaAt, JaAt, JmpAt, CalAt
<1>5. /\ Current' /\ Kept' /\ Next1' /\ i' = arch'.i /\ sp' = arch'.sp /\ ir'.op = "DAC"
  BY <1>3, <1>4, Stays DEF AtDeposit, Started, Still
<1>6. m' = [arch'.m EXCEPT ![ISA!Ea(ir)'] = ISA!Reg(ir.r)']
  BY <1>3, <1>4, Frozen DEF AtDeposit, Started, Still
<1>7. Ran'
  BY <1>5, <1>6 DEF Ran, Current
<1> QED BY <1>3, <1>7 DEF Stage, AtFetch, EaAt, JaAt, JmpAt, CalAt

(* SAD reads, then compares: AR and PC skip together.                      *)
LEMMA CompareStep ==
  ASSUME TypeInv, Stage, Cycle, upc.at = "OP_SAD"
  PROVE  Stage'
<1>1. AtCompare
  BY DEF Stage, EaAt, JaAt, JmpAt, CalAt
<1>2. (upc.n = 1 \/ upc.n = 2) /\ ~Fetching
  <2>1. Len(Microprogram["OP_SAD"]) = 2
    BY OpTable
  <2> QED BY <2>1 DEF TypeInv, MicroTypeOK, Fetching, Fetches
<1>3. CASE upc.n = 1
  <2>1. Word0 = Read
    BY <1>3, OpTable DEF Word0
  <2>2. Plain(Word0) /\ Word0.mem = "RD" /\ Word0.seq = "NEXT"
    BY <2>1 DEF Plain, Read, Idle
  <2>3. /\ UNCHANGED <<ac, ix, l, sp, m, i, pc, arch, ir, pgl, prog>> /\ di' = m[ar]
        /\ upc'.at = "OP_SAD" /\ upc'.n = 2
    BY <1>2, <1>3, <2>2, PlainStep, InnerNext
  <2>4. AtCompare'
    BY <1>1, <1>3, <2>3, Stays, Frozen DEF AtCompare, Started, Still
  <2> QED BY <2>3, <2>4 DEF Stage, EaAt, JaAt, JmpAt, CalAt
<1>4. CASE upc.n = 2
  <2>1. Word0 = [Idle EXCEPT !.arsrc = "PC", !.seq = "SKIPC", !.cc = "NZ"]
    BY <1>4, OpTable DEF Word0
  <2>2. /\ Word0.mem = "IDLE" /\ Word0.rdst = "NONE" /\ Word0.lctl = "HOLD" /\ Word0.ictl = "IHOLD"
        /\ Word0.spup = FALSE /\ Word0.alu # "G1" /\ Word0.arsrc = "PC"
        /\ Word0.seq = "SKIPC" /\ Word0.cc = "NZ"
    BY <2>1 DEF Idle
  <2>3. /\ UNCHANGED <<arch, ir, pgl, prog>> /\ ~IrqNow /\ ~IoSkip /\ upc'.at = "FETCH"
    BY <1>2, <2>2, Inner, InnerNext
  <2>4. UNCHANGED <<ac, ix, l, sp, m, i>>
    <3>1. Dst = "NONE"
      BY <2>2 DEF Dst
    <3>2. ac' = ac /\ ix' = ix /\ sp' = sp
      BY <2>2, <3>1 DEF Cycle, Registers
    <3>3. l' = l /\ i' = i
      BY <2>2 DEF Cycle, Flags
    <3>4. m' = m
      BY <2>2 DEF Cycle, Memory
    <3> QED BY <3>2, <3>3, <3>4
  <2>5. pc' = IF RegOfIr # di THEN Plus(pc, 1) ELSE pc
    <3>1. TakesSkip(Word0) <=> RegOfIr # di
      BY <2>2 DEF TakesSkip, Cond
    <3>2. Dst = "NONE"
      BY <2>2 DEF Dst
    <3> QED BY <2>2, <2>3, <3>1, <3>2 DEF Cycle, Addresses
  <2>6. pc' = ISA!After(arch.m[ISA!Ea(ir)] # ISA!Reg(ir.r))
    <3>1. RegOfIr = ISA!Reg(ir.r) /\ di = arch.m[ISA!Ea(ir)] /\ pc = ISA!After(FALSE)
      BY <1>1, <1>4 DEF AtCompare, Started, Kept, Next1, RegOfIr, ISA!Reg
    <3>2. Plus(Plus(arch.pc, 1), 1) = Plus(arch.pc, 2)
      BY NextNext
    <3>3. CASE RegOfIr # di
      BY <2>5, <3>1, <3>2, <3>3, EaIs DEF ISA!After
    <3>4. CASE RegOfIr = di
      BY <2>5, <3>1, <3>4, EaIs DEF ISA!After
    <3> QED BY <3>3, <3>4
  <2>7. ISA!After(arch.m[ISA!Ea(ir)] # ISA!Reg(ir.r))'
          = ISA!After(arch.m[ISA!Ea(ir)] # ISA!Reg(ir.r))
    BY <2>3, Frozen DEF ISA!After, ISA!Plus
  <2>8. Ran'
    BY <1>1, <2>3, <2>4, <2>6, <2>7 DEF AtCompare, Started, Current, Kept, Still, Ran
  <2> QED BY <2>3, <2>8 DEF Stage, AtFetch, EaAt, JaAt, JmpAt, CalAt
<1> QED BY <1>2, <1>3, <1>4

(* ISZ and DSZ read, step, write, and go through one more word to skip.    *)
LEMMA CountStep ==
  ASSUME TypeInv, Stage, Cycle, upc.at = "OP_ISZ"
  PROVE  Stage'
<1>1. AtCount
  BY DEF Stage, EaAt, JaAt, JmpAt, CalAt
<1>2. (upc.n = 1 \/ upc.n = 2 \/ upc.n = 3 \/ upc.n = 4) /\ ~Fetching
  <2>1. Len(Microprogram["OP_ISZ"]) = 4
    BY OpTable
  <2> QED BY <2>1 DEF TypeInv, MicroTypeOK, Fetching, Fetches
<1>3. CASE upc.n = 1
  <2>1. Word0 = Read
    BY <1>3, OpTable DEF Word0
  <2>2. Plain(Word0) /\ Word0.mem = "RD" /\ Word0.seq = "NEXT" /\ Word0.arsrc = "HOLD"
    BY <2>1 DEF Plain, Read, Idle
  <2>3. /\ UNCHANGED <<ac, ix, l, sp, m, i, pc, arch, ir, pgl, prog>> /\ di' = m[ar] /\ ar' = ar
        /\ upc'.at = "OP_ISZ" /\ upc'.n = 2
    BY <1>2, <1>3, <2>2, PlainStep, InnerNext
  <2>4. AtCount'
    BY <1>1, <1>3, <2>3, Stays, Frozen DEF AtCount, Started, Still
  <2> QED BY <2>3, <2>4 DEF Stage, EaAt, JaAt, JmpAt, CalAt
<1>4. CASE upc.n = 2
  <2>1. Word0 = [Idle EXCEPT !.alu = "FROMIR", !.dosrc = "ALU"]
    BY <1>4, OpTable DEF Word0
  <2>2. /\ Plain(Word0) /\ Word0.mem = "IDLE" /\ Word0.seq = "NEXT" /\ Word0.arsrc = "HOLD"
        /\ Word0.dosrc = "ALU" /\ Word0.alu = "FROMIR" /\ Word0.asrc = "NONE" /\ Word0.bsrc = "DI"
    BY <2>1 DEF Plain, Idle
  <2>3. /\ UNCHANGED <<ac, ix, l, sp, m, i, pc, arch, ir, pgl, prog>> /\ do' = AluOut.r /\ ar' = ar
        /\ upc'.at = "OP_ISZ" /\ upc'.n = 3
    BY <1>2, <1>4, <2>2, PlainStep, InnerNext
  <2>4. AluOut.r = Stepped
    <3>1. BusA = 0 /\ BusB = di /\ di \in Nat /\ di = arch.m[ISA!Ea(ir)]
      BY <1>1, <1>4, <2>2 DEF BusA, BusB, TypeInv, MicroTypeOK, Word, AtCount
    <3>2. CASE ir.op = "ISZ"
      <4>1. AluOut.r = (0 + di + 1) % WordMod /\ 0 + di + 1 = di + 1
        BY <2>2, <3>1, <3>2 DEF AluOut
      <4> QED BY <3>1, <3>2, <4>1 DEF Stepped
    <3>3. CASE ir.op = "DSZ"
      <4>1. AluOut.r = (di + WordMod - 1) % WordMod /\ di + WordMod - 1 = di + (WordMod - 1)
        BY <2>2, <3>1, <3>3, Sizes DEF AluOut
      <4> QED BY <3>1, <3>3, <4>1 DEF Stepped
    <3> QED BY <1>1, <3>2, <3>3 DEF AtCount
  <2>5. AtCount'
    BY <1>1, <1>4, <2>3, <2>4, Stays, Frozen DEF AtCount
  <2> QED BY <2>3, <2>5 DEF Stage, EaAt, JaAt, JmpAt, CalAt
<1>5. CASE upc.n = 3
  <2>1. Word0 = [Write EXCEPT !.seq = "BRANCH", !.cc = "Z", !.na = "SKIP"]
    BY <1>5, OpTable DEF Word0
  <2>2. /\ Word0.mem = "WR" /\ Word0.rdst = "NONE" /\ Word0.lctl = "HOLD" /\ Word0.ictl = "IHOLD"
        /\ Word0.spup = FALSE /\ Word0.alu # "G1" /\ Word0.arsrc = "HOLD" /\ Word0.dosrc = "HOLD"
        /\ Word0.seq = "BRANCH" /\ Word0.na = "SKIP" /\ Word0.cc = "Z"
    BY <2>1 DEF Write, Idle
  <2>3. /\ UNCHANGED <<ac, ix, l, sp, i, pc, arch, ir, pgl, prog>> /\ m' = [m EXCEPT ![ar] = do]
        /\ IF do = 0 THEN upc'.at = "SKIP" ELSE upc'.at = "OP_ISZ" /\ upc'.n = 4
    <3>1. Cond(Word0.cc) <=> do = 0
      BY <2>2 DEF Cond
    <3>2. UNCHANGED <<ac, ix, l, sp, i, pc, arch, ir, pgl, prog>> /\ m' = [m EXCEPT ![ar] = do]
      BY <1>2, <2>2, WriteStep
    <3>3. IF do = 0 THEN upc'.at = "SKIP" ELSE upc'.at = "OP_ISZ" /\ upc'.n = 4
      BY <1>2, <1>5, <2>2, <3>1, InnerNext
    <3> QED BY <3>2, <3>3
  <2>4. Counted' /\ ir'.op \in {"ISZ", "DSZ"} /\ Stepped' = Stepped
    <3>1. Started /\ ar = ISA!Ea(ir) /\ do = Stepped /\ ir.op \in {"ISZ", "DSZ"}
      BY <1>1, <1>5 DEF AtCount
    <3>2. Current' /\ Kept' /\ i' = arch'.i /\ Next1' /\ sp' = arch'.sp
      BY <2>3, <3>1, Stays DEF Started, Still
    <3>3. m' = [arch'.m EXCEPT ![ISA!Ea(ir)'] = Stepped']
      BY <2>3, <3>1, Frozen DEF Started, Still
    <3> QED BY <2>3, <3>1, <3>2, <3>3, Frozen DEF Counted
  <2>5. do = Stepped
    BY <1>1, <1>5 DEF AtCount
  <2>6. CASE do = 0
    <3>1. upc'.at = "SKIP" /\ AtSkip'
      BY <2>3, <2>4, <2>5, <2>6 DEF AtSkip
    <3> QED BY <3>1 DEF Stage, EaAt, JaAt, JmpAt, CalAt
  <2>7. CASE do # 0
    <3>1. upc'.at = "OP_ISZ" /\ AtCount'
      BY <2>3, <2>4, <2>5, <2>7 DEF AtCount
    <3> QED BY <3>1 DEF Stage, EaAt, JaAt, JmpAt, CalAt
  <2> QED BY <2>6, <2>7
<1>6. CASE upc.n = 4
  <2>1. Word0 = [ToFetch EXCEPT !.arsrc = "PC"]
    BY <1>6, OpTable DEF Word0
  <2>2. Plain(Word0) /\ Word0.mem = "IDLE" /\ Word0.seq = "JUMP" /\ Word0.na = "FETCH"
    BY <2>1 DEF Plain, ToFetch, Idle
  <2>3. /\ UNCHANGED <<ac, ix, l, sp, m, i, pc, arch, ir, pgl, prog>> /\ upc'.at = "FETCH"
    BY <1>2, <2>2, PlainStep, InnerNext
  <2>4. Counted /\ Stepped # 0 /\ ir.op \in {"ISZ", "DSZ"}
    BY <1>1, <1>6 DEF AtCount
  <2>5. Ran'
    <3>1. pc' = ISA!After(Stepped = 0)'
      <4>1. ISA!After(Stepped = 0)' = Plus(arch.pc, 1)
        BY <2>3, <2>4, Frozen, SameWords DEF ISA!After, ISA!Plus, Plus
      <4> QED BY <2>3, <2>4, <4>1, EaIs DEF Counted, Next1
    <3>2. m' = [arch'.m EXCEPT ![ISA!Ea(ir)'] = Stepped'] /\ sp' = arch'.sp /\ i' = arch'.i
      BY <2>3, <2>4, Frozen DEF Counted
    <3>3. ir' = prog'[arch'.pc] /\ Kept'
      BY <2>3, <2>4 DEF Counted, Current, Kept
    <3> QED BY <2>3, <2>4, <3>1, <3>2, <3>3 DEF Ran
  <2> QED BY <2>3, <2>5 DEF Stage, AtFetch, EaAt, JaAt, JmpAt, CalAt
<1> QED BY <1>2, <1>3, <1>4, <1>5, <1>6

(* SKIP passes over a word.                                                *)
LEMMA SkipStep ==
  ASSUME TypeInv, Stage, Cycle, upc.at = "SKIP"
  PROVE  Stage'
<1>1. AtSkip
  BY DEF Stage, EaAt, JaAt, JmpAt, CalAt
<1>2. Word0 = [ToFetch EXCEPT !.arsrc = "PCNEXT"] /\ ~Fetching
  <2>1. upc.n = 1
    BY OpTable DEF TypeInv, MicroTypeOK
  <2> QED BY <2>1, OpTable DEF Word0, Fetching, Fetches
<1>3. /\ Word0.mem = "IDLE" /\ Word0.rdst = "NONE" /\ Word0.lctl = "HOLD" /\ Word0.ictl = "IHOLD"
      /\ Word0.spup = FALSE /\ Word0.alu # "G1" /\ Word0.arsrc = "PCNEXT"
      /\ Word0.seq = "JUMP" /\ Word0.na = "FETCH"
  BY <1>2 DEF ToFetch, Idle
<1>4. /\ UNCHANGED <<arch, ir, pgl, prog>> /\ ~IrqNow /\ ~IoSkip /\ upc'.at = "FETCH"
  BY <1>2, <1>3, Inner, InnerNext
<1>5. Dst = "NONE" /\ ~TakesSkip(Word0)
  BY <1>3 DEF Dst, TakesSkip
<1>6. UNCHANGED <<ac, ix, l, sp, m, i>>
  <2>1. ac' = ac /\ ix' = ix /\ sp' = sp
    BY <1>3, <1>5 DEF Cycle, Registers
  <2>2. l' = l /\ i' = i
    BY <1>3 DEF Cycle, Flags
  <2>3. m' = m
    BY <1>3 DEF Cycle, Memory
  <2> QED BY <2>1, <2>2, <2>3
<1>7. pc' = Plus(pc, 1)
  BY <1>3, <1>4, <1>5 DEF Cycle, Addresses
<1>8. Ran'
  <2>1. pc' = ISA!After(Stepped = 0)'
    <3>1. ISA!After(Stepped = 0)' = Plus(arch.pc, 2)
      BY <1>1, <1>4, Frozen, SameWords DEF AtSkip, ISA!After, ISA!Plus, Plus
    <3>2. pc = Plus(arch.pc, 1)
      BY <1>1, EaIs DEF AtSkip, Counted, Next1
    <3> QED BY <1>7, <3>1, <3>2, NextNext
  <2>2. m' = [arch'.m EXCEPT ![ISA!Ea(ir)'] = Stepped'] /\ sp' = arch'.sp /\ i' = arch'.i
    BY <1>1, <1>4, <1>6, Frozen DEF AtSkip, Counted
  <2>3. ir' = prog'[arch'.pc] /\ Kept' /\ ir'.op \in {"ISZ", "DSZ"}
    BY <1>1, <1>4, <1>6 DEF AtSkip, Counted, Current, Kept
  <2> QED BY <2>1, <2>2, <2>3 DEF Ran
<1> QED BY <1>4, <1>8 DEF Stage, AtFetch, EaAt, JaAt, JmpAt, CalAt

-----------------------------------------------------------------------------

(* A word that steps SP down and puts its slot in AR and a word in DO.     *)
LEMMA DownStep ==
  ASSUME TypeInv, Cycle, ~Fetching,
         Word0.asrc = "SP", Word0.alu = "DEC", Word0.rdst = "SP", Word0.arsrc = "STACK",
         Word0.mem = "IDLE", Word0.lctl = "HOLD", Word0.spup = FALSE, Word0.seq = "NEXT"
  PROVE  /\ UNCHANGED <<ac, ix, l, m, pc, msk, arch, ir, pgl, prog, req, irqDev>>
         /\ sp' = SpDec(sp) /\ ar' = StackAddr(sp')
         /\ Word0.ictl = "IHOLD" => i' = i
         /\ Word0.ictl = "ICLR" => ~i'
         /\ Word0.dosrc = "LPC" => do' = l * AddrMod + pc
         /\ Word0.dosrc = "SP" => do' = sp
         /\ Word0.dosrc = "IX" => do' = ix
         /\ Word0.dosrc = "AC" => do' = ac
         /\ upc'.at = upc.at /\ upc'.n = upc.n + 1
<1>1. /\ UNCHANGED <<arch, ir, pgl, prog, req, irqDev>> /\ ~IrqNow /\ ~IoSkip
  BY Inner
<1>2. Dst = "SP" /\ ~TakesSkip(Word0)
  BY DEF Dst, TakesSkip
<1>3. SpField(AluOut.r) = SpDec(sp)
  <2>1. AluOut.r = (sp + WordMod - 1) % WordMod
    BY DEF AluOut, BusA
  <2>2. sp \in SpVals
    BY DEF TypeInv, MicroTypeOK
  <2> QED BY <2>1, <2>2, StepSp
<1>4. ac' = ac /\ ix' = ix /\ sp' = SpDec(sp)
  BY <1>2, <1>3 DEF Cycle, Registers
<1>5. l' = l /\ (Word0.ictl = "IHOLD" => i' = i) /\ (Word0.ictl = "ICLR" => ~i')
  BY DEF Cycle, Flags
<1>6. m' = m
  BY DEF Cycle, Memory
<1>7. pc' = pc /\ ar' = StackAddr(SpField(AluOut.r))
  BY <1>1, <1>2 DEF Cycle, Addresses
<1>8. /\ Word0.dosrc = "LPC" => do' = l * AddrMod + pc
      /\ Word0.dosrc = "SP" => do' = sp
      /\ Word0.dosrc = "IX" => do' = ix
      /\ Word0.dosrc = "AC" => do' = ac
  BY DEF Cycle, DataOut
<1>9. upc'.at = upc.at /\ upc'.n = upc.n + 1 /\ msk' = msk
  BY InnerNext
<1> QED BY <1>1, <1>3, <1>4, <1>5, <1>6, <1>7, <1>8, <1>9

(* The write after it is the push the instruction set speaks of.           *)
LEMMA Landed ==
  ASSUME NEW STATE st, NEW STATE v, Pushing(st, v), sp' = sp, m' = [m EXCEPT ![ar] = do]
  PROVE  sp' = ISA!PushWord(st, v).sp /\ m' = ISA!PushWord(st, v).m
BY SameWords DEF Pushing, ISA!PushWord, ISA!Stack

(* CAL pushes, then is a JMP.                                              *)
LEMMA CalStep ==
  ASSUME TypeInv, Stage, Cycle, upc.at \in CalAt
  PROVE  Stage'
<1>1. AtCal
  BY DEF Stage, EaAt, JaAt, JmpAt, CalAt
<1>2. (upc.n = 1 \/ upc.n = 2) /\ ~Fetching
  <2>1. Len(Microprogram[upc.at]) = 2
    BY CalTable DEF CalAt
  <2> QED BY <2>1 DEF TypeInv, MicroTypeOK, Fetching, Fetches, CalAt
<1>3. CASE upc.n = 1
  <2>1. Word0 = StepDown("LPC")
    BY <1>3, CalTable DEF Word0, CalAt
  <2>2. /\ Word0.asrc = "SP" /\ Word0.alu = "DEC" /\ Word0.rdst = "SP" /\ Word0.arsrc = "STACK"
        /\ Word0.mem = "IDLE" /\ Word0.lctl = "HOLD" /\ Word0.spup = FALSE /\ Word0.seq = "NEXT"
        /\ Word0.ictl = "IHOLD" /\ Word0.dosrc = "LPC"
    BY <2>1 DEF StepDown, Idle
  <2>3. /\ UNCHANGED <<ac, ix, l, m, i, pc, arch, ir, pgl, prog>>
        /\ sp' = SpDec(sp) /\ ar' = StackAddr(sp') /\ do' = l * AddrMod + pc
        /\ upc'.at = upc.at /\ upc'.n = 2
    <3>1. /\ UNCHANGED <<ac, ix, l, m, i, pc, arch, ir, pgl, prog>>
          /\ sp' = SpDec(sp) /\ ar' = StackAddr(sp') /\ do' = l * AddrMod + pc
      BY <1>2, <2>2, DownStep
    <3>2. upc'.at = upc.at /\ upc'.n = upc.n + 1
      BY <1>2, <2>2, DownStep
    <3> QED BY <1>3, <3>1, <3>2
  <2>4. /\ sp = ISA!Stack(arch.sp, arch.m).sp /\ m = ISA!Stack(arch.sp, arch.m).m
        /\ l * AddrMod + pc = ISA!LinkWord(ISA!After(FALSE))
    BY <1>1, <1>3 DEF AtCal, Still, Kept, Next1, ISA!Stack, ISA!LinkWord
  <2>5. Pushing(ISA!Stack(arch.sp, arch.m), ISA!LinkWord(ISA!After(FALSE)))'
    BY <2>3, <2>4, Frozen DEF Pushing, SpDec
  <2>6. AtCal'
    <3>1. Current' /\ Kept' /\ i' = arch'.i /\ Next1'
      BY <1>1, <2>3, Stays DEF AtCal
    <3>2. /\ ir'.op = "CAL" /\ ir'.ind = (upc'.at \in {"CAL_IN", "CAL_XI"})
          /\ ir'.idx = (upc'.at \in {"CAL_IX", "CAL_XI"})
      <4>1. ir' = ir /\ upc'.at = upc.at
        BY <2>3
      <4> QED BY <1>1, <4>1 DEF AtCal
    <3>3. upc'.n = 1 => Still'
      BY <2>3
    <3>4. upc'.n = 2 => Pushing(ISA!Stack(arch.sp, arch.m), ISA!LinkWord(ISA!After(FALSE)))'
      BY <2>5
    <3> QED BY <3>1, <3>2, <3>3, <3>4 DEF AtCal
  <2> QED BY <2>3, <2>6 DEF Stage, EaAt, JaAt, JmpAt, CalAt
<1>4. CASE upc.n = 2
  <2> DEFINE to == IF upc.at = "CAL_PG" THEN "JMP_PG" ELSE IF upc.at = "CAL_IX" THEN "JMP_IDX"
                   ELSE IF upc.at = "CAL_IN" THEN "JMP_IN1" ELSE "JMP_IX1"
  <2>1. Word0 = [Write EXCEPT !.seq = "JUMP", !.na = to]
    <3>1. Word0 = Microprogram[upc.at][2]
      BY <1>4 DEF Word0
    <3>2. CASE upc.at = "CAL_PG"
      BY <3>1, <3>2, CalTable
    <3>3. CASE upc.at = "CAL_IX"
      BY <3>1, <3>3, CalTable
    <3>4. CASE upc.at = "CAL_IN"
      BY <3>1, <3>4, CalTable
    <3>5. CASE upc.at = "CAL_XI"
      BY <3>1, <3>5, CalTable
    <3> QED BY <3>2, <3>3, <3>4, <3>5 DEF CalAt
  <2>2. /\ Word0.mem = "WR" /\ Word0.rdst = "NONE" /\ Word0.lctl = "HOLD" /\ Word0.ictl = "IHOLD"
        /\ Word0.spup = FALSE /\ Word0.alu # "G1" /\ Word0.arsrc = "HOLD"
        /\ Word0.seq = "JUMP" /\ Word0.na = to
    <3> HIDE DEF to
    <3> QED BY <2>1 DEF Write, Idle
  <2>3. /\ UNCHANGED <<ac, ix, l, sp, i, pc, arch, ir, pgl, prog>> /\ m' = [m EXCEPT ![ar] = do]
        /\ upc'.at = to /\ upc'.n = 1
    BY <1>2, <2>2, WriteStep, InnerNext
  <2>4. After1(Return(ISA!After(FALSE)))'
    <3>1. Pushing(ISA!Stack(arch.sp, arch.m), ISA!LinkWord(ISA!After(FALSE)))
      BY <1>1, <1>4 DEF AtCal
    <3>2. /\ sp' = ISA!PushWord(ISA!Stack(arch.sp, arch.m), ISA!LinkWord(ISA!After(FALSE))).sp
          /\ m' = ISA!PushWord(ISA!Stack(arch.sp, arch.m), ISA!LinkWord(ISA!After(FALSE))).m
      BY <2>3, <3>1, Landed
    <3>3. sp' = Return(ISA!After(FALSE)).sp /\ m' = Return(ISA!After(FALSE)).m
      BY <3>2 DEF Return
    <3> QED BY <2>3, <3>3, Frozen DEF After1
  <2>5. Mode2'
    BY <1>1, <2>3 DEF AtCal, Mode2, CalAt
  <2>6. AtJmp' /\ to \in JmpAt
    BY <1>1, <2>3, <2>4, <2>5, Stays DEF AtJmp, AtCal, JmpAt
  <2> QED BY <2>3, <2>6 DEF Stage, EaAt, JaAt, JmpAt, CalAt
<1> QED BY <1>2, <1>3, <1>4

-----------------------------------------------------------------------------
(* Interrupts.                                                             *)

(* The entry of an interrupt: I off, {L,PC} pushed, PC from the vector.    *)
LEMMA EntryStep ==
  ASSUME TypeInv, Entry, Cycle, upc.at = "IRQ"
  PROVE  /\ arch' = arch /\ prog' = prog
         /\ \/ upc'.at = "IRQ" /\ Entry'
            \/ upc'.at = "FETCH" /\ Entered'
<1>1. Entry
  OBVIOUS
<1>2. (upc.n = 1 \/ upc.n = 2 \/ upc.n = 3 \/ upc.n = 4 \/ upc.n = 5) /\ ~Fetching
  <2>1. Len(Microprogram["IRQ"]) = 5
    BY IrqTable
  <2> QED BY <2>1 DEF TypeInv, MicroTypeOK, Fetching, Fetches
<1>3. irqDev \in Devices /\ req[irqDev] /\ Kept
  BY <1>1 DEF Entry, Noticed
<1>4. ASSUME UNCHANGED <<ac, ix, l, arch, ir, pgl, prog, req, irqDev>>
      PROVE  Noticed' /\ Return(arch.pc)' = Return(arch.pc)
             /\ (After1(Return(arch.pc)) /\ UNCHANGED <<sp, m>> => After1(Return(arch.pc))')
  <2>1. Noticed'
    BY <1>3, <1>4 DEF Noticed, Kept
  <2>2. Return(arch.pc)' = Return(arch.pc)
    BY <1>4, Frozen
  <2> QED BY <2>1, <2>2 DEF After1
<1>5. CASE upc.n = 1
  <2>1. Word0 = [StepDown("LPC") EXCEPT !.ictl = "ICLR"]
    BY <1>5, IrqTable DEF Word0
  <2>2. /\ Word0.asrc = "SP" /\ Word0.alu = "DEC" /\ Word0.rdst = "SP" /\ Word0.arsrc = "STACK"
        /\ Word0.mem = "IDLE" /\ Word0.lctl = "HOLD" /\ Word0.spup = FALSE /\ Word0.seq = "NEXT"
        /\ Word0.ictl = "ICLR" /\ Word0.dosrc = "LPC"
    BY <2>1 DEF StepDown, Idle
  <2>3. /\ UNCHANGED <<ac, ix, l, m, pc, arch, ir, pgl, prog, req, irqDev>> /\ ~i'
        /\ sp' = SpDec(sp) /\ ar' = StackAddr(sp') /\ do' = l * AddrMod + pc
        /\ upc'.at = "IRQ" /\ upc'.n = 2
    <3>1. upc'.at = upc.at /\ upc'.n = upc.n + 1
      BY <1>2, <2>2, DownStep
    <3>2. /\ UNCHANGED <<ac, ix, l, m, pc, arch, ir, pgl, prog, req, irqDev>> /\ ~i'
          /\ sp' = SpDec(sp) /\ ar' = StackAddr(sp') /\ do' = l * AddrMod + pc
      BY <1>2, <2>2, DownStep
    <3> QED BY <1>5, <3>1, <3>2
  <2>4. /\ sp = ISA!Stack(arch.sp, arch.m).sp /\ m = ISA!Stack(arch.sp, arch.m).m
        /\ l * AddrMod + pc = ISA!LinkWord(arch.pc) /\ pc = arch.pc
    BY <1>1, <1>5 DEF Entry, Rested, Still, Kept, ISA!Stack, ISA!LinkWord
  <2>5. Pushing(ISA!Stack(arch.sp, arch.m), ISA!LinkWord(arch.pc))'
    BY <2>3, <2>4, Frozen DEF Pushing, SpDec
  <2>6. Entry'
    <3>1. pc' = arch'.pc
      BY <2>3, <2>4
    <3>2. upc'.n = 2 => Pushing(ISA!Stack(arch.sp, arch.m), ISA!LinkWord(arch.pc))'
      BY <2>5
    <3>3. upc'.n > 2 => After1(Return(arch.pc))'
      BY <2>3
    <3> QED BY <1>4, <2>3, <3>1, <3>2, <3>3 DEF Entry
  <2> QED BY <2>3, <2>6
<1>6. CASE upc.n = 2
  <2>1. Word0 = Write
    BY <1>6, IrqTable DEF Word0
  <2>2. /\ Word0.mem = "WR" /\ Word0.rdst = "NONE" /\ Word0.lctl = "HOLD" /\ Word0.ictl = "IHOLD"
        /\ Word0.spup = FALSE /\ Word0.alu # "G1" /\ Word0.arsrc = "HOLD" /\ Word0.seq = "NEXT"
    BY <2>1 DEF Write, Idle
  <2>3. /\ UNCHANGED <<ac, ix, l, sp, i, pc, arch, ir, pgl, prog, req, irqDev>>
        /\ m' = [m EXCEPT ![ar] = do] /\ upc'.at = "IRQ" /\ upc'.n = 3
    <3>1. upc'.at = upc.at /\ upc'.n = upc.n + 1
      BY <1>2, <2>2, InnerNext
    <3>2. /\ UNCHANGED <<ac, ix, l, sp, i, pc, arch, ir, pgl, prog, req, irqDev>>
          /\ m' = [m EXCEPT ![ar] = do]
      BY <1>2, <2>2, WriteStep
    <3> QED BY <1>6, <3>1, <3>2
  <2>4. After1(Return(arch.pc))'
    <3>1. Pushing(ISA!Stack(arch.sp, arch.m), ISA!LinkWord(arch.pc))
      BY <1>1, <1>6 DEF Entry
    <3>2. /\ sp' = ISA!PushWord(ISA!Stack(arch.sp, arch.m), ISA!LinkWord(arch.pc)).sp
          /\ m' = ISA!PushWord(ISA!Stack(arch.sp, arch.m), ISA!LinkWord(arch.pc)).m
      BY <2>3, <3>1, Landed
    <3>3. sp' = Return(arch.pc).sp /\ m' = Return(arch.pc).m
      BY <3>2 DEF Return
    <3> QED BY <1>4, <2>3, <3>3 DEF After1
  <2>5. ~i' /\ pc' = arch'.pc
    BY <1>1, <1>6, <2>3 DEF Entry
  <2>6. Entry'
    BY <1>4, <2>3, <2>4, <2>5 DEF Entry
  <2> QED BY <2>3, <2>6
<1>7. CASE upc.n = 3
  <2>1. Word0 = ByField(Idle, "DEV")
    BY <1>7, IrqTable DEF Word0
  <2>2. /\ Plain(Word0) /\ Word0.mem = "IDLE" /\ Word0.seq = "NEXT" /\ Word0.arsrc = "ALU"
        /\ Word0.alu = "PASSB" /\ Word0.bsrc = "DEV"
    BY <2>1 DEF Plain, ByField, Idle
  <2>3. /\ UNCHANGED <<ac, ix, l, sp, m, i, pc, arch, ir, pgl, prog, req, irqDev>>
        /\ ar' = AluOut.r % AddrMod /\ upc'.at = "IRQ" /\ upc'.n = 4
    <3>1. upc'.at = upc.at /\ upc'.n = upc.n + 1
      BY <1>2, <2>2, InnerNext DEF Plain
    <3>2. /\ UNCHANGED <<ac, ix, l, sp, m, i, pc, arch, ir, pgl, prog, req, irqDev>>
          /\ ar' = AluOut.r % AddrMod
      BY <1>2, <2>2, PlainStep
    <3> QED BY <1>7, <3>1, <3>2
  <2>4. ar' = irqDev'
    <3>1. irqDev \in 0 .. AddrMod - 1
      BY <1>3, Sizes DEF Addr
    <3>2. irqDev % AddrMod = irqDev
      BY <3>1, Sizes, Small
    <3> QED BY <2>2, <2>3, <3>2, Sums
  <2>5. After1(Return(arch.pc))' /\ ~i' /\ pc' = arch'.pc
    BY <1>1, <1>4, <1>7, <2>3 DEF Entry
  <2>6. Entry'
    BY <1>4, <2>3, <2>4, <2>5 DEF Entry
  <2> QED BY <2>3, <2>6
<1>8. CASE upc.n = 4
  <2>1. Word0 = Read
    BY <1>8, IrqTable DEF Word0
  <2>2. Plain(Word0) /\ Word0.mem = "RD" /\ Word0.seq = "NEXT" /\ Word0.arsrc = "HOLD"
    BY <2>1 DEF Plain, Read, Idle
  <2>3. /\ UNCHANGED <<ac, ix, l, sp, m, i, pc, arch, ir, pgl, prog, req, irqDev>>
        /\ di' = m[ar] /\ upc'.at = "IRQ" /\ upc'.n = 5
    <3>1. upc'.at = upc.at /\ upc'.n = upc.n + 1
      BY <1>2, <2>2, InnerNext DEF Plain
    <3>2. /\ UNCHANGED <<ac, ix, l, sp, m, i, pc, arch, ir, pgl, prog, req, irqDev>>
          /\ di' = m[ar]
      BY <1>2, <2>2, PlainStep
    <3> QED BY <1>8, <3>1, <3>2
  <2>4. di' = m'[irqDev']
    BY <1>1, <1>8, <2>3 DEF Entry
  <2>5. After1(Return(arch.pc))' /\ ~i' /\ pc' = arch'.pc
    BY <1>1, <1>4, <1>8, <2>3 DEF Entry
  <2>6. Entry'
    BY <1>4, <2>3, <2>4, <2>5 DEF Entry
  <2> QED BY <2>3, <2>6
<1>9. CASE upc.n = 5
  <2>1. Word0 = ByMemory(JmpTail)
    BY <1>9, IrqTable DEF Word0
  <2>2. /\ Word0.mem = "IDLE" /\ Word0.rdst = "PC" /\ Word0.lctl = "HOLD" /\ Word0.ictl = "IHOLD"
        /\ Word0.spup = FALSE /\ Word0.alu # "G1" /\ Word0.seq = "JUMP" /\ Word0.na = "FETCH"
        /\ Word0.arsrc = "DI"
    BY <2>1 DEF ByMemory, JmpTail, ToFetch, Idle
  <2>3. /\ UNCHANGED <<ac, ix, l, sp, m, i, arch, ir, pgl, prog, req, irqDev>>
        /\ pc' = di % AddrMod /\ upc'.at = "FETCH"
    BY <1>2, <2>2, JumpStep
  <2>4. After1(Return(arch.pc))' /\ ~i' /\ pc' = m'[irqDev'] % AddrMod
    BY <1>1, <1>4, <1>9, <2>3 DEF Entry
  <2>5. Entered'
    BY <1>4, <2>3, <2>4 DEF Entered
  <2> QED BY <2>3, <2>5
<1> QED BY <1>2, <1>5, <1>6, <1>7, <1>8, <1>9

(* With I on before it, it is the instruction set's.                       *)
LEMMA IrqStep ==
  ASSUME TypeInv, Stage, Cycle, upc.at = "IRQ"
  PROVE  Stage'
<1>1. Entry /\ arch.i
  BY DEF Stage, AtIrq, EaAt, JaAt, JmpAt, CalAt
<1>2. arch' = arch /\ ((upc'.at = "IRQ" /\ Entry') \/ (upc'.at = "FETCH" /\ Entered'))
  BY <1>1, EntryStep
<1>3. (upc'.at = "IRQ" /\ AtIrq') \/ (upc'.at = "FETCH" /\ AtFetch')
  BY <1>1, <1>2 DEF AtIrq, AtFetch, Took
<1> QED BY <1>3 DEF Stage, EaAt, JaAt, JmpAt, CalAt

(* A late one goes the same way.                                           *)
LEMMA LateStep ==
  ASSUME TypeInv, Late, Cycle, upc.at = "IRQ"
  PROVE  Late'
<1>1. /\ arch' = arch /\ prog' = prog
      /\ \/ upc'.at = "IRQ" /\ Entry'
         \/ upc'.at = "FETCH" /\ Entered'
  BY EntryStep DEF Late
<1>2. IsBareDi(prog[Plus(arch.pc, AddrMod - 1)])'
  BY <1>1 DEF Late, IsBareDi, Plus
<1> QED BY <1>1, <1>2 DEF Late

-----------------------------------------------------------------------------
(* The stack mask.                                                         *)

(* What the I field of a stack instruction may have done by now.           *)
LEMMA FieldStep ==
  ASSUME TypeInv, ir.op \in {"PSH", "POP"}, IAllowed, UNCHANGED <<arch, ir, prog>>,
         i' = IF ir.ifield = "HOLD" THEN i ELSE ir.ifield = "EI"
  PROVE  IAllowed' /\ IDone' /\ i' = ISA!IField(ir.ifield)
<1>1. ir.ifield \in {"HOLD", "DI", "EI"}
  <2>1. ir \in Instr
    BY DEF TypeInv, MicroTypeOK
  <2> QED BY <2>1 DEF Instr, AluOps
<1>2. CASE ir.ifield = "HOLD"
  <2>1. ISA!IField(ir.ifield) = arch.i /\ i' = i
    BY <1>2 DEF ISA!IField
  <2>2. i' = arch.i
    BY <2>1 DEF IAllowed
  <2>3. i' \in {arch'.i, ISA!IField(ir.ifield)'}
    BY <2>2
  <2> QED BY <2>1, <2>2, <2>3, Frozen DEF IAllowed, IDone, ISA!IField
<1>3. CASE ir.ifield = "DI"
  <2>1. ISA!IField(ir.ifield) = FALSE /\ i' = FALSE
    BY <1>3 DEF ISA!IField
  <2> QED BY <2>1, Frozen DEF IAllowed, IDone, ISA!IField
<1>4. CASE ir.ifield = "EI"
  <2>1. ISA!IField(ir.ifield) = TRUE /\ i' = TRUE
    BY <1>4 DEF ISA!IField
  <2> QED BY <2>1, Frozen DEF IAllowed, IDone, ISA!IField
<1> QED BY <1>1, <1>2, <1>3, <1>4

(* What is pushed before each bit of the mask, one by one.                 *)
LEMMA PushedAre ==
  /\ Pushed(0) = ISA!Stack(arch.sp, arch.m) /\ Pushed(1) = Pushed1 /\ Pushed(2) = Pushed2
  /\ Pushed(3) = Pushed3 /\ Pushed(4) = Pushed4
  /\ PushedWord(0) = arch.sp /\ PushedWord(1) = ISA!LinkWord(ISA!After(FALSE))
  /\ PushedWord(2) = arch.ix /\ PushedWord(3) = arch.ac
  /\ Pushed1 = IF 0 \in ir.mask THEN ISA!PushWord(Pushed(0), PushedWord(0)) ELSE Pushed(0)
  /\ Pushed2 = IF 1 \in ir.mask THEN ISA!PushWord(Pushed(1), PushedWord(1)) ELSE Pushed(1)
  /\ Pushed3 = IF 2 \in ir.mask THEN ISA!PushWord(Pushed(2), PushedWord(2)) ELSE Pushed(2)
  /\ Pushed4 = IF 3 \in ir.mask THEN ISA!PushWord(Pushed(3), PushedWord(3)) ELSE Pushed(3)
<1>1. /\ Pushed(0) = ISA!Stack(arch.sp, arch.m) /\ Pushed(1) = Pushed1 /\ Pushed(2) = Pushed2
      /\ Pushed(3) = Pushed3 /\ Pushed(4) = Pushed4
  BY DEF Pushed
<1>2. /\ PushedWord(0) = arch.sp /\ PushedWord(1) = ISA!LinkWord(ISA!After(FALSE))
      /\ PushedWord(2) = arch.ix /\ PushedWord(3) = arch.ac
  BY DEF PushedWord
<1>3. Pushed1 = IF 0 \in ir.mask THEN ISA!PushWord(Pushed(0), PushedWord(0)) ELSE Pushed(0)
  BY <1>1, <1>2 DEF Pushed1, ISA!PushIf
<1>4. Pushed2 = IF 1 \in ir.mask THEN ISA!PushWord(Pushed(1), PushedWord(1)) ELSE Pushed(1)
  BY <1>1, <1>2 DEF Pushed2, ISA!PushIf
<1>5. Pushed3 = IF 2 \in ir.mask THEN ISA!PushWord(Pushed(2), PushedWord(2)) ELSE Pushed(2)
  BY <1>1, <1>2 DEF Pushed3, ISA!PushIf
<1>6. Pushed4 = IF 3 \in ir.mask THEN ISA!PushWord(Pushed(3), PushedWord(3)) ELSE Pushed(3)
  BY <1>1, <1>2 DEF Pushed4, ISA!PushIf
<1> QED BY <1>1, <1>2, <1>3, <1>4, <1>5, <1>6

(* Bits that are not in the mask push nothing.                             *)
LEMMA SamePushed ==
  ASSUME NEW b \in {0, 1, 2, 3, 4}, NEW c \in {0, 1, 2, 3, 4}, c <= b,
         \A k \in {0, 1, 2, 3} : c <= k /\ k < b => k \notin ir'.mask
  PROVE  Pushed(b)' = Pushed(c)'
<1>1. 0 \notin ir'.mask => Pushed1' = Pushed(0)'
  BY DEF Pushed, Pushed1, ISA!PushIf
<1>2. 1 \notin ir'.mask => Pushed2' = Pushed1'
  BY DEF Pushed2, ISA!PushIf
<1>3. 2 \notin ir'.mask => Pushed3' = Pushed2'
  BY DEF Pushed3, ISA!PushIf
<1>4. 3 \notin ir'.mask => Pushed4' = Pushed3'
  BY DEF Pushed4, ISA!PushIf
<1>5. /\ Pushed(1)' = Pushed1' /\ Pushed(2)' = Pushed2'
      /\ Pushed(3)' = Pushed3' /\ Pushed(4)' = Pushed4'
  BY DEF Pushed
<1> QED BY <1>1, <1>2, <1>3, <1>4, <1>5

(* The sequencer goes to the lowest bit left, or on to the next fetch.     *)
LEMMA PushWalk ==
  ASSUME TypeInv', ir'.op = "PSH",
         NEW c \in {0, 1, 2, 3, 4}, NEW left, left = {k \in ir'.mask : k >= c},
         Current', Kept', Next1', IAllowed', left = ir'.mask \/ IDone', After1(Pushed(c))',
         upc'.at = MaskEntry(ir'.op, left), upc'.n = 1,
         msk' = IF left # {} THEN left \ {MaskBit(ir'.op, left)} ELSE {}
  PROVE  Stage'
<1>1. ir'.mask \in SUBSET (0 .. 3) /\ left \in SUBSET (0 .. 3)
  <2>1. ir' \in Instr
    BY DEF TypeInv, MicroTypeOK
  <2>2. ir'.mask \in SUBSET (0 .. 3)
    BY <2>1, InstrOps
  <2> QED BY <2>2
<1>2. CASE left = {}
  <2>1. upc'.at = "FETCH_I"
    BY <1>1, <1>2, MaskEntries
  <2>2. Pushed(4)' = Pushed(c)'
    <3>1. \A k \in {0, 1, 2, 3} : c <= k /\ k < 4 => k \notin ir'.mask
      BY <1>1, <1>2
    <3> QED BY <3>1, SamePushed
  <2>3. After1(Pushed(4))'
    BY <2>2 DEF After1
  <2>4. AtFetchI'
    BY <1>2, <2>3 DEF AtFetchI
  <2> QED BY <2>1, <2>4 DEF Stage, EaAt, JaAt, JmpAt, CalAt
<1>3. CASE left # {}
  <2> DEFINE b == MaskBit(ir'.op, left)
  <2>1. /\ b \in left /\ \A k \in left : b <= k
        /\ upc'.at = <<"PSH_SP", "PSH_LPC", "PSH_IX", "PSH_AC">>[1 + b]
    <3>1. b = Min(left)
      BY DEF MaskBit
    <3>2. left \in SUBSET Nat
      BY <1>1
    <3>3. b \in left /\ \A k \in left : b <= k
      BY <1>3, <3>1, <3>2, MinOf
    <3>4. upc'.at = <<"PSH_SP", "PSH_LPC", "PSH_IX", "PSH_AC">>[1 + b]
      BY <1>1, <1>3, MaskEntries
    <3> QED BY <3>3, <3>4
  <2>2. msk' = left \ {b}
    BY <1>3
  <2> HIDE DEF b
  <2>3. b \in {0, 1, 2, 3} /\ b \in ir'.mask /\ c <= b
    <3>1. \A k \in 0 .. 3 : k \in {0, 1, 2, 3}
      OBVIOUS
    <3> QED BY <1>1, <2>1, <3>1
  <2>5. msk' = {k \in ir'.mask : k > b}
    BY <1>1, <2>1, <2>2, <2>3
  <2>6. ASSUME NEW d \in {0, 1, 2, 3}, b = d PROVE PushStage(d)'
    <3>1. After1(Pushed(d))'
      <4>1. \A k \in {0, 1, 2, 3} : c <= k /\ k < d => k \notin ir'.mask
        BY <1>1, <2>1, <2>3, <2>6
      <4>2. Pushed(d)' = Pushed(c)'
        BY <2>3, <2>6, <4>1, SamePushed
      <4> QED BY <4>2 DEF After1
    <3>2. d \in ir'.mask /\ msk' = {k \in ir'.mask : k > d}
      BY <2>3, <2>5, <2>6
    <3> QED BY <3>1, <3>2 DEF PushStage
  <2>7. CASE b = 0
    <3>1. upc'.at = "PSH_SP"
      BY <2>1, <2>7
    <3> QED BY <2>6, <2>7, <3>1 DEF Stage, EaAt, JaAt, JmpAt, CalAt
  <2>8. CASE b = 1
    <3>1. upc'.at = "PSH_LPC"
      BY <2>1, <2>8
    <3> QED BY <2>6, <2>8, <3>1 DEF Stage, EaAt, JaAt, JmpAt, CalAt
  <2>9. CASE b = 2
    <3>1. upc'.at = "PSH_IX"
      BY <2>1, <2>9
    <3> QED BY <2>6, <2>9, <3>1 DEF Stage, EaAt, JaAt, JmpAt, CalAt
  <2>10. CASE b = 3
    <3>1. upc'.at = "PSH_AC"
      BY <2>1, <2>10
    <3> QED BY <2>6, <2>10, <3>1 DEF Stage, EaAt, JaAt, JmpAt, CalAt
  <2> QED BY <2>3, <2>7, <2>8, <2>9, <2>10
<1> QED BY <1>2, <1>3

(* One bit of a PSH: SP down, then the write that goes on to the next.     *)
LEMMA PushStep ==
  ASSUME TypeInv, Stage, Cycle, upc.at \in Pushes
  PROVE  Stage'
<1> DEFINE b == IF upc.at = "PSH_SP" THEN 0 ELSE IF upc.at = "PSH_LPC" THEN 1
                ELSE IF upc.at = "PSH_IX" THEN 2 ELSE 3
           src == IF upc.at = "PSH_SP" THEN "SP" ELSE IF upc.at = "PSH_LPC" THEN "LPC"
                  ELSE IF upc.at = "PSH_IX" THEN "IX" ELSE "AC"
<1>1. PushStage(b)
  <2>1. CASE upc.at = "PSH_SP"
    BY <2>1 DEF Stage
  <2>2. CASE upc.at = "PSH_LPC"
    BY <2>2 DEF Stage
  <2>3. CASE upc.at = "PSH_IX"
    BY <2>3 DEF Stage
  <2>4. CASE upc.at = "PSH_AC"
    BY <2>4 DEF Stage
  <2> QED BY <2>1, <2>2, <2>3, <2>4 DEF Pushes
<1>2. (upc.n = 1 \/ upc.n = 2) /\ ~Fetching
  <2>1. Len(Microprogram[upc.at]) = 2
    BY StackTable DEF PushWords, Pushes
  <2> QED BY <2>1 DEF TypeInv, MicroTypeOK, Fetching, Fetches, Pushes
<1>3. Microprogram[upc.at] = PushWords(src)
  BY StackTable DEF Pushes
<1>4. ir.op = "PSH" /\ Current /\ Kept /\ Next1 /\ IAllowed /\ b \in ir.mask
      /\ msk = {k \in ir.mask : k > b}
  BY <1>1 DEF PushStage
<1>5. b \in {0, 1, 2, 3}
  OBVIOUS
<1>6. CASE upc.n = 1
  <2>1. Word0 = StepDown(src)
    BY <1>3, <1>6 DEF Word0, PushWords
  <2>2. /\ Word0.asrc = "SP" /\ Word0.alu = "DEC" /\ Word0.rdst = "SP" /\ Word0.arsrc = "STACK"
        /\ Word0.mem = "IDLE" /\ Word0.lctl = "HOLD" /\ Word0.spup = FALSE /\ Word0.seq = "NEXT"
        /\ Word0.ictl = "IHOLD" /\ Word0.dosrc = src
    <3> HIDE DEF src
    <3> QED BY <2>1 DEF StepDown, Idle
  <2>3. /\ UNCHANGED <<ac, ix, l, m, i, pc, msk, arch, ir, pgl, prog>>
        /\ sp' = SpDec(sp) /\ ar' = StackAddr(sp')
    BY <1>2, <2>2, DownStep
  <2>4. upc'.at = upc.at /\ upc'.n = 2
    <3>1. upc'.at = upc.at /\ upc'.n = upc.n + 1
      BY <1>2, <2>2, DownStep
    <3> QED BY <1>6, <3>1
  <2>5. do' = PushedWord(b) /\ After1(Pushed(b))
    <3>1. After1(Pushed(b))
      BY <1>1, <1>6 DEF PushStage
    <3>2. /\ src = "SP" => do' = sp
          /\ src = "LPC" => do' = l * AddrMod + pc
          /\ src = "IX" => do' = ix
          /\ src = "AC" => do' = ac
      <4> HIDE DEF src, b
      <4> QED BY <1>2, <2>2, DownStep
    <3>3. l * AddrMod + pc = ISA!LinkWord(ISA!After(FALSE)) /\ ix = arch.ix /\ ac = arch.ac
      BY <1>4 DEF Kept, Next1, ISA!LinkWord
    <3>4. b = 0 => sp = arch.sp
      BY <3>1, PushedAre DEF After1, ISA!Stack
    <3> QED BY <3>1, <3>2, <3>3, <3>4, PushedAre DEF Pushes
  <2>6. Current' /\ Kept' /\ Next1' /\ IAllowed'
    BY <1>4, <2>3, Stays
  <2>7. ASSUME NEW d \in {0, 1, 2, 3}, b = d PROVE PushStage(d)'
    <3>1. Pushing(Pushed(d), PushedWord(d))'
      BY <2>3, <2>5, <2>7, FrozenStack DEF Pushing, After1, SpDec
    <3>2. d \in ir'.mask /\ msk' = {k \in ir'.mask : k > d} /\ ir'.op = "PSH"
      BY <1>4, <2>3, <2>7
    <3> QED BY <2>4, <2>6, <3>1, <3>2 DEF PushStage
  <2>8. CASE upc.at = "PSH_SP"
    BY <2>4, <2>7, <2>8 DEF Stage, EaAt, JaAt, JmpAt, CalAt
  <2>9. CASE upc.at = "PSH_LPC"
    BY <2>4, <2>7, <2>9 DEF Stage, EaAt, JaAt, JmpAt, CalAt
  <2>10. CASE upc.at = "PSH_IX"
    BY <2>4, <2>7, <2>10 DEF Stage, EaAt, JaAt, JmpAt, CalAt
  <2>11. CASE upc.at = "PSH_AC"
    BY <2>4, <2>7, <2>11 DEF Stage, EaAt, JaAt, JmpAt, CalAt
  <2> QED BY <2>8, <2>9, <2>10, <2>11 DEF Pushes
<1>7. CASE upc.n = 2
  <2>1. Word0 = [Walk EXCEPT !.mem = "WR", !.arsrc = "PC"]
    BY <1>3, <1>7 DEF Word0, PushWords
  <2>2. /\ Word0.mem = "WR" /\ Word0.rdst = "NONE" /\ Word0.lctl = "HOLD" /\ Word0.ictl = "IFROMIR"
        /\ Word0.spup = FALSE /\ Word0.alu # "G1" /\ Word0.arsrc = "PC" /\ Word0.seq = "MAPMASK"
    BY <2>1 DEF Walk, Idle
  <2>3. /\ UNCHANGED <<ac, ix, l, sp, pc, arch, ir, pgl, prog>> /\ m' = [m EXCEPT ![ar] = do]
        /\ i' = IF ir.ifield = "HOLD" THEN i ELSE ir.ifield = "EI"
    BY <1>2, <2>2, WriteStep
  <2>4. /\ upc'.at = MaskEntry(ir.op, msk) /\ upc'.n = 1
        /\ msk' = IF msk # {} THEN msk \ {MaskBit(ir.op, msk)} ELSE {}
    BY <1>2, <2>2, InnerNext
  <2>5. IAllowed' /\ IDone'
    BY <1>4, <2>3, FieldStep
  <2>6. Current' /\ Kept' /\ Next1'
    BY <1>4, <2>3, Frozen DEF Current, Kept, Next1
  <2> HIDE DEF b, src
  <2>7. ASSUME NEW d \in {0, 1, 2, 3}, b = d PROVE Stage'
    <3>1. Pushing(Pushed(d), PushedWord(d)) /\ d \in ir.mask
      BY <1>1, <1>4, <1>7, <2>7 DEF PushStage
    <3>2. /\ sp' = ISA!PushWord(Pushed(d), PushedWord(d)).sp
          /\ m' = ISA!PushWord(Pushed(d), PushedWord(d)).m
      BY <2>3, <3>1, Landed
    <3>3. ISA!PushWord(Pushed(d), PushedWord(d)) = Pushed(d + 1)
      <4>1. (d = 0 => d + 1 = 1) /\ (d = 1 => d + 1 = 2) /\ (d = 2 => d + 1 = 3) /\ (d = 3 => d + 1 = 4)
        OBVIOUS
      <4> QED BY <3>1, <4>1, PushedAre
    <3>4. After1(Pushed(d + 1))'
      BY <2>3, <3>2, <3>3, FrozenStack DEF After1
    <3>5. msk = {k \in ir'.mask : k >= d + 1}
      <4>1. ir.mask \in SUBSET (0 .. 3)
        BY <1>4, InstrOps DEF TypeInv, MicroTypeOK
      <4> QED BY <1>4, <2>3, <2>7, <4>1
    <3>6. d + 1 \in {0, 1, 2, 3, 4} /\ ir' = ir /\ TypeInv'
      BY <2>3, CycleTyped
    <3> QED BY <1>4, <2>4, <2>5, <2>6, <3>4, <3>5, <3>6, PushWalk
  <2> QED BY <1>5, <2>7
<1> QED BY <1>2, <1>6, <1>7

(* Where SP is before each bit popped, one by one.                         *)
LEMMA PopSpAre ==
  /\ PopSp(3) = arch.sp /\ PopSp(2) = PopSp2 /\ PopSp(1) = PopSp1 /\ PopSp(0) = PopSp0
  /\ PopSp2 = IF 3 \in ir.mask THEN SpInc(PopSp(3)) ELSE PopSp(3)
  /\ PopSp1 = IF 2 \in ir.mask THEN SpInc(PopSp(2)) ELSE PopSp(2)
  /\ PopSp0 = IF 1 \in ir.mask THEN SpInc(PopSp(1)) ELSE PopSp(1)
BY DEF PopSp, PopSp2, PopSp1, PopSp0

(* Bits that are not in the mask leave SP where it is.                     *)
LEMMA SamePopSp ==
  ASSUME NEW b \in {0, 1, 2, 3}, NEW c \in {0, 1, 2, 3}, b <= c,
         \A k \in {0, 1, 2, 3} : b < k /\ k <= c => k \notin ir'.mask
  PROVE  PopSp(b)' = PopSp(c)'
<1>1. /\ PopSp(3)' = arch'.sp /\ PopSp(2)' = PopSp2' /\ PopSp(1)' = PopSp1' /\ PopSp(0)' = PopSp0'
      /\ 3 \notin ir'.mask => PopSp2' = PopSp(3)'
      /\ 2 \notin ir'.mask => PopSp1' = PopSp2'
      /\ 1 \notin ir'.mask => PopSp0' = PopSp1'
  BY DEF PopSp, PopSp2, PopSp1, PopSp0
<1> QED BY <1>1

(* They pop nothing.                                                       *)
LEMMA SamePopped ==
  ASSUME NEW b \in {-1, 0, 1, 2, 3}, NEW c \in {-1, 0, 1, 2, 3}, b <= c, Popped(c)',
         \A k \in {0, 1, 2, 3} : b < k /\ k <= c => k \notin ir'.mask
  PROVE  Popped(b)'
<1>1. \A k \in {1, 2, 3} : (k \in ir'.mask /\ b < k) <=> (k \in ir'.mask /\ c < k)
  OBVIOUS
<1>2. m' = arch'.m
  BY DEF Popped
<1>3. ac' = IF 3 \in ir'.mask /\ b < 3 THEN m'[StackAddr(arch.sp)'] ELSE arch'.ac
  BY <1>1 DEF Popped
<1>4. ix' = IF 2 \in ir'.mask /\ b < 2 THEN m'[StackAddr(PopSp2)'] ELSE arch'.ix
  BY <1>1 DEF Popped
<1>5. l' = IF 1 \in ir'.mask /\ b < 1 THEN ISA!LinkOf(m[StackAddr(PopSp1)])' ELSE arch'.l
  BY <1>1 DEF Popped
<1>6. pc' = IF 1 \in ir'.mask /\ b < 1 THEN m'[StackAddr(PopSp1)'] % AddrMod ELSE ISA!After(FALSE)'
  BY <1>1 DEF Popped
<1> QED BY <1>2, <1>3, <1>4, <1>5, <1>6 DEF Popped

(* The sequencer goes to the highest bit left, or on to the next fetch.    *)
LEMMA PopWalk ==
  ASSUME TypeInv', ir'.op = "POP",
         NEW c \in {-1, 0, 1, 2, 3}, NEW left, left = {k \in ir'.mask : k <= c},
         Current', IAllowed', left = ir'.mask \/ IDone', Popped(c)',
         c = -1 => sp' = IF 0 \in ir'.mask THEN m'[StackAddr(PopSp0')] % PageSize ELSE PopSp0',
         c # -1 => sp' = PopSp(c)',
         upc'.at = MaskEntry(ir'.op, left), upc'.n = 1,
         msk' = IF left # {} THEN left \ {MaskBit(ir'.op, left)} ELSE {}
  PROVE  Stage'
<1>1. ir'.mask \in SUBSET (0 .. 3) /\ left \in SUBSET (0 .. 3)
  <2>1. ir' \in Instr
    BY DEF TypeInv, MicroTypeOK
  <2>2. ir'.mask \in SUBSET (0 .. 3)
    BY <2>1, InstrOps
  <2> QED BY <2>2
<1>2. CASE left = {}
  <2>1. upc'.at = "FETCH_I"
    BY <1>1, <1>2, MaskEntries
  <2>2. \A k \in {0, 1, 2, 3} : k <= c => k \notin ir'.mask
    BY <1>1, <1>2
  <2>3. Popped(-1)'
    <3>1. \A k \in {0, 1, 2, 3} : -1 < k /\ k <= c => k \notin ir'.mask
      BY <2>2
    <3> QED BY <3>1, SamePopped
  <2>4. sp' = IF 0 \in ir'.mask THEN m'[StackAddr(PopSp0')] % PageSize ELSE PopSp0'
    <3>1. CASE c = -1
      BY <3>1
    <3>2. CASE c # -1
      <4>1. PopSp(0)' = PopSp(c)'
        <5>1. \A k \in {0, 1, 2, 3} : 0 < k /\ k <= c => k \notin ir'.mask
          BY <2>2
        <5> QED BY <3>2, <5>1, SamePopSp
      <4>2. 0 \notin ir'.mask
        BY <2>2, <3>2
      <4>3. PopSp(0)' = PopSp0'
        BY DEF PopSp
      <4> QED BY <3>2, <4>1, <4>2, <4>3
    <3> QED BY <3>1, <3>2
  <2>5. AtFetchI'
    BY <1>2, <2>3, <2>4 DEF AtFetchI, StackAddr
  <2> QED BY <2>1, <2>5 DEF Stage, EaAt, JaAt, JmpAt, CalAt
<1>3. CASE left # {}
  <2> DEFINE b == MaskBit(ir'.op, left)
  <2>1. /\ b \in left /\ \A k \in left : b >= k
        /\ upc'.at = <<"POP_SP", "POP_LPC", "POP_IX", "POP_AC">>[1 + b]
    <3>1. b = Max(left)
      BY DEF MaskBit
    <3>2. b \in left /\ \A k \in left : b >= k
      BY <1>1, <1>3, <3>1, MaxOf
    <3>3. upc'.at = <<"POP_SP", "POP_LPC", "POP_IX", "POP_AC">>[1 + b]
      BY <1>1, <1>3, MaskEntries
    <3> QED BY <3>2, <3>3
  <2>2. msk' = left \ {b}
    BY <1>3
  <2> HIDE DEF b
  <2>3. b \in {0, 1, 2, 3} /\ b \in ir'.mask /\ b <= c
    <3>1. \A k \in 0 .. 3 : k \in {0, 1, 2, 3}
      OBVIOUS
    <3> QED BY <1>1, <2>1, <3>1
  <2>4. \A k \in {0, 1, 2, 3} : b < k /\ k <= c => k \notin ir'.mask
    BY <1>1, <2>1, <2>3
  <2>5. msk' = {k \in ir'.mask : k < b}
    BY <1>1, <2>1, <2>2, <2>3
  <2>7. ASSUME NEW d \in {0, 1, 2, 3}, b = d PROVE PopStage(d)'
    <3>1. Popped(d)'
      <4>1. \A k \in {0, 1, 2, 3} : d < k /\ k <= c => k \notin ir'.mask
        BY <2>4, <2>7
      <4> QED BY <2>3, <2>7, <4>1, SamePopped
    <3>2. d \in ir'.mask /\ msk' = {k \in ir'.mask : k < d} /\ ir'.op = "POP"
      BY <2>3, <2>5, <2>7
    <3>3. sp' = PopSp(d)'
      <4>1. c \in {0, 1, 2, 3} /\ d <= c
        BY <2>3, <2>7
      <4>2. \A k \in {0, 1, 2, 3} : d < k /\ k <= c => k \notin ir'.mask
        BY <2>4, <2>7
      <4> QED BY <4>1, <4>2, SamePopSp
    <3> QED BY <3>1, <3>2, <3>3 DEF PopStage
  <2>8. CASE b = 0
    <3>1. upc'.at = "POP_SP"
      BY <2>1, <2>8
    <3> QED BY <2>7, <2>8, <3>1 DEF Stage, EaAt, JaAt, JmpAt, CalAt
  <2>9. CASE b = 1
    <3>1. upc'.at = "POP_LPC"
      BY <2>1, <2>9
    <3> QED BY <2>7, <2>9, <3>1 DEF Stage, EaAt, JaAt, JmpAt, CalAt
  <2>10. CASE b = 2
    <3>1. upc'.at = "POP_IX"
      BY <2>1, <2>10
    <3> QED BY <2>7, <2>10, <3>1 DEF Stage, EaAt, JaAt, JmpAt, CalAt
  <2>11. CASE b = 3
    <3>1. upc'.at = "POP_AC"
      BY <2>1, <2>11
    <3> QED BY <2>7, <2>11, <3>1 DEF Stage, EaAt, JaAt, JmpAt, CalAt
  <2> QED BY <2>3, <2>8, <2>9, <2>10, <2>11
<1> QED BY <1>2, <1>3

(* A read that steps SP up, or leaves it.                                  *)
LEMMA UpStep ==
  ASSUME TypeInv, Cycle, ~Fetching, NEW up \in BOOLEAN, Word0 = [Read EXCEPT !.spup = up]
  PROVE  /\ UNCHANGED <<ac, ix, l, m, i, pc, msk, arch, ir, pgl, prog>>
         /\ di' = m[ar] /\ sp' = IF up THEN SpInc(sp) ELSE sp
         /\ upc'.at = upc.at /\ upc'.n = upc.n + 1
<1>1. /\ Word0.mem = "RD" /\ Word0.rdst = "NONE" /\ Word0.lctl = "HOLD" /\ Word0.ictl = "IHOLD"
      /\ Word0.spup = up /\ Word0.alu # "G1" /\ Word0.arsrc = "HOLD" /\ Word0.seq = "NEXT"
  BY DEF Read, Idle
<1>2. /\ UNCHANGED <<arch, ir, pgl, prog>> /\ ~IrqNow /\ ~IoSkip
  BY <1>1, Inner
<1>3. Dst = "NONE" /\ ~TakesSkip(Word0)
  BY <1>1 DEF Dst, TakesSkip
<1>4. ac' = ac /\ ix' = ix
  BY <1>1, <1>3 DEF Cycle, Registers
<1>5. sp' = IF up THEN SpInc(sp) ELSE sp
  <2>1. sp \in SpVals
    BY DEF TypeInv, MicroTypeOK
  <2> QED BY <1>1, <1>3, <2>1, StepSp DEF Cycle, Registers
<1>6. l' = l /\ i' = i
  BY <1>1 DEF Cycle, Flags
<1>7. m' = m /\ di' = m[ar]
  BY <1>1, <1>2 DEF Cycle, Memory
<1>8. pc' = pc
  BY <1>1, <1>2, <1>3 DEF Cycle, Addresses
<1>9. upc'.at = upc.at /\ upc'.n = upc.n + 1 /\ msk' = msk
  BY <1>1, InnerNext
<1> QED BY <1>2, <1>4, <1>5, <1>6, <1>7, <1>8, <1>9

(* The word that takes what was popped, and goes on.                       *)
LEMMA TakeStep ==
  ASSUME TypeInv, Cycle, ~Fetching,
         Word0.mem = "IDLE", Word0.ictl = "IFROMIR", Word0.spup = FALSE, Word0.seq = "MAPMASK",
         Word0.alu \in {"PASSB", "ADD"}, Word0.bsrc = "DI", Word0.lctl \in {"HOLD", "FROMDI"},
         Word0.rdst \in {"AC", "IX", "SP", "PC"}, Word0.arsrc \in {"PC", "DI"},
         Word0.rdst \in {"AC", "IX", "SP"} => Word0.alu = "PASSB" /\ Word0.arsrc = "PC",
         Word0.rdst = "PC" => Word0.arsrc = "DI"
  PROVE  /\ UNCHANGED <<m, arch, ir, pgl, prog>>
         /\ ac' = IF Word0.rdst = "AC" THEN di ELSE ac
         /\ ix' = IF Word0.rdst = "IX" THEN di ELSE ix
         /\ sp' = IF Word0.rdst = "SP" THEN di % PageSize ELSE sp
         /\ pc' = IF Word0.rdst = "PC" THEN di % AddrMod ELSE pc
         /\ l' = IF Word0.lctl = "FROMDI" THEN IF Sign(di) THEN 1 ELSE 0 ELSE l
         /\ i' = IF ir.ifield = "HOLD" THEN i ELSE ir.ifield = "EI"
         /\ upc'.at = MaskEntry(ir.op, msk) /\ upc'.n = 1
         /\ msk' = IF msk # {} THEN msk \ {MaskBit(ir.op, msk)} ELSE {}
<1>1. /\ UNCHANGED <<arch, ir, pgl, prog>> /\ ~IrqNow /\ ~IoSkip
  BY Inner
<1>2. Dst = Word0.rdst /\ ~TakesSkip(Word0)
  BY DEF Dst, TakesSkip
<1>3. Word0.alu = "PASSB" => AluOut.r = di
  BY Sums
<1>4. ac' = IF Word0.rdst = "AC" THEN di ELSE ac
  BY <1>2, <1>3 DEF Cycle, Registers
<1>5. ix' = IF Word0.rdst = "IX" THEN di ELSE ix
  BY <1>2, <1>3 DEF Cycle, Registers
<1>6. sp' = IF Word0.rdst = "SP" THEN di % PageSize ELSE sp
  BY <1>2, <1>3 DEF Cycle, Registers, SpField
<1>7. m' = m /\ di' = di
  BY DEF Cycle, Memory
<1>8. l' = IF Word0.lctl = "FROMDI" THEN IF Sign(di) THEN 1 ELSE 0 ELSE l
  BY <1>7 DEF Cycle, Flags
<1>9. i' = IF ir.ifield = "HOLD" THEN i ELSE ir.ifield = "EI"
  BY DEF Cycle, Flags
<1>10. pc' = IF Word0.rdst = "PC" THEN di % AddrMod ELSE pc
  BY <1>1, <1>2, <1>7 DEF Cycle, Addresses
<1>11. /\ upc'.at = MaskEntry(ir.op, msk) /\ upc'.n = 1
       /\ msk' = IF msk # {} THEN msk \ {MaskBit(ir.op, msk)} ELSE {}
  BY InnerNext
<1> QED BY <1>1, <1>4, <1>5, <1>6, <1>7, <1>8, <1>9, <1>10, <1>11

(* One bit of a POP: the address, the read, then the register.             *)
LEMMA PopStep ==
  ASSUME TypeInv, Stage, Cycle, upc.at \in Pops
  PROVE  Stage'
<1> DEFINE b == IF upc.at = "POP_SP" THEN 0 ELSE IF upc.at = "POP_LPC" THEN 1
                ELSE IF upc.at = "POP_IX" THEN 2 ELSE 3
           to == IF upc.at = "POP_SP" THEN "SP" ELSE IF upc.at = "POP_LPC" THEN "PC"
                 ELSE IF upc.at = "POP_IX" THEN "IX" ELSE "AC"
<1>1. PopStage(b)
  <2>1. CASE upc.at = "POP_SP"
    BY <2>1 DEF Stage
  <2>2. CASE upc.at = "POP_LPC"
    BY <2>2 DEF Stage
  <2>3. CASE upc.at = "POP_IX"
    BY <2>3 DEF Stage
  <2>4. CASE upc.at = "POP_AC"
    BY <2>4 DEF Stage
  <2> QED BY <2>1, <2>2, <2>3, <2>4 DEF Pops
<1>2. /\ Microprogram[upc.at][1] = [Idle EXCEPT !.arsrc = "STACKR"]
      /\ b # 0 => Microprogram[upc.at][2] = [Read EXCEPT !.spup = TRUE]
      /\ b = 0 => Microprogram[upc.at][2] = [Read EXCEPT !.spup = FALSE]
      /\ Len(Microprogram[upc.at]) = 3
  <2>3. CASE upc.at = "POP_SP"
    <3> DEFINE last == PopInto("SP")
    <3>1. Microprogram[upc.at] = << [Idle EXCEPT !.arsrc = "STACKR"], [Read EXCEPT !.spup = FALSE], last >>
      BY <2>3, StackTable DEF PopWords
    <3>2. b = 0
      BY <2>3
    <3> HIDE DEF last, b
    <3> QED BY <3>1, <3>2
  <2>4. CASE upc.at = "POP_LPC"
    <3> DEFINE last == [Walk EXCEPT !.arsrc = "DI", !.rdst = "PC", !.lctl = "FROMDI"]
    <3>1. Microprogram[upc.at] = << [Idle EXCEPT !.arsrc = "STACKR"], [Read EXCEPT !.spup = TRUE], last >>
      BY <2>4, StackTable DEF PopWords
    <3>2. b # 0
      BY <2>4
    <3> HIDE DEF last, b
    <3> QED BY <3>1, <3>2
  <2>5. CASE upc.at = "POP_IX"
    <3> DEFINE last == PopInto("IX")
    <3>1. Microprogram[upc.at] = << [Idle EXCEPT !.arsrc = "STACKR"], [Read EXCEPT !.spup = TRUE], last >>
      BY <2>5, StackTable DEF PopWords
    <3>2. b # 0
      BY <2>5
    <3> HIDE DEF last, b
    <3> QED BY <3>1, <3>2
  <2>6. CASE upc.at = "POP_AC"
    <3> DEFINE last == PopInto("AC")
    <3>1. Microprogram[upc.at] = << [Idle EXCEPT !.arsrc = "STACKR"], [Read EXCEPT !.spup = TRUE], last >>
      BY <2>6, StackTable DEF PopWords
    <3>2. b # 0
      BY <2>6
    <3> HIDE DEF last, b
    <3> QED BY <3>1, <3>2
  <2> QED BY <2>3, <2>4, <2>5, <2>6 DEF Pops
<1>3. (upc.n = 1 \/ upc.n = 2 \/ upc.n = 3) /\ ~Fetching
  BY <1>2 DEF TypeInv, MicroTypeOK, Fetching, Fetches, Pops
<1>4. /\ ir.op = "POP" /\ Current /\ IAllowed /\ Popped(b) /\ b \in ir.mask
      /\ msk = {k \in ir.mask : k < b}
  BY <1>1 DEF PopStage
<1>5. /\ upc.n < 3 => sp = PopSp(b)
      /\ upc.n = 2 => ar = StackAddr(sp)
      /\ upc.n = 3 => di = m[StackAddr(PopSp(b))] /\ sp = IF b = 0 THEN PopSp0 ELSE PopSp(b - 1)
  BY <1>1 DEF PopStage
<1>6. b \in {0, 1, 2, 3}
  OBVIOUS
<1>7. ASSUME UNCHANGED <<ac, ix, l, m, i, pc, arch, ir, pgl, prog>>
      PROVE  Current' /\ IAllowed' /\ \A d \in {0, 1, 2, 3} : Popped(d) => Popped(d)'
  <2>1. Current' /\ IAllowed'
    BY <1>4, <1>7, Stays
  <2>2. ASSUME NEW d \in {0, 1, 2, 3}, Popped(d) PROVE Popped(d)'
    <3>1. /\ PopSp1' = PopSp1 /\ PopSp2' = PopSp2 /\ ISA!After(FALSE)' = ISA!After(FALSE)
      BY <1>7, Frozen, FrozenStack
    <3> QED BY <1>7, <2>2, <3>1 DEF Popped, ISA!LinkOf, ISA!Sign, StackAddr
  <2> QED BY <2>1, <2>2
<1>8. ASSUME NEW at \in Pops, upc'.at = at,
             IF at = "POP_SP" THEN PopStage(0)' ELSE IF at = "POP_LPC" THEN PopStage(1)'
             ELSE IF at = "POP_IX" THEN PopStage(2)' ELSE PopStage(3)'
      PROVE  Stage'
  <2>1. CASE at = "POP_SP"
    BY <1>8, <2>1 DEF Stage, EaAt, JaAt, JmpAt, CalAt
  <2>2. CASE at = "POP_LPC"
    BY <1>8, <2>2 DEF Stage, EaAt, JaAt, JmpAt, CalAt
  <2>3. CASE at = "POP_IX"
    BY <1>8, <2>3 DEF Stage, EaAt, JaAt, JmpAt, CalAt
  <2>4. CASE at = "POP_AC"
    BY <1>8, <2>4 DEF Stage, EaAt, JaAt, JmpAt, CalAt
  <2> QED BY <1>8, <2>1, <2>2, <2>3, <2>4 DEF Pops
<1>9. CASE upc.n = 1
  <2>1. Word0 = [Idle EXCEPT !.arsrc = "STACKR"]
    BY <1>2, <1>9 DEF Word0
  <2>2. Plain(Word0) /\ Word0.mem = "IDLE" /\ Word0.seq = "NEXT" /\ Word0.arsrc = "STACKR"
    BY <2>1 DEF Plain, Idle
  <2>3. /\ UNCHANGED <<ac, ix, l, sp, m, i, pc, msk, arch, ir, pgl, prog>> /\ ar' = StackAddr(sp)
    BY <1>3, <2>2, PlainStep
  <2>4. upc'.at = upc.at /\ upc'.n = 2
    <3>1. upc'.at = upc.at /\ upc'.n = upc.n + 1
      BY <1>3, <2>2, InnerNext
    <3> QED BY <1>9, <3>1
  <2>5. ASSUME NEW d \in {0, 1, 2, 3}, b = d PROVE PopStage(d)'
    <3>1. sp' = PopSp(d)' /\ ar' = StackAddr(sp')
      BY <1>5, <1>9, <2>3, <2>5, FrozenStack
    <3>2. d \in ir'.mask /\ msk' = {k \in ir'.mask : k < d} /\ ir'.op = "POP"
      BY <1>4, <2>3, <2>5
    <3>3. Current' /\ IAllowed' /\ Popped(d)'
      BY <1>4, <1>7, <2>3, <2>5
    <3> QED BY <2>4, <3>1, <3>2, <3>3 DEF PopStage
  <2> QED BY <1>8, <2>4, <2>5
<1>10. CASE upc.n = 2
  <2>2. /\ UNCHANGED <<ac, ix, l, m, i, pc, msk, arch, ir, pgl, prog>>
        /\ di' = m[ar] /\ sp' = IF b # 0 THEN SpInc(sp) ELSE sp
        /\ upc'.at = upc.at /\ upc'.n = upc.n + 1
    <3>1. CASE b # 0
      <4>1. Word0 = [Read EXCEPT !.spup = TRUE]
        BY <1>2, <1>10, <3>1 DEF Word0
      <4> HIDE DEF b
      <4> QED BY <1>3, <3>1, <4>1, UpStep
    <3>2. CASE b = 0
      <4>1. Word0 = [Read EXCEPT !.spup = FALSE]
        BY <1>2, <1>10, <3>2 DEF Word0
      <4> HIDE DEF b
      <4> QED BY <1>3, <3>2, <4>1, UpStep
    <3> QED BY <3>1, <3>2
  <2>3. upc'.n = 3
    BY <1>10, <2>2
  <2>4. sp = PopSp(b) /\ ar = StackAddr(sp)
    BY <1>5, <1>10
  <2>5. sp' = IF b = 0 THEN PopSp0 ELSE PopSp(b - 1)
    <3>1. (b = 1 => b - 1 = 0) /\ (b = 2 => b - 1 = 1) /\ (b = 3 => b - 1 = 2)
      OBVIOUS
    <3> HIDE DEF b
    <3> QED BY <1>4, <1>6, <2>2, <2>4, <3>1, PopSpAre
  <2>6. ASSUME NEW d \in {0, 1, 2, 3}, b = d PROVE PopStage(d)'
    <3>1. sp' = IF d = 0 THEN PopSp0' ELSE PopSp(d - 1)'
      BY <2>2, <2>5, <2>6, FrozenStack
    <3>2. di' = m'[StackAddr(PopSp(d)')]
      <4>1. PopSp(d)' = PopSp(d)
        BY <2>2, FrozenStack
      <4> QED BY <2>2, <2>4, <2>6, <4>1
    <3>3. d \in ir'.mask /\ msk' = {k \in ir'.mask : k < d} /\ ir'.op = "POP"
      BY <1>4, <2>2, <2>6
    <3>4. Current' /\ IAllowed' /\ Popped(d)'
      BY <1>4, <1>7, <2>2, <2>6
    <3> QED BY <2>3, <3>1, <3>2, <3>3, <3>4 DEF PopStage, StackAddr
  <2> QED BY <1>8, <2>2, <2>6
<1>11. CASE upc.n = 3
  <2>1. Word0 = Microprogram[upc.at][3]
    BY <1>11 DEF Word0
  <2>2. /\ Word0.mem = "IDLE" /\ Word0.ictl = "IFROMIR" /\ Word0.spup = FALSE
        /\ Word0.seq = "MAPMASK" /\ Word0.bsrc = "DI" /\ Word0.rdst = to
        /\ to = "PC" => Word0.arsrc = "DI" /\ Word0.lctl = "FROMDI" /\ Word0.alu = "ADD"
        /\ to # "PC" => Word0.arsrc = "PC" /\ Word0.lctl = "HOLD" /\ Word0.alu = "PASSB"
    <3>1. CASE upc.at = "POP_LPC"
      <4>1. Word0 = [Walk EXCEPT !.arsrc = "DI", !.rdst = "PC", !.lctl = "FROMDI"]
        BY <2>1, <3>1, StackTable DEF PopWords
      <4> QED BY <3>1, <4>1 DEF Walk, Idle
    <3>2. CASE upc.at # "POP_LPC"
      <4>1. Word0 = PopInto(to)
        <5>1. CASE upc.at = "POP_SP"
          BY <2>1, <5>1, StackTable DEF PopWords
        <5>2. CASE upc.at = "POP_IX"
          BY <2>1, <5>2, StackTable DEF PopWords
        <5>3. CASE upc.at = "POP_AC"
          BY <2>1, <5>3, StackTable DEF PopWords
        <5> QED BY <3>2, <5>1, <5>2, <5>3 DEF Pops
      <4>2. to # "PC"
        BY <3>2
      <4> HIDE DEF to
      <4> QED BY <4>1, <4>2 DEF PopInto, Walk, Idle
    <3> QED BY <3>1, <3>2
  <2>3. to \in {"AC", "IX", "SP", "PC"}
    OBVIOUS
  <2>4. /\ UNCHANGED <<m, arch, ir, pgl, prog>>
        /\ ac' = IF to = "AC" THEN di ELSE ac
        /\ ix' = IF to = "IX" THEN di ELSE ix
        /\ sp' = IF to = "SP" THEN di % PageSize ELSE sp
        /\ pc' = IF to = "PC" THEN di % AddrMod ELSE pc
        /\ l' = IF to = "PC" THEN IF Sign(di) THEN 1 ELSE 0 ELSE l
        /\ i' = IF ir.ifield = "HOLD" THEN i ELSE ir.ifield = "EI"
        /\ upc'.at = MaskEntry(ir.op, msk) /\ upc'.n = 1
        /\ msk' = IF msk # {} THEN msk \ {MaskBit(ir.op, msk)} ELSE {}
    <3> HIDE DEF to, b
    <3> QED BY <1>3, <2>2, <2>3, TakeStep
  <2>5. IAllowed' /\ IDone' /\ Current'
    BY <1>4, <2>4, FieldStep DEF Current
  <2>6. di = m[StackAddr(PopSp(b))] /\ sp = IF b = 0 THEN PopSp0 ELSE PopSp(b - 1)
    BY <1>5, <1>11
  <2>7. /\ b = 0 => to = "SP" /\ b - 1 = -1
        /\ b = 1 => to = "PC" /\ b - 1 = 0
        /\ b = 2 => to = "IX" /\ b - 1 = 1
        /\ b = 3 => to = "AC" /\ b - 1 = 2
    BY DEF Pops
  <2> HIDE DEF to, b
  <2>8. ASSUME NEW d \in {0, 1, 2, 3}, b = d PROVE Stage'
    <3>1. /\ d = 0 => to = "SP" /\ d - 1 = -1
          /\ d = 1 => to = "PC" /\ d - 1 = 0
          /\ d = 2 => to = "IX" /\ d - 1 = 1
          /\ d = 3 => to = "AC" /\ d - 1 = 2
      BY <2>7, <2>8
    <3>2. di = m[StackAddr(PopSp(d))] /\ Popped(d) /\ d \in ir.mask
          /\ sp = IF d = 0 THEN PopSp0 ELSE PopSp(d - 1)
      BY <1>4, <2>6, <2>8
    <3>3. /\ m = arch.m
          /\ ac = IF 3 \in ir.mask /\ d < 3 THEN m[StackAddr(arch.sp)] ELSE arch.ac
          /\ ix = IF 2 \in ir.mask /\ d < 2 THEN m[StackAddr(PopSp2)] ELSE arch.ix
          /\ l  = IF 1 \in ir.mask /\ d < 1 THEN ISA!LinkOf(m[StackAddr(PopSp1)]) ELSE arch.l
          /\ pc = IF 1 \in ir.mask /\ d < 1 THEN m[StackAddr(PopSp1)] % AddrMod
                  ELSE ISA!After(FALSE)
      BY <3>2 DEF Popped
    <3>4. ac' = IF 3 \in ir.mask /\ d - 1 < 3 THEN m[StackAddr(arch.sp)] ELSE arch.ac
      BY <2>4, <3>1, <3>2, <3>3, PopSpAre
    <3>5. ix' = IF 2 \in ir.mask /\ d - 1 < 2 THEN m[StackAddr(PopSp2)] ELSE arch.ix
      <4>1. CASE d = 2
        BY <2>4, <3>1, <3>2, <4>1, PopSpAre
      <4>2. CASE d # 2
        <5>1. ix' = ix /\ (d < 2 <=> d - 1 < 2)
          BY <2>4, <3>1, <4>2
        <5> QED BY <3>3, <5>1
      <4> QED BY <4>1, <4>2
    <3>6. l' = IF 1 \in ir.mask /\ d - 1 < 1 THEN ISA!LinkOf(m[StackAddr(PopSp1)]) ELSE arch.l
      <4>1. ISA!LinkOf(di) = IF Sign(di) THEN 1 ELSE 0
        BY SameWords DEF ISA!LinkOf
      <4> QED BY <2>4, <3>1, <3>2, <3>3, <4>1, PopSpAre
    <3>7. pc' = IF 1 \in ir.mask /\ d - 1 < 1 THEN m[StackAddr(PopSp1)] % AddrMod
                ELSE ISA!After(FALSE)
      <4>1. CASE d = 1
        BY <2>4, <3>1, <3>2, <4>1, PopSpAre
      <4>2. CASE d # 1
        <5>1. pc' = pc /\ (d < 1 <=> d - 1 < 1)
          BY <2>4, <3>1, <4>2
        <5> QED BY <3>3, <5>1
      <4> QED BY <4>1, <4>2
    <3>8. Popped(d - 1)'
      <4>1. /\ PopSp1' = PopSp1 /\ PopSp2' = PopSp2 /\ ISA!After(FALSE)' = ISA!After(FALSE)
            /\ ISA!LinkOf(m[StackAddr(PopSp1)])' = ISA!LinkOf(m[StackAddr(PopSp1)])
        BY <2>4, Frozen, FrozenStack DEF ISA!LinkOf, ISA!Sign, StackAddr
      <4> QED BY <2>4, <3>3, <3>4, <3>5, <3>6, <3>7, <4>1 DEF Popped, StackAddr
    <3>9. /\ d - 1 = -1 => sp' = m'[StackAddr(PopSp0')] % PageSize
          /\ d - 1 # -1 => sp' = PopSp(d - 1)'
      <4>1. PopSp0' = PopSp0 /\ PopSp(d - 1)' = PopSp(d - 1)
        BY <2>4, FrozenStack
      <4> QED BY <2>4, <3>1, <3>2, <4>1, PopSpAre
    <3>10. msk = {k \in ir'.mask : k <= d - 1}
      <4>1. ir.mask \in SUBSET (0 .. 3)
        BY <1>4, InstrOps DEF TypeInv, MicroTypeOK
      <4> QED BY <1>4, <2>4, <2>8, <4>1
    <3>11. d - 1 \in {-1, 0, 1, 2, 3} /\ ir' = ir /\ TypeInv' /\ (d = 0 => 0 \in ir'.mask)
      BY <2>4, <3>2, CycleTyped
    <3>12. d - 1 = -1 <=> d = 0
      OBVIOUS
    <3> QED BY <1>4, <2>4, <2>5, <3>8, <3>9, <3>10, <3>11, <3>12, PopWalk
  <2> QED BY <1>6, <2>8
<1> QED BY <1>3, <1>9, <1>10, <1>11

(* A walk begins with the stack and the registers as they were.            *)
LEMMA WalkStarts ==
  ASSUME TypeInv', ir'.op \in {"PSH", "POP"}, Started',
         upc'.at = MaskEntry(ir'.op, ir'.mask), upc'.n = 1,
         msk' = IF ir'.mask # {} THEN ir'.mask \ {MaskBit(ir'.op, ir'.mask)} ELSE {}
  PROVE  Stage'
<1>1. /\ Current' /\ Kept' /\ Next1' /\ i' = arch'.i /\ sp' = arch'.sp /\ m' = arch'.m
  BY DEF Started, Still
<1>2. IAllowed'
  BY <1>1 DEF IAllowed
<1>3. ir'.mask \in SUBSET (0 .. 3)
  <2>1. ir' \in Instr
    BY DEF TypeInv, MicroTypeOK
  <2> QED BY <2>1, InstrOps
<1>4. CASE ir'.op = "PSH"
  <2>1. After1(Pushed(0))'
    BY <1>1 DEF After1, Pushed, ISA!Stack
  <2>2. ir'.mask = {k \in ir'.mask : k >= 0}
    BY <1>3
  <2> QED BY <1>1, <1>2, <1>4, <2>1, <2>2, PushWalk
<1>5. CASE ir'.op = "POP"
  <2>1. Popped(3)'
    BY <1>1 DEF Popped, Kept, Next1
  <2>2. sp' = PopSp(3)'
    BY <1>1 DEF PopSp
  <2>3. ir'.mask = {k \in ir'.mask : k <= 3}
    BY <1>3
  <2> DEFINE c == 3
  <2>4. c \in {-1, 0, 1, 2, 3} /\ c # -1
    OBVIOUS
  <2>5. Popped(c)' /\ sp' = PopSp(c)' /\ ir'.mask = {k \in ir'.mask : k <= c}
    BY <2>1, <2>2, <2>3
  <2> HIDE DEF c
  <2> QED BY <1>1, <1>2, <1>5, <2>4, <2>5, PopWalk
<1> QED BY <1>4, <1>5

(* The word of its own that starts a walk after a skip instruction.        *)
LEMMA G3Step ==
  ASSUME TypeInv, Stage, Cycle, upc.at = "G3"
  PROVE  Stage'
<1>1. Started /\ ir.op \in {"PSH", "POP"} /\ msk = ir.mask
  BY DEF Stage, AtG3, EaAt, JaAt, JmpAt, CalAt
<1>2. Word0 = [Idle EXCEPT !.seq = "MAPMASK"] /\ ~Fetching
  <2>1. upc.n = 1
    BY OpTable DEF TypeInv, MicroTypeOK
  <2> QED BY <2>1, OpTable DEF Word0, Fetching, Fetches
<1>3. /\ Word0.mem = "IDLE" /\ Word0.rdst = "NONE" /\ Word0.lctl = "HOLD" /\ Word0.ictl = "IHOLD"
      /\ Word0.spup = FALSE /\ Word0.alu # "G1" /\ Word0.arsrc = "HOLD" /\ Word0.seq = "MAPMASK"
  BY <1>2 DEF Idle
<1>4. UNCHANGED <<arch, ir, pgl, prog>> /\ ~IrqNow /\ ~IoSkip
  BY <1>2, <1>3, Inner
<1>5. /\ upc'.at = MaskEntry(ir.op, msk) /\ upc'.n = 1
      /\ msk' = IF msk # {} THEN msk \ {MaskBit(ir.op, msk)} ELSE {}
  BY <1>2, <1>3, InnerNext
<1>6. UNCHANGED <<ac, ix, l, sp, m, i, pc>>
  <2>1. Dst = "NONE" /\ ~TakesSkip(Word0)
    BY <1>3 DEF Dst, TakesSkip
  <2>2. ac' = ac /\ ix' = ix /\ sp' = sp
    BY <1>3, <2>1 DEF Cycle, Registers
  <2>3. l' = l /\ i' = i
    BY <1>3 DEF Cycle, Flags
  <2>4. m' = m
    BY <1>3 DEF Cycle, Memory
  <2>5. pc' = pc
    BY <1>3, <1>4, <2>1 DEF Cycle, Addresses
  <2> QED BY <2>2, <2>3, <2>4, <2>5
<1>7. Started'
  BY <1>1, <1>4, <1>6, Stays
<1>8. TypeInv' /\ ir' = ir
  BY <1>4, CycleTyped
<1> QED BY <1>1, <1>5, <1>7, <1>8, WalkStarts

-----------------------------------------------------------------------------
(* The fetches.                                                            *)

(* The map ROM's label says what the two mode bits are.                    *)
LEMMA ModeAt ==
  ASSUME NEW ins \in Instr,
         ins.op \in AluOps \cup {"DAC", "SAD", "ISZ", "DSZ", "JMP", "CAL"}
  PROVE  /\ ins.ind = (Map1(ins) \in {"EA_IN1", "EA_IX1", "JA_IN1", "JA_IX1", "JMP_IN1", "JMP_IX1",
                                      "CAL_IN", "CAL_XI"})
         /\ ins.idx = (Map1(ins) \in {"EA_IDX", "EA_IX1", "JA_IDX", "JA_IX1", "JMP_IDX", "JMP_IX1",
                                      "CAL_IX", "CAL_XI"})
<1>1. ins.ind \in BOOLEAN /\ ins.idx \in BOOLEAN
  BY DEF Instr, AluOps
<1>2. CASE ins.op \in AluOps \cup {"DAC", "SAD"}
  BY <1>1, <1>2 DEF Map1, Mode, AluOps
<1>3. CASE ins.op = "JMP"
  BY <1>1, <1>3 DEF Map1, Mode, AluOps
<1>4. CASE ins.op = "CAL"
  BY <1>1, <1>4 DEF Map1, Mode, AluOps
<1>5. CASE ins.op \in {"ISZ", "DSZ"}
  BY <1>1, <1>5 DEF Map1, Mode, AluOps
<1> QED BY <1>2, <1>3, <1>4, <1>5

(* A new instruction starts where the map ROM says.                        *)
LEMMA Dispatch ==
  ASSUME TypeInv', Started', upc'.n = 1,
         ir'.op \in {"PSH", "POP"} =>
           \/ upc'.at = "G3" /\ msk' = ir'.mask
           \/ /\ upc'.at = MaskEntry(ir'.op, ir'.mask)
              /\ msk' = IF ir'.mask # {} THEN ir'.mask \ {MaskBit(ir'.op, ir'.mask)} ELSE {},
         ir'.op \notin {"PSH", "POP"} => upc'.at = Map1(ir')
  PROVE  Stage'
<1>1. ir' \in Instr
  BY DEF TypeInv, MicroTypeOK
<1>2. CASE ir'.op \in AluOps \cup {"DAC", "SAD"}
  <2>1. upc'.at \in EaAt
    BY <1>1, <1>2, ModeLabels DEF AluOps
  <2>2. Mode2'
    BY <1>1, <1>2, <2>1, ModeAt DEF Mode2, AluOps, EaAt
  <2> QED BY <1>2, <2>1, <2>2 DEF Stage, AtEa, EaAt, JaAt, JmpAt, CalAt
<1>3. CASE ir'.op \in {"ISZ", "DSZ"}
  <2>1. upc'.at \in JaAt
    BY <1>1, <1>3, ModeLabels
  <2>2. Mode2'
    BY <1>1, <1>3, <2>1, ModeAt DEF Mode2, JaAt
  <2> QED BY <1>3, <2>1, <2>2 DEF Stage, AtJa, EaAt, JaAt, JmpAt, CalAt
<1>4. CASE ir'.op = "JMP"
  <2>1. upc'.at \in JmpAt
    BY <1>1, <1>4, ModeLabels
  <2>2. Mode2'
    BY <1>1, <1>4, <2>1, ModeAt DEF Mode2, JmpAt
  <2>3. AtJmp'
    BY <1>4, <2>2 DEF AtJmp, Started
  <2> QED BY <2>1, <2>3 DEF Stage, EaAt, JaAt, JmpAt, CalAt
<1>5. CASE ir'.op = "CAL"
  <2>1. upc'.at \in CalAt
    BY <1>1, <1>5, ModeLabels
  <2>2. /\ ir'.ind = (upc'.at \in {"CAL_IN", "CAL_XI"})
        /\ ir'.idx = (upc'.at \in {"CAL_IX", "CAL_XI"})
    BY <1>1, <1>5, <2>1, ModeAt DEF CalAt
  <2>3. AtCal'
    BY <1>5, <2>2 DEF AtCal, Started
  <2> QED BY <2>1, <2>3 DEF Stage, EaAt, JaAt, JmpAt, CalAt
<1>6. CASE ir'.op = "OPR1"
  <2>1. upc'.at = "FETCH_G"
    BY <1>1, <1>6, ModeLabels
  <2> QED BY <1>6, <2>1 DEF Stage, EaAt, JaAt, JmpAt, CalAt
<1>7. CASE ir'.op = "OPR2"
  <2>1. upc'.at = "FETCH_S"
    BY <1>1, <1>7, ModeLabels
  <2> QED BY <1>7, <2>1 DEF Stage, EaAt, JaAt, JmpAt, CalAt
<1>8. CASE ir'.op \in {"PSH", "POP"}
  <2>1. CASE upc'.at = "G3" /\ msk' = ir'.mask
    BY <1>8, <2>1 DEF Stage, AtG3, EaAt, JaAt, JmpAt, CalAt
  <2>2. CASE /\ upc'.at = MaskEntry(ir'.op, ir'.mask)
             /\ msk' = IF ir'.mask # {} THEN ir'.mask \ {MaskBit(ir'.op, ir'.mask)} ELSE {}
    BY <1>8, <2>2, WalkStarts
  <2> QED BY <1>8, <2>1, <2>2
<1>9. CASE ir'.op \in {"IMRD", "IMWR", "IMSET", "IMCLR", "SKI", "SKNI", "WAIT", "ACK"}
  <2>1. upc'.at = "IOT"
    BY <1>1, <1>9, ModeLabels
  <2> QED BY <1>9, <2>1 DEF Stage, AtIot, EaAt, JaAt, JmpAt, CalAt
<1> QED BY <1>1, <1>2, <1>3, <1>4, <1>5, <1>6, <1>7, <1>8, <1>9, InstrOps

(* None of the three places where the engine and the instruction set part: *)
(* a request that comes as a skip is taken or as a stack instruction       *)
(* without registers turns interrupts off, and the mask, which the engine  *)
(* leaves to a device it does not have.                                    *)
Clean ==
  /\ ~(IrqNow /\ Skipping)
  /\ ~(IrqNow /\ upc.at = "FETCH_I" /\ ir.ifield = "DI")
  /\ upc.at = "IOT" => ir.op \notin {"IMRD", "IMWR", "IMSET", "IMCLR"}

(* What every fetch does, and what the ones with an instruction folded in  *)
(* do besides.                                                             *)
LEMMA FetchWord ==
  ASSUME TypeInv, Fetching
  PROVE  /\ Word0.mem = "RD" /\ Word0.arsrc = "PCNEXT" /\ Word0.spup = FALSE
         /\ Word0.seq = IF upc.at = "FETCH_S" THEN "SKIPF" ELSE "MAP"
         /\ Word0.rdst = IF upc.at = "FETCH_A" THEN "FROMIR" ELSE "NONE"
         /\ Word0.lctl = IF upc.at = "FETCH_A" THEN "FROMALU" ELSE "HOLD"
         /\ Word0.ictl = IF upc.at = "FETCH_I" THEN "IFROMIR" ELSE "IHOLD"
         /\ Word0.alu = IF upc.at = "FETCH_A" THEN "FROMIR" ELSE IF upc.at = "FETCH_G" THEN "G1"
                        ELSE "ADD"
         /\ upc.at = "FETCH_A" => Word0.asrc = "FROMIR" /\ Word0.bsrc = "DI"
         /\ upc.at = "FETCH_S" => Word0.cc = "G2"
<1>1. upc.n = 1 /\ upc.at \in Fetches
  <2>1. Sane(upc.at, upc.n)
    BY SaneWord DEF TypeInv
  <2> QED BY <2>1 DEF Sane, Fetching
<1>2. CASE upc.at = "FETCH"
  <2>1. Word0 = Fetch
    BY <1>1, <1>2, FetchTable DEF Word0
  <2> QED BY <1>2, <2>1 DEF Fetch, Idle
<1>3. CASE upc.at = "FETCH_A"
  <2>1. Word0 = [Fetch EXCEPT !.asrc = "FROMIR", !.alu = "FROMIR", !.rdst = "FROMIR",
                              !.lctl = "FROMALU"]
    BY <1>1, <1>3, FetchTable DEF Word0
  <2> QED BY <1>3, <2>1 DEF Fetch, Idle
<1>4. CASE upc.at = "FETCH_G"
  <2>1. Word0 = [Fetch EXCEPT !.asrc = "AC", !.alu = "G1"]
    BY <1>1, <1>4, FetchTable DEF Word0
  <2> QED BY <1>4, <2>1 DEF Fetch, Idle
<1>5. CASE upc.at = "FETCH_S"
  <2>1. Word0 = [Fetch EXCEPT !.seq = "SKIPF", !.cc = "G2"]
    BY <1>1, <1>5, FetchTable DEF Word0
  <2> QED BY <1>5, <2>1 DEF Fetch, Idle
<1>6. CASE upc.at = "FETCH_I"
  <2>1. Word0 = [Fetch EXCEPT !.ictl = "IFROMIR"]
    BY <1>1, <1>6, FetchTable DEF Word0
  <2> QED BY <1>6, <2>1 DEF Fetch, Idle
<1> QED BY <1>1, <1>2, <1>3, <1>4, <1>5, <1>6 DEF Fetches

(* What a fetch moves: PC, and what the folded instruction loads.          *)
LEMMA FetchMoves ==
  ASSUME TypeInv, Cycle, Fetching
  PROVE  /\ UNCHANGED <<sp, m, req, prog>> /\ ~DoesIo /\ ~IoSkip /\ ~TakesSkip(Word0) /\ ~waiting'
         /\ pc' = IF IrqNow THEN pc ELSE Plus(pc, 1)
         /\ upc.at # "FETCH_I" => i' = i
         /\ upc.at = "FETCH_I" => i' = IF ir.ifield = "HOLD" THEN i ELSE ir.ifield = "EI"
         /\ upc.at \notin {"FETCH_A", "FETCH_G"} => UNCHANGED <<ac, ix, l>>
         /\ upc.at # "FETCH_G" => ~halted'
<1>1. /\ Word0.mem = "RD" /\ Word0.arsrc = "PCNEXT" /\ Word0.spup = FALSE
      /\ Word0.seq = (IF upc.at = "FETCH_S" THEN "SKIPF" ELSE "MAP")
      /\ Word0.rdst = (IF upc.at = "FETCH_A" THEN "FROMIR" ELSE "NONE")
      /\ Word0.lctl = (IF upc.at = "FETCH_A" THEN "FROMALU" ELSE "HOLD")
      /\ Word0.ictl = (IF upc.at = "FETCH_I" THEN "IFROMIR" ELSE "IHOLD")
      /\ upc.at # "FETCH_G" => Word0.alu # "G1"
  BY FetchWord
<1>2. ~DoesIo /\ ~IoSkip /\ ~TakesSkip(Word0)
  BY <1>1 DEF DoesIo, IoSkip, TakesSkip
<1>3. Dst \in {"AC", "IX", "NONE"} /\ (upc.at # "FETCH_A" => Dst = "NONE")
  <2>1. CASE upc.at = "FETCH_A"
    <3>1. ir.op \in AluOps /\ ir \in Instr
      BY <2>1 DEF TypeInv, OpFits, MicroTypeOK
    <3>2. ir.r \in {"AC", "IX"}
      BY <3>1, InstrOps
    <3> QED BY <1>1, <2>1, <3>2 DEF Dst
  <2>2. CASE upc.at # "FETCH_A"
    BY <1>1, <2>2 DEF Dst
  <2> QED BY <2>1, <2>2
<1>4. sp' = sp
  BY <1>1, <1>3 DEF Cycle, Registers
<1>5. m' = m /\ req' = req /\ ~waiting' /\ prog' = prog
  BY <1>1, <1>2 DEF Cycle, Memory, IoCycle
<1>6. pc' = IF IrqNow THEN pc ELSE Plus(pc, 1)
  BY <1>1, <1>2, <1>3 DEF Cycle, Addresses
<1>7. /\ upc.at # "FETCH_I" => i' = i
      /\ upc.at = "FETCH_I" => i' = IF ir.ifield = "HOLD" THEN i ELSE ir.ifield = "EI"
  BY <1>1 DEF Cycle, Flags
<1>8. upc.at \notin {"FETCH_A", "FETCH_G"} => UNCHANGED <<ac, ix, l>>
  <2>1. upc.at \notin {"FETCH_A", "FETCH_G"} => ac' = ac /\ ix' = ix
    BY <1>1, <1>3 DEF Cycle, Registers
  <2>2. upc.at \notin {"FETCH_A", "FETCH_G"} => l' = l
    BY <1>1 DEF Cycle, Flags
  <2> QED BY <2>1, <2>2
<1>9. upc.at # "FETCH_G" => ~halted'
  BY <1>1 DEF Cycle, Registers
<1> QED BY <1>2, <1>4, <1>5, <1>6, <1>7, <1>8, <1>9

(* A fetch that is not the first half of a skip shows the registers, and   *)
(* PC where the next instruction is.                                       *)
LEMMA Seen ==
  ASSUME TypeInv, Cycle, Fetching, IrqNow \/ ~Skipping
  PROVE  arch' = [ac |-> ac', ix |-> ix', l |-> l', sp |-> sp, i |-> i', m |-> m, pc |-> pc]
<1>1. Settled /\ sp' = sp /\ m' = m
  BY FetchMoves DEF Settled
<1>2. arch' = [ac |-> ac', ix |-> ix', l |-> l', sp |-> sp', i |-> i', m |-> m',
               pc |-> IF NewIr THEN Plus(pc', AddrMod - 1) ELSE pc']
  BY <1>1 DEF Cycle, Observe
<1>3. (IF NewIr THEN Plus(pc', AddrMod - 1) ELSE pc') = pc
  <2>1. CASE IrqNow
    BY <2>1, FetchMoves DEF NewIr
  <2>2. CASE ~IrqNow
    <3>1. NewIr /\ pc' = Plus(pc, 1)
      BY <2>2, FetchMoves DEF NewIr
    <3> QED BY <3>1, NextNext
  <2> QED BY <2>1, <2>2
<1> QED BY <1>1, <1>2, <1>3

(* A fetch interrupted: the entry begins.                                  *)
LEMMA FetchAsked ==
  ASSUME TypeInv, Stage, Cycle, Fetching, IrqNow
  PROVE  /\ Stage' \/ Late'
         /\ Clean => Stage'
<1>1. arch' = [ac |-> ac', ix |-> ix', l |-> l', sp |-> sp, i |-> i', m |-> m, pc |-> pc]
  BY Seen
<1>2. sp' = sp /\ m' = m /\ pc' = pc /\ req' = req /\ prog' = prog
  BY FetchMoves
<1>3. Rested'
  BY <1>1, <1>2 DEF Rested, Kept, Still
<1>4. arch'.i = i'
  BY <1>1
<1>5. upc'.at = "IRQ" /\ upc'.n = 1
  <2>1. Sequencer /\ upc \in [at : DOMAIN Microprogram, n : Nat \ {0}]
    BY DEF Cycle, TypeInv, MicroTypeOK
  <2>2. Word0.seq \in {"MAP", "SKIPF"} /\ ~Walks
    BY FetchWord DEF Walks
  <2>3. upc' = Goto("IRQ")
    BY <2>1, <2>2, SequencerIs
  <2> QED BY <2>3 DEF Goto
<1>6. irqDev' \in Devices /\ req[irqDev']
  BY IrqTyped DEF Cycle
<1>7. Noticed'
  BY <1>1, <1>2, <1>3, <1>6 DEF Noticed, Rested
<1>8. Entry'
  BY <1>3, <1>5, <1>7 DEF Entry
<1>9. CASE i'
  <2>1. AtIrq'
    BY <1>4, <1>8, <1>9 DEF AtIrq
  <2> QED BY <1>5, <2>1 DEF Stage, EaAt, JaAt, JmpAt, CalAt
<1>10. CASE ~i'
  <2>1. i /\ upc.at = "FETCH_I"
    BY <1>10, FetchMoves DEF IrqNow
  <2>2. AtFetchI /\ ir.op \in {"PSH", "POP"} /\ ir \in Instr
    BY <2>1 DEF Stage, AtFetchI, TypeInv, MicroTypeOK
  <2>3. ir.ifield = "DI"
    <3>1. ir.ifield \in {"HOLD", "DI", "EI"}
      BY <2>2 DEF Instr, AluOps
    <3> QED BY <1>10, <2>1, <3>1, FetchMoves
  <2>4. ir.mask = {}
    <3>1. ISA!IField(ir.ifield) = FALSE
      BY <2>3 DEF ISA!IField
    <3> QED BY <2>1, <2>2, <3>1 DEF AtFetchI, IDone
  <2>5. pc = Plus(arch.pc, 1) /\ ir = prog[arch.pc]
    BY <2>2, <2>4, EaIs DEF AtFetchI, Current, Next1, Popped
  <2>6. Plus(arch'.pc, AddrMod - 1) = arch.pc
    <3>1. arch.pc \in Addr
      BY DEF TypeInv, MicroTypeOK
    <3> QED BY <1>1, <2>5, <3>1, NextNext
  <2>7. IsBareDi(prog[Plus(arch.pc, AddrMod - 1)])'
    <3>1. prog'[Plus(arch'.pc, AddrMod - 1)] = ir
      BY <1>2, <2>5, <2>6
    <3> QED BY <2>2, <2>3, <2>4, <3>1 DEF IsBareDi, Plus
  <2>8. Late'
    BY <1>4, <1>5, <1>8, <1>10, <2>7 DEF Late
  <2>9. ~Clean
    BY <2>1, <2>3 DEF Clean
  <2> QED BY <2>8, <2>9
<1>11. i' \in BOOLEAN
  BY CycleTyped DEF TypeInv, MicroTypeOK
<1> QED BY <1>9, <1>10, <1>11

(* The skip the word tests is the instruction's.                           *)
LEMMA Conditions ==
  ASSUME TypeInv, Started, ir.op = "OPR2"
  PROVE  Cond("G2") <=> ISA!Condition(ir)
<1>1. ir.inv \in BOOLEAN
  <2>1. ir \in Instr
    BY DEF TypeInv, MicroTypeOK
  <2> QED BY <2>1 DEF Instr, AluOps
<1> DEFINE any == \/ "Z" \in ir.test /\ ac = 0
                  \/ "L" \in ir.test /\ l = 1
                  \/ "M" \in ir.test /\ Sign(ac)
<1>2. Cond("G2") = (ir.inv # any)
  BY DEF Cond
<1>3. ISA!Condition(ir) = IF ir.inv THEN ~any ELSE any
  BY SameWords DEF ISA!Condition, Started, Kept
<1>4. any \in BOOLEAN
  OBVIOUS
<1> HIDE DEF any
<1>5. CASE ir.inv = TRUE
  <2>1. CASE any = TRUE
    BY <1>2, <1>3, <1>5, <2>1
  <2>2. CASE any = FALSE
    BY <1>2, <1>3, <1>5, <2>2
  <2> QED BY <1>4, <2>1, <2>2
<1>6. CASE ir.inv = FALSE
  <2>1. CASE any = TRUE
    BY <1>2, <1>3, <1>6, <2>1
  <2>2. CASE any = FALSE
    BY <1>2, <1>3, <1>6, <2>2
  <2> QED BY <1>4, <2>1, <2>2
<1> QED BY <1>1, <1>5, <1>6

(* A skip taken: the word just read is let go.                             *)
LEMMA FetchSkips ==
  ASSUME TypeInv, Stage, Cycle, Fetching, ~IrqNow, Skipping
  PROVE  Stage' /\ UNCHANGED arch
<1>1. upc.at = "FETCH_S" /\ Cond("G2")
  <2>1. upc.at = "FETCH_S" /\ Cond(Word0.cc)
    BY DEF Skipping
  <2> QED BY <2>1, FetchWord
<1>2. Started /\ ir.op = "OPR2"
  BY <1>1 DEF Stage, EaAt, JaAt, JmpAt, CalAt
<1>3. UNCHANGED <<ac, ix, l, sp, m, i, prog>> /\ pc' = Plus(pc, 1) /\ ~DoesIo
  BY <1>1, FetchMoves
<1>4. arch' = arch /\ ir' = ir
  BY <1>3 DEF Settled, NewIr, Cycle, Observe, Load
<1>5. upc'.at = "FETCH" /\ upc'.n = 1
  <2>1. Word0.seq = "SKIPF" /\ ~Walks
    BY <1>1, FetchWord DEF Walks
  <2> QED BY <2>1, SequencerIs DEF Cycle, Goto
<1>6. ISA!Condition(ir)
  BY <1>1, <1>2, Conditions
<1>7. Ran'
  <2>1. pc' = ISA!After(TRUE)'
    <3>1. pc = Plus(arch.pc, 1)
      BY <1>2, EaIs DEF Started, Next1
    <3>2. ISA!After(TRUE)' = Plus(arch.pc, 2)
      BY <1>3, <1>4, EaIs, Frozen
    <3> QED BY <1>3, <3>1, <3>2, NextNext
  <2>2. ISA!Condition(ir)'
    <3>1. ISA!Condition(ir)' <=> ISA!Condition(ir)
      BY <1>4 DEF ISA!Condition, ISA!Sign
    <3> QED BY <1>6, <3>1
  <2>3. ir' = prog'[arch'.pc] /\ Kept' /\ i' = arch'.i /\ ir'.op = "OPR2" /\ Still'
    BY <1>2, <1>3, <1>4 DEF Started, Current, Kept, Still
  <2> QED BY <2>1, <2>2, <2>3 DEF Ran
<1> QED BY <1>4, <1>5, <1>7 DEF Stage, AtFetch, EaAt, JaAt, JmpAt, CalAt

(* The fetch of an instruction.                                            *)
LEMMA FetchStarts ==
  ASSUME TypeInv, Cycle, Fetching, ~IrqNow, ~Skipping
  PROVE  Stage'
<1>1. arch' = [ac |-> ac', ix |-> ix', l |-> l', sp |-> sp, i |-> i', m |-> m, pc |-> pc]
  BY Seen
<1>2. NewIr /\ sp' = sp /\ m' = m /\ pc' = Plus(pc, 1) /\ prog' = prog /\ ar = pc /\ TypeInv'
  BY FetchMoves, CycleTyped DEF NewIr, TypeInv, ArFits, Fetching
<1>3. ir' = prog[pc] /\ pgl' = pc \div PageSize
  <2>1. ir' = prog[ar] /\ pgl' = Plus(pc', AddrMod - 1) \div PageSize
    BY <1>2 DEF Cycle, Load, PageOf
  <2> QED BY <1>2, <2>1, NextNext
<1>4. Started'
  <2>1. Current'
    BY <1>1, <1>2, <1>3 DEF Current
  <2>2. Kept' /\ Still' /\ i' = arch'.i
    BY <1>1, <1>2 DEF Kept, Still
  <2>3. Next1'
    <3>1. ISA!After(FALSE)' = Plus(arch'.pc, 1)
      BY DEF ISA!After, ISA!Plus, Plus
    <3> QED BY <1>1, <1>2, <3>1 DEF Next1
  <2> QED BY <2>1, <2>2, <2>3 DEF Started
<1>5. ir' \in Instr /\ (ir'.op \in {"PSH", "POP"} <=> Map1(ir') = "G3")
  <2>1. ir' \in Instr
    BY <1>2 DEF TypeInv, MicroTypeOK
  <2> QED BY <2>1, ModeLabels
<1>6. /\ Word0.seq \in {"MAP", "SKIPF"}
      /\ Walks <=> Word0.seq = "MAP" /\ ir'.op \in {"PSH", "POP"}
  BY <1>5, FetchWord DEF Walks
<1>7. CASE ~Walks
  <2>1. upc' = Goto(Map1(ir')) /\ msk' = Left
    BY <1>6, <1>7, SequencerIs DEF Cycle
  <2>2. ir'.op \in {"PSH", "POP"} => upc'.at = "G3" /\ msk' = ir'.mask
    BY <1>2, <1>5, <2>1 DEF Left, Goto
  <2> QED BY <1>2, <1>4, <2>1, <2>2, Dispatch DEF Goto
<1>8. CASE Walks
  <2>1. Left = ir'.mask
    BY <1>2, <1>6, <1>8 DEF Left
  <2>2. Sequencer /\ upc \in [at : DOMAIN Microprogram, n : Nat \ {0}]
    BY DEF Cycle, TypeInv, MicroTypeOK
  <2>3. upc' = Goto(MaskEntry(ir'.op, ir'.mask))
    BY <1>6, <1>8, <2>1, <2>2, SequencerIs
  <2>4. msk' = IF Left # {} THEN Left \ {MaskBit(ir'.op, Left)} ELSE Left
    BY <1>8, <2>2, SequencerIs
  <2>5. msk' = IF ir'.mask # {} THEN ir'.mask \ {MaskBit(ir'.op, ir'.mask)} ELSE {}
    BY <2>1, <2>4
  <2>6. upc'.at = MaskEntry(ir'.op, ir'.mask) /\ upc'.n = 1
    BY <2>3 DEF Goto
  <2> QED BY <1>2, <1>4, <1>6, <1>8, <2>5, <2>6, Dispatch
<1> QED BY <1>7, <1>8

-----------------------------------------------------------------------------
(* I/O, and every cycle.                                                   *)

(* The I/O cycle, which is an instruction by itself.                       *)
LEMMA IoMoves ==
  ASSUME TypeInv, Cycle, upc.at = "IOT"
  PROVE  /\ UNCHANGED <<ac, ix, l, sp, m, i, ir, pgl, prog, irqDev>> /\ ~halted' /\ DoesIo /\ ~NewIr
         /\ pc' = IF ir.op \in {"SKI", "SKNI"} /\ i = (ir.op = "SKI") THEN Plus(pc, 1) ELSE pc
         /\ waiting' = (ir.op = "WAIT")
         /\ req' = IF ir.op = "ACK" THEN [req EXCEPT ![ir.dev] = FALSE] ELSE req
         /\ upc'.at = "FETCH" /\ upc'.n = 1
         /\ arch' = [ac |-> ac, ix |-> ix, l |-> l, sp |-> sp, i |-> i, m |-> m, pc |-> pc']
<1>1. Word0 = [ToFetch EXCEPT !.mem = "IO", !.arsrc = "PC"]
  <2>1. upc.n = 1
    <3>1. Len(Microprogram["IOT"]) = 1
      BY OpTable
    <3> QED BY <3>1 DEF TypeInv, MicroTypeOK
  <2> QED BY <2>1, OpTable DEF Word0
<1>2. /\ Word0.mem = "IO" /\ Word0.arsrc = "PC" /\ Word0.rdst = "NONE" /\ Word0.lctl = "HOLD"
      /\ Word0.ictl = "IHOLD" /\ Word0.spup = FALSE /\ Word0.alu = "ADD" /\ Word0.seq = "JUMP"
      /\ Word0.na = "FETCH"
  BY <1>1 DEF ToFetch, Idle
<1>3. ~Fetching /\ ~IrqNow /\ ~NewIr /\ ~TakesSkip(Word0) /\ Dst = "NONE"
  BY <1>2 DEF Fetching, Fetches, IrqNow, IrqChecks, NewIr, TakesSkip, Dst
<1>4. DoesIo /\ Settled
  BY <1>2 DEF DoesIo, Settled
<1>5. ac' = ac /\ ix' = ix /\ sp' = sp /\ ~halted'
  BY <1>2, <1>3 DEF Cycle, Registers
<1>6. l' = l /\ i' = i
  BY <1>2 DEF Cycle, Flags
<1>7. m' = m /\ ir' = ir /\ pgl' = pgl /\ prog' = prog
  BY <1>2, <1>3 DEF Cycle, Memory, Load
<1>8. pc' = IF IoSkip THEN Plus(pc, 1) ELSE pc
  BY <1>2, <1>3 DEF Cycle, Addresses
<1>9. IoSkip <=> ir.op \in {"SKI", "SKNI"} /\ i = (ir.op = "SKI")
  BY <1>4 DEF IoSkip
<1>10. /\ waiting' = (ir.op = "WAIT")
       /\ req' = IF ir.op = "ACK" THEN [req EXCEPT ![ir.dev] = FALSE] ELSE req
  <2>1. waiting' = (DoesIo /\ ir.op = "WAIT")
    BY DEF Cycle, IoCycle
  <2>2. req' = IF ir.op = "ACK" THEN [req EXCEPT ![ir.dev] = FALSE] ELSE req
    BY <1>4 DEF Cycle, IoCycle
  <2> QED BY <1>4, <2>1, <2>2
<1>11. Sequencer /\ upc \in [at : DOMAIN Microprogram, n : Nat \ {0}] /\ ~Walks
  BY <1>2 DEF Cycle, TypeInv, MicroTypeOK, Walks
<1>12. irqDev' = irqDev /\ upc' = Goto("FETCH")
  <2>1. irqDev' = irqDev
    BY <1>3, <1>11, SequencerIs
  <2>2. ~Skipping
    BY <1>3 DEF Skipping, Fetching, Fetches
  <2>3. upc' = Goto("FETCH")
    BY <1>2, <1>3, <1>11, <2>2, SequencerIs
  <2> QED BY <2>1, <2>3
<1>13. arch' = [ac |-> ac, ix |-> ix, l |-> l, sp |-> sp, i |-> i, m |-> m, pc |-> pc']
  BY <1>3, <1>4, <1>5, <1>6, <1>7 DEF Cycle, Observe
<1> QED BY <1>3, <1>4, <1>5, <1>6, <1>7, <1>8, <1>9, <1>10, <1>12, <1>13 DEF Goto

(* After it the registers are the architectural ones.                      *)
LEMMA IotStep ==
  ASSUME TypeInv, Cycle, upc.at = "IOT"
  PROVE  Stage'
<1>1. Rested'
  BY IoMoves DEF Rested, Kept, Still
<1> QED BY <1>1, IoMoves DEF Stage, AtFetch, EaAt, JaAt, JmpAt, CalAt

(* Each cycle takes the registers to what the next word expects (ucode.py  *)
(* MICROPROGRAM, each word's successor).                                   *)
LEMMA CycleStaged ==
  ASSUME TypeInv, Stage, Cycle
  PROVE  /\ Stage' \/ Late'
         /\ Clean => Stage'
<1>1. upc.at \in Firsts
  BY Places DEF TypeInv, MicroTypeOK
<1>2. CASE Fetching
  <2>1. CASE IrqNow
    BY <1>2, <2>1, FetchAsked
  <2>2. CASE ~IrqNow /\ Skipping
    BY <1>2, <2>2, FetchSkips
  <2>3. CASE ~IrqNow /\ ~Skipping
    BY <1>2, <2>3, FetchStarts
  <2> QED BY <2>1, <2>2, <2>3
<1>3. CASE upc.at \in EaAt
  BY <1>3, EaStep
<1>4. CASE upc.at \in JaAt
  BY <1>4, JaStep
<1>5. CASE upc.at \in JmpAt
  BY <1>5, JmpStep
<1>6. CASE upc.at \in CalAt
  BY <1>6, CalStep
<1>7. CASE upc.at \in Pushes
  BY <1>7, PushStep
<1>8. CASE upc.at \in Pops
  BY <1>8, PopStep
<1>9. CASE upc.at \in {"OP_RD", "OP_DAC", "OP_SAD", "OP_ISZ"}
  BY <1>9, ReadStep, DepositStep, CompareStep, CountStep
<1>10. CASE upc.at \in {"G3", "IOT", "SKIP", "IRQ"}
  BY <1>10, G3Step, IotStep, SkipStep, IrqStep
<1> QED BY <1>1, <1>2, <1>3, <1>4, <1>5, <1>6, <1>7, <1>8, <1>9, <1>10
        DEF Firsts, StackAt, Pushes, Pops, Fetching

(* Nothing else touches what Stage speaks of, but for more requests.       *)
LEMMA StillStaged ==
  ASSUME Stage, UNCHANGED <<regs, prog>>, \A n \in Devices : req[n] => req'[n]
  PROVE  Stage'
<1>1. Noticed => Noticed'
  BY DEF Noticed, Kept, regs
<1>2. /\ Current' = Current /\ Kept' = Kept /\ Next1' = Next1 /\ IAllowed' = IAllowed
      /\ Started' = Started /\ Still' = Still /\ Rested' = Rested
  BY Stays DEF regs
<1>3. /\ UNCHANGED <<ac, ix, l, pc, sp, i, m, ir, msk, di, do, ar, pgl, irqDev, upc, arch, prog>>
  BY DEF regs
<1>4. /\ ISA!Ea(ir)' = ISA!Ea(ir) /\ ISA!Target(ir)' = ISA!Target(ir)
      /\ ISA!Reg(ir.r)' = ISA!Reg(ir.r) /\ Stepped' = Stepped
      /\ ISA!After(TRUE)' = ISA!After(TRUE) /\ ISA!After(FALSE)' = ISA!After(FALSE)
      /\ ISA!LinkWord(ISA!After(FALSE))' = ISA!LinkWord(ISA!After(FALSE))
      /\ ISA!LinkWord(arch.pc)' = ISA!LinkWord(arch.pc)
      /\ ISA!Stack(arch.sp, arch.m)' = ISA!Stack(arch.sp, arch.m)
  BY <1>3, Frozen
<1>5. Counted' = Counted
  BY <1>2, <1>3, <1>4 DEF Counted
<1>6. After1(Return(ISA!After(FALSE))) => After1(Return(ISA!After(FALSE)))'
  <2>1. Return(ISA!After(FALSE))' = Return(ISA!After(FALSE))
    BY <1>3, Frozen
  <2> QED BY <1>3, <2>1 DEF After1
<1>7. Return(arch.pc)' = Return(arch.pc)
  BY <1>3, Frozen
<1>8. AtFetch => AtFetch'
  <2>1. Ran => Ran'
    <3>1. ISA!After(arch.m[ISA!Ea(ir)] # ISA!Reg(ir.r))' = ISA!After(arch.m[ISA!Ea(ir)] # ISA!Reg(ir.r))
      BY <1>3, <1>4 DEF ISA!After, ISA!Plus
    <3>2. ISA!After(Stepped = 0)' = ISA!After(Stepped = 0)
      BY <1>3, <1>4 DEF ISA!After, ISA!Plus
    <3>3. ISA!Condition(ir) => ISA!Condition(ir)'
      BY <1>3 DEF ISA!Condition, ISA!Sign
    <3>4. ir' = ir /\ prog' = prog /\ arch' = arch /\ pc' = pc /\ sp' = sp /\ m' = m /\ i' = i
      BY <1>3
    <3> QED BY <1>2, <1>4, <1>6, <3>1, <3>2, <3>3, <3>4 DEF Ran
  <2>2. Took => Took'
    BY <1>1, <1>3, <1>7 DEF Took, Entered, After1
  <2> QED BY <1>2, <2>1, <2>2 DEF AtFetch
<1>9. AtIrq => AtIrq'
  BY <1>1, <1>2, <1>3, <1>4, <1>7 DEF AtIrq, Entry, Pushing, After1
<1>10. AtFetchA => AtFetchA'
  BY <1>2, <1>3, <1>4 DEF AtFetchA
<1>11. \A b \in {-1, 0, 1, 2, 3} : Popped(b) => Popped(b)'
  BY <1>3, <1>4, FrozenStack DEF Popped, ISA!LinkOf, ISA!Sign
<1>12. AtFetchI => AtFetchI'
  <2>1. Pushed(4)' = Pushed(4) /\ PopSp0' = PopSp0
    BY <1>3, FrozenStack
  <2>2. IDone' = IDone
    BY <1>3 DEF IDone, ISA!IField
  <2> QED BY <1>2, <1>3, <1>11, <2>1, <2>2 DEF AtFetchI, After1
<1>13. Mode2 => Mode2'
  BY <1>3 DEF Mode2
<1>14. (AtEa => AtEa') /\ (AtJa => AtJa')
  BY <1>2, <1>3, <1>13 DEF AtEa, AtJa
<1>15. AtJmp => AtJmp'
  BY <1>2, <1>3, <1>6, <1>13 DEF AtJmp
<1>16. AtCal => AtCal'
  BY <1>2, <1>3, <1>4 DEF AtCal, Pushing
<1>17. (AtRead => AtRead') /\ (AtDeposit => AtDeposit') /\ (AtCompare => AtCompare')
  BY <1>2, <1>3, <1>4 DEF AtRead, AtDeposit, AtCompare
<1>18. (AtCount => AtCount') /\ (AtSkip => AtSkip')
  BY <1>2, <1>3, <1>4, <1>5 DEF AtCount, AtSkip
<1>19. (AtG3 => AtG3') /\ (AtIot => AtIot')
  BY <1>2, <1>3 DEF AtG3, AtIot
<1>20. \A b \in {0, 1, 2, 3} : PushStage(b) => PushStage(b)'
  <2> SUFFICES ASSUME NEW b \in {0, 1, 2, 3}, PushStage(b) PROVE PushStage(b)'
    OBVIOUS
  <2>1. Pushed(b)' = Pushed(b) /\ PushedWord(b)' = PushedWord(b)
    BY <1>3, FrozenStack
  <2> QED BY <1>2, <1>3, <2>1 DEF PushStage, After1, Pushing
<1>21. \A b \in {0, 1, 2, 3} : PopStage(b) => PopStage(b)'
  <2> SUFFICES ASSUME NEW b \in {0, 1, 2, 3}, PopStage(b) PROVE PopStage(b)'
    OBVIOUS
  <2>1. PopSp(b)' = PopSp(b) /\ PopSp0' = PopSp0 /\ PopSp(b - 1)' = PopSp(b - 1)
    BY <1>3, FrozenStack
  <2> QED BY <1>2, <1>3, <1>11, <2>1 DEF PopStage
<1> QED BY <1>2, <1>3, <1>8, <1>9, <1>10, <1>12, <1>14, <1>15, <1>16, <1>17, <1>18, <1>19,
           <1>20, <1>21 DEF Stage

(* Nor of what a late entry does.                                          *)
LEMMA StillLate ==
  ASSUME Late, UNCHANGED <<regs, prog>>, \A n \in Devices : req[n] => req'[n]
  PROVE  Late'
<1>1. /\ UNCHANGED <<ac, ix, l, pc, sp, i, m, ar, di, do, pgl, ir, irqDev, upc, arch, prog>>
  BY DEF regs
<1>2. /\ Noticed => Noticed'
      /\ Rested' = Rested
  BY <1>1, Stays DEF Noticed, Kept
<1>3. /\ Return(arch.pc)' = Return(arch.pc)
      /\ ISA!LinkWord(arch.pc)' = ISA!LinkWord(arch.pc)
      /\ ISA!Stack(arch.sp, arch.m)' = ISA!Stack(arch.sp, arch.m)
  BY <1>1, Frozen
<1>4. (Entered => Entered') /\ (Entry => Entry')
  BY <1>1, <1>2, <1>3 DEF Entered, Entry, Pushing, After1
<1>5. IsBareDi(prog[Plus(arch.pc, AddrMod - 1)])'
  BY <1>1 DEF Late, IsBareDi, Plus
<1> QED BY <1>1, <1>4, <1>5 DEF Late

-----------------------------------------------------------------------------
(* What Isa sees.                                                          *)

(* What Isa sees of a cycle in which no instruction ends: nothing.         *)
LEMMA Hidden ==
  ASSUME TypeInv, Cycle, ~Settled
  PROVE  UNCHANGED ISA!vars
<1>1. ~DoesIo /\ arch' = arch /\ prog' = prog
  BY DEF Settled, Cycle, Observe
<1>2. req' = req /\ waiting' = waiting
  <2>1. ~waiting' /\ ~waiting /\ waiting' \in BOOLEAN /\ waiting \in BOOLEAN
    BY <1>1, CycleTyped DEF Cycle, IoCycle, TypeInv, MicroTypeOK
  <2> QED BY <1>1, <2>1 DEF Cycle, IoCycle
<1>3. halted' = halted
  <2>1. Word0.alu # "G1"
    <3>1. CASE Fetching
      BY <3>1, FetchWord DEF Settled, Skipping
    <3>2. CASE ~Fetching
      BY <3>2, SaneWord DEF TypeInv, Sane, Fetching, Fetches
    <3> QED BY <3>1, <3>2
  <2>2. ~halted' /\ ~halted /\ halted' \in BOOLEAN /\ halted \in BOOLEAN
    BY <2>1, CycleTyped DEF Cycle, Registers, TypeInv, MicroTypeOK
  <2> QED BY <2>2
<1> QED BY <1>1, <1>2, <1>3 DEF ISA!vars

(* What it sees of a fetch that is not half a skip.                        *)
LEMMA Shown ==
  ASSUME TypeInv, Cycle, Fetching, IrqNow \/ ~Skipping
  PROVE  /\ arch'.ac = ac' /\ arch'.ix = ix' /\ arch'.l = l' /\ arch'.sp = sp /\ arch'.i = i'
         /\ arch'.m = m /\ arch'.pc = pc
         /\ UNCHANGED <<prog, req, waiting>> /\ ~waiting /\ ~halted
         /\ upc.at # "FETCH_G" => halted' = halted
<1>1. arch' = [ac |-> ac', ix |-> ix', l |-> l', sp |-> sp, i |-> i', m |-> m, pc |-> pc]
  BY Seen
<1>2. ~waiting' /\ ~waiting /\ waiting' \in BOOLEAN /\ waiting \in BOOLEAN
  BY FetchMoves, CycleTyped DEF Cycle, TypeInv, MicroTypeOK
<1>3. halted' \in BOOLEAN /\ halted \in BOOLEAN /\ ~halted
  BY CycleTyped DEF Cycle, TypeInv, MicroTypeOK
<1>4. upc.at # "FETCH_G" => halted' = halted
  BY <1>3, FetchMoves
<1> QED BY <1>1, <1>2, <1>3, <1>4, FetchMoves

(* A fetch that finds an instruction over shows it executed.               *)
LEMMA EndPlain ==
  ASSUME TypeInv, Cycle, IrqNow \/ ~Skipping, upc.at = "FETCH", Ran
  PROVE  ISA!Execute
<1> DEFINE ins == prog[arch.pc]
<1>1. /\ arch'.ac = arch.ac /\ arch'.ix = arch.ix /\ arch'.l = arch.l /\ arch'.i = arch.i
      /\ arch'.sp = sp /\ arch'.m = m /\ arch'.pc = pc
      /\ UNCHANGED <<prog, req, waiting, halted>> /\ ~waiting /\ ~halted
  BY Shown, FetchMoves DEF Fetching, Fetches, Ran, Kept
<1>2. ir = ins
  BY DEF Ran
<1>3. CASE ir.op = "DAC"
  <2>1. sp = arch.sp /\ m = [arch.m EXCEPT ![ISA!Ea(ir)] = ISA!Reg(ir.r)] /\ pc = ISA!After(FALSE)
    BY <1>3 DEF Ran, Next1
  <2> QED BY <1>1, <1>2, <1>3, <2>1 DEF ISA!Execute, ISA!Perform, ISA!Deposit
<1>4. CASE ir.op = "SAD"
  <2>1. sp = arch.sp /\ m = arch.m /\ pc = ISA!After(arch.m[ISA!Ea(ir)] # ISA!Reg(ir.r))
    BY <1>4 DEF Ran, Still
  <2> QED BY <1>1, <1>2, <1>4, <2>1 DEF ISA!Execute, ISA!Perform, ISA!Compare
<1>5. CASE ir.op = "JMP"
  <2>1. sp = arch.sp /\ m = arch.m /\ pc = ISA!Target(ir)
    BY <1>5 DEF Ran, Still
  <2> QED BY <1>1, <1>2, <1>5, <2>1 DEF ISA!Execute, ISA!Perform, ISA!Jump
<1>6. CASE ir.op = "CAL"
  <2>1. /\ sp = Return(ISA!After(FALSE)).sp /\ m = Return(ISA!After(FALSE)).m
        /\ pc = ISA!Target(ir)
    BY <1>6 DEF Ran, After1
  <2> QED BY <1>1, <1>2, <1>6, <2>1 DEF ISA!Execute, ISA!Perform, ISA!Call, Return
<1>7. CASE ir.op \in {"ISZ", "DSZ"}
  <2>1. sp = arch.sp /\ m = [arch.m EXCEPT ![ISA!Ea(ir)] = Stepped] /\ pc = ISA!After(Stepped = 0)
    BY <1>7 DEF Ran
  <2>2. Stepped = (arch.m[ISA!Ea(ir)] + (IF ir.op = "ISZ" THEN 1 ELSE ISA!WordMod - 1)) % ISA!WordMod
    BY SameWords DEF Stepped
  <2> QED BY <1>1, <1>2, <1>7, <2>1, <2>2 DEF ISA!Execute, ISA!Perform, ISA!Count
<1>8. CASE ir.op = "OPR2"
  <2>1. sp = arch.sp /\ m = arch.m /\ pc = ISA!After(TRUE) /\ ISA!Condition(ir)
    BY <1>8 DEF Ran, Still
  <2>2. ISA!After(ISA!Condition(ir)) = ISA!After(TRUE)
    BY <2>1 DEF ISA!After
  <2> QED BY <1>1, <1>2, <1>8, <2>1, <2>2 DEF ISA!Execute, ISA!Perform, ISA!SkipOn
<1> QED BY <1>3, <1>4, <1>5, <1>6, <1>7, <1>8 DEF Ran

(* A fetch that finds an entry over shows the interrupt accepted.          *)
LEMMA EndEntry ==
  ASSUME TypeInv, Cycle, IrqNow \/ ~Skipping, upc.at = "FETCH", Took
  PROVE  ISA!Accept(irqDev) /\ irqDev \in Devices
<1>1. /\ arch'.ac = arch.ac /\ arch'.ix = arch.ix /\ arch'.l = arch.l /\ arch'.i = i
      /\ arch'.sp = sp /\ arch'.m = m /\ arch'.pc = pc
      /\ UNCHANGED <<prog, req, waiting, halted>> /\ ~waiting /\ ~halted
  BY Shown, FetchMoves DEF Fetching, Fetches, Took, Entered, Noticed, Kept
<1>2. /\ irqDev \in Devices /\ req[irqDev] /\ arch.i /\ ~i /\ i \in BOOLEAN
      /\ pc = m[irqDev] % AddrMod
      /\ sp = Return(arch.pc).sp /\ m = Return(arch.pc).m
  BY DEF Took, Entered, Noticed, After1, TypeInv, MicroTypeOK
<1>3. ISA!Open(irqDev)
  BY <1>2, MaskAssumption DEF ISA!Open
<1>4. arch'.i = FALSE /\ waiting' = FALSE
  BY <1>1, <1>2 DEF TypeInv, MicroTypeOK
<1> QED BY <1>1, <1>2, <1>3, <1>4 DEF ISA!Accept, Return

(* What the ALU leaves when the instruction names the operation.           *)
LEMMA Folded ==
  ASSUME TypeInv, Word0.alu = "FROMIR", ir.op \in AluOps
  PROVE  AluOut.r = AluWord(ir.op, BusA, BusB) /\ AluOut.l = AluLink(ir.op, BusA, BusB, l)
<1>1. ir.op \notin {"ISZ", "DSZ"}
  BY DEF AluOps
<1>2. AluOut = [r |-> AluWord(ir.op, BusA, BusB), l |-> AluLink(ir.op, BusA, BusB, l)]
  BY <1>1 DEF AluOut
<1> QED BY <1>2

(* An arithmetic instruction ends in the fetch it is folded into.          *)
LEMMA EndArith ==
  ASSUME TypeInv, Stage, Cycle, upc.at = "FETCH_A"
  PROVE  ISA!Execute
<1>1. Fetching /\ ~Skipping
  BY DEF Fetching, Fetches, Skipping
<1>2. Started /\ ir.op \in AluOps /\ di = arch.m[ISA!Ea(ir)]
  BY DEF Stage, AtFetchA
<1>3. /\ ir = prog[arch.pc] /\ ac = arch.ac /\ ix = arch.ix /\ l = arch.l /\ i = arch.i
      /\ sp = arch.sp /\ m = arch.m /\ pc = ISA!After(FALSE)
  BY <1>2 DEF Started, Current, Kept, Still, Next1
<1>4. Word0.alu = "FROMIR" /\ Word0.rdst = "FROMIR" /\ Word0.lctl = "FROMALU"
      /\ Word0.asrc = "FROMIR" /\ Word0.bsrc = "DI" /\ Word0.spup = FALSE
  BY <1>1, FetchWord
<1>5. BusA = RegOfIr /\ BusB = di
  BY <1>4 DEF BusA, BusB
<1>6. RegOfIr = ISA!Reg(ir.r)
  BY <1>3 DEF RegOfIr, ISA!Reg
<1>7. /\ AluOut.r = ISA!AluWord(ir.op, ISA!Reg(ir.r), arch.m[ISA!Ea(ir)])
      /\ AluOut.l = ISA!AluLink(ir.op, ISA!Reg(ir.r), arch.m[ISA!Ea(ir)], arch.l)
  BY <1>2, <1>3, <1>4, <1>5, <1>6, Folded, SameWords
<1>8. ir.r \in {"AC", "IX"}
  BY <1>2, InstrOps DEF TypeInv, MicroTypeOK
<1>9. ac' = (IF ir.r = "AC" THEN AluOut.r ELSE ac) /\ ix' = (IF ir.r = "IX" THEN AluOut.r ELSE ix)
  BY <1>4, <1>8 DEF Cycle, Registers, Dst
<1>10. l' = AluOut.l
  BY <1>4 DEF Cycle, Flags
<1>11. i' = i
  BY <1>1, FetchMoves
<1>12. /\ arch'.ac = ac' /\ arch'.ix = ix' /\ arch'.l = l' /\ arch'.sp = sp /\ arch'.i = i'
       /\ arch'.m = m /\ arch'.pc = pc
       /\ UNCHANGED <<prog, req, waiting, halted>> /\ ~waiting /\ ~halted
  BY <1>1, Shown
<1>13. ISA!Arith(ir)
  <2>1. ir.op \in ISA!AluOps
    BY <1>2 DEF ISA!AluOps, AluOps
  <2> QED BY <1>3, <1>7, <1>9, <1>10, <1>11, <1>12, <2>1 DEF ISA!Arith
<1> QED BY <1>3, <1>12, <1>13 DEF ISA!Execute, ISA!Perform

(* So does an operate instruction of group 1.                              *)
LEMMA EndOperate ==
  ASSUME TypeInv, Stage, Cycle, upc.at = "FETCH_G"
  PROVE  ISA!Execute
<1>1. Fetching /\ ~Skipping
  BY DEF Fetching, Fetches, Skipping
<1>2. Started /\ ir.op = "OPR1"
  BY DEF Stage, EaAt, JaAt, JmpAt, CalAt
<1>3. /\ ir = prog[arch.pc] /\ ac = arch.ac /\ ix = arch.ix /\ l = arch.l /\ i = arch.i
      /\ sp = arch.sp /\ m = arch.m /\ pc = ISA!After(FALSE)
  BY <1>2 DEF Started, Current, Kept, Still, Next1
<1>4. Word0.alu = "G1" /\ Word0.rdst = "NONE" /\ Word0.lctl = "HOLD"
  BY <1>1, FetchWord
<1>5. AluOut.r = Group1(ir.mic, ac, l).ac /\ AluOut.l = Group1(ir.mic, ac, l).l
  <2>1. AluOut = [r |-> Group1(ir.mic, ac, l).ac, l |-> Group1(ir.mic, ac, l).l]
    BY <1>4 DEF AluOut
  <2> QED BY <2>1
<1>6. AluOut.r = ISA!Group1(ir.mic, arch.ac, arch.l).ac /\ AluOut.l = ISA!Group1(ir.mic, arch.ac, arch.l).l
  BY <1>3, <1>5, SameWords
<1>7. /\ ac' = AluOut.r
      /\ ix' = IF "IXC" \in ir.mic THEN (ix + 1) % WordMod ELSE ix
      /\ halted' = ("HLT" \in ir.mic)
  <2>1. Dst = "NONE"
    BY <1>4 DEF Dst
  <2>2. Registers
    BY DEF Cycle
  <2>3. ac' = AluOut.r
    BY <1>4, <2>2 DEF Registers
  <2>4. ix' = IF "IXC" \in ir.mic THEN (ix + 1) % WordMod ELSE ix
    BY <1>4, <2>1, <2>2 DEF Registers
  <2>5. halted' = ("HLT" \in ir.mic)
    <3>1. halted' = (Word0.alu = "G1" /\ "HLT" \in ir.mic)
      BY <2>2 DEF Registers
    <3> QED BY <1>4, <3>1
  <2> QED BY <2>3, <2>4, <2>5
<1>8. l' = AluOut.l
  BY <1>4 DEF Cycle, Flags
<1>9. i' = i
  BY <1>1, FetchMoves
<1>10. /\ arch'.ac = ac' /\ arch'.ix = ix' /\ arch'.l = l' /\ arch'.sp = sp /\ arch'.i = i'
       /\ arch'.m = m /\ arch'.pc = pc
       /\ UNCHANGED <<prog, req, waiting>> /\ ~waiting /\ ~halted
  BY <1>1, Shown
<1>11. arch'.ix = IF "IXC" \in ir.mic THEN (arch.ix + 1) % ISA!WordMod ELSE arch.ix
  BY <1>3, <1>7, <1>10, SameWords
<1>12. ISA!Operate(ir)
  BY <1>2, <1>3, <1>6, <1>7, <1>8, <1>9, <1>10, <1>11 DEF ISA!Operate
<1> QED BY <1>3, <1>10, <1>12 DEF ISA!Execute, ISA!Perform

(* So does a skip that is not taken.                                       *)
LEMMA EndSkip ==
  ASSUME TypeInv, Stage, Cycle, upc.at = "FETCH_S", ~Skipping
  PROVE  ISA!Execute
<1>1. Fetching
  BY DEF Fetching, Fetches
<1>2. Started /\ ir.op = "OPR2"
  BY DEF Stage, EaAt, JaAt, JmpAt, CalAt
<1>3. /\ ir = prog[arch.pc] /\ ac = arch.ac /\ ix = arch.ix /\ l = arch.l /\ i = arch.i
      /\ sp = arch.sp /\ m = arch.m /\ pc = ISA!After(FALSE)
  BY <1>2 DEF Started, Current, Kept, Still, Next1
<1>4. ~ISA!Condition(ir)
  <2>1. ~Cond("G2")
    BY <1>1, FetchWord DEF Skipping
  <2> QED BY <1>2, <2>1, Conditions
<1>5. ISA!After(ISA!Condition(ir)) = ISA!After(FALSE)
  BY <1>4 DEF ISA!After
<1>6. /\ arch'.ac = ac' /\ arch'.ix = ix' /\ arch'.l = l' /\ arch'.sp = sp /\ arch'.i = i'
      /\ arch'.m = m /\ arch'.pc = pc
      /\ UNCHANGED <<prog, req, waiting, halted>> /\ ~waiting /\ ~halted
  BY <1>1, Shown
<1>7. UNCHANGED <<ac, ix, l, i>>
  BY <1>1, FetchMoves
<1>8. ISA!SkipOn(ir)
  BY <1>2, <1>3, <1>5, <1>6, <1>7 DEF ISA!SkipOn
<1> QED BY <1>3, <1>6, <1>8 DEF ISA!Execute, ISA!Perform

(* The fetch of a stack instruction shows the registers as the walk left   *)
(* them, and I as the instruction sets it.                                 *)
LEMMA StackShown ==
  ASSUME TypeInv, Stage, Cycle, upc.at = "FETCH_I"
  PROVE  /\ arch'.ac = ac /\ arch'.ix = ix /\ arch'.l = l /\ arch'.sp = sp /\ arch'.m = m
         /\ arch'.pc = pc /\ arch'.i = ISA!IField(ir.ifield)
         /\ UNCHANGED <<prog, req, waiting, halted>> /\ ~waiting /\ ~halted
         /\ ir = prog[arch.pc]
<1>1. Fetching /\ ~Skipping
  BY DEF Fetching, Fetches, Skipping
<1>2. Current /\ IAllowed /\ ir.op \in {"PSH", "POP"}
  BY DEF Stage, AtFetchI
<1>3. UNCHANGED <<ac, ix, l>> /\ i' = IF ir.ifield = "HOLD" THEN i ELSE ir.ifield = "EI"
  BY <1>1, FetchMoves
<1>4. i' = ISA!IField(ir.ifield)
  <2>1. ir.ifield \in {"HOLD", "DI", "EI"}
    BY <1>2 DEF TypeInv, MicroTypeOK, Instr, AluOps
  <2>2. CASE ir.ifield = "HOLD"
    BY <1>2, <1>3, <2>2 DEF IAllowed, ISA!IField
  <2>3. CASE ir.ifield = "DI"
    BY <1>3, <2>3 DEF ISA!IField
  <2>4. CASE ir.ifield = "EI"
    BY <1>3, <2>4 DEF ISA!IField
  <2> QED BY <2>1, <2>2, <2>3, <2>4
<1>5. /\ arch'.ac = ac' /\ arch'.ix = ix' /\ arch'.l = l' /\ arch'.sp = sp /\ arch'.i = i'
      /\ arch'.m = m /\ arch'.pc = pc
      /\ UNCHANGED <<prog, req, waiting, halted>> /\ ~waiting /\ ~halted
  BY <1>1, Shown
<1> QED BY <1>2, <1>3, <1>4, <1>5 DEF Current

(* PSH has pushed what the instruction set says.                           *)
LEMMA EndPush ==
  ASSUME TypeInv, Stage, Cycle, upc.at = "FETCH_I", ir.op = "PSH"
  PROVE  ISA!Execute
<1>1. Kept /\ Next1 /\ After1(Pushed(4))
  BY DEF Stage, AtFetchI
<1>2. Pushed(4) = ISA!PushMask(ir.mask, ISA!After(FALSE))
  <2>1. Pushed(4) = Pushed4
    BY PushedAre
  <2> QED BY <2>1 DEF ISA!PushMask, Pushed1, Pushed2, Pushed3, Pushed4
<1>3. /\ ac = arch.ac /\ ix = arch.ix /\ l = arch.l /\ pc = ISA!After(FALSE)
      /\ sp = ISA!PushMask(ir.mask, ISA!After(FALSE)).sp
      /\ m = ISA!PushMask(ir.mask, ISA!After(FALSE)).m
  BY <1>1, <1>2 DEF Kept, Next1, After1
<1>4. ISA!Push(ir)
  BY <1>3, StackShown DEF ISA!Push
<1> QED BY <1>4, StackShown DEF ISA!Execute, ISA!Perform

(* The word {L,PC} pushes comes apart as it went together.                 *)
LEMMA LinkParts ==
  ASSUME NEW k \in Link, NEW a \in Addr
  PROVE  /\ ISA!LinkOf(k * AddrMod + a) = k
         /\ (k * AddrMod + a) % AddrMod = a
<1>1. AddrMod \in Nat \ {0} /\ a \in 0 .. AddrMod - 1
  BY Sizes DEF Addr
<1>2. a % AddrMod = a /\ (AddrMod + a) % AddrMod = a
  BY <1>1, Small
<1>3. CASE k = 0
  <2>1. k * AddrMod + a = a /\ ~(a >= AddrMod)
    BY <1>1, <1>3
  <2> QED BY <1>2, <1>3, <2>1 DEF ISA!LinkOf, ISA!Sign
<1>4. CASE k = 1
  <2>1. k * AddrMod + a = AddrMod + a /\ AddrMod + a >= AddrMod
    BY <1>1, <1>4
  <2> QED BY <1>2, <1>4, <2>1 DEF ISA!LinkOf, ISA!Sign
<1> QED BY <1>3, <1>4 DEF Link

(* POP has popped it.                                                      *)
LEMMA EndPop ==
  ASSUME TypeInv, Stage, Cycle, upc.at = "FETCH_I", ir.op = "POP"
  PROVE  ISA!Execute
<1> DEFINE popped == ISA!PopMask(ir.mask, ISA!Stack(arch.sp, arch.m), ISA!After(FALSE))
           lpc == IF 1 \in ir.mask THEN arch.m[StackAddr(PopSp1)]
                  ELSE arch.l * AddrMod + ISA!After(FALSE)
<1>1. /\ Popped(-1)
      /\ sp = IF 0 \in ir.mask THEN m[StackAddr(PopSp0)] % PageSize ELSE PopSp0
  BY DEF Stage, AtFetchI
<1>2. /\ m = arch.m
      /\ ac = IF 3 \in ir.mask THEN m[StackAddr(arch.sp)] ELSE arch.ac
      /\ ix = IF 2 \in ir.mask THEN m[StackAddr(PopSp2)] ELSE arch.ix
      /\ l  = IF 1 \in ir.mask THEN ISA!LinkOf(m[StackAddr(PopSp1)]) ELSE arch.l
      /\ pc = IF 1 \in ir.mask THEN m[StackAddr(PopSp1)] % AddrMod ELSE ISA!After(FALSE)
  BY <1>1 DEF Popped
<1>3. /\ popped.ac = IF 3 \in ir.mask THEN arch.m[StackAddr(arch.sp)] ELSE arch.ac
      /\ popped.ix = IF 2 \in ir.mask THEN arch.m[StackAddr(PopSp2)] ELSE arch.ix
      /\ popped.lpc = lpc
      /\ popped.sp = IF 0 \in ir.mask THEN arch.m[StackAddr(PopSp0)] % PageSize ELSE PopSp0
  BY SameWords DEF ISA!PopMask, ISA!Stack, ISA!LinkWord, PopSp2, PopSp1, PopSp0
<1>4. l = ISA!LinkOf(lpc) /\ pc = lpc % AddrMod
  <2>1. arch.l \in Link /\ ISA!After(FALSE) \in Addr
    BY EaIs, Ranges DEF TypeInv, MicroTypeOK
  <2>2. /\ ISA!LinkOf(arch.l * AddrMod + ISA!After(FALSE)) = arch.l
        /\ (arch.l * AddrMod + ISA!After(FALSE)) % AddrMod = ISA!After(FALSE)
    BY <2>1, LinkParts
  <2>3. CASE 1 \in ir.mask
    BY <1>2, <2>3
  <2>4. CASE 1 \notin ir.mask
    BY <1>2, <2>2, <2>4
  <2> QED BY <2>3, <2>4
<1> HIDE DEF lpc
<1>5. /\ ac = popped.ac /\ ix = popped.ix /\ l = ISA!LinkOf(popped.lpc) /\ pc = popped.lpc % AddrMod
      /\ sp = popped.sp /\ m = arch.m
  BY <1>1, <1>2, <1>3, <1>4
<1>6. ISA!Pop(ir)
  BY <1>5, StackShown DEF ISA!Pop
<1> QED BY <1>6, StackShown DEF ISA!Execute, ISA!Perform

(* What an I/O cycle does is the instruction, but for the mask.            *)
LEMMA EndIo ==
  ASSUME TypeInv, Stage, Cycle, upc.at = "IOT", ir.op \notin {"IMRD", "IMWR", "IMSET", "IMCLR"}
  PROVE  ISA!Execute
<1>1. Started /\ ir.op \in {"SKI", "SKNI", "WAIT", "ACK"}
  BY DEF Stage, AtIot, EaAt, JaAt, JmpAt, CalAt
<1>2. /\ ir = prog[arch.pc] /\ ac = arch.ac /\ ix = arch.ix /\ l = arch.l /\ i = arch.i
      /\ sp = arch.sp /\ m = arch.m /\ pc = ISA!After(FALSE)
  BY <1>1 DEF Started, Current, Kept, Still, Next1
<1>3. /\ prog' = prog
      /\ waiting' = (ir.op = "WAIT")
      /\ req' = IF ir.op = "ACK" THEN [req EXCEPT ![ir.dev] = FALSE] ELSE req
      /\ arch' = [ac |-> ac, ix |-> ix, l |-> l, sp |-> sp, i |-> i, m |-> m, pc |-> pc']
  BY IoMoves
<1>4. /\ UNCHANGED <<arch.ac, arch.ix, arch.l, arch.sp, arch.i, arch.m>>
      /\ arch'.pc = pc'
  BY <1>2, <1>3
<1>5. halted' = halted /\ ~waiting /\ ~halted
  BY IoMoves, CycleTyped DEF Cycle, TypeInv, MicroTypeOK
<1>6. waiting' = IF ir.op = "WAIT" THEN TRUE ELSE waiting
  <2>1. waiting = FALSE
    BY <1>5 DEF TypeInv, MicroTypeOK
  <2>2. CASE ir.op = "WAIT"
    BY <1>3, <2>2
  <2>3. CASE ir.op # "WAIT"
    BY <1>3, <2>1, <2>3
  <2> QED BY <2>2, <2>3
<1>7. CASE ir.op \in {"SKI", "SKNI"}
  <2>1. pc' = IF i = (ir.op = "SKI") THEN Plus(pc, 1) ELSE pc
    BY <1>7, IoMoves
  <2>2. pc' = ISA!After(arch.i = (ir.op = "SKI"))
    <3>1. ISA!After(arch.i = (ir.op = "SKI")) =
            IF arch.i = (ir.op = "SKI") THEN ISA!After(TRUE) ELSE ISA!After(FALSE)
      BY DEF ISA!After
    <3>2. Plus(ISA!After(FALSE), 1) = ISA!After(TRUE)
      BY EaIs, NextNext
    <3> QED BY <1>2, <2>1, <3>1, <3>2
  <2>3. ISA!SkipIo(ir)
    BY <1>3, <1>4, <1>5, <1>6, <1>7, <2>2 DEF ISA!SkipIo
  <2> QED BY <1>2, <1>3, <1>5, <2>3 DEF ISA!Execute, ISA!Perform
<1>8. CASE ir.op \in {"WAIT", "ACK"}
  <2>1. pc' = ISA!After(FALSE)
    BY <1>2, <1>8, IoMoves
  <2>2. ISA!WaitIo(ir) \/ ISA!Ack(ir)
    BY <1>3, <1>4, <1>5, <1>6, <1>8, <2>1 DEF ISA!WaitIo, ISA!Ack
  <2> QED BY <1>2, <1>3, <1>5, <2>2 DEF ISA!Execute, ISA!Perform
<1> QED BY <1>1, <1>7, <1>8

(* A mask operation passes.                                                *)
LEMMA EndMask ==
  ASSUME TypeInv, Stage, Cycle, upc.at = "IOT", ir.op \in {"IMRD", "IMWR", "IMSET", "IMCLR"}
  PROVE  PassesMask
<1>1. Started
  BY DEF Stage, AtIot, EaAt, JaAt, JmpAt, CalAt
<1>2. /\ ir = prog[arch.pc] /\ ac = arch.ac /\ ix = arch.ix /\ l = arch.l /\ i = arch.i
      /\ sp = arch.sp /\ m = arch.m /\ pc = ISA!After(FALSE)
  BY <1>1 DEF Started, Current, Kept, Still, Next1
<1>3. /\ UNCHANGED <<prog, req>> /\ waiting' = FALSE /\ pc' = pc /\ ~halted'
      /\ arch' = [ac |-> ac, ix |-> ix, l |-> l, sp |-> sp, i |-> i, m |-> m, pc |-> pc']
  BY IoMoves
<1>4. ~waiting /\ ~halted /\ waiting \in BOOLEAN /\ halted \in BOOLEAN /\ halted' \in BOOLEAN
  BY CycleTyped DEF Cycle, TypeInv, MicroTypeOK
<1>5. arch'.pc = ISA!After(FALSE) /\ UNCHANGED <<arch.ac, arch.ix, arch.l, arch.sp, arch.i, arch.m>>
  BY <1>2, <1>3
<1>6. waiting' = waiting
  BY <1>3, <1>4
<1>7. halted' = halted
  BY <1>3, <1>4
<1> QED BY <1>2, <1>3, <1>4, <1>5, <1>6, <1>7 DEF PassesMask, PassesOn

(* A request noticed as a skip is taken loses it.                          *)
LEMMA EndLost ==
  ASSUME TypeInv, Stage, Cycle, upc.at = "FETCH_S", IrqNow, Skipping
  PROVE  LosesSkip
<1>1. Fetching
  BY DEF Fetching, Fetches
<1>2. Started /\ ir.op = "OPR2"
  BY DEF Stage, EaAt, JaAt, JmpAt, CalAt
<1>3. /\ ir = prog[arch.pc] /\ ac = arch.ac /\ ix = arch.ix /\ l = arch.l /\ i = arch.i
      /\ sp = arch.sp /\ m = arch.m /\ pc = ISA!After(FALSE)
  BY <1>2 DEF Started, Current, Kept, Still, Next1
<1>4. ISA!Condition(ir)
  <2>1. Cond("G2")
    BY <1>1, FetchWord DEF Skipping
  <2> QED BY <1>2, <2>1, Conditions
<1>5. /\ arch' = [ac |-> ac', ix |-> ix', l |-> l', sp |-> sp, i |-> i', m |-> m, pc |-> pc]
      /\ UNCHANGED <<prog, req, waiting, halted>> /\ ~waiting /\ ~halted
  BY <1>1, Seen, Shown
<1>6. UNCHANGED <<ac, ix, l, i>>
  BY <1>1, FetchMoves
<1>7. arch'.pc = ISA!After(FALSE) /\ UNCHANGED <<arch.ac, arch.ix, arch.l, arch.sp, arch.i, arch.m>>
  BY <1>3, <1>5, <1>6
<1>8. arch.i /\ ISA!Pending
  BY <1>3 DEF IrqNow, ISA!Pending
<1> QED BY <1>2, <1>3, <1>4, <1>5, <1>7, <1>8 DEF LosesSkip, PassesOn

(* The fetch behind a late entry shows it.                                 *)
LEMMA EndLate ==
  ASSUME TypeInv, Late, Cycle, upc.at = "FETCH"
  PROVE  AcceptsLate(irqDev) /\ irqDev \in Devices
<1>1. Entered /\ ~arch.i /\ IsBareDi(prog[Plus(arch.pc, AddrMod - 1)])
  BY DEF Late
<1>2. Fetching /\ ~Skipping
  BY DEF Fetching, Fetches, Skipping
<1>3. /\ arch' = [ac |-> ac', ix |-> ix', l |-> l', sp |-> sp, i |-> i', m |-> m, pc |-> pc]
      /\ UNCHANGED <<prog, req, waiting, halted>> /\ ~waiting /\ ~halted
  BY <1>2, Seen, Shown
<1>4. UNCHANGED <<ac, ix, l, i>>
  BY <1>2, FetchMoves
<1>5. /\ irqDev \in Devices /\ req[irqDev] /\ ac = arch.ac /\ ix = arch.ix /\ l = arch.l
      /\ sp = Return(arch.pc).sp /\ m = Return(arch.pc).m /\ pc = m[irqDev] % AddrMod
  BY <1>1 DEF Entered, Noticed, Kept, After1
<1>6. i = arch.i
  BY <1>1 DEF Entered, TypeInv, MicroTypeOK
<1>7. /\ arch'.sp = Return(arch.pc).sp /\ arch'.m = Return(arch.pc).m
      /\ arch'.pc = Return(arch.pc).m[irqDev] % AddrMod
      /\ UNCHANGED <<arch.ac, arch.ix, arch.l, arch.i>>
  BY <1>3, <1>4, <1>5, <1>6
<1> QED BY <1>1, <1>3, <1>5, <1>7 DEF AcceptsLate, Return

(* A cycle is an instruction, the entry of an interrupt, or nothing; or    *)
(* one of the departures.                                                  *)
LEMMA CycleImplements ==
  ASSUME TypeInv, Stage, Cycle
  PROVE  /\ [ISA!Next \/ Departs]_ISA!vars
         /\ Clean => [ISA!Next]_ISA!vars
<1>1. CASE ~Settled
  BY <1>1, Hidden
<1>2. CASE DoesIo
  <2>1. upc.at = "IOT"
    BY <1>2, SaneWord DEF TypeInv, Sane, DoesIo
  <2>2. CASE ir.op \in {"IMRD", "IMWR", "IMSET", "IMCLR"}
    BY <2>1, <2>2, EndMask DEF Departs, Clean
  <2>3. CASE ir.op \notin {"IMRD", "IMWR", "IMSET", "IMCLR"}
    BY <2>1, <2>3, EndIo, SMTT(30) DEF ISA!Next
  <2> QED BY <2>2, <2>3
<1>3. CASE Fetching /\ (IrqNow \/ ~Skipping)
  <2>1. CASE upc.at = "FETCH"
    <3>1. AtFetch
      BY <2>1 DEF Stage
    <3>2. CASE Rested
      <4>1. UNCHANGED ISA!vars
        BY <1>3, <2>1, <3>2, Shown, FetchMoves DEF Rested, Kept, Still, ISA!vars
      <4> QED BY <4>1
    <3>3. CASE Ran
      BY <1>3, <2>1, <3>3, EndPlain DEF ISA!Next
    <3>4. CASE Took
      <4>1. ISA!Accept(irqDev) /\ irqDev \in Devices
        BY <1>3, <2>1, <3>4, EndEntry
      <4> QED BY <4>1 DEF ISA!Next
    <3> QED BY <3>1, <3>2, <3>3, <3>4 DEF AtFetch
  <2>2. CASE upc.at = "FETCH_A"
    BY <2>2, EndArith DEF ISA!Next
  <2>3. CASE upc.at = "FETCH_G"
    BY <2>3, EndOperate DEF ISA!Next
  <2>4. CASE upc.at = "FETCH_S"
    <3>1. CASE Skipping
      BY <1>3, <2>4, <3>1, EndLost DEF Departs, Clean
    <3>2. CASE ~Skipping
      BY <2>4, <3>2, EndSkip DEF ISA!Next
    <3> QED BY <3>1, <3>2
  <2>5. CASE upc.at = "FETCH_I"
    <3>1. ir.op \in {"PSH", "POP"}
      BY <2>5 DEF Stage, AtFetchI
    <3> QED BY <2>5, <3>1, EndPush, EndPop DEF ISA!Next
  <2> QED BY <1>3, <2>1, <2>2, <2>3, <2>4, <2>5 DEF Fetching, Fetches
<1> QED BY <1>1, <1>2, <1>3 DEF Settled

(* So is every step: WAIT ends, requests rise.                             *)
LEMMA StepImplements ==
  ASSUME TypeInv, Stage, [MicroNext]_microVars
  PROVE  /\ Stage' \/ Late'
         /\ [ISA!Next \/ Departs]_ISA!vars
         /\ Clean => Stage' /\ [ISA!Next]_ISA!vars
<1>1. CASE Cycle
  BY <1>1, CycleStaged, CycleImplements
<1>2. CASE WaitCycle
  <2>1. Stage'
    BY <1>2, StillStaged DEF WaitCycle, regs
  <2>2. ISA!Wake
    BY <1>2 DEF WaitCycle, regs, ISA!Wake, ISA!Pending
  <2> QED BY <2>1, <2>2 DEF ISA!Next
<1>3. CASE \E n \in Devices : Raise(n)
  <2>1. PICK n \in Devices : Raise(n)
    BY <1>3
  <2>2. req' = [req EXCEPT ![n] = TRUE] /\ req \in [Devices -> BOOLEAN]
    BY <2>1 DEF Raise, TypeInv, MicroTypeOK
  <2>3. \A k \in Devices : req[k] => req'[k]
    BY <2>2
  <2>4. Stage'
    BY <2>1, <2>3, StillStaged DEF Raise
  <2>5. ISA!Raise(n)
    BY <2>1 DEF Raise, regs, ISA!Raise
  <2> QED BY <2>4, <2>5 DEF ISA!Next
<1>4. CASE UNCHANGED microVars
  <2>1. Stage'
    BY <1>4, StillStaged DEF microVars
  <2>2. UNCHANGED ISA!vars
    BY <1>4 DEF microVars, regs, ISA!vars
  <2> QED BY <2>1, <2>2
<1> QED BY <1>1, <1>2, <1>3, <1>4 DEF MicroNext

(* A late entry goes on until it is seen as one.                           *)
LEMMA LateImplements ==
  ASSUME TypeInv, Late, [MicroNext]_microVars
  PROVE  /\ Stage' \/ Late'
         /\ [ISA!Next \/ Departs]_ISA!vars
<1>1. CASE Cycle /\ upc.at = "IRQ"
  <2>1. Late'
    BY <1>1, LateStep
  <2>2. ~Settled
    <3>1. ~Fetching
      BY <1>1 DEF Fetching, Fetches
    <3>2. ~DoesIo
      BY <1>1, SaneWord DEF TypeInv, Sane, DoesIo
    <3> QED BY <3>1, <3>2 DEF Settled
  <2> QED BY <1>1, <2>1, <2>2, Hidden
<1>2. CASE Cycle /\ upc.at = "FETCH"
  <2>1. Fetching /\ ~Skipping /\ ~IrqNow
    BY <1>2 DEF Fetching, Fetches, Skipping, Late, Entered, IrqNow
  <2>2. Stage'
    BY <1>2, <2>1, FetchStarts
  <2>3. AcceptsLate(irqDev) /\ irqDev \in Devices
    BY <1>2, EndLate
  <2> QED BY <2>2, <2>3 DEF Departs
<1>3. CASE WaitCycle
  <2>1. Late'
    BY <1>3, StillLate DEF WaitCycle, regs
  <2>2. ISA!Wake
    BY <1>3 DEF WaitCycle, regs, ISA!Wake, ISA!Pending
  <2> QED BY <2>1, <2>2 DEF ISA!Next
<1>4. CASE \E n \in Devices : Raise(n)
  <2>1. PICK n \in Devices : Raise(n)
    BY <1>4
  <2>2. req' = [req EXCEPT ![n] = TRUE] /\ req \in [Devices -> BOOLEAN]
    BY <2>1 DEF Raise, TypeInv, MicroTypeOK
  <2>3. \A k \in Devices : req[k] => req'[k]
    BY <2>2
  <2>4. Late'
    BY <2>1, <2>3, StillLate DEF Raise
  <2>5. ISA!Raise(n)
    BY <2>1 DEF Raise, regs, ISA!Raise
  <2> QED BY <2>4, <2>5 DEF ISA!Next
<1>5. CASE UNCHANGED microVars
  <2>1. Late'
    BY <1>5, StillLate DEF microVars
  <2>2. UNCHANGED ISA!vars
    BY <1>5 DEF microVars, regs, ISA!vars
  <2> QED BY <2>1, <2>2
<1> QED BY <1>1, <1>2, <1>3, <1>4, <1>5 DEF MicroNext, Late

(* Reset is the instruction set's.                                         *)
LEMMA InitImplements == MicroInit => Stage /\ ISA!Init
<1> SUFFICES ASSUME MicroInit PROVE Stage /\ ISA!Init
  OBVIOUS
<1>1. /\ arch.ac = 0 /\ arch.ix = 0 /\ arch.l = 0 /\ arch.sp = 0 /\ arch.i = FALSE
      /\ arch.m = m /\ arch.pc = pc
  BY DEF MicroInit
<1>2. Rested
  BY <1>1 DEF MicroInit, Rested, Kept, Still
<1>3. upc.at = "FETCH"
  BY DEF MicroInit, Goto
<1>4. Stage
  BY <1>2, <1>3 DEF Stage, AtFetch, EaAt, JaAt, JmpAt, CalAt
<1>5. ISA!Init
  BY <1>1 DEF MicroInit, ISA!Init
<1> QED BY <1>4, <1>5

(* For every program and whatever is asked when, what is seen of the       *)
(* engine at its instruction boundaries is the instruction set's doing but *)
(* for three departures, and those are what they say: a skip lost to a     *)
(* request, an entry just behind a bare DI, a mask operation passed over   *)
(* (ucode.py cycle, sim.py step).                                          *)
THEOREM EnginePartsNowhereElse == MicroSpec => PartsNowhereElse
<1>1. MicroInit => TypeInv /\ Stage /\ ISA!Init
  BY MicroInitTyped, InitImplements
<1>2. TypeInv /\ (Stage \/ Late) /\ [MicroNext]_microVars
        => TypeInv' /\ (Stage \/ Late)' /\ [ISA!Next \/ Departs]_ISA!vars
  BY MicroNextTyped, StepImplements, LateImplements
<1> QED BY <1>1, <1>2, PTL DEF MicroSpec, PartsNowhereElse

(* Where none of the three happens the engine implements the instruction   *)
(* set: every instruction whole, every interrupt between two of them       *)
(* (ucode.py cycle, sim.py step).                                          *)
THEOREM EngineImplementsIsa == MicroSpec /\ []Clean => ImplementsIsa
<1>1. MicroInit => TypeInv /\ Stage /\ ISA!Init
  BY MicroInitTyped, InitImplements
<1>2. TypeInv /\ [MicroNext]_microVars => TypeInv'
  BY MicroNextTyped
<1>3. TypeInv /\ Stage /\ Clean /\ [MicroNext]_microVars => Stage' /\ [ISA!Next]_ISA!vars
  BY StepImplements
<1> QED BY <1>1, <1>2, <1>3, PTL DEF MicroSpec, ImplementsIsa, ISA!Spec
=============================================================================
