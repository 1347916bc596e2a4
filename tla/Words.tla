------------------------------- MODULE Words -------------------------------
(***************************************************************************)
(* Words, addresses, instructions and the arithmetic on them: what sim.py  *)
(* and ucode.py each write out and agree on.                               *)
(*                                                                         *)
(* A word is 0 .. WordMod - 1 with WordMod twice the number of addresses,  *)
(* because a link bit and an address fill a word exactly (18 = 1 + 17), so *)
(* the sign of a word is the link bit of a pushed {L,PC}.  Instructions    *)
(* are records, kept apart from data words: a program that writes over its *)
(* own code is outside the model.                                          *)
(***************************************************************************)
EXTENDS Integers

CONSTANTS
  PageSize,      \* words in a page: the stack page, the reach of a jump (4096)
  AddrMod,       \* words of memory (2^17)
  MaskMod,       \* the interrupt mask is AC % MaskMod (256)
  Devices,       \* the devices with a request line (1..7)
  BitAnd(_, _), BitIor(_, _), BitXor(_, _)

WordMod == 2 * AddrMod
Addr    == 0 .. AddrMod - 1
Word    == 0 .. WordMod - 1
Link    == {0, 1}
Page    == 0 .. PageSize - 1              \* what a jump operand can name
ZPage   == 0 .. (PageSize \div 2) - 1     \* what a memory operand can name
SpVals  == 0 .. PageSize - 1

AluOps  == {"TAD", "TAS", "AND", "XOR", "IOR", "LAC"}
Micros  == {"CLA", "CLL", "CMA", "CML", "IAC", "IXC", "RLA", "RRA", "SHA",
            "SRA", "HLT"}

(* The stack mask: bit 0 is SP, 1 is {L,PC}, 2 is IX, 3 is AC.             *)
Instr ==
  [op : AluOps \cup {"DAC", "SAD"}, r : {"AC", "IX"}, ind : BOOLEAN,
   idx : BOOLEAN, addr : ZPage]
  \cup [op : {"CAL", "JMP", "ISZ", "DSZ"}, ind : BOOLEAN, idx : BOOLEAN,
        addr : Page]
  \cup [op : {"OPR1"}, mic : SUBSET Micros]
  \cup [op : {"OPR2"}, inv : BOOLEAN, test : SUBSET {"Z", "L", "M"}]
  \cup [op : {"PSH", "POP"}, mask : SUBSET (0 .. 3),
        ifield : {"HOLD", "DI", "EI"}]
  \cup [op : {"IMRD", "IMWR", "IMSET", "IMCLR", "SKI", "SKNI", "WAIT"}]
  \cup [op : {"ACK"}, dev : Devices]

(* Memory is a whole number of pages, three at least: the zero page, the   *)
(* stack's and the code's.  A page holds the four registers of a full      *)
(* mask.  The bitwise operations stay inside a word.                       *)
ASSUME SizeAssumption ==
  /\ PageSize \in Nat /\ AddrMod \in Nat
  /\ PageSize >= 4 /\ AddrMod >= 3 * PageSize
  /\ \A a \in Addr : a - (a % PageSize) + PageSize <= AddrMod
  /\ MaskMod \in Nat \ {0} /\ MaskMod <= WordMod

ASSUME DeviceAssumption ==
  /\ Devices \subseteq Nat
  /\ \A n \in Devices : 1 <= n /\ n < PageSize

ASSUME BitAssumption ==
  \A a, b \in Word : /\ BitAnd(a, b) \in Word
                     /\ BitIor(a, b) \in Word
                     /\ BitXor(a, b) \in Word

-----------------------------------------------------------------------------
Plus(a, n) == (a + n) % AddrMod

Sign(w) == w >= AddrMod

AluWord(op, a, v) ==
  CASE op \in {"TAD", "TAS"} -> (a + v) % WordMod
    [] op = "AND" -> BitAnd(a, v)
    [] op = "XOR" -> BitXor(a, v)
    [] op = "IOR" -> BitIor(a, v)
    [] op = "LAC" -> v

\* TAD leaves the carry in L, TAS the signed overflow, the others leave L.
AluLink(op, a, v, link) ==
  LET carry    == a + v >= WordMod
      overflow == /\ Sign(a) <=> Sign(v)
                  /\ Sign((a + v) % WordMod) <=> ~Sign(a)
  IN  CASE op = "TAD" -> IF carry THEN 1 ELSE 0
        [] op = "TAS" -> IF overflow THEN 1 ELSE 0
        [] OTHER      -> link

StackAddr(s) == PageSize + s
SpDecPastPage(s) == s - 1
SpDec(s) == IF s = 0 THEN PageSize - 1 ELSE s - 1
SpInc(s) == IF s = PageSize - 1 THEN 0 ELSE s + 1

\* Clear, complement, increment, then rotate or shift, in that order.
Group1(mic, a, link) ==
  LET a1 == IF "CLA" \in mic THEN 0 ELSE a
      l1 == IF "CLL" \in mic THEN 0 ELSE link
      a2 == IF "CMA" \in mic THEN WordMod - 1 - a1 ELSE a1
      l2 == IF "CML" \in mic THEN 1 - l1 ELSE l1
      a3 == IF "IAC" \in mic THEN (a2 + 1) % WordMod ELSE a2
      a4 == IF "RLA" \in mic THEN (2 * a3 + l2) % WordMod ELSE a3
      l4 == IF "RLA" \in mic THEN (IF Sign(a3) THEN 1 ELSE 0) ELSE l2
      a5 == IF "RRA" \in mic THEN l4 * AddrMod + (a4 \div 2) ELSE a4
      l5 == IF "RRA" \in mic THEN a4 % 2 ELSE l4
      a6 == IF "SHA" \in mic THEN (2 * a5) % WordMod ELSE a5
      a7 == IF "SRA" \in mic
            THEN (a6 \div 2) + (IF Sign(a6) THEN AddrMod ELSE 0) ELSE a6
  IN  [ac |-> a7, l |-> l5]
=============================================================================
