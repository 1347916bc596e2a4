------------------------------ MODULE MCMicro ------------------------------
(* Short programs for Micro: a prefix that gives the registers distinct    *)
(* values, one or two instructions under test, and what they land on, with *)
(* one device that may ask at any cycle.  Four pages of sixteen words.     *)
EXTENDS Micro, TLC, Bitwise

MCAnd(a, b) == a & b
MCIor(a, b) == a | b
MCXor(a, b) == a ^^ b

MCDevices == {2}

Mem(op, r, ind, idx, a) == [op |-> op, r |-> r, ind |-> ind, idx |-> idx, addr |-> a]
Jmp(op, ind, idx, a)    == [op |-> op, ind |-> ind, idx |-> idx, addr |-> a]
Opr(mic)                == [op |-> "OPR1", mic |-> mic]
Skp(inv, test)          == [op |-> "OPR2", inv |-> inv, test |-> test]
Stk(op, mask, f)        == [op |-> op, mask |-> mask, ifield |-> f]
Io(op)                  == [op |-> op]
AckOf(n)                == [op |-> "ACK", dev |-> n]
Load3(r, a)             == Mem("LAC", r, FALSE, FALSE, a)
EI                      == Stk("PSH", {}, "EI")
DI                      == Stk("PSH", {}, "DI")
Halt                    == Opr({"HLT"})
Nop                     == Opr({})

\* Cells 0 and 2 are vectors, 3 and 4 the registers' first values, 5 a pointer
\* to the subroutine, 6 a count about to come to zero.
MCData ==
  (0 :> 32) @@ (2 :> 48) @@ (3 :> 100) @@ (4 :> 2) @@ (5 :> 44) @@ (6 :> 127)
  @@ (7 :> 42) @@ [a \in Addr |-> 0]

Placed(start, code) == [a \in start .. start + Len(code) - 1 |-> code[a - start + 1]]

\* Four words of prefix, two under test, two to land on; a return at 44, and a
\* jump in the last word of the page.
Program(prefix, x, y, last) ==
  Placed(32, prefix \o <<x, y, last, Halt>>)
  @@ Placed(44, << Stk("POP", {1}, "HOLD"), Halt >>)
  @@ Placed(47, << Jmp("JMP", FALSE, FALSE, 12) >>)
  @@ Placed(48, << Stk("PSH", {2, 3}, "HOLD"), Opr({"CMA", "CLL"}),
                   Load3("IX", 3), AckOf(2), Stk("POP", {2, 3}, "HOLD"),
                   Stk("POP", {1}, "EI") >>)
  @@ [a \in Addr |-> Halt]

Under(f) == << f, Load3("AC", 3), Load3("IX", 4), Stk("PSH", {3}, "HOLD") >>

Singles ==
  {Mem(op, "AC", FALSE, FALSE, 4) : op \in AluOps \cup {"DAC", "SAD"}}
  \cup {Mem("TAD", "IX", ind, idx, 3) : ind, idx \in BOOLEAN}
  \cup {Mem("SAD", r, FALSE, TRUE, 2) : r \in {"AC", "IX"}}
  \cup {Jmp(op, TRUE, FALSE, 5) : op \in {"JMP", "CAL"}}
  \cup {Jmp(op, FALSE, FALSE, 12) : op \in {"JMP", "CAL"}}
  \cup {Jmp("CAL", TRUE, TRUE, 7), Jmp("JMP", TRUE, TRUE, 7),
        Jmp("CAL", FALSE, TRUE, 12), Jmp("JMP", FALSE, TRUE, 12)}
  \cup {Jmp("ISZ", FALSE, FALSE, 6), Jmp("DSZ", FALSE, FALSE, 6),
        Jmp("ISZ", FALSE, TRUE, 4), Jmp("DSZ", TRUE, FALSE, 4),
        Jmp("ISZ", TRUE, TRUE, 4)}
  \cup {Opr({"RLA", "IXC"}), Opr({"CMA", "CML", "RRA"}), Opr({"CLA", "IAC"})}
  \cup {Io("SKI"), Io("SKNI"), Io("WAIT")}
  \cup {Stk("PSH", {0, 1, 2, 3}, "HOLD"), Stk("PSH", {1, 2}, "DI"),
        Stk("POP", {3}, "EI"), Stk("POP", {0}, "HOLD"), EI}

Firsts == {Nop, Mem("TAD", "AC", FALSE, FALSE, 3), Stk("PSH", {2}, "HOLD"),
           Mem("SAD", "AC", FALSE, FALSE, 4), Io("WAIT")}

\* Where the engine and the instruction set may part; the words after a skip
\* tell its two paths apart.
Parting ==
  {DI} \cup {Io(op) : op \in {"IMRD", "IMWR", "IMSET", "IMCLR"}}
  \cup {Skp(inv, test) : inv \in BOOLEAN, test \in SUBSET {"Z", "L", "M"}}

MCPrograms ==
  {Program(Under(EI), x, y, Halt) : x \in Firsts, y \in Singles}
  \cup {Program(Under(EI), Nop, y, Jmp("JMP", FALSE, FALSE, a)) :
          y \in {Nop, Mem("IOR", "AC", FALSE, FALSE, 4), Stk("PSH", {1}, "HOLD")},
          a \in {4, 6, 15}}
  \cup {Program(Under(f), x, y, last) :
          f \in {DI, EI}, last \in {DI, EI},
          x \in {Opr({"CLA"}), Opr({"CMA", "CML"}), Opr({"CLL"})},
          y \in Parting}

MCSkipPrograms == {Program(Under(EI), Opr({"CLA"}), Skp(FALSE, {"Z"}), Opr({"CMA"}))}
=============================================================================
