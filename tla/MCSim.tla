------------------------------- MODULE MCSim -------------------------------
(* Programs for Sim: a mainline that calls, pushes, masks and waits, and   *)
(* two handlers that use every register.  Four pages of sixteen words.     *)
EXTENDS Sim, Bitwise, TLC

MCAnd(a, b) == a & b
MCIor(a, b) == a | b
MCXor(a, b) == a ^^ b

MCDevices == {1, 2}

Mem(op, r, a)  == [op |-> op, r |-> r, ind |-> FALSE, idx |-> FALSE, addr |-> a]
MemX(op, r, a) == [op |-> op, r |-> r, ind |-> TRUE, idx |-> TRUE, addr |-> a]
Jmp(op, a)     == [op |-> op, ind |-> FALSE, idx |-> FALSE, addr |-> a]
Opr(mic)       == [op |-> "OPR1", mic |-> mic]
Skp(inv, test) == [op |-> "OPR2", inv |-> inv, test |-> test]
Stk(op, mask)  == [op |-> op, mask |-> mask, ifield |-> "HOLD"]
Ret            == Stk("POP", {1})
Rti            == [op |-> "POP", mask |-> {1}, ifield |-> "EI"]
IFld(f)        == [op |-> "PSH", mask |-> {}, ifield |-> f]
Io(op)         == [op |-> op]
AckOf(n)       == [op |-> "ACK", dev |-> n]
Halt           == Opr({"HLT"})
Nop            == Opr({})

\* Cells 0..2 are vectors, 3 and 4 operands, 5 the mainline's, 6 the mask bit
\* of device 2, 7 the handlers'.
MCData ==
  (0 :> 32) @@ (1 :> 48) @@ (2 :> 55) @@ (3 :> 100) @@ (4 :> 50) @@ (5 :> 127)
  @@ (6 :> 4) @@ [a \in Addr |-> 0]

MCHandlerCells == {7}

Placed(start, code) == [a \in start .. start + Len(code) - 1 |-> code[a - start + 1]]

Handler1 ==
  Placed(48, << Stk("PSH", {2, 3}), Mem("LAC", "IX", 4),
                Opr({"CMA", "CLL", "IXC"}), Mem("DAC", "IX", 7),
                AckOf(1), Stk("POP", {2, 3}), Rti >>)

\* Answers at once, and leaves by the tail shared with the mainline.
Handler2 ==
  Placed(55, << Stk("PSH", {0, 3}), Opr({"CLA", "CMA", "RRA"}), AckOf(2),
                Stk("POP", {0, 3}), Io("SKNI"), Ret, Rti >>)

\* Does not answer: closes its own line and leaves the request up.
Handler2Holds ==
  Placed(55, << Stk("PSH", {3}), Mem("LAC", "AC", 6), Io("IMCLR"),
                Stk("POP", {3}), Io("SKNI"), Ret, Rti >>)

\* Computes with L across a call and a wait; a lost link reaches Halt.  One
\* variant reopens device 2, the other closes it and waits for it with
\* interrupts off.
Mainline(critical, masking, answer) ==
  Placed(32, << IFld("EI"), Mem("LAC", "AC", 3), Mem("TAD", "AC", 4),
                Jmp("CAL", 12), Skp(FALSE, {"L"}), Halt,
                IFld(critical), Mem("LAC", "AC", 6), Io(masking), answer,
                Io("WAIT"), Jmp("JMP", 0),
                Stk("PSH", {2, 3}), Opr({"RRA", "IXC"}),
                Stk("POP", {2, 3}), Ret >>)

\* The rest of the instruction set, under interrupts; the counts at cell 5
\* cancel, and the first of them skips.
Tour ==
  Placed(32, << IFld("EI"), Jmp("ISZ", 5), Nop, Mem("LAC", "AC", 3),
                Mem("TAS", "AC", 4), Mem("SAD", "AC", 4), Mem("AND", "AC", 3),
                Mem("XOR", "AC", 3), MemX("IOR", "AC", 3), Io("IMRD"),
                Io("IMWR"), Io("SKI"), Halt, Jmp("DSZ", 5),
                Skp(FALSE, {"Z", "M"}), Jmp("JMP", 0) >>)

MCPrograms ==
  {main @@ Handler1 @@ h @@ [a \in Addr |-> Halt] :
     main \in {Mainline("HOLD", "IMSET", Nop), Mainline("DI", "IMCLR", AckOf(2)), Tour},
     h \in {Handler2, Handler2Holds}}
=============================================================================
