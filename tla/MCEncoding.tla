----------------------------- MODULE MCEncoding -----------------------------
(* Every memory and jump instruction in every mode at the ends of each      *)
(* field, from three pages; every name; every stack statement; every word   *)
(* of the IO and operate opcodes, and the others at the ends of each field. *)
EXTENDS Encoding

Edges == {-1, 0, 1, 2047, 2048, 4095, 4096, 126976, 131071}
Pages == {0, 4095, 126976}
Memories ==
  [form : {"mem"}, op : DOMAIN MEM, r : {"AC", "IX"}, ind : BOOLEAN, idx : BOOLEAN, a : Edges]
Jumps == [form : {"jump"}, op : DOMAIN JMPC, ind : BOOLEAN, idx : BOOLEAN, a : Edges]
Names == [form : {"name"}, name : Mnemonics]
Stacks ==
  [form : {"stack"}, d : {"PSH", "POP"}, regs : UNION {[1 .. n -> DOMAIN SReg] : n \in 1 .. 4}]
Bare ==
  {v * 2 ^ 11 + f : v \in 0 .. 127, f \in {0, 1, 2, 5, 10, 2046, 2047}} \cup 229376 .. 262143
MCSources ==
  ((Memories \cup Jumps) \X Pages) \cup ((Names \cup Stacks) \X {0})
    \cup ([form : {"word"}, w : Bare] \X {4095})
=============================================================================
