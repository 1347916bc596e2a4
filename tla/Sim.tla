-------------------------------- MODULE Sim --------------------------------
(***************************************************************************)
(* The interpreter's loop, CPU.run of sim.py, over the instruction set of  *)
(* Isa, with the history that states what an interrupt must not disturb.   *)
(*                                                                         *)
(* The loop looks for an interrupt before every instruction: an enabled    *)
(* open request is taken before anything else moves, the lowest device     *)
(* first, and both a taken interrupt and a bare request end a WAIT.        *)
(* Devices raise requests between two turns of the loop.                   *)
(***************************************************************************)
EXTENDS Isa, Sequences

CONSTANT HandlerCells    \* the data words the handlers own

VARIABLES
  frozen,    \* the state each interrupted program was left in, newest first
  calls      \* the link word of every call and entry not yet returned from

simVars == <<vars, frozen, calls>>

Highest(n) == Open(n) /\ \A k \in Devices : Open(k) => n >= k
Lowest(n) == Open(n) /\ \A k \in Devices : Open(k) => n <= k

CheckIrq == \E n \in Devices : Lowest(n) /\ Accept(n)

Quiet == ~(i /\ \E n \in Devices : Open(n))

-----------------------------------------------------------------------------
(* History.                                                                *)

Snapshot == [ac |-> ac, ix |-> ix, l |-> l, pc |-> pc, sp |-> sp, m |-> m]

Running(op) == ~waiting /\ ~halted /\ prog[pc].op = op

\* POP LPC is how a subroutine and a handler return.
Returning == Running("POP") /\ 1 \in prog[pc].mask

\* The return that opens interrupts again is the handler's.
Resuming == Returning /\ prog[pc].ifield = "EI"

SimInit == Init /\ frozen = << >> /\ calls = << >>

Entry ==
  /\ CheckIrq
  /\ frozen' = <<Snapshot>> \o frozen
  /\ calls'  = <<LinkWord(pc)>> \o calls

Turn ==
  /\ Quiet /\ Execute
  /\ frozen' = IF Resuming /\ frozen # << >> THEN Tail(frozen) ELSE frozen
  /\ calls'  = IF Running("CAL") THEN <<LinkWord(After(FALSE))>> \o calls
               ELSE IF Returning /\ calls # << >> THEN Tail(calls) ELSE calls

Rouse == Quiet /\ Wake /\ UNCHANGED <<frozen, calls>>

Request(n) == Raise(n) /\ UNCHANGED <<frozen, calls>>

SimNext == Entry \/ Turn \/ Rouse \/ \E n \in Devices : Request(n)

SimSpec == SimInit /\ [][SimNext]_simVars

\* The loop does not stop turning; devices owe nothing.
FairSim == SimSpec /\ WF_simVars(Entry \/ Turn \/ Rouse)

-----------------------------------------------------------------------------
(* Properties.                                                             *)

\* What the interrupted program still reads: the words below the stack pointer
\* it was left with are free for a handler, its own cells are the handler's.
Kept(f) ==
  Addr \ (HandlerCells \cup
          (IF f.sp = 0 THEN {StackAddr(s) : s \in SpVals}
           ELSE {StackAddr(s) : s \in 0 .. f.sp - 1}))

(* An interrupt is invisible: when the handler resumes the program it      *)
(* broke into, every register, L, SP, PC and every word that program can   *)
(* read is as it was, wherever the interrupt fell and whatever the handler *)
(* did in between (sim.py check_irq, opr_g3).                              *)
Transparent ==
  [][ frozen # << >> /\ Len(frozen') < Len(frozen) =>
        LET f == Head(frozen)
        IN  /\ <<ac, ix, l, pc, sp>>' = <<f.ac, f.ix, f.l, f.pc, f.sp>>
            /\ \A a \in Kept(f) : m'[a] = f.m[a]
    ]_simVars

(* Every return goes back to the newest call or entry it has not yet       *)
(* answered, with the L of that moment, with mainline, subroutines and     *)
(* handlers all sharing the one stack (sim.py push_lpc, opr_g3).           *)
ReturnsMatch ==
  [][ Turn /\ Returning =>
        calls # << >> /\ l' * AddrMod + pc' = Head(calls) ]_simVars

(* A WAIT with any request up ends, also when the mask or I would keep the *)
(* request from interrupting (sim.py pending).                             *)
Woken == (waiting /\ \E n \in Devices : req[n]) ~> ~waiting

(* The highest device is answered whenever it asks: no critical section,   *)
(* no other device's storm and no masked neighbour keeps it out for good   *)
(* (sim.py check_irq).                                                     *)
Served == \A n \in Devices : (\A k \in Devices : n <= k) => (req[n] ~> ~req[n])
=============================================================================
