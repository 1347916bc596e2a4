------------------------------ MODULE Keyboard ------------------------------
(***************************************************************************)
(* From the key to the interpreter: the keyboard device (machine.py), its  *)
(* interrupt handler and queue, and the readers of the queue (focal.s:     *)
(* KBDISR, GETK, RDLINE, ASK, STEP).                                       *)
(*                                                                         *)
(* The handler runs with interrupts off and is one step.  GETK is cut at   *)
(* each point where it reads or writes what the handler shares with it;    *)
(* what RDLINE, a command or a program does with a character is left open, *)
(* because what was typed decides it.                                      *)
(*                                                                         *)
(* Characters are numbered as they are typed, so that order, loss and      *)
(* repetition can be told; Etx stands for control C.                       *)
(***************************************************************************)
EXTENDS Naturals

CONSTANTS
  QSize,       \* slots of KQ (8); one is always free
  MaxKeys      \* bound: characters typed in a behaviour

ASSUME QueueAssumption == QSize \in Nat /\ QSize >= 3 /\ MaxKeys \in Nat

VARIABLES
  flag,        \* kbd_flag: a keystroke is latched, the request is up
  latch,       \* the keystroke in the latches, frozen while flag is up
  open,        \* the processor's mask lets the keyboard through
  kq, kqi, kqo,\* the queue, where the handler puts, where GETK takes
  brk,         \* BRK: a program is asked to stop
  at,          \* where the mainline is
  sampled,     \* AC in GETK: KQI as it was read
  kch2,        \* the character GETK returns
  reader,      \* who called GETK: the command line or an ASK
  batch,       \* a program was assembled in: there is no command level
  waiting,     \* in WAIT
  typed, taken \* history: characters typed, characters GETK took

device == <<flag, latch, typed>>
queue  == <<kq, kqi, brk>>
main   == <<at, sampled, kch2, reader, batch>>
keyVars == <<device, queue, main, kqo, taken, open, waiting>>

Slots == 0 .. QSize - 1
Etx   == 0

PastTheEnd(s) == s + 1
Advance(s) == IF s = QSize - 1 THEN 0 ELSE s + 1

-----------------------------------------------------------------------------
(* The device.  A key counts on release; nothing is scanned until KACK.    *)

PressKey ==
  /\ ~flag /\ at # "STOP" /\ typed < MaxKeys
  /\ flag' = TRUE /\ latch' = typed + 1 /\ typed' = typed + 1
  /\ UNCHANGED <<queue, main, kqo, taken, open, waiting>>

PressBreak ==
  /\ ~flag /\ at # "STOP"
  /\ flag' = TRUE /\ latch' = Etx
  /\ UNCHANGED <<typed, queue, main, kqo, taken, open, waiting>>

-----------------------------------------------------------------------------
(* KBDISR.                                                                 *)

Interrupting == flag /\ open /\ at # "STOP"

NeverFull(next) == FALSE
FullAtTail(next) == kqi = kqo
Full(next) == next = kqo

KBRK ==
  /\ latch = Etx
  /\ brk' = TRUE
  /\ flag' = FALSE
  /\ UNCHANGED <<kq, kqi, open>>

KDONE1 ==
  /\ latch # Etx /\ ~Full(Advance(kqi))
  /\ kq' = [kq EXCEPT ![kqi] = latch]
  /\ kqi' = Advance(kqi)
  /\ flag' = FALSE
  /\ UNCHANGED <<brk, open>>

\* No room: no acknowledge, and this one line is masked.
KFULL ==
  /\ latch # Etx /\ Full(Advance(kqi))
  /\ open' = FALSE
  /\ UNCHANGED <<queue, flag>>

KBDISR ==
  /\ Interrupting
  /\ KBRK \/ KDONE1 \/ KFULL
  /\ waiting' = FALSE
  /\ UNCHANGED <<latch, typed, main, kqo, taken>>

\* A masked request ends a WAIT too.
Wake ==
  /\ waiting /\ flag /\ ~open
  /\ waiting' = FALSE
  /\ UNCHANGED <<device, queue, main, kqo, taken, open>>

-----------------------------------------------------------------------------
(* The mainline.  An enabled request is taken before its next instruction. *)

Goes(from, to) == at = from /\ ~waiting /\ ~Interrupting /\ at' = to

\* GETK: look at the queue, wait when it is empty.
LoadTail ==
  /\ Goes("GETK", "GETKC")
  /\ sampled' = kqi
  /\ UNCHANGED <<device, queue, kch2, reader, batch, kqo, taken, open, waiting>>

CompareHead ==
  /\ Goes("GETKC", IF sampled # kqo THEN "GETKD" ELSE "GETKW")
  /\ UNCHANGED <<device, queue, sampled, kch2, reader, batch, kqo, taken,
                 open, waiting>>

GETKW ==
  /\ Goes("GETKW", "GETK")
  /\ waiting' = TRUE
  /\ UNCHANGED <<device, queue, sampled, kch2, reader, batch, kqo, taken, open>>

GETKD ==
  /\ Goes("GETKD", "STEPQ")
  /\ kch2' = kq[kqo]
  /\ UNCHANGED <<device, queue, sampled, reader, batch, kqo, taken, open, waiting>>

StepHead ==
  /\ Goes("STEPQ", "UNMASK")
  /\ kqo' = Advance(kqo) /\ taken' = taken + 1
  /\ UNCHANGED <<device, queue, sampled, kch2, reader, batch, open, waiting>>

StaysMasked(mask) == mask
Unmasked(mask) == TRUE

Unmask ==
  /\ Goes("UNMASK", "ECHO")
  /\ open' = Unmasked(open)
  /\ UNCHANGED <<device, queue, sampled, kch2, reader, batch, kqo, taken, waiting>>

\* RDLINE and ASK read on until their terminator; a line is stored, or run.
Returned ==
  /\ \E to \in {"GETK", "BODY"} \cup (IF reader = "line" THEN {"CMDL"} ELSE {}) : Goes("ECHO", to)
  /\ UNCHANGED <<device, queue, sampled, kch2, reader, batch, kqo, taken, open, waiting>>

\* The prompt clears BRK, and reads a line.
CMDL ==
  /\ Goes("CMDL", "GETK")
  /\ brk' = FALSE /\ reader' = "line"
  /\ UNCHANGED <<device, kq, kqi, sampled, kch2, batch, kqo, taken, open, waiting>>

Home == IF batch THEN "STOP" ELSE "CMDL"

\* A line of a program starts by looking at BRK, and gives ?C.
STEP ==
  /\ Goes("STEP", IF brk THEN Home ELSE "BODY")
  /\ UNCHANGED <<device, queue, sampled, kch2, reader, batch, kqo, taken,
                 open, waiting>>

\* The commands of a line: another line, an ASK, the end, a QUIT, an error.
BODY ==
  /\ \E to \in {"STEP", "GETK", Home, "STOP"} :
       /\ Goes("BODY", to)
       /\ reader' = IF to = "GETK" THEN "ask" ELSE reader
  /\ UNCHANGED <<device, queue, sampled, kch2, batch, kqo, taken, open, waiting>>

Mainline ==
  \/ LoadTail \/ CompareHead \/ GETKW \/ GETKD \/ StepHead \/ Unmask
  \/ Returned \/ CMDL \/ STEP \/ BODY

KeyInit ==
  /\ flag = FALSE /\ latch = Etx /\ typed = 0
  /\ kq = [s \in Slots |-> 0] /\ kqi = 0 /\ kqo = 0
  /\ brk = FALSE /\ open = TRUE
  /\ batch \in BOOLEAN
  /\ at = IF batch THEN "STEP" ELSE "CMDL"
  /\ sampled = 0 /\ kch2 = 0 /\ reader = "line"
  /\ waiting = FALSE /\ taken = 0

KeyNext == PressKey \/ PressBreak \/ KBDISR \/ Wake \/ Mainline

KeySpec == KeyInit /\ [][KeyNext]_keyVars

\* The processor runs; nobody has to type.
FairKeyboard ==
  KeySpec /\ WF_keyVars(KBDISR) /\ WF_keyVars(Wake) /\ WF_keyVars(Mainline)

-----------------------------------------------------------------------------
(* Properties.                                                             *)

KeyTypeOK ==
  /\ flag \in BOOLEAN /\ open \in BOOLEAN /\ brk \in BOOLEAN
  /\ waiting \in BOOLEAN /\ batch \in BOOLEAN
  /\ typed \in Nat /\ taken \in Nat /\ latch \in Nat /\ kch2 \in Nat
  /\ kqi \in Slots /\ kqo \in Slots /\ sampled \in Slots
  /\ kq \in [Slots -> Nat]
  /\ reader \in {"line", "ask"}
  /\ at \in {"CMDL", "GETK", "GETKC", "GETKW", "GETKD", "STEPQ", "UNMASK",
             "ECHO", "STEP", "BODY", "STOP"}

\* How far slot b is ahead of slot a.
Ahead(a, b) == IF b >= a THEN b - a ELSE b + QSize - a

Holding == flag /\ latch # Etx

(* Nothing is dropped, nothing is duplicated (README "FOCAL"): every       *)
(* character typed is taken, in the queue or still latched, the queue is   *)
(* in typing order, and the n-th character GETK returns is the n-th typed. *)
InOrder ==
  /\ typed = taken + Ahead(kqo, kqi) + (IF Holding THEN 1 ELSE 0)
  /\ Holding => latch = typed
  /\ \A s \in Slots :
       Ahead(kqo, s) < Ahead(kqo, kqi) => kq[s] = taken + 1 + Ahead(kqo, s)
  /\ at = "STEPQ" => kch2 = taken + 1
  /\ at \in {"UNMASK", "ECHO"} => kch2 = taken

(* The line is masked only while the device holds a character the queue    *)
(* has no room for, so that a reader always finds one to take and unmasks  *)
(* (focal.s KFULL, GETK).                                                  *)
MaskedHolds == ~open => Holding /\ kqi # kqo

(* A held character gets into the queue for as long as somebody keeps      *)
(* reading it (focal.s GETK, "let the held keystroke through").            *)
Collected == []<>(at = "GETK") => (flag ~> ~flag)
=============================================================================
