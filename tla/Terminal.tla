------------------------------ MODULE Terminal ------------------------------
(***************************************************************************)
(* Three programs on the devices, timed by the instructions they spend.    *)
(*                                                                         *)
(*   focal    FOCAL's console (focal.s PUTC, PNL, SCRL), which asks the    *)
(*            blitter itself, under its keyboard handler                   *)
(*   driver   the buffered driver (driver.s), under the timer's handler;   *)
(*            what the queue holds is Driver's subject, only its length is *)
(*            kept here                                                    *)
(*   sleeper  arms the timer and waits for it, as waittest.s does with the *)
(*            timer of the bare machine's harness                          *)
(*                                                                         *)
(* An interrupt comes between any two actions.  Whatever stands before a   *)
(* framebuffer write is an action of its own, so a handler may come at the *)
(* shortest distance from the write.                                       *)
(***************************************************************************)
EXTENDS Devices

CONSTANTS
  Programs,       \* the programs run
  Keystrokes,     \* what is typed at FOCAL
  QCap,           \* words of the driver's queue (64)
  MaxOut          \* bound: characters printed

ASSUME TerminalAssumption ==
  /\ Programs \subseteq {"focal", "driver", "sleeper"}
  /\ QCap \in Nat \ {0} /\ MaxOut \in Nat
  /\ Keystrokes \subseteq Seq(Nat \X Nat)
\* A scroll takes as many units of the timer as THIV leaves it (30 of 256).
ASSUME ScrollAssumption == ScrollCycles % CountUnit = 0

VARIABLES
  program,
  at,             \* where the mainline and the handler are
  chr,            \* the character being printed, by each
  curs,           \* CURS; INDX
  line, busy, queued, replay,   \* LINE, BUSY, the queue's length, NPEND - IDXT
  edge,           \* ENDX: where a row being blanked ends
  krawv, kmodv,   \* KRAWV, KMODV
  out,            \* history: what FOCAL printed
  collected       \* history: the characters the keyboard handler made

driverVars == <<line, busy, queued, replay>>
kbdVars    == <<krawv, kmodv, collected>>
termVars == <<devVars, program, at, chr, curs, driverVars, edge, kbdVars, out>>

NL    == 10
Glyph == 65
Chars == {NL, Glyph}
Size  == Rows * Cols
LastRow == Rows - 1

\* Only the handler moves while it runs, and the mainline yields to a request.
Running(who) ==
  IF at.isr # "none" THEN who = "isr" ELSE who = "main" /\ ~Requests
Goes(who, from, to) == Running(who) /\ at[who] = from /\ at' = [at EXCEPT ![who] = to]

-----------------------------------------------------------------------------
(* focal.s, PUTC and SCRL.                                                 *)

PUTC(c) ==
  /\ program = "focal" /\ Len(out) < MaxOut
  /\ Goes("main", "IDLE", IF c = NL THEN "PNL1" ELSE "STORE")
  /\ Spend(<<"cal", "psh", "cmp">> \o (IF c = NL THEN <<"jmp", "mem", "mem">> ELSE <<"mem">>))
  /\ out' = Append(out, c)
  /\ UNCHANGED <<chr, curs, driverVars, edge, kbdVars, typed>>

STORE ==
  /\ Goes("main", "STORE", "NEXT")
  /\ Write(<<"ind">>, curs, Glyph)
  /\ UNCHANGED <<chr, curs, driverVars, edge, kbdVars, out, typed>>

AtEnd(c) == c = Size
NEXT ==
  /\ Goes("main", "NEXT", IF AtEnd(curs + 1) THEN "SCRL" ELSE "IDLE")
  /\ Spend(<<"isz", "reg", "mem", "cmp">> \o (IF AtEnd(curs + 1) THEN <<"cal">> ELSE <<"pop", "ret">>))
  /\ curs' = curs + 1
  /\ UNCHANGED <<chr, driverVars, edge, kbdVars, out, typed>>

\* A newline writes blanks up to the end of the row.
PNL1 ==
  /\ Goes("main", "PNL1", "PNLN")
  /\ Write(<<"ind">>, curs, Blank)
  /\ UNCHANGED <<chr, curs, driverVars, edge, kbdVars, out, typed>>

PNLN ==
  LET full == AtEnd(curs + 1)
      done == (curs + 1) % Cols = 0
  IN  /\ Goes("main", "PNLN", IF full THEN "SCRL" ELSE IF done THEN "IDLE" ELSE "PNL1")
      /\ Spend(<<"reg", "mem", "mem", "cmp">> \o
               (IF full THEN <<"jmp", "cal">>
                ELSE <<"mem", "mem">> \o (IF done THEN <<"reg", "jmp", "pop", "ret">>
                                          ELSE <<"skip", "mem", "jmp">>)))
      /\ curs' = curs + 1
      /\ UNCHANGED <<chr, driverVars, edge, kbdVars, out, typed>>

SCRL ==
  /\ Goes("main", "SCRL", "SCRLW")
  /\ Scroll(<<"reg">>)
  /\ UNCHANGED <<chr, curs, driverVars, edge, kbdVars, out, typed>>

SkipsBlind == TRUE
SkipsReady == ~BusyAfter(<<"reg">>)
SCRLW ==
  /\ Goes("main", "SCRLW", IF SkipsReady THEN "SCRLF" ELSE "SCRLW")
  /\ Spend(IF SkipsReady THEN <<"skip", "mem", "mem">> ELSE <<"reg", "jmp">>)
  /\ edge' = IF SkipsReady THEN Size - Cols ELSE edge
  /\ UNCHANGED <<chr, curs, driverVars, kbdVars, out, typed>>

\* The loop over the new row: the write, the rest of the round.
Unrolled  == << >>
FillRound == <<"reg", "cmp", "jmp">>
SCRLF ==
  /\ Goes("main", "SCRLF", "SCRLN")
  /\ Write(<<"ind">>, edge, Blank)
  /\ UNCHANGED <<chr, curs, driverVars, edge, kbdVars, out, typed>>
SCRLN ==
  /\ Goes("main", "SCRLN", IF AtEnd(edge + 1) THEN "IDLE" ELSE "SCRLF")
  /\ Spend(FillRound \o (IF AtEnd(edge + 1) THEN <<"mem", "mem", "ret", "pop", "ret">> ELSE << >>))
  /\ edge' = edge + 1
  /\ curs' = IF AtEnd(edge + 1) THEN Size - Cols ELSE curs
  /\ UNCHANGED <<chr, driverVars, kbdVars, out, typed>>

Focal == (\E c \in Chars : PUTC(c)) \/ STORE \/ NEXT \/ PNL1 \/ PNLN
           \/ SCRL \/ SCRLW \/ SCRLF \/ SCRLN

-----------------------------------------------------------------------------
(* focal.s, KBDISR up to the character it makes.                           *)

KBDISR ==
  /\ program = "focal" /\ flag /\ at.isr = "none"
  /\ at' = [at EXCEPT !.isr = "KMOD"]
  /\ Spend(<<"irq", "psh2", "reg", "mem">>)
  /\ krawv' = raw
  /\ UNCHANGED <<chr, curs, driverVars, edge, kmodv, collected, out, typed>>

KMOD ==
  /\ Goes("isr", "KMOD", "KACK")
  /\ Spend(<<"reg", "mem">>)
  /\ kmodv' = mods
  /\ UNCHANGED <<chr, curs, driverVars, edge, krawv, collected, out, typed>>

\* Control masks to five bits and wins over shift; shift folds letters.
Control(m) == m \div 2 % 2 = 1
Shift(m)   == m % 2 = 1
Reconstructed(code, m) ==
  IF Control(m) THEN code % 32
  ELSE IF Shift(m) /\ code \in 97 .. 122 THEN code - 32 ELSE code

KACK ==
  /\ Goes("isr", "KACK", "none")
  /\ AckKey(<<"mem", "reg", "mem", "mem", "cmp">>)
  /\ collected' = Append(collected, Reconstructed(krawv, kmodv))
  /\ UNCHANGED <<chr, curs, driverVars, edge, krawv, kmodv, out, typed>>

-----------------------------------------------------------------------------
(* driver.s.  PUTC is the mainline's and, in a replay, the handler's.      *)

Call(c) == <<"cal", "mem", "cmp">> \o (IF c = NL THEN <<"jmp">> ELSE << >>)
DPut(c) ==
  /\ program = "driver" /\ Len(out) < MaxOut
  /\ Goes("main", "IDLE", "BUSY")
  /\ Spend(Call(c))
  /\ chr' = [chr EXCEPT !.main = c] /\ out' = Append(out, c)
  /\ UNCHANGED <<curs, driverVars, edge, kbdVars, typed>>

Direct(who) == IF chr[who] = NL THEN "NLNOW" ELSE "PCDIR"
Return(who) == IF who = "isr" THEN "FEED" ELSE "IDLE"

TestBusy(who) ==
  /\ UNCHANGED <<chr, curs, line, busy, replay, edge, kbdVars, out, typed>>
  /\ \/ ~busy /\ Goes(who, "BUSY", Direct(who)) /\ Spend(<<"mem", "reg", "jmp", "mem", "mem">>)
        /\ UNCHANGED queued
     \/ busy /\ queued < QCap /\ Goes(who, "BUSY", Return(who))
        /\ Spend(<<"mem", "skip", "mem", "reg", "jmp", "mem", "mem", "mem", "isz", "reg", "isz", "reg", "ret">>)
        /\ queued' = queued + 1
     \/ busy /\ queued = QCap /\ Goes(who, "BUSY", "WAITRDY")
        /\ Spend(<<"mem", "skip", "mem", "skip", "cal">>)
        /\ UNCHANGED queued

WAITRDY(who) ==
  /\ Goes(who, "WAITRDY", IF busy THEN "WAITRDY" ELSE Direct(who))
  /\ Spend(IF busy THEN <<"mem", "skip", "jmp">> ELSE <<"mem", "reg", "ret", "mem", "mem">>)
  /\ UNCHANGED <<chr, curs, driverVars, edge, kbdVars, out, typed>>

PCDIR(who) ==
  /\ Goes(who, "PCDIR", "PCRET")
  /\ Write(<<"ind">>, curs, Glyph)
  /\ curs' = curs + 1
  /\ UNCHANGED <<chr, driverVars, edge, kbdVars, out, typed>>
PCRET(who) ==
  /\ Goes(who, "PCRET", Return(who))
  /\ Spend(<<"isz", "reg", "ret">>)
  /\ UNCHANGED <<chr, curs, driverVars, edge, kbdVars, out, typed>>

SETIDX == <<"cal", "mem", "reg", "reg", "reg", "reg", "reg", "mem", "ret">>
NLNOW(who) ==
  /\ UNCHANGED <<chr, busy, queued, replay, edge, kbdVars, out, typed>>
  /\ \/ /\ line < LastRow /\ Goes(who, "NLNOW", Return(who))
        /\ Spend(<<"isz", "reg">> \o SETIDX \o <<"ret">>)
        /\ line' = line + 1 /\ curs' = Cols * (line + 1)
     \/ /\ line = LastRow /\ Goes(who, "NLNOW", "TLOAD")
        /\ Scroll(<<"jmp", "reg">>)
        /\ UNCHANGED <<line, curs>>

\* THIV, 226 of 256 units: thirty units of 256 counts are the 7680 cycles.
ThivLate == Counts - ScrollCycles \div CountUnit + 1
Thiv == Counts - ScrollCycles \div CountUnit
TSTART(who) ==
  /\ Goes(who, "TLOAD", "TARM")
  /\ LoadTimer(<<"cal", "mem", "reg">>, Thiv)
  /\ UNCHANGED <<chr, curs, driverVars, edge, kbdVars, out, typed>>
TARM(who) ==
  /\ Goes(who, "TARM", "SETBUSY")
  /\ ArmTimer(<<"reg">>)
  /\ UNCHANGED <<chr, curs, driverVars, edge, kbdVars, out, typed>>
SetBusy(who) ==
  /\ Goes(who, "SETBUSY", Return(who))
  /\ Spend(<<"ret", "mem", "mem", "ret">>)
  /\ busy' = TRUE
  /\ UNCHANGED <<chr, curs, line, queued, replay, edge, kbdVars, out, typed>>

DONE ==
  /\ program = "driver" /\ tIrq /\ at.isr = "none"
  /\ at' = [at EXCEPT !.isr = "TACK"]
  /\ Spend(<<"irq", "psh2", "mem", "psh">>)
  /\ UNCHANGED <<chr, curs, driverVars, edge, kbdVars, out, typed>>
TACK ==
  /\ Goes("isr", "TACK", "SETUP")
  /\ AckTimer(<<"reg">>)
  /\ UNCHANGED <<chr, curs, driverVars, edge, kbdVars, out, typed>>
SETUP ==
  /\ Goes("isr", "SETUP", "BLNK")
  /\ Spend(SETIDX \o <<"mem", "mem", "mem", "mem", "mem">>)
  /\ curs' = Cols * line /\ edge' = Cols * line
  /\ UNCHANGED <<chr, driverVars, kbdVars, out, typed>>
BLNK ==
  /\ Goes("isr", "BLNK", "BLNKN")
  /\ Write(<<"ind">>, edge, Blank)
  /\ UNCHANGED <<chr, curs, driverVars, edge, kbdVars, out, typed>>
RowDone == (edge + 1) % Cols = 0
BLNKN ==
  /\ Goes("isr", "BLNKN", IF ~RowDone THEN "BLNK" ELSE IF queued = 0 THEN "RPDONE" ELSE "FEED")
  /\ Spend(<<"mem", "cmp", "jmp">> \o (IF RowDone THEN <<"reg", "mem", "mem", "mem">> ELSE << >>))
  /\ edge' = edge + 1
  /\ busy' = (busy /\ ~RowDone)
  /\ replay' = IF RowDone THEN queued ELSE replay
  /\ queued' = IF RowDone THEN 0 ELSE queued
  /\ UNCHANGED <<chr, curs, line, kbdVars, out, typed>>

\* What the queue held is left open here.
FEED(c) ==
  /\ replay > 0 /\ Goes("isr", "FEED", "BUSY")
  /\ Spend(<<"mem", "mem">> \o Call(c))
  /\ chr' = [chr EXCEPT !.isr = c] /\ replay' = replay - 1
  /\ UNCHANGED <<curs, line, busy, queued, edge, kbdVars, out, typed>>
RPDONE ==
  /\ replay = 0
  /\ Goes("isr", "FEED", "none") \/ Goes("isr", "RPDONE", "none")
  /\ Spend(<<"pop", "mem", "pop2", "skip", "ret">>)
  /\ UNCHANGED <<chr, curs, driverVars, edge, kbdVars, out, typed>>

Driver ==
  \/ \E c \in Chars : DPut(c) \/ FEED(c)
  \/ \E who \in {"main", "isr"} :
       \/ TestBusy(who) \/ WAITRDY(who) \/ PCDIR(who) \/ PCRET(who) \/ NLNOW(who)
       \/ TSTART(who) \/ TARM(who) \/ SetBusy(who)
  \/ DONE \/ TACK \/ SETUP \/ BLNK \/ BLNKN \/ RPDONE

-----------------------------------------------------------------------------
(* A program that waits for the timer, and the computing any program does  *)
(* between two calls: in a loop, or straight on, when the two clocks do    *)
(* not drift apart.                                                        *)

Sleep ==
  /\ program = "sleeper"
  /\ UNCHANGED <<chr, curs, driverVars, edge, kbdVars, out, typed>>
  /\ \/ Goes("main", "IDLE", "ARM") /\ LoadTimer(<<"mem", "reg">>, Counts - 1)
     \/ Goes("main", "ARM", "WAIT") /\ ArmTimer(<<"reg">>)
     \/ Goes("main", "WAIT", "WAIT") /\ Stall

Compute ==
  /\ program # "sleeper" /\ Goes("main", "IDLE", "IDLE")
  /\ Spend(<<"isz", "jmp">>) \/ Spend(<<"mem", "mem">>)
  /\ UNCHANGED <<chr, curs, driverVars, edge, kbdVars, out, typed>>

TermInit ==
  /\ DevicesInit
  /\ program \in Programs
  /\ typed \in IF program = "focal" THEN Keystrokes ELSE {<< >>}
  /\ at = [main |-> "IDLE", isr |-> "none"] /\ chr = [main |-> NL, isr |-> NL]
  /\ curs = 0 /\ line = 0 /\ busy = FALSE /\ queued = 0 /\ replay = 0 /\ edge = 0
  /\ krawv = 0 /\ kmodv = 0 /\ out = << >> /\ collected = << >>

TermNext ==
  /\ Focal \/ KBDISR \/ KMOD \/ KACK \/ Driver \/ Sleep \/ Compute
  /\ UNCHANGED program

TermSpec == TermInit /\ [][TermNext]_termVars

\* The processor goes on.
FairTerm == TermSpec /\ WF_termVars(TermNext)

-----------------------------------------------------------------------------
(* Properties.                                                             *)

\* Every framebuffer write lands.  In lost silence otherwise: the cell counter
\* is deaf for eight cycles after a write and the blitter for a whole scroll,
\* so every path from a write to the next has to be long enough, in the
\* mainline, in a handler and from one into the other.
NoCellLost == dropped = 0 /\ tooFast = 0

\* The timer's interrupt is the driver's completion signal: when it comes the
\* blitter is ready, although the two count different clocks.
DoneMeansReady == program = "driver" /\ tIrq => scrollLeft = 0

\* Between two calls FOCAL's screen is the tail of the paper a teletype would
\* have printed, the row being written last.
Beyond(p, c) == IF c = NL THEN (p \div Cols + 1) * Cols ELSE p + 1
Paper(text) ==
  LET place[k \in 0 .. Len(text)] == IF k = 0 THEN 0 ELSE Beyond(place[k - 1], text[k])
  IN  place
OnPaper(text, p) ==
  IF \E k \in DOMAIN text : text[k] = Glyph /\ Paper(text)[k - 1] = p THEN Glyph ELSE Blank
TopRow == LET row == Paper(out)[Len(out)] \div Cols
          IN  IF row > LastRow THEN row - LastRow ELSE 0
Teletype ==
  program = "focal" /\ at.main = "IDLE" =>
    screen = [k \in Cells |-> OnPaper(out, k + TopRow * Cols)]

\* Each keystroke is collected once and whole: the handler reads code and
\* modifiers by separate instructions and never mixes those of two keys.
KeysWhole ==
  collected = [k \in 1 .. Len(collected) |-> Reconstructed(typed[k][1], typed[k][2])]

\* An armed timer asks for an interrupt, unless the program went to sleep for
\* it: a WAIT makes no access and the timer counts accesses.
Fires == tArmed ~> (tIrq \/ at.main = "WAIT")
=============================================================================
