------------------------------- MODULE Driver -------------------------------
(***************************************************************************)
(* The buffered console driver (driver.s; driver2.s differs by one opcode) *)
(* with the blitter, the timer and the framebuffer of machine.py.          *)
(*                                                                         *)
(* A scroll makes the framebuffer deaf, so PUTC queues while BUSY is set;  *)
(* the timer's interrupt, timed to the scroll, replays the queue through   *)
(* the same PUTC.  The mainline is cut at every instruction that reads or  *)
(* writes what the handler shares with it.  The handler runs with          *)
(* interrupts off and is cut at every character it replays, as the clock   *)
(* goes on under it.                                                       *)
(*                                                                         *)
(* The n-th character printed is the number n, so that order, loss and     *)
(* repetition show.  A line is no longer than a row: the driver does not   *)
(* wrap.  The eight cycles a cell takes to draw are left out.              *)
(***************************************************************************)
EXTENDS Integers, Sequences

CONSTANTS
  Cols, Rows, Space, NL,
  QCap,          \* words of BUF (64)
  ScrollTicks,   \* how long a scroll takes (7680 cycles)
  MaxOut         \* bound: characters the program prints

ASSUME DriverAssumption ==
  /\ Cols \in Nat \ {0} /\ Rows \in Nat \ {0}
  /\ QCap \in Nat \ {0} /\ ScrollTicks \in Nat \ {0} /\ MaxOut \in Nat
  /\ Space # NL /\ Space \notin Nat /\ NL \notin Nat

VARIABLES
  screen,              \* the framebuffer
  scrollLeft,          \* ticks until the blitter is free
  timerLeft, tIrq,     \* ticks until the timer asks, and that it does
  lost,                \* a write met a busy blitter
  line, indx, busy,    \* LINE, INDX, BUSY
  buf, bufp, cap,      \* the queue: words, how many, how many more
  chr,                 \* CHR, the character PUTC was given
  scr, npend, idxt,    \* the handler's copy of the queue
  isr, saved,          \* where the handler is; CHR on its stack
  at, now, x,          \* where the mainline is; its way on when it need not
                       \* queue; its IX
  out,                 \* history: what the program printed
  shown,               \* history: how many characters reached the screen
  torn                 \* history: the handler came inside a PUTC that queues

device  == <<screen, scrollLeft, timerLeft, lost>>
cursor  == <<line, indx, busy, shown>>
queue   == <<buf, bufp, cap>>
handler == <<scr, npend, idxt, isr, saved, torn>>
main    == <<at, now, x, out>>
driverVars == <<device, tIrq, cursor, queue, chr, handler, main>>

\* model.py's reference, seen through the driver: a row about to be blanked by
\* the handler counts as blank, and the cursor it is about to set as set.
Unbuffered ==
  INSTANCE Console WITH
    cells <- IF busy THEN [k \in 0 .. Rows * Cols - 1 |->
                             IF k \div Cols = line THEN Space ELSE screen[k]]
             ELSE screen,
    Chars <- 1 .. MaxOut \cup {NL}, row <- line, place <- IF busy THEN Cols * line ELSE indx,
    asked <- out, shown <- shown

Cells   == 0 .. Rows * Cols - 1
LastRow == Rows - 1

-----------------------------------------------------------------------------
(* The devices.                                                            *)

\* A framebuffer write is swallowed while the blitter works.
Writes(scrn) ==
  /\ screen' = IF scrollLeft = 0 THEN scrn ELSE screen
  /\ lost' = (lost \/ scrollLeft # 0)

Less(n) == IF n = 0 THEN 0 ELSE n - 1

Tick ==
  /\ scrollLeft > 0 \/ timerLeft > 0
  /\ scrollLeft' = Less(scrollLeft) /\ timerLeft' = Less(timerLeft)
  /\ tIrq' = (tIrq \/ timerLeft = 1)
  /\ UNCHANGED <<screen, lost, cursor, queue, chr, handler, main>>

\* THIV: the timer is loaded with the length of a scroll.
ThivShort == ScrollTicks - 1
Thiv == ScrollTicks

-----------------------------------------------------------------------------
(* What PUTC does with a character, in the mainline and in the replay.     *)

Direct(c) ==
  /\ Writes(IF indx \in Cells THEN [screen EXCEPT ![indx] = c] ELSE screen)
  /\ indx' = indx + 1 /\ shown' = shown + 1
  /\ UNCHANGED <<scrollLeft, timerLeft, line, busy>>

SetIdx(r) == Cols * r

NextLine ==
  /\ line # LastRow
  /\ line' = line + 1 /\ indx' = SetIdx(line + 1) /\ shown' = shown + 1
  /\ UNCHANGED <<device, busy>>

\* NLSCR.  The command is ignored by a blitter that is busy; the last row keeps
\* its text until the handler blanks it.
Scroll ==
  /\ line = LastRow
  /\ IF scrollLeft = 0
     THEN /\ screen' = [k \in Cells |->
                          IF k + Cols \in Cells THEN screen[k + Cols] ELSE screen[k]]
          /\ scrollLeft' = ScrollTicks
     ELSE UNCHANGED <<screen, scrollLeft>>
  /\ timerLeft' = Thiv
  /\ busy' = TRUE /\ shown' = shown + 1
  /\ UNCHANGED <<lost, line, indx>>

AlwaysRoom == TRUE
Room == cap # 0

-----------------------------------------------------------------------------
(* The mainline.  A request is taken before its next instruction.          *)

Goes(from, to) == at = from /\ isr = "none" /\ ~tIrq /\ at' = to

\* The line printed so far is shorter than a row.
LineStarts == {0} \cup {k \in DOMAIN out : out[k] = NL}
Fits == \E k \in LineStarts : Len(out) - k < Cols

Put(c) ==
  /\ Len(out) < MaxOut
  /\ c # NL => Fits
  /\ Goes("MAIN", "PUTC")
  /\ out' = Append(out, c) /\ chr' = c
  /\ now' = IF c = NL THEN "NLNOW" ELSE "PCDIR"
  /\ UNCHANGED <<device, tIrq, cursor, queue, handler, x>>

\* PUTC and NEWL: act now, or queue, or wait for room.
TestBusy ==
  /\ Goes("PUTC", IF busy THEN "CAP" ELSE now)
  /\ UNCHANGED <<device, tIrq, cursor, queue, chr, handler, now, x, out>>

TestCap ==
  /\ Goes("CAP", IF Room THEN "PCBUF" ELSE "WAITRDY")
  /\ UNCHANGED <<device, tIrq, cursor, queue, chr, handler, now, x, out>>

WAITRDY ==
  /\ ~busy /\ Goes("WAITRDY", now)
  /\ UNCHANGED <<device, tIrq, cursor, queue, chr, handler, now, x, out>>

PCDIR ==
  /\ Goes("PCDIR", "MAIN") /\ Direct(chr)
  /\ UNCHANGED <<tIrq, queue, chr, handler, now, x, out>>

NLNOW ==
  /\ Goes("NLNOW", "MAIN") /\ (NextLine \/ Scroll)
  /\ UNCHANGED <<tIrq, queue, chr, handler, now, x, out>>

\* PCBUF, an instruction at a time.
LoadPlace ==
  /\ Goes("PCBUF", "DAC") /\ x' = bufp
  /\ UNCHANGED <<device, tIrq, cursor, queue, chr, handler, now, out>>

StoreChar ==
  /\ Goes("DAC", "ISZ") /\ buf' = [buf EXCEPT ![x] = chr]
  /\ UNCHANGED <<device, tIrq, cursor, bufp, cap, chr, handler, now, x, out>>

StepPlace ==
  /\ Goes("ISZ", "DSZ") /\ bufp' = bufp + 1
  /\ UNCHANGED <<device, tIrq, cursor, buf, cap, chr, handler, now, x, out>>

TakeRoom ==
  /\ Goes("DSZ", "MAIN") /\ cap' = cap - 1
  /\ UNCHANGED <<device, tIrq, cursor, buf, bufp, chr, handler, now, x, out>>

\* The program is over: let the last scroll finish, and stop.
Finish ==
  /\ Goes("MAIN", "DRAIN")
  /\ UNCHANGED <<device, tIrq, cursor, queue, chr, handler, now, x, out>>

DRAIN ==
  /\ ~busy /\ Goes("DRAIN", "STOP")
  /\ UNCHANGED <<device, tIrq, cursor, queue, chr, handler, now, x, out>>

Mainline ==
  \/ \E c \in {Len(out) + 1, NL} : Put(c)
  \/ TestBusy \/ TestCap \/ WAITRDY \/ PCDIR \/ NLNOW
  \/ LoadPlace \/ StoreChar \/ StepPlace \/ TakeRoom \/ Finish \/ DRAIN

-----------------------------------------------------------------------------
(* DONE, the timer's handler.                                              *)

RowBlank(r) == [k \in Cells |-> IF k \div Cols = r THEN Space ELSE screen[k]]

StaysBusy == busy
NotBusy == FALSE

CapKept == cap
FullCap == QCap

\* Blank the fresh row, then take the queue over; an empty one is left alone.
DONE ==
  /\ tIrq /\ isr = "none" /\ at # "STOP"
  /\ tIrq' = FALSE /\ saved' = chr
  /\ indx' = SetIdx(line)
  /\ Writes(RowBlank(line))
  /\ busy' = NotBusy
  /\ npend' = bufp
  /\ IF bufp = 0
     THEN isr' = "RPDONE" /\ UNCHANGED <<scr, idxt, bufp, cap>>
     ELSE /\ scr' = [k \in 0 .. QCap - 1 |-> IF k < bufp THEN buf[k] ELSE scr[k]]
          /\ bufp' = 0 /\ cap' = FullCap /\ idxt' = 0
          /\ isr' = "FEED"
  /\ UNCHANGED <<scrollLeft, timerLeft, line, shown, buf, chr, torn, main>>

\* PUTC runs in the handler as it does in the mainline; with no room it would
\* wait for a handler that cannot come.
FEED ==
  LET c == scr[idxt]
      over == idxt + 1 = npend
  IN  /\ isr = "FEED"
      /\ chr' = c
      /\ idxt' = idxt + 1
      /\ \/ /\ ~busy
            /\ IF c = NL THEN NextLine \/ Scroll ELSE Direct(c)
            /\ isr' = IF over THEN "RPDONE" ELSE "FEED"
            /\ UNCHANGED queue
         \/ /\ busy /\ Room
            /\ buf' = [buf EXCEPT ![bufp] = c]
            /\ bufp' = bufp + 1 /\ cap' = cap - 1
            /\ isr' = IF over THEN "RPDONE" ELSE "FEED"
            /\ UNCHANGED <<device, cursor>>
         \/ /\ busy /\ ~Room
            /\ isr' = "SPIN"
            /\ UNCHANGED <<device, cursor, queue>>
      /\ UNCHANGED <<tIrq, scr, npend, saved, torn, main>>

ChrLeft == chr
Restored == saved

\* What the mainline had decided no longer holds: there is no scroll to queue
\* for, or the place it took is not the next.
Torn == \/ at \in {"CAP", "PCBUF"} /\ ~busy
        \/ at \in {"DAC", "ISZ"}

RPDONE ==
  /\ isr = "RPDONE"
  /\ isr' = "none"
  /\ chr' = Restored
  /\ torn' = (torn \/ Torn)
  /\ UNCHANGED <<device, tIrq, cursor, queue, scr, npend, idxt, saved, main>>

-----------------------------------------------------------------------------
\* RESET clears the screen and the state, and opens interrupts.
DriverInit ==
  /\ screen = [k \in Cells |-> Space]
  /\ scrollLeft = 0 /\ timerLeft = 0 /\ tIrq = FALSE /\ lost = FALSE
  /\ line = 0 /\ indx = 0 /\ busy = FALSE
  /\ buf = [k \in 0 .. QCap - 1 |-> 0] /\ bufp = 0 /\ cap = QCap
  /\ scr = buf /\ npend = 0 /\ idxt = 0
  /\ chr = 0 /\ saved = 0 /\ isr = "none"
  /\ at = "MAIN" /\ now = "PCDIR" /\ x = 0
  /\ out = << >> /\ shown = 0 /\ torn = FALSE

DriverNext == Tick \/ DONE \/ FEED \/ RPDONE \/ Mainline

DriverSpec == DriverInit /\ [][DriverNext]_driverVars

\* The clock ticks and the processor runs, in the handler or out of it.
FairDriver ==
  /\ DriverSpec
  /\ WF_driverVars(Tick) /\ WF_driverVars(DONE \/ FEED \/ RPDONE)
  /\ WF_driverVars(Mainline)

-----------------------------------------------------------------------------
(* Properties.                                                             *)

DriverTypeOK ==
  /\ screen \in [Cells -> Nat \cup {Space}]
  /\ scrollLeft \in 0 .. ScrollTicks /\ timerLeft \in 0 .. ScrollTicks
  /\ tIrq \in BOOLEAN /\ lost \in BOOLEAN /\ busy \in BOOLEAN /\ torn \in BOOLEAN
  /\ line \in 0 .. LastRow /\ indx \in Nat
  /\ buf \in [0 .. QCap - 1 -> Nat \cup {NL}] /\ scr \in [0 .. QCap - 1 -> Nat \cup {NL}]
  /\ bufp \in 0 .. QCap /\ cap \in 0 .. QCap /\ npend \in 0 .. QCap /\ idxt \in 0 .. QCap
  /\ chr \in Nat \cup {NL} /\ saved \in Nat \cup {NL}
  /\ out \in Seq(Nat \cup {NL}) /\ shown \in Nat
  /\ x \in 0 .. QCap - 1 /\ now \in {"PCDIR", "NLNOW"}
  /\ at \in {"MAIN", "PUTC", "CAP", "PCBUF", "DAC", "ISZ", "DSZ", "WAITRDY",
             "PCDIR", "NLNOW", "DRAIN", "STOP"}
  /\ isr \in {"none", "FEED", "RPDONE", "SPIN"}

(* The buffered console is a console: what is printed reaches the screen   *)
(* once and in order, through any number of scrolls, as long as the        *)
(* handler has not come inside a PUTC that queues (driver.s; model.py      *)
(* reference).                                                             *)
Implements ==
  Unbuffered!ConsoleInit
  /\ [][ ~torn' => Unbuffered!ConsoleNext \/ UNCHANGED Unbuffered!consoleVars ]_driverVars

(* No write ever meets the blitter at work, the handler's included: the    *)
(* timer asks when the scroll is over, not before (driver.s TSTART;        *)
(* machine.py wr, dropped).                                                *)
NothingSwallowed == ~lost

(* The replay never waits for room, which with interrupts off would be for *)
(* ever: the queue it replays fits in the one it fills, whatever the       *)
(* mainline was in the middle of (driver.s FEED, WAITRDY).                 *)
HandlerNeverSpins == isr # "SPIN"

(* A program that prints and ends does end: every wait for a scroll is     *)
(* answered (driver.s WAITRDY, DRAIN).                                     *)
Finishes == <>(at = "STOP")
=============================================================================
