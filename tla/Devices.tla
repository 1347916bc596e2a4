------------------------------ MODULE Devices ------------------------------
(***************************************************************************)
(* The devices of machine.py as a program meets them, cycle by cycle: the  *)
(* framebuffer with its two deaf times, the blitter, the timer, the        *)
(* keyboard's latches.                                                     *)
(*                                                                         *)
(* Two clocks run here.  Every cycle counts for the blitter and the cell   *)
(* counter; only the cycles of a memory access count for the timer and the *)
(* keyboard, because fetch, rd and wr are what calls tick.  The cycles of  *)
(* a taken branch or skip are the difference, and so are those of a WAIT.  *)
(*                                                                         *)
(* Deadlines are kept as the time still to go.  A program is a module that *)
(* extends this one and says which instructions it spends between one      *)
(* device operation and the next.                                          *)
(***************************************************************************)
EXTENDS Integers, SequencesExt

CONSTANTS
  Cols, Rows,                               \* the screen (32 by 16)
  FetchCycles, DataCycles, BranchCycles,    \* 1, 2, 1
  CharCycles,                               \* a cell draws (8)
  ScrollCycles,                             \* a scroll takes (7680)
  CountUnit, Counts                         \* the timer's load is in units (256 of 256)

ASSUME DevicesAssumption ==
  /\ Cols \in Nat \ {0} /\ Rows \in Nat \ {0}
  /\ {FetchCycles, DataCycles, BranchCycles, CharCycles, ScrollCycles} \subseteq Nat \ {0}
  /\ CountUnit \in Nat \ {0} /\ Counts \in Nat \ {0}

VARIABLES
  screen,            \* the framebuffer
  scrollLeft,        \* scroll_until - cycles
  drawLeft,          \* next_ok - cycles
  dropped, tooFast,  \* writes swallowed by the blitter, by the cell counter
  tCount, tArmed, tIrq,
  typed,             \* kbd_input: what will be typed, keystrokes <<code, modifiers>>
  raw, mods, flag, scanning, fed   \* the keyboard; fed is kbd_pos

screenVars == <<screen, dropped, tooFast>>
timer      == <<tCount, tArmed, tIrq>>
keyboard   == <<raw, mods, flag, scanning, fed>>
devVars    == <<screenVars, scrollLeft, drawLeft, timer, keyboard, typed>>

Blank  == 32
Cells  == 0 .. Rows * Cols - 1
Rollover == CountUnit * Counts

-----------------------------------------------------------------------------
(* What an instruction costs: its cycles, and those of them that tick.     *)

Accesses(d) == FetchCycles + d * DataCycles
Ticks(i) ==
  CASE i \in {"reg", "jmp", "skip"}         -> Accesses(0)
    [] i \in {"mem", "cmp", "cal", "psh", "pop", "ret"} -> Accesses(1)
    [] i \in {"ind", "isz", "psh2", "pop2"} -> Accesses(2)
    [] i = "irq"                            -> 2 * DataCycles
Branches(i) ==
  CASE i \in {"jmp", "skip", "cmp", "cal", "pop", "irq"} -> 1
    [] i \in {"pop2", "ret"}                -> 2
    [] OTHER                                -> 0

SumOver(f(_), path) ==
  LET sum[k \in 0 .. Len(path)] == IF k = 0 THEN 0 ELSE sum[k - 1] + f(path[k])
  IN  sum[Len(path)]
TicksOf(path)  == SumOver(Ticks, path)
CyclesOf(path) == TicksOf(path) + BranchCycles * SumOver(Branches, path)

-----------------------------------------------------------------------------
(* Time.                                                                   *)

Left(deadline, n) == IF deadline > n THEN deadline - n ELSE 0
BusyAfter(path)    == Left(scrollLeft, CyclesOf(path)) > 0
DrawingAfter(path) == Left(drawLeft, CyclesOf(path)) > 0

Elapse(path) ==
  /\ scrollLeft' = Left(scrollLeft, CyclesOf(path))
  /\ drawLeft' = Left(drawLeft, CyclesOf(path))

\* tick.  The counter counts up and stops at the rollover, whatever is left.
Rings(n) == tArmed /\ tCount + n >= Rollover
CountOn(n) ==
  /\ tCount' = IF Rings(n) THEN 0 ELSE IF tArmed THEN tCount + n ELSE tCount
  /\ tArmed' = (tArmed /\ ~Rings(n))
RaiseNothing(n) == tIrq' = tIrq
RaiseTimer(n) == tIrq' = (tIrq \/ Rings(n))

\* feed_keyboard.
FeedsAnyway == fed < Len(typed)
Feeds == scanning /\ ~flag /\ fed < Len(typed)
Latch ==
  IF Feeds
  THEN raw' = typed[fed + 1][1] /\ mods' = typed[fed + 1][2] /\ fed' = fed + 1
  ELSE UNCHANGED <<raw, mods, fed>>
FeedKeyboard ==
  /\ Latch
  /\ flag' = (flag \/ Feeds) /\ scanning' = (scanning /\ ~Feeds)

Tick(path) == CountOn(TicksOf(path)) /\ RaiseTimer(TicksOf(path)) /\ FeedKeyboard

-----------------------------------------------------------------------------
(* The operations, each at the end of the path that leads to it.           *)

\* Instructions that touch no device.
Spend(path) == Elapse(path) /\ Tick(path) /\ UNCHANGED screenVars

\* A WAIT spends cycles and makes no access.
Stall ==
  /\ scrollLeft' = Left(scrollLeft, 1) /\ drawLeft' = Left(drawLeft, 1)
  /\ UNCHANGED <<screenVars, timer, keyboard>>

\* wr.  A write to the framebuffer is swallowed while a scroll runs or a cell
\* draws; one past it is any other word.
Write(path, place, ch) ==
  LET deaf == BusyAfter(path) \/ DrawingAfter(path)
      cell == place \in Cells
  IN  /\ scrollLeft' = Left(scrollLeft, CyclesOf(path))
      /\ drawLeft' = IF cell /\ ~deaf THEN CharCycles ELSE Left(drawLeft, CyclesOf(path))
      /\ screen' = IF cell /\ ~deaf THEN [screen EXCEPT ![place] = ch] ELSE screen
      /\ dropped' = IF cell /\ BusyAfter(path) THEN dropped + 1 ELSE dropped
      /\ tooFast' = IF cell /\ deaf /\ ~BusyAfter(path) THEN tooFast + 1 ELSE tooFast
      /\ Tick(path)

\* SCROLL, which a busy blitter ignores.
RowsUp == [k \in Cells |-> IF k + Cols \in Cells THEN screen[k + Cols] ELSE screen[k]]
Scroll(path) ==
  /\ IF BusyAfter(path)
     THEN Elapse(path) /\ UNCHANGED screen
     ELSE screen' = RowsUp /\ scrollLeft' = ScrollCycles /\ drawLeft' = ScrollCycles
  /\ Tick(path) /\ UNCHANGED <<dropped, tooFast>>

\* TLOAD, TARM, TACK.
LoadTimer(path, units) ==
  /\ Elapse(path) /\ FeedKeyboard /\ UNCHANGED screenVars
  /\ RaiseTimer(TicksOf(path))
  /\ tCount' = units * CountUnit /\ tArmed' = (tArmed /\ ~Rings(TicksOf(path)))

ArmTimer(path) ==
  /\ Elapse(path) /\ FeedKeyboard /\ UNCHANGED screenVars
  /\ RaiseTimer(TicksOf(path))
  /\ tCount' = IF tArmed THEN (tCount + TicksOf(path)) % Rollover ELSE tCount
  /\ tArmed' = TRUE

AckTimer(path) ==
  /\ Elapse(path) /\ FeedKeyboard /\ UNCHANGED screenVars
  /\ CountOn(TicksOf(path)) /\ tIrq' = FALSE

\* KACK.  Scanning starts again with the next access.
AckKey(path) ==
  /\ Elapse(path) /\ Latch /\ UNCHANGED screenVars
  /\ CountOn(TicksOf(path)) /\ RaiseTimer(TicksOf(path))
  /\ flag' = FALSE /\ scanning' = TRUE

\* refresh_irq: the devices that ask.
Requests == tIrq \/ flag

DevicesInit ==
  /\ screen = [k \in Cells |-> Blank]
  /\ scrollLeft = 0 /\ drawLeft = 0 /\ dropped = 0 /\ tooFast = 0
  /\ tCount = 0 /\ tArmed = FALSE /\ tIrq = FALSE
  /\ raw = 0 /\ mods = 0 /\ flag = FALSE /\ scanning = TRUE /\ fed = 0
=============================================================================
