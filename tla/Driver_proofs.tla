---------------------------- MODULE Driver_proofs ----------------------------
(***************************************************************************)
(* Driver, for every screen, queue and length of a scroll: its types, that *)
(* no write meets a busy blitter, that the replay never waits, and that it *)
(* implements Console.                                                     *)
(*                                                                         *)
(* The first three are one inductive invariant.  The clock part ties BUSY  *)
(* to the blitter and the timer, so that whoever finds BUSY clear may      *)
(* write.  The room part counts the queue: the mainline may be caught      *)
(* anywhere between taking a place and paying for it, the replay has       *)
(* always freed one place more than it fills.                              *)
(*                                                                         *)
(* The refinement adds the order of what is still to be shown.             *)
(***************************************************************************)
EXTENDS Driver, TLAPS

\* BUSY is clear only when blitter and timer are at rest, and the mainline acts
\* on the screen only while it is clear.
ClockInv ==
  /\ timerLeft = scrollLeft
  /\ ~busy => scrollLeft = 0 /\ ~tIrq
  /\ tIrq => scrollLeft = 0
  /\ at \in {"PCDIR", "NLNOW"} => ~busy /\ isr = "none"
  /\ ~lost

\* Places and room add up to the queue, give or take the one being paid for.
RoomInv ==
  /\ bufp + cap <= IF at = "DSZ" THEN QCap + 1 ELSE QCap
  /\ at \in {"PCBUF", "DAC", "ISZ", "DSZ"} => cap >= 1
  /\ isr = "FEED" => /\ bufp + cap = QCap
                     /\ bufp <= idxt /\ idxt < npend
                     /\ busy => bufp < idxt
  /\ isr # "SPIN"

\* The mainline's character, which the handler keeps on its stack meanwhile, is
\* no newline where the mainline would put it on the screen.
Carried == IF isr = "none" THEN chr ELSE saved

CharInv ==
  /\ at \notin {"MAIN", "DRAIN", "STOP"} /\ now = "PCDIR" => Carried # NL
  /\ at = "PCDIR" => now = "PCDIR"

DriverInv == DriverTypeOK /\ ClockInv /\ RoomInv /\ CharInv
-----------------------------------------------------------------------------
(* The strengthened invariant.                                             *)

(* It holds after RESET (driver.s RESET).                                  *)
LEMMA DriverInitInv == DriverInit => DriverInv
<1> SUFFICES ASSUME DriverInit PROVE DriverInv
  OBVIOUS
<1> USE DriverAssumption DEF DriverInit
<1>1. DriverTypeOK
  BY DEF DriverTypeOK, LastRow
<1>2. ClockInv /\ RoomInv /\ CharInv
  BY DEF ClockInv, RoomInv, CharInv, Carried
<1> QED BY <1>1, <1>2 DEF DriverInv

(* Blitter and timer run down together (machine.py tick, busy).            *)
LEMMA TickInv ==
  ASSUME DriverInv, Tick
  PROVE  DriverInv'
<1>1. UNCHANGED <<screen, lost, cursor, queue, chr, handler, main>>
  BY DEF Tick
<1>2. /\ scrollLeft \in 0 .. ScrollTicks /\ timerLeft = scrollLeft /\ scrollLeft > 0
      /\ timerLeft' = scrollLeft' /\ scrollLeft' = scrollLeft - 1
      /\ tIrq' = (tIrq \/ timerLeft = 1)
  BY DriverAssumption DEF Tick, Less, DriverInv, DriverTypeOK, ClockInv
<1>3. DriverTypeOK'
  <2>1. scrollLeft' \in 0 .. ScrollTicks /\ timerLeft' \in 0 .. ScrollTicks /\ tIrq' \in BOOLEAN
    BY <1>2, DriverAssumption
  <2> QED BY <1>1, <2>1 DEF DriverInv, DriverTypeOK, cursor, queue, handler, main
<1>4. ClockInv'
  <2>1. UNCHANGED <<lost, busy, at, isr>>
    BY <1>1 DEF cursor, handler, main
  <2>2. busy /\ ~tIrq /\ at \notin {"PCDIR", "NLNOW"}
    BY <1>2, DriverAssumption DEF DriverInv, ClockInv
  <2>3. tIrq' => scrollLeft' = 0
    <3>1. tIrq' => timerLeft = 1
      BY <2>2 DEF Tick
    <3> QED BY <1>2, <3>1
  <2> QED BY <1>2, <2>1, <2>2, <2>3 DEF DriverInv, ClockInv
<1>5. RoomInv' /\ CharInv'
  BY <1>1 DEF DriverInv, RoomInv, CharInv, Carried, queue, cursor, handler, main
<1> QED BY <1>3, <1>4, <1>5 DEF DriverInv

(* The handler finds the blitter free, and takes the queue over whole      *)
(* (driver.s DONE).                                                        *)
LEMMA DoneInv ==
  ASSUME DriverInv, DONE
  PROVE  DriverInv'
<1> USE DEF DriverInv
<1>1. /\ UNCHANGED <<scrollLeft, timerLeft, line, shown, buf, chr, torn, at, now, x, out>>
      /\ tIrq /\ ~tIrq' /\ scrollLeft = 0 /\ isr = "none" /\ ~busy'
      /\ at \notin {"PCDIR", "NLNOW"}
  BY DEF DONE, main, ClockInv, NotBusy
<1>2. bufp \in 0 .. QCap /\ npend' = bufp /\ saved' = chr
  BY DEF DONE, DriverTypeOK
<1>3. screen' = RowBlank(line) /\ ~lost'
  BY <1>1 DEF DONE, Writes, ClockInv
<1>4. ClockInv'
  BY <1>1, <1>3 DEF ClockInv
<1>5. CharInv'
  BY <1>1, <1>2 DEF CharInv, Carried, DONE
<1>6. RoomInv'
  <2>1. CASE bufp = 0
    <3>1. isr' = "RPDONE" /\ UNCHANGED <<bufp, cap>>
      BY <2>1 DEF DONE
    <3> QED BY <1>1, <3>1 DEF RoomInv
  <2>2. CASE bufp # 0
    <3>1. isr' = "FEED" /\ bufp' = 0 /\ cap' = QCap /\ idxt' = 0
      BY <2>2 DEF DONE, FullCap
    <3> QED BY <1>1, <1>2, <2>2, <3>1, DriverAssumption DEF RoomInv
  <2> QED BY <2>1, <2>2
<1>7. DriverTypeOK'
  <2>1. screen' \in [Cells -> Nat \cup {Space}]
    BY <1>3 DEF RowBlank, DriverTypeOK
  <2>2. /\ scr' \in [0 .. QCap - 1 -> Nat \cup {NL}]
        /\ bufp' \in 0 .. QCap /\ cap' \in 0 .. QCap /\ idxt' \in 0 .. QCap
        /\ isr' \in {"FEED", "RPDONE"}
    BY DriverAssumption DEF DONE, DriverTypeOK, FullCap
  <2>3. indx' \in Nat /\ saved' \in Nat \cup {NL} /\ npend' \in 0 .. QCap
    BY <1>2, DriverAssumption DEF DONE, DriverTypeOK, SetIdx, LastRow
  <2>4. tIrq' \in BOOLEAN /\ busy' \in BOOLEAN /\ lost' \in BOOLEAN
    BY DEF DONE, NotBusy, Writes
  <2> QED BY <1>1, <2>1, <2>2, <2>3, <2>4 DEF DriverTypeOK
<1> QED BY <1>4, <1>5, <1>6, <1>7

(* What reaches the screen, reaches it: whoever finds BUSY clear writes to *)
(* a blitter at rest (driver.s PCDIR, NLNOW).                              *)
LEMMA ShowInv ==
  ASSUME DriverTypeOK, ClockInv, ~busy, NEW STATE c, c \in Nat, Direct(c) \/ NextLine \/ Scroll
  PROVE  /\ screen' \in [Cells -> Nat \cup {Space}]
         /\ scrollLeft' \in 0 .. ScrollTicks /\ timerLeft' = scrollLeft'
         /\ line' \in 0 .. LastRow /\ indx' \in Nat /\ busy' \in BOOLEAN /\ shown' \in Nat
         /\ ~lost'
         /\ ~busy' => scrollLeft' = 0
<1> USE DriverAssumption DEF DriverTypeOK, ClockInv
<1>1. scrollLeft = 0 /\ timerLeft = 0 /\ ~lost
  OBVIOUS
<1>2. CASE Direct(c)
  BY <1>1, <1>2 DEF Direct, Writes
<1>3. CASE NextLine
  BY <1>1, <1>3 DEF NextLine, SetIdx, LastRow, device
<1>4. CASE Scroll
  <2>1. screen' \in [Cells -> Nat \cup {Space}]
    BY <1>1, <1>4 DEF Scroll
  <2> QED BY <1>1, <1>4, <2>1 DEF Scroll, Thiv
<1> QED BY <1>2, <1>3, <1>4
(* A character replayed or queued again keeps it, and there is always room *)
(* to queue one: the replay has taken one more than it has put back        *)
(* (driver.s FEED).                                                        *)
LEMMA FeedInv ==
  ASSUME DriverInv, FEED
  PROVE  DriverInv'
<1> USE DEF DriverInv
<1> DEFINE c == scr[idxt]
           over == idxt + 1 = npend
<1>1. /\ UNCHANGED <<tIrq, scr, npend, saved, torn, at, now, x, out>>
      /\ isr = "FEED" /\ chr' = c /\ idxt' = idxt + 1
  BY DEF FEED, main
<1>2. /\ npend \in 0 .. QCap /\ idxt \in 0 .. QCap /\ bufp \in 0 .. QCap /\ cap \in 0 .. QCap
      /\ bufp + cap = QCap /\ bufp <= idxt /\ idxt < npend /\ (busy => bufp < idxt)
      /\ ~over => idxt + 1 < npend
  BY <1>1, DriverAssumption DEF DriverTypeOK, RoomInv
<1>3. c \in Nat \cup {NL} /\ idxt' \in 0 .. QCap
  BY <1>1, <1>2, DriverAssumption DEF DriverTypeOK
<1>4. at \notin {"PCDIR", "NLNOW"}
  BY <1>1 DEF ClockInv
<1>5. CASE ~busy
  <2>1. /\ IF c = NL THEN NextLine \/ Scroll ELSE Direct(c)
        /\ isr' = IF over THEN "RPDONE" ELSE "FEED"
        /\ UNCHANGED queue
    BY <1>5 DEF FEED
  <2>2. /\ screen' \in [Cells -> Nat \cup {Space}]
        /\ scrollLeft' \in 0 .. ScrollTicks /\ timerLeft' = scrollLeft'
        /\ line' \in 0 .. LastRow /\ indx' \in Nat /\ busy' \in BOOLEAN /\ shown' \in Nat
        /\ ~lost'
        /\ ~busy' => scrollLeft' = 0
    <3>1. CASE c = NL
      BY <1>5, <2>1, <3>1, ShowInv, 0 \in Nat
    <3>2. CASE c # NL
      BY <1>3, <1>5, <2>1, <3>2, ShowInv
    <3> QED BY <3>1, <3>2
  <2>3. ~tIrq'
    BY <1>1, <1>5 DEF ClockInv
  <2>4. lost' \in BOOLEAN
    BY <2>1 DEF NextLine, Scroll, Direct, Writes, device, DriverTypeOK
  <2>5. DriverTypeOK'
    BY <1>1, <1>3, <2>1, <2>2, <2>4 DEF DriverTypeOK, queue
  <2>6. ClockInv'
    BY <1>1, <1>4, <2>2, <2>3 DEF ClockInv
  <2>7. RoomInv'
    BY <1>1, <1>2, <2>1 DEF RoomInv, queue
  <2>8. CharInv'
    BY <1>1, <1>2, <2>1 DEF CharInv, Carried
  <2> QED BY <2>5, <2>6, <2>7, <2>8
<1>6. CASE busy
  <2>1. cap >= 2 /\ Room
    BY <1>2, <1>6, DriverAssumption DEF Room
  <2>2. /\ buf' = [buf EXCEPT ![bufp] = c]
        /\ bufp' = bufp + 1 /\ cap' = cap - 1
        /\ isr' = IF over THEN "RPDONE" ELSE "FEED"
        /\ UNCHANGED <<screen, scrollLeft, timerLeft, lost, line, indx, busy, shown>>
    BY <1>6, <2>1 DEF FEED, device, cursor
  <2>3. DriverTypeOK'
    <3>1. buf' \in [0 .. QCap - 1 -> Nat \cup {NL}]
      BY <1>3, <2>2 DEF DriverTypeOK
    <3>2. bufp' \in 0 .. QCap /\ cap' \in 0 .. QCap
      BY <1>2, <2>1, <2>2, DriverAssumption
    <3> QED BY <1>1, <1>3, <2>2, <3>1, <3>2 DEF DriverTypeOK
  <2>4. ClockInv'
    BY <1>1, <1>4, <2>2 DEF ClockInv
  <2>5. RoomInv'
    BY <1>1, <1>2, <1>6, <2>1, <2>2, DriverAssumption DEF RoomInv
  <2>6. CharInv'
    BY <1>1, <2>2 DEF CharInv, Carried
  <2> QED BY <2>3, <2>4, <2>5, <2>6
<1> QED BY <1>5, <1>6

(* The mainline gets its character back (driver.s RPDONE).                 *)
LEMMA RpdoneInv ==
  ASSUME DriverInv, RPDONE
  PROVE  DriverInv'
<1> USE DEF DriverInv
<1>1. /\ UNCHANGED <<device, tIrq, cursor, queue, scr, npend, idxt, saved, main>>
      /\ isr = "RPDONE" /\ isr' = "none" /\ chr' = saved
  BY DEF RPDONE, Restored
<1>2. torn' \in BOOLEAN
  BY DEF RPDONE, DriverTypeOK
<1>3. DriverTypeOK'
  BY <1>1, <1>2 DEF DriverTypeOK, device, cursor, queue, main
<1>4. ClockInv' /\ RoomInv' /\ CharInv'
  BY <1>1 DEF ClockInv, RoomInv, CharInv, Carried, device, cursor, queue, main
<1> QED BY <1>3, <1>4
(* The mainline keeps it: it shows only while BUSY is clear, and takes no  *)
(* place it has not found room for (driver.s PUTC, NEWL, PCBUF).           *)
LEMMA MainlineInv ==
  ASSUME DriverInv, Mainline
  PROVE  DriverInv'
<1> USE DEF DriverInv
<1>1. isr = "none" /\ ~tIrq /\ UNCHANGED <<tIrq, handler>>
  BY DEF Mainline, Put, TestBusy, TestCap, WAITRDY, PCDIR, NLNOW, LoadPlace,
         StoreChar, StepPlace, TakeRoom, Finish, DRAIN, Goes
<1>2. UNCHANGED <<scr, npend, idxt, isr, saved, torn>>
  BY <1>1 DEF handler
<1>3. ASSUME NEW c \in {Len(out) + 1, NL}, Put(c)
      PROVE  DriverInv'
  <2>1. /\ UNCHANGED <<device, cursor, queue, x>>
        /\ at = "MAIN" /\ at' = "PUTC" /\ chr' = c
        /\ now' = IF c = NL THEN "NLNOW" ELSE "PCDIR"
        /\ out' = Append(out, c)
    BY <1>3 DEF Put, Goes
  <2>2. c \in Nat \cup {NL} /\ out' \in Seq(Nat \cup {NL})
    <3>1. Len(out) \in Nat
      BY DEF DriverTypeOK
    <3>2. c \in Nat \cup {NL}
      BY <3>1
    <3> QED BY <2>1, <3>2 DEF DriverTypeOK
  <2>3. DriverTypeOK'
    BY <1>1, <1>2, <2>1, <2>2 DEF DriverTypeOK, device, cursor, queue
  <2>4. ClockInv' /\ RoomInv' /\ CharInv'
    BY <1>1, <1>2, <2>1 DEF ClockInv, RoomInv, CharInv, Carried, device, cursor, queue
  <2> QED BY <2>3, <2>4
<1>4. CASE TestBusy \/ TestCap \/ WAITRDY \/ Finish \/ DRAIN
  <2>1. UNCHANGED <<device, cursor, queue, chr, now, x, out>>
    BY <1>4 DEF TestBusy, TestCap, WAITRDY, Finish, DRAIN
  <2>2. /\ at' \in {"PCDIR", "NLNOW", "CAP", "PCBUF", "WAITRDY", "DRAIN", "STOP"}
        /\ at' \in {"PCDIR", "NLNOW"} => ~busy /\ at' = now
        /\ at' = "PCBUF" => cap # 0
        /\ at \notin {"PCBUF", "DAC", "ISZ", "DSZ"}
        /\ at \in {"MAIN", "DRAIN", "STOP"} => at' \in {"DRAIN", "STOP"}
    BY <1>4 DEF TestBusy, TestCap, WAITRDY, Finish, DRAIN, Goes, Room, DriverTypeOK
  <2>3. DriverTypeOK'
    BY <1>1, <1>2, <2>1, <2>2 DEF DriverTypeOK, device, cursor, queue
  <2>4. ClockInv' /\ CharInv'
    BY <1>1, <1>2, <2>1, <2>2 DEF ClockInv, CharInv, Carried, device, cursor
  <2>5. RoomInv'
    <3>1. cap \in Nat /\ UNCHANGED <<cap, bufp>>
      BY <2>1, DriverAssumption DEF DriverTypeOK, queue
    <3> QED BY <1>1, <1>2, <2>2, <3>1 DEF RoomInv
  <2> QED BY <2>3, <2>4, <2>5
<1>5. CASE PCDIR \/ NLNOW
  <2>1. /\ UNCHANGED <<queue, chr, now, x, out>>
        /\ at \in {"PCDIR", "NLNOW"} /\ at' = "MAIN" /\ ~busy
    BY <1>5 DEF PCDIR, NLNOW, Goes, ClockInv
  <2>2. /\ screen' \in [Cells -> Nat \cup {Space}]
        /\ scrollLeft' \in 0 .. ScrollTicks /\ timerLeft' = scrollLeft'
        /\ line' \in 0 .. LastRow /\ indx' \in Nat /\ busy' \in BOOLEAN /\ shown' \in Nat
        /\ ~lost'
        /\ ~busy' => scrollLeft' = 0
    <3>1. CASE PCDIR
      <4>1. Direct(chr) /\ chr \in Nat
        BY <1>1, <3>1 DEF PCDIR, Goes, CharInv, Carried, DriverTypeOK
      <4> QED BY <2>1, <4>1, ShowInv
    <3>2. CASE NLNOW
      BY <2>1, <3>2, ShowInv, 0 \in Nat DEF NLNOW
    <3> QED BY <1>5, <3>1, <3>2
  <2>3. lost' \in BOOLEAN
    BY <1>5 DEF PCDIR, NLNOW, NextLine, Scroll, Direct, Writes, device, DriverTypeOK
  <2>4. DriverTypeOK'
    BY <1>1, <1>2, <2>1, <2>2, <2>3 DEF DriverTypeOK, queue
  <2>5. ClockInv' /\ RoomInv' /\ CharInv'
    BY <1>1, <1>2, <2>1, <2>2 DEF ClockInv, RoomInv, CharInv, queue
  <2> QED BY <2>4, <2>5
<1>6. CASE LoadPlace \/ StoreChar \/ StepPlace \/ TakeRoom
  <2>1. UNCHANGED <<device, cursor, chr, now, out>>
    BY <1>6 DEF LoadPlace, StoreChar, StepPlace, TakeRoom
  <2>2. bufp \in 0 .. QCap /\ cap \in 0 .. QCap /\ cap >= 1
    BY <1>6, DriverAssumption
       DEF DriverTypeOK, RoomInv, LoadPlace, StoreChar, StepPlace, TakeRoom, Goes
  <2>3. /\ at' \in {"DAC", "ISZ", "DSZ", "MAIN"}
        /\ at \in {"PCBUF", "DAC", "ISZ", "DSZ"}
        /\ buf' \in [0 .. QCap - 1 -> Nat \cup {NL}]
        /\ bufp' \in 0 .. QCap /\ cap' \in 0 .. QCap /\ x' \in 0 .. QCap - 1
        /\ bufp' + cap' <= IF at' = "DSZ" THEN QCap + 1 ELSE QCap
        /\ at' # "MAIN" => cap' >= 1
    <3>1. CASE LoadPlace
      BY <2>2, <3>1, DriverAssumption DEF LoadPlace, Goes, DriverTypeOK, RoomInv, queue
    <3>2. CASE StoreChar
      BY <2>2, <3>2, DriverAssumption DEF StoreChar, Goes, DriverTypeOK, RoomInv
    <3>3. CASE StepPlace
      BY <2>2, <3>3, DriverAssumption DEF StepPlace, Goes, DriverTypeOK, RoomInv
    <3>4. CASE TakeRoom
      BY <2>2, <3>4, DriverAssumption DEF TakeRoom, Goes, DriverTypeOK, RoomInv
    <3> QED BY <1>6, <3>1, <3>2, <3>3, <3>4
  <2>4. DriverTypeOK'
    BY <1>1, <1>2, <2>1, <2>3 DEF DriverTypeOK, device, cursor
  <2>5. ClockInv' /\ CharInv'
    BY <1>1, <1>2, <2>1, <2>3 DEF ClockInv, CharInv, Carried, device, cursor
  <2>6. RoomInv'
    BY <1>1, <1>2, <2>3 DEF RoomInv
  <2> QED BY <2>4, <2>5, <2>6
<1> QED BY <1>3, <1>4, <1>5, <1>6 DEF Mainline

(* DriverInv is inductive.                                                 *)
LEMMA DriverInductive == DriverInv /\ [DriverNext]_driverVars => DriverInv'
<1> SUFFICES ASSUME DriverInv, [DriverNext]_driverVars PROVE DriverInv'
  OBVIOUS
<1>1. CASE UNCHANGED driverVars
  BY <1>1 DEF DriverInv, DriverTypeOK, ClockInv, RoomInv, CharInv, Carried,
              driverVars, device, cursor, queue, handler, main
<1> QED BY <1>1, TickInv, DoneInv, FeedInv, RpdoneInv, MainlineInv DEF DriverNext

LEMMA DriverAlways == DriverSpec => []DriverInv
BY DriverInitInv, DriverInductive, PTL DEF DriverSpec

-----------------------------------------------------------------------------
(* Order: nothing printed is lost, repeated or overtaken.                  *)

\* The mainline holds a character that it has neither shown nor queued.
Holding == at \in {"PUTC", "CAP", "PCBUF", "DAC", "ISZ", "WAITRDY", "PCDIR", "NLNOW"}

\* What the handler has still to replay.
Left == IF isr = "FEED" THEN npend - idxt ELSE 0

\* What is not on the screen yet is, in order: the queue, the rest of the
\* handler's copy, and the character the mainline holds.
Accounted == Len(out) = shown + bufp + Left + (IF Holding THEN 1 ELSE 0)
Queued    == \A k \in 0 .. bufp - 1 : buf[k] = out[shown + 1 + k]
Replayed  == isr = "FEED" =>
               \A k \in idxt .. npend - 1 : scr[k] = out[shown + bufp + 1 + (k - idxt)]
Held      == Holding => /\ Carried = out[Len(out)]
                        /\ now = IF Carried = NL THEN "NLNOW" ELSE "PCDIR"

\* There is a queue only while there is a scroll to wait for.
Timely == ~busy => bufp = 0

\* What the mainline has decided still holds.
Decided ==
  /\ at \in {"PCDIR", "NLNOW"} => at = now
  /\ isr = "none" => /\ at \in {"CAP", "PCBUF", "DAC", "ISZ"} => busy
                     /\ at \in {"DAC", "ISZ"} => x = bufp
                     /\ at = "ISZ" => buf[x] = chr

InOrder == Accounted /\ Queued /\ Replayed /\ Held /\ Timely /\ Decided
OrderInv == ~torn => InOrder

(* Before anything is printed there is nothing to be out of order          *)
(* (driver.s RESET).                                                       *)
LEMMA OrderInit == DriverInit => OrderInv
BY DriverAssumption
   DEF DriverInit, OrderInv, InOrder, Accounted, Holding, Left, Queued, Replayed, Held,
       Timely, Decided

(* The clock touches none of it (machine.py tick).                         *)
LEMMA OrderTick ==
  ASSUME OrderInv, Tick
  PROVE  OrderInv'
BY DEF Tick, OrderInv, InOrder, Accounted, Holding, Left, Queued, Replayed, Held, Timely,
       Decided, Carried, cursor, queue, handler, main

(* The queue becomes the handler's copy, word for word (driver.s DONE).    *)
LEMMA OrderDone ==
  ASSUME DriverInv, OrderInv, DONE, ~torn'
  PROVE  InOrder'
<1>1. /\ UNCHANGED <<shown, buf, at, now, out>> /\ isr = "none"
      /\ saved' = chr /\ npend' = bufp
      /\ at \notin {"PCDIR", "NLNOW"}
      /\ InOrder
  BY DEF DONE, main, DriverInv, ClockInv, OrderInv
<1>2. bufp \in Nat /\ QCap \in Nat /\ bufp <= QCap /\ shown \in Nat
  BY DriverAssumption DEF DriverInv, DriverTypeOK
<1>3. CASE bufp = 0
  <2>1. isr' = "RPDONE" /\ bufp' = 0
    BY <1>3 DEF DONE
  <2> QED BY <1>1, <1>2, <1>3, <2>1
        DEF InOrder, Accounted, Holding, Left, Queued, Replayed, Held, Timely, Decided, Carried
<1>4. CASE bufp # 0
  <2>1. /\ isr' = "FEED" /\ bufp' = 0 /\ idxt' = 0
        /\ \A k \in 0 .. bufp - 1 : scr'[k] = buf[k]
    BY <1>2, <1>4 DEF DONE
  <2>2. Accounted' /\ Queued' /\ Timely' /\ Decided' /\ Held'
    BY <1>1, <1>2, <2>1
       DEF InOrder, Accounted, Holding, Left, Queued, Held, Timely, Decided, Carried
  <2>3. Replayed'
    BY <1>1, <1>2, <2>1 DEF InOrder, Queued, Replayed
  <2> QED BY <2>2, <2>3 DEF InOrder
<1> QED BY <1>3, <1>4

(* A step of the replay takes the handler's first character and shows it,  *)
(* or puts it last in the queue (driver.s FEED).                           *)
LEMMA OrderFeed ==
  ASSUME DriverInv, OrderInv, FEED, ~torn'
  PROVE  InOrder'
<1> DEFINE c == scr[idxt]
           over == idxt + 1 = npend
<1>1. /\ UNCHANGED <<scr, npend, saved, at, now, x, out>>
      /\ isr = "FEED" /\ chr' = c /\ idxt' = idxt + 1
      /\ at \notin {"PCDIR", "NLNOW"}
      /\ InOrder
  BY DEF FEED, main, DriverInv, ClockInv, OrderInv
<1>2. /\ npend \in 0 .. QCap /\ idxt \in 0 .. QCap /\ bufp \in 0 .. QCap /\ shown \in Nat
      /\ bufp + cap = QCap /\ bufp <= idxt /\ idxt < npend /\ (busy => bufp < idxt)
      /\ QCap \in Nat /\ cap \in 0 .. QCap
  BY <1>1, DriverAssumption DEF DriverInv, DriverTypeOK, RoomInv
<1>3. c = out[shown + bufp + 1] /\ Len(out) = shown + bufp + (npend - idxt) + (IF Holding THEN 1 ELSE 0)
  <2>1. c = out[shown + bufp + 1 + (idxt - idxt)] /\ idxt - idxt = 0
    BY <1>1, <1>2 DEF InOrder, Replayed
  <2>2. shown + bufp + 1 + 0 = shown + bufp + 1
    BY <1>2
  <2>3. Len(out) = shown + bufp + (npend - idxt) + (IF Holding THEN 1 ELSE 0)
    BY <1>1 DEF InOrder, Accounted, Left
  <2> QED BY <2>1, <2>2, <2>3
<1>4. Holding' = Holding /\ Held'
  <2>1. isr' \in {"FEED", "RPDONE", "SPIN"}
    BY DEF FEED
  <2> QED BY <1>1, <2>1 DEF InOrder, Held, Holding, Carried
<1>5. CASE ~busy
  <2>1. /\ shown' = shown + 1 /\ UNCHANGED <<buf, bufp, cap>>
        /\ isr' = IF over THEN "RPDONE" ELSE "FEED"
    BY <1>5 DEF FEED, NextLine, Scroll, Direct, queue
  <2>2. bufp = 0
    BY <1>1, <1>5 DEF InOrder, Timely
  <2>3. Accounted' /\ Queued' /\ Timely'
    BY <1>1, <1>2, <1>3, <1>4, <2>1, <2>2 DEF Accounted, Left, Queued, Timely
  <2>4. Replayed'
    <3>1. SUFFICES ASSUME isr' = "FEED", NEW k \in idxt + 1 .. npend - 1
                   PROVE  scr[k] = out[shown + 1 + 0 + 1 + (k - (idxt + 1))]
      BY <1>1, <2>1, <2>2 DEF Replayed
    <3>2. scr[k] = out[shown + bufp + 1 + (k - idxt)]
      BY <1>1, <1>2 DEF InOrder, Replayed
    <3> QED BY <1>2, <2>2, <3>2
  <2>5. Decided'
    BY <1>1, <2>1 DEF Decided
  <2> QED BY <1>4, <2>3, <2>4, <2>5 DEF InOrder
<1>6. CASE busy
  <2>1. /\ buf' = [buf EXCEPT ![bufp] = c] /\ bufp' = bufp + 1
        /\ isr' = IF over THEN "RPDONE" ELSE "FEED"
        /\ UNCHANGED <<busy, shown>>
    <3>1. cap # 0
      BY <1>2, <1>6
    <3> QED BY <1>6, <3>1 DEF FEED, Room, device, cursor
  <2>2. buf \in [0 .. QCap - 1 -> Nat \cup {NL}] /\ bufp \in 0 .. QCap - 1
    BY <1>2, <1>6 DEF DriverInv, DriverTypeOK
  <2>3. Accounted' /\ Timely'
    BY <1>1, <1>2, <1>3, <1>4, <1>6, <2>1 DEF Accounted, Left, Timely
  <2>4. Queued'
    <3>1. SUFFICES ASSUME NEW k \in 0 .. bufp PROVE buf'[k] = out[shown + 1 + k]
      BY <1>1, <1>2, <2>1 DEF Queued
    <3>2. CASE k = bufp
      BY <1>2, <1>3, <2>1, <2>2, <3>2
    <3>3. CASE k # bufp
      BY <1>1, <1>2, <2>1, <2>2, <3>3 DEF InOrder, Queued
    <3> QED BY <3>2, <3>3
  <2>5. Replayed'
    <3>1. SUFFICES ASSUME isr' = "FEED", NEW k \in idxt + 1 .. npend - 1
                   PROVE  scr[k] = out[shown + (bufp + 1) + 1 + (k - (idxt + 1))]
      BY <1>1, <2>1 DEF Replayed
    <3>2. scr[k] = out[shown + bufp + 1 + (k - idxt)]
      BY <1>1, <1>2 DEF InOrder, Replayed
    <3> QED BY <1>2, <3>2
  <2>6. Decided'
    BY <1>1, <2>1 DEF Decided
  <2> QED BY <1>4, <2>3, <2>4, <2>5, <2>6 DEF InOrder
<1> QED BY <1>5, <1>6

(* Coming back from the handler is in order unless the mainline was caught *)
(* between finding a scroll and having queued for it (driver.s RPDONE).    *)
LEMMA OrderRpdone ==
  ASSUME OrderInv, RPDONE, ~torn'
  PROVE  InOrder'
<1>1. /\ UNCHANGED <<busy, shown, buf, bufp, at, now, x, out>>
      /\ isr = "RPDONE" /\ isr' = "none" /\ chr' = saved
      /\ ~torn /\ ~Torn
  BY DEF RPDONE, Restored, cursor, queue, main
<1> QED BY <1>1 DEF OrderInv, InOrder, Accounted, Holding, Left, Queued, Replayed, Held,
                    Timely, Decided, Carried, Torn

(* What the mainline prints goes behind everything that waits; what it     *)
(* shows, shows or queues itself is next (driver.s PUTC, NEWL, PCBUF).     *)
LEMMA OrderMainline ==
  ASSUME DriverInv, OrderInv, Mainline, ~torn'
  PROVE  InOrder'
<1>1. /\ isr = "none" /\ isr' = "none" /\ UNCHANGED <<scr, npend, idxt, saved>>
      /\ InOrder
  BY DEF Mainline, Put, TestBusy, TestCap, WAITRDY, PCDIR, NLNOW, LoadPlace,
         StoreChar, StepPlace, TakeRoom, Finish, DRAIN, Goes, handler, OrderInv
<1>2. /\ bufp \in Nat /\ shown \in Nat /\ out \in Seq(Nat \cup {NL}) /\ Len(out) \in Nat
      /\ buf \in [0 .. QCap - 1 -> Nat \cup {NL}] /\ x \in 0 .. QCap - 1
  BY DriverAssumption DEF DriverInv, DriverTypeOK
<1>3. Replayed' /\ Left = 0 /\ Left' = 0
  BY <1>1 DEF Replayed, Left
<1>4. ASSUME NEW c \in {Len(out) + 1, NL}, Put(c)
      PROVE  InOrder'
  <2>1. /\ UNCHANGED <<busy, shown, buf, bufp, x>>
        /\ at = "MAIN" /\ at' = "PUTC" /\ chr' = c
        /\ now' = IF c = NL THEN "NLNOW" ELSE "PCDIR"
        /\ out' = Append(out, c)
    BY <1>4 DEF Put, Goes, cursor, queue
  <2>2. c \in Nat \cup {NL}
    BY <1>2
  <2>3. /\ Len(out') = Len(out) + 1 /\ out'[Len(out')] = c
        /\ \A k \in 1 .. Len(out) : out'[k] = out[k]
    BY <1>2, <2>1, <2>2
  <2>4. Len(out) = shown + bufp /\ ~Holding /\ Holding'
    BY <1>1, <1>2, <1>3, <2>1 DEF InOrder, Accounted, Holding
  <2>5. Accounted' /\ Held'
    BY <1>1, <1>2, <1>3, <2>1, <2>3, <2>4 DEF Accounted, Held, Carried
  <2>6. Queued'
    BY <1>1, <1>2, <2>1, <2>3, <2>4 DEF InOrder, Queued
  <2>7. Timely' /\ Decided'
    BY <1>1, <2>1 DEF InOrder, Timely, Decided
  <2> QED BY <1>3, <2>5, <2>6, <2>7 DEF InOrder
<1>5. CASE TestBusy \/ TestCap \/ WAITRDY \/ Finish \/ DRAIN
  <2>1. UNCHANGED <<busy, shown, buf, bufp, chr, now, x, out>>
    BY <1>5 DEF TestBusy, TestCap, WAITRDY, Finish, DRAIN, cursor, queue
  <2>2. /\ Holding' = Holding
        /\ at' \in {"PCDIR", "NLNOW"} => at' = now
        /\ at' \in {"CAP", "PCBUF"} => busy
        /\ at' \notin {"DAC", "ISZ"}
    BY <1>1, <1>5 DEF TestBusy, TestCap, WAITRDY, Finish, DRAIN, Goes, Holding, Held,
                      InOrder, Decided
  <2>3. Accounted' /\ Queued' /\ Held' /\ Timely' /\ Decided'
    BY <1>1, <1>3, <2>1, <2>2
       DEF InOrder, Accounted, Queued, Held, Timely, Decided, Carried
  <2> QED BY <1>3, <2>3 DEF InOrder
<1>6. CASE PCDIR \/ NLNOW
  <2>1. /\ UNCHANGED <<buf, bufp, chr, now, x, out>>
        /\ Holding /\ at' = "MAIN" /\ ~busy /\ shown' = shown + 1
    BY <1>6 DEF PCDIR, NLNOW, Direct, NextLine, Scroll, Goes, Holding, DriverInv, ClockInv, queue
  <2>2. bufp = 0 /\ ~Holding'
    BY <1>1, <2>1 DEF InOrder, Timely, Holding
  <2> QED BY <1>1, <1>2, <1>3, <2>1, <2>2
          DEF InOrder, Accounted, Queued, Held, Timely, Decided
<1>7. CASE LoadPlace
  <2>1. /\ UNCHANGED <<busy, shown, buf, bufp, chr, now, out>>
        /\ at = "PCBUF" /\ at' = "DAC" /\ x' = bufp
    BY <1>7 DEF LoadPlace, Goes, cursor, queue
  <2> QED BY <1>1, <1>3, <2>1
          DEF InOrder, Accounted, Queued, Held, Timely, Decided, Carried, Holding
<1>8. CASE StoreChar
  <2>1. /\ UNCHANGED <<busy, shown, bufp, chr, now, x, out>>
        /\ at = "DAC" /\ at' = "ISZ" /\ buf' = [buf EXCEPT ![x] = chr] /\ x = bufp
    BY <1>1, <1>8 DEF StoreChar, Goes, cursor, InOrder, Decided
  <2>2. Queued' /\ buf'[x] = chr
    BY <1>1, <1>2, <2>1 DEF InOrder, Queued
  <2> QED BY <1>1, <1>3, <2>1, <2>2
          DEF InOrder, Accounted, Held, Timely, Decided, Carried, Holding
<1>9. CASE StepPlace
  <2>1. /\ UNCHANGED <<busy, shown, buf, chr, now, x, out>>
        /\ at = "ISZ" /\ at' = "DSZ" /\ bufp' = bufp + 1
        /\ busy /\ x = bufp /\ buf[x] = chr
    BY <1>1, <1>9 DEF StepPlace, Goes, cursor, InOrder, Decided
  <2>2. Holding /\ ~Holding' /\ chr = out[Len(out)] /\ Len(out) = shown + bufp + 1
    BY <1>1, <1>2, <1>3, <2>1 DEF InOrder, Accounted, Holding, Held, Carried
  <2>3. Queued'
    <3>1. SUFFICES ASSUME NEW k \in 0 .. bufp PROVE buf[k] = out[shown + 1 + k]
      BY <1>2, <2>1 DEF Queued
    <3>2. CASE k = bufp
      <4>1. shown + 1 + k = Len(out)
        BY <1>2, <2>2, <3>2
      <4> QED BY <2>1, <2>2, <3>2, <4>1
    <3>3. CASE k # bufp
      BY <1>1, <1>2, <3>3 DEF InOrder, Queued
    <3> QED BY <3>2, <3>3
  <2> QED BY <1>1, <1>2, <1>3, <2>1, <2>2, <2>3
          DEF InOrder, Accounted, Held, Timely, Decided
<1>10. CASE TakeRoom
  <2>1. /\ UNCHANGED <<busy, shown, buf, bufp, chr, now, x, out>>
        /\ at = "DSZ" /\ at' = "MAIN"
    BY <1>10 DEF TakeRoom, Goes, cursor
  <2> QED BY <1>1, <1>3, <2>1
          DEF InOrder, Accounted, Queued, Held, Timely, Decided, Carried, Holding
<1> QED BY <1>4, <1>5, <1>6, <1>7, <1>8, <1>9, <1>10 DEF Mainline

LEMMA OrderInductive == DriverInv /\ OrderInv /\ [DriverNext]_driverVars => OrderInv'
<1> SUFFICES ASSUME DriverInv, OrderInv, [DriverNext]_driverVars, ~torn' PROVE InOrder'
  BY DEF OrderInv
<1>1. CASE UNCHANGED driverVars
  BY <1>1 DEF OrderInv, InOrder, Accounted, Holding, Left, Queued, Replayed, Held, Timely,
              Decided, Carried, driverVars, cursor, queue, handler, main
<1>2. CASE Tick
  BY <1>2, OrderTick DEF OrderInv
<1> QED BY <1>1, <1>2, OrderDone, OrderFeed, OrderRpdone, OrderMainline DEF DriverNext

(* Up to the first time the handler comes inside a PUTC that queues,       *)
(* everything printed is on the screen, in the queue, in the handler's     *)
(* copy or in the mainline's hand, in that order (driver.s).               *)
THEOREM NothingOvertaken == DriverSpec => [](DriverInv /\ OrderInv)
BY DriverInitInv, DriverInductive, OrderInit, OrderInductive, PTL DEF DriverSpec

-----------------------------------------------------------------------------
(* Driver implements Console.                                              *)

(* The cleared screen is a cleared console (driver.s RESET).               *)
LEMMA InitImplements == DriverInit => Unbuffered!ConsoleInit
BY DriverAssumption DEF DriverInit, Unbuffered!ConsoleInit, Cells, Unbuffered!Cells

\* The abstract console as the driver's state gives it.
Seen == IF busy THEN [k \in Cells |-> IF k \div Cols = line THEN Space ELSE screen[k]]
        ELSE screen
Place == IF busy THEN Cols * line ELSE indx

(* A character acted on while no scroll goes on is shown (driver.s PCDIR,  *)
(* NLNOW).                                                                 *)
LEMMA ActingShows ==
  ASSUME DriverInv, ~busy, UNCHANGED out,
         shown < Len(out), NEW STATE c, c = out[shown + 1],
         IF c = NL THEN NextLine \/ Scroll ELSE Direct(c)
  PROVE  Unbuffered!ConsoleNext
<1>1. /\ scrollLeft = 0 /\ screen \in [Cells -> Nat \cup {Space}] /\ indx \in Nat
      /\ line \in 0 .. LastRow /\ Cells = Unbuffered!Cells /\ LastRow = Unbuffered!LastRow
  BY DEF DriverInv, ClockInv, DriverTypeOK, Cells, LastRow, Unbuffered!Cells, Unbuffered!LastRow
<1>2. Seen = screen /\ Place = indx
  BY DEF Seen, Place
<1>3. CASE c # NL
  <2>1. /\ screen' = [screen EXCEPT ![indx] = c]
        /\ indx' = indx + 1 /\ shown' = shown + 1
        /\ UNCHANGED <<line, busy>>
    BY <1>1, <1>3 DEF Direct, Writes
  <2>2. Seen' = screen' /\ Place' = indx'
    BY <2>1 DEF Seen, Place
  <2>3. Unbuffered!Glyph(out[shown + 1])
    BY <1>2, <1>3, <2>1, <2>2 DEF Unbuffered!Glyph, Seen, Place, Cells
  <2> QED BY <2>1, <2>3 DEF Unbuffered!ConsoleNext, Unbuffered!Show
<1>4. CASE c = NL /\ NextLine
  <2>1. /\ UNCHANGED <<screen, busy>> /\ shown' = shown + 1
        /\ line < LastRow /\ line' = line + 1 /\ indx' = Cols * line'
    BY <1>1, <1>4, DriverAssumption DEF NextLine, device, SetIdx, LastRow
  <2>2. Seen' = screen /\ Place' = Cols * line'
    BY <2>1 DEF Seen, Place
  <2>3. Unbuffered!NewLine(out[shown + 1])
    BY <1>1, <1>2, <1>4, <2>1, <2>2 DEF Unbuffered!NewLine, Seen, Place, Cells
  <2> QED BY <2>1, <2>3 DEF Unbuffered!ConsoleNext, Unbuffered!Show
<1>5. CASE c = NL /\ Scroll
  <2>1. /\ screen' = [k \in Cells |-> IF k + Cols \in Cells THEN screen[k + Cols] ELSE screen[k]]
        /\ busy' /\ shown' = shown + 1 /\ line = LastRow /\ line' = line
    BY <1>1, <1>5 DEF Scroll
  <2>2. Seen' = Unbuffered!Blanked(Unbuffered!Scrolled(screen), LastRow)
    BY <1>1, <2>1 DEF Seen, Unbuffered!Blanked, Unbuffered!Scrolled
  <2>3. Place' = Cols * line'
    BY <2>1 DEF Place
  <2>4. ~(line < LastRow)
    BY <1>1, <2>1, DriverAssumption DEF LastRow
  <2>5. Unbuffered!NewLine(out[shown + 1])
    BY <1>1, <1>2, <1>5, <2>1, <2>2, <2>3, <2>4 DEF Unbuffered!NewLine, Seen, Place, Cells
  <2> QED BY <2>1, <2>5 DEF Unbuffered!ConsoleNext, Unbuffered!Show
<1> QED BY <1>3, <1>4, <1>5

\* The driver moves only what the console does not see.
Unseen == UNCHANGED <<Seen, line, Place, out, shown>>

(* The handler's row counts as blank before it is, and its cursor as set,  *)
(* so that nothing is seen of its entry (driver.s DONE).                   *)
LEMMA DoneUnseen ==
  ASSUME DriverInv, DONE
  PROVE  Unseen
<1>1. /\ UNCHANGED <<line, out, shown>> /\ busy /\ ~busy'
      /\ screen' = RowBlank(line) /\ indx' = Cols * line
  BY DEF DONE, Writes, NotBusy, SetIdx, main, DriverInv, ClockInv
<1> QED BY <1>1 DEF Unseen, Seen, Place, RowBlank

(* Every step of the driver is a step of the console, or is not seen.      *)
LEMMA StepImplements ==
  ASSUME DriverInv, OrderInv, [DriverNext]_driverVars, ~torn'
  PROVE  Unbuffered!ConsoleNext \/ UNCHANGED Unbuffered!consoleVars
<1>1. Unseen => UNCHANGED Unbuffered!consoleVars
  BY DEF Unseen, Seen, Place, Cells, Unbuffered!consoleVars
<1>2. CASE UNCHANGED driverVars \/ Tick \/ RPDONE
  <2>1. UNCHANGED <<screen, line, indx, busy, shown, out>>
    BY <1>2 DEF driverVars, Tick, RPDONE, device, cursor, main
  <2> QED BY <1>1, <2>1 DEF Unseen, Seen, Place
<1>3. CASE DONE
  BY <1>1, <1>3, DoneUnseen
<1>4. CASE FEED
  <2>1. ~torn /\ UNCHANGED out /\ isr = "FEED" /\ InOrder
    BY <1>4 DEF FEED, main, OrderInv
  <2>2. /\ idxt < npend /\ npend \in Nat /\ idxt \in Nat /\ bufp \in Nat /\ shown \in Nat
    BY <2>1, DriverAssumption DEF DriverInv, DriverTypeOK, RoomInv
  <2>3. CASE ~busy
    <3>1. bufp = 0 /\ Len(out) >= shown + (npend - idxt)
      BY <2>1, <2>2, <2>3 DEF InOrder, Timely, Accounted, Left
    <3>2. scr[idxt] = out[shown + bufp + 1 + (idxt - idxt)]
      BY <2>1, <2>2 DEF InOrder, Replayed
    <3>3. scr[idxt] = out[shown + 1] /\ shown < Len(out)
      BY <2>2, <3>1, <3>2
    <3>4. IF scr[idxt] = NL THEN NextLine \/ Scroll ELSE Direct(scr[idxt])
      BY <1>4, <2>3 DEF FEED
    <3> QED BY <2>1, <2>3, <3>3, <3>4, ActingShows
  <2>4. CASE busy
    <3>1. UNCHANGED <<screen, line, indx, busy, shown, out>>
      BY <1>4, <2>1, <2>4 DEF FEED, device, cursor
    <3> QED BY <1>1, <3>1 DEF Unseen, Seen, Place
  <2> QED BY <2>3, <2>4
<1>5. ASSUME NEW c \in {Len(out) + 1, NL}, Put(c)
      PROVE  Unbuffered!ConsoleNext
  <2>1. UNCHANGED <<screen, line, indx, busy, shown>> /\ out' = Append(out, c)
    BY <1>5 DEF Put, device, cursor
  <2>2. c \in 1 .. MaxOut \cup {NL}
    BY <1>5, DriverAssumption DEF Put, DriverInv, DriverTypeOK
  <2>3. UNCHANGED <<Seen, Place>>
    BY <2>1 DEF Seen, Place
  <2>4. Unbuffered!Ask(c)
    BY <2>1, <2>3 DEF Unbuffered!Ask, Seen, Place, Cells
  <2> QED BY <2>2, <2>4 DEF Unbuffered!ConsoleNext
<1>6. CASE PCDIR \/ NLNOW
  <2>1. /\ Holding /\ ~busy /\ ~torn /\ UNCHANGED out /\ isr = "none"
        /\ IF at = "NLNOW" THEN NextLine \/ Scroll ELSE Direct(chr)
        /\ at \in {"PCDIR", "NLNOW"}
    BY <1>6 DEF PCDIR, NLNOW, Goes, Holding, DriverInv, ClockInv, handler
  <2>2. /\ at = now /\ chr = out[Len(out)] /\ Len(out) = shown + 1 /\ shown \in Nat
        /\ now = IF chr = NL THEN "NLNOW" ELSE "PCDIR"
    BY <2>1 DEF OrderInv, InOrder, Accounted, Left, Held, Timely, Decided, Carried,
                DriverInv, DriverTypeOK
  <2>3. IF chr = NL THEN NextLine \/ Scroll ELSE Direct(chr)
    BY <2>1, <2>2
  <2> QED BY <2>1, <2>2, <2>3, ActingShows
<1>7. CASE TestBusy \/ TestCap \/ WAITRDY \/ Finish \/ DRAIN \/ LoadPlace \/ StoreChar
           \/ StepPlace \/ TakeRoom
  <2>1. UNCHANGED <<screen, line, indx, busy, shown, out>>
    BY <1>7 DEF TestBusy, TestCap, WAITRDY, Finish, DRAIN, LoadPlace, StoreChar,
                StepPlace, TakeRoom, device, cursor
  <2> QED BY <1>1, <2>1 DEF Unseen, Seen, Place
<1> QED BY <1>2, <1>3, <1>4, <1>5, <1>6, <1>7 DEF DriverNext, Mainline

(* The buffered driver is the unbuffered console of model.py, seen with    *)
(* its scrolls already finished, for every screen and queue (driver.s;     *)
(* model.py reference).                                                    *)
THEOREM DriverImplementsConsole == DriverSpec => Implements
<1>1. DriverInv /\ OrderInv /\ [DriverNext]_driverVars =>
        [~torn' => Unbuffered!ConsoleNext \/ UNCHANGED Unbuffered!consoleVars]_driverVars
  BY StepImplements
<1> QED BY <1>1, InitImplements, NothingOvertaken, PTL DEF DriverSpec, Implements

-----------------------------------------------------------------------------
(* The results.                                                            *)

(* The cursor's row, the queue's two counts and every place used in it     *)
(* stay in range, wherever the handler comes (driver.s).                   *)
THEOREM DriverTypeCorrect == DriverSpec => []DriverTypeOK
<1>1. DriverInv => DriverTypeOK
  BY DEF DriverInv
<1> QED BY <1>1, DriverAlways, PTL

(* A timer loaded with the length of a scroll is enough: no write of the   *)
(* driver is ever swallowed (driver.s THIV, TSTART).                       *)
THEOREM NoWriteSwallowed == DriverSpec => []NothingSwallowed
<1>1. DriverInv => NothingSwallowed
  BY DEF DriverInv, ClockInv, NothingSwallowed
<1> QED BY <1>1, DriverAlways, PTL

(* The handler always has room for what it queues again (driver.s FEED).   *)
THEOREM ReplayHasRoom == DriverSpec => []HandlerNeverSpins
<1>1. DriverInv => HandlerNeverSpins
  BY DEF DriverInv, RoomInv, HandlerNeverSpins
<1> QED BY <1>1, DriverAlways, PTL
=============================================================================
