--------------------------- MODULE Keyboard_proofs ---------------------------
(***************************************************************************)
(* For every size of the queue and any number of keystrokes: the queue     *)
(* loses, repeats and reorders nothing, and a masked line is always one    *)
(* that a reader will open.                                                *)
(***************************************************************************)
EXTENDS Keyboard, TLAPS

\* GETK compares a KQI that may be old with the KQO of now.  The handler can
\* only have moved KQI further ahead, so "not empty" stays true.
GetkInv ==
  /\ at = "GETKC" => Ahead(kqo, sampled) <= Ahead(kqo, kqi)
  /\ at \in {"GETKD", "STEPQ"} => kqi # kqo

\* The line is masked when the queue is full, and until the reader that made
\* room has opened it.
MaskInv ==
  ~open => /\ Holding
           /\ \/ Ahead(kqo, kqi) = QSize - 1
              \/ at = "UNMASK" /\ Ahead(kqo, kqi) = QSize - 2

KeyInv == KeyTypeOK /\ InOrder /\ GetkInv /\ MaskInv
-----------------------------------------------------------------------------
(* The ring.                                                               *)

(* Distances stay below the size and tell slots apart (focal.s KQI, KQO).  *)
LEMMA Distance ==
  ASSUME NEW a \in Slots, NEW b \in Slots
  PROVE  /\ Advance(a) \in Slots
         /\ Ahead(a, b) \in Nat /\ Ahead(a, b) < QSize
         /\ Ahead(a, b) = 0 <=> a = b
         /\ \A s \in Slots : Ahead(a, s) = Ahead(a, b) <=> s = b
BY QueueAssumption DEF Slots, Advance, Ahead

(* Putting one in: the tail moves one further from the head, unless it     *)
(* would meet it, and then the queue was full.                             *)
LEMMA MoveTail ==
  ASSUME NEW a \in Slots, NEW b \in Slots
  PROVE  /\ ~Full(Advance(b)) /\ kqo = a => Ahead(a, Advance(b)) = Ahead(a, b) + 1
         /\ Full(Advance(b)) /\ kqo = a => Ahead(a, b) = QSize - 1
BY QueueAssumption DEF Slots, Advance, Ahead, Full

(* Taking one out: every occupied slot comes one nearer to the head.       *)
LEMMA MoveHead ==
  ASSUME NEW a \in Slots, NEW b \in Slots, a # b
  PROVE  Ahead(Advance(a), b) = Ahead(a, b) - 1
BY QueueAssumption DEF Slots, Advance, Ahead

-----------------------------------------------------------------------------
(* The strengthened invariant.                                             *)

(* It holds when the interpreter starts (focal.s RESET).                   *)
LEMMA KeyInitInv == KeyInit => KeyInv
<1> SUFFICES ASSUME KeyInit PROVE KeyInv
  OBVIOUS
<1>1. 0 \in Slots /\ Ahead(0, 0) = 0 /\ \A s \in Slots : ~(Ahead(0, s) < 0)
  BY QueueAssumption, Distance DEF Slots, Ahead
<1>2. KeyTypeOK
  <2>1. batch \in BOOLEAN /\ at \in {"STEP", "CMDL"}
    BY DEF KeyInit
  <2> QED BY <1>1, <2>1 DEF KeyInit, KeyTypeOK, Etx
<1>3. ~Holding /\ open /\ at \in {"STEP", "CMDL"}
  BY DEF KeyInit, Holding
<1>4. InOrder
  BY <1>1, <1>3 DEF KeyInit, InOrder
<1>5. GetkInv /\ MaskInv
  BY <1>3 DEF GetkInv, MaskInv
<1> QED BY <1>2, <1>4, <1>5 DEF KeyInv

(* A keystroke disturbs only the count of what is held (machine.py).       *)
LEMMA PressInv ==
  ASSUME KeyInv, PressKey \/ PressBreak
  PROVE  KeyInv'
<1>1. MaskInv'
  BY DEF KeyInv, KeyTypeOK, MaskInv, PressKey, PressBreak, Holding, queue, main
<1>2. GetkInv'
  BY DEF KeyInv, GetkInv, PressKey, PressBreak, Ahead, queue, main
<1>3. KeyTypeOK'
  <2>1. UNCHANGED <<queue, main, kqo, taken, open, waiting>> /\ flag' = TRUE
    BY DEF PressKey, PressBreak
  <2>2. typed' \in Nat /\ latch' \in Nat
    BY DEF KeyInv, KeyTypeOK, PressKey, PressBreak, Etx
  <2> QED BY <2>1, <2>2 DEF KeyInv, KeyTypeOK, queue, main
<1>4. InOrder'
  <2>1. UNCHANGED <<kq, kqi, kqo, taken, at, kch2>>
    BY DEF PressKey, PressBreak, queue, main
  <2>2. Ahead(kqo, kqi) \in Nat
    BY Distance DEF KeyInv, KeyTypeOK
  <2>3. CASE PressKey
    BY <2>1, <2>2, <2>3 DEF KeyInv, KeyTypeOK, InOrder, PressKey, Ahead, Holding, Etx
  <2>4. CASE PressBreak
    BY <2>1, <2>2, <2>4 DEF KeyInv, KeyTypeOK, InOrder, PressBreak, Ahead, Holding, Etx
  <2> QED BY <2>3, <2>4
<1> QED BY <1>1, <1>2, <1>3, <1>4 DEF KeyInv

(* The handler keeps it: what it stores goes behind everything queued, and *)
(* it masks the line exactly when the queue is full (focal.s KBDISR).      *)
LEMMA HandlerInv ==
  ASSUME KeyInv, KBDISR
  PROVE  KeyInv'
<1> USE DEF KeyInv
<1>1. UNCHANGED <<latch, typed, at, sampled, kch2, reader, batch, kqo, taken>>
  BY DEF KBDISR, main
<1>2. /\ kqi \in Slots /\ kqo \in Slots /\ sampled \in Slots /\ open /\ flag
      /\ taken \in Nat /\ typed \in Nat
  BY DEF KBDISR, Interrupting, KeyTypeOK
<1>3. CASE KBRK
  <2>1. UNCHANGED <<kq, kqi, open>> /\ ~Holding /\ ~Holding' /\ open'
    BY <1>2, <1>3 DEF KBRK, Holding
  <2>2. KeyTypeOK'
    BY <1>1, <1>3, <2>1 DEF KeyTypeOK, KBDISR, KBRK
  <2>3. InOrder' /\ GetkInv' /\ MaskInv'
    BY <1>1, <2>1 DEF InOrder, GetkInv, MaskInv, Ahead
  <2> QED BY <2>2, <2>3
<1>4. CASE KDONE1
  <2>1. /\ kqi' = Advance(kqi) /\ Advance(kqi) \in Slots
        /\ kq' = [kq EXCEPT ![kqi] = latch]
        /\ Holding /\ ~Holding' /\ open'
    BY <1>2, <1>4, Distance DEF KDONE1, Holding
  <2>2. Ahead(kqo, kqi') = Ahead(kqo, kqi) + 1 /\ Ahead(kqo, kqi) \in Nat
    BY <1>2, <1>4, <2>1, MoveTail, Distance, QueueAssumption DEF KDONE1
  <2>3. KeyTypeOK'
    BY <1>1, <1>4, <2>1 DEF KeyTypeOK, KBDISR, KDONE1
  <2>4. latch = taken + 1 + Ahead(kqo, kqi)
    BY <1>2, <2>1, <2>2 DEF InOrder
  <2>5. ASSUME NEW s \in Slots, Ahead(kqo, s) < Ahead(kqo, kqi')
        PROVE  kq'[s] = taken + 1 + Ahead(kqo, s)
    <3>1. CASE s = kqi
      BY <1>2, <2>1, <2>4, <3>1 DEF KeyTypeOK
    <3>2. CASE s # kqi
      <4>1. Ahead(kqo, s) # Ahead(kqo, kqi) /\ Ahead(kqo, s) \in Nat
        BY <1>2, <3>2, Distance
      <4>2. Ahead(kqo, s) < Ahead(kqo, kqi)
        BY <2>2, <2>5, <4>1
      <4> QED BY <1>2, <2>1, <3>2, <4>2 DEF InOrder, KeyTypeOK
    <3> QED BY <3>1, <3>2
  <2>6. InOrder'
    <3>1. typed' = taken' + Ahead(kqo', kqi') + (IF Holding' THEN 1 ELSE 0)
      BY <1>1, <1>2, <2>1, <2>2 DEF InOrder, Ahead
    <3>2. \A s \in Slots : Ahead(kqo', s) < Ahead(kqo', kqi')
                              => kq'[s] = taken' + 1 + Ahead(kqo', s)
      BY <1>1, <2>5
    <3> QED BY <1>1, <2>1, <3>1, <3>2 DEF InOrder, Ahead
  <2>7. GetkInv'
    <3>1. Ahead(kqo, sampled) \in Nat /\ Ahead(kqo, kqi') # 0
      BY <1>2, <2>2, Distance, QueueAssumption
    <3>2. kqi' # kqo
      BY <1>2, <2>1, <3>1, Distance
    <3> QED BY <1>1, <2>2, <3>1, <3>2 DEF GetkInv, Ahead
  <2> QED BY <2>1, <2>3, <2>6, <2>7 DEF MaskInv
<1>5. CASE KFULL
  <2>1. UNCHANGED <<kq, kqi, flag>> /\ Holding /\ Holding' /\ open' = FALSE
    BY <1>1, <1>2, <1>5 DEF KFULL, Holding, queue
  <2>2. Ahead(kqo, kqi) = QSize - 1
    BY <1>2, <1>5, MoveTail DEF KFULL
  <2>3. KeyTypeOK'
    BY <1>1, <1>5, <2>1 DEF KeyTypeOK, KBDISR, KFULL, queue
  <2>4. InOrder' /\ GetkInv' /\ MaskInv'
    BY <1>1, <2>1, <2>2 DEF InOrder, GetkInv, MaskInv, Ahead
  <2> QED BY <2>3, <2>4
<1> QED BY <1>3, <1>4, <1>5 DEF KBDISR

(* The mainline keeps it: GETK takes the oldest character, and opens the   *)
(* line as soon as there is room (focal.s GETK).                           *)
LEMMA MainlineInv ==
  ASSUME KeyInv, Mainline \/ Wake
  PROVE  KeyInv'
<1> USE DEF KeyInv
<1>1. /\ kqi \in Slots /\ kqo \in Slots /\ sampled \in Slots
      /\ taken \in Nat /\ typed \in Nat /\ kq \in [Slots -> Nat]
      /\ UNCHANGED <<flag, latch, typed, kq, kqi>>
  BY DEF KeyTypeOK, Mainline, Wake, LoadTail, CompareHead, GETKW, GETKD, StepHead,
         Unmask, Returned, CMDL, STEP, BODY, device, queue
<1>2. Holding' = Holding
  BY <1>1 DEF Holding
<1>3. ASSUME UNCHANGED <<kqo, taken>>,
             at' = "STEPQ" => kch2' = taken + 1,
             at' \in {"UNMASK", "ECHO"} => kch2' = taken
      PROVE  InOrder'
  BY <1>1, <1>2, <1>3 DEF InOrder, Ahead
<1>4. ASSUME UNCHANGED <<kqo, open>>, at # "UNMASK"
      PROVE  MaskInv'
  BY <1>1, <1>2, <1>4 DEF MaskInv, Ahead
<1>5. CASE Wake
  <2>1. UNCHANGED <<device, queue, main, kqo, taken, open>> /\ waiting' \in BOOLEAN
    BY <1>5 DEF Wake
  <2>2. KeyTypeOK'
    BY <2>1 DEF KeyTypeOK, device, queue, main
  <2>3. InOrder' /\ GetkInv' /\ MaskInv'
    BY <1>2, <2>1 DEF InOrder, GetkInv, MaskInv, Ahead, device, queue, main
  <2> QED BY <2>2, <2>3
<1>6. CASE LoadTail
  <2>1. KeyTypeOK'
    BY <1>1, <1>6 DEF LoadTail, Goes, KeyTypeOK, device, queue
  <2>2. UNCHANGED <<kqo, taken, open>> /\ at = "GETK" /\ at' = "GETKC" /\ sampled' = kqi
    BY <1>6 DEF LoadTail, Goes
  <2>3. InOrder' /\ MaskInv'
    BY <1>3, <1>4, <2>2
  <2>4. GetkInv'
    BY <1>1, <2>2, Distance DEF GetkInv, Ahead
  <2> QED BY <2>1, <2>3, <2>4
<1>7. CASE CompareHead
  <2>1. KeyTypeOK'
    BY <1>1, <1>7 DEF CompareHead, Goes, KeyTypeOK, device, queue
  <2>2. /\ UNCHANGED <<kqo, taken, open>> /\ at = "GETKC"
        /\ at' = IF sampled # kqo THEN "GETKD" ELSE "GETKW"
    BY <1>7 DEF CompareHead, Goes
  <2>3. InOrder' /\ MaskInv'
    BY <1>3, <1>4, <2>2
  <2>4. sampled # kqo => kqi # kqo
    BY <1>1, <2>2, Distance DEF GetkInv
  <2>5. GetkInv'
    BY <1>1, <2>2, <2>4 DEF GetkInv
  <2> QED BY <2>1, <2>3, <2>5
<1>8. CASE GETKW
  <2>1. KeyTypeOK'
    BY <1>1, <1>8 DEF GETKW, Goes, KeyTypeOK, device, queue
  <2>2. UNCHANGED <<kqo, taken, open>> /\ at = "GETKW" /\ at' = "GETK"
    BY <1>8 DEF GETKW, Goes
  <2> QED BY <1>3, <1>4, <2>1, <2>2 DEF GetkInv
<1>9. CASE GETKD
  <2>1. /\ UNCHANGED <<kqo, taken, open>> /\ at = "GETKD" /\ at' = "STEPQ"
        /\ kch2' = kq[kqo]
    BY <1>9 DEF GETKD, Goes
  <2>2. KeyTypeOK'
    <3>1. kch2' \in Nat
      BY <1>1, <2>1
    <3> QED BY <1>1, <1>9, <3>1 DEF GETKD, Goes, KeyTypeOK, device, queue
  <2>3. kqi # kqo
    BY <2>1 DEF GetkInv
  <2>4. Ahead(kqo, kqo) = 0 /\ 0 < Ahead(kqo, kqi)
    BY <1>1, <2>3, Distance
  <2>5. kch2' = taken + 1
    BY <1>1, <2>1, <2>4 DEF InOrder
  <2>6. InOrder' /\ MaskInv'
    BY <1>3, <1>4, <2>1, <2>5
  <2> QED BY <1>1, <2>1, <2>2, <2>3, <2>6 DEF GetkInv
<1>10. CASE StepHead
  <2>1. /\ UNCHANGED <<open, kch2>> /\ at = "STEPQ" /\ at' = "UNMASK"
        /\ kqo' = Advance(kqo) /\ taken' = taken + 1 /\ kqi # kqo
    BY <1>10 DEF StepHead, Goes, GetkInv
  <2>2. KeyTypeOK'
    <3>1. kqo' \in Slots /\ taken' \in Nat
      BY <1>1, <2>1, Distance
    <3> QED BY <1>1, <1>10, <3>1 DEF StepHead, Goes, KeyTypeOK, device, queue
  <2>3. Ahead(kqo', kqi') = Ahead(kqo, kqi) - 1 /\ Ahead(kqo, kqi) \in Nat
    BY <1>1, <2>1, MoveHead, Distance
  <2>4. ASSUME NEW s \in Slots, Ahead(kqo', s) < Ahead(kqo', kqi')
        PROVE  kq[s] = taken' + 1 + Ahead(kqo', s)
    <3>1. CASE s = kqo
      \* The slot just freed is the furthest from the new head.
      <4>1. Ahead(Advance(kqo), kqo) = QSize - 1 /\ Ahead(kqo, kqi) < QSize
        BY <1>1, Distance, QueueAssumption DEF Ahead, Advance, Slots
      <4> QED BY <2>1, <2>3, <2>4, <3>1, <4>1, QueueAssumption
    <3>2. CASE s # kqo
      <4>1. Ahead(kqo', s) = Ahead(kqo, s) - 1 /\ Ahead(kqo, s) \in Nat
        BY <1>1, <2>1, <3>2, MoveHead, Distance
      <4>2. kq[s] = taken + 1 + Ahead(kqo, s)
        BY <2>3, <2>4, <4>1 DEF InOrder
      <4> QED BY <1>1, <2>1, <4>1, <4>2
    <3> QED BY <3>1, <3>2
  <2>5. InOrder'
    <3>1. typed' = taken' + Ahead(kqo', kqi') + (IF Holding' THEN 1 ELSE 0)
      BY <1>1, <1>2, <2>1, <2>3 DEF InOrder
    <3>2. \A s \in Slots : Ahead(kqo', s) < Ahead(kqo', kqi')
                              => kq'[s] = taken' + 1 + Ahead(kqo', s)
      BY <1>1, <2>4
    <3>3. kch2' = taken'
      BY <2>1 DEF InOrder
    <3> QED BY <1>1, <1>2, <2>1, <3>1, <3>2, <3>3 DEF InOrder, Ahead
  <2>6. MaskInv'
    BY <1>2, <2>1, <2>3, QueueAssumption DEF MaskInv, Ahead
  <2>7. GetkInv'
    BY <2>1 DEF GetkInv
  <2> QED BY <2>2, <2>5, <2>6, <2>7
<1>11. CASE Unmask
  <2>1. KeyTypeOK'
    BY <1>1, <1>11 DEF Unmask, Unmasked, Goes, KeyTypeOK, device, queue
  <2>2. /\ UNCHANGED <<kqo, taken, kch2>> /\ at = "UNMASK" /\ at' = "ECHO"
        /\ open' = TRUE
    BY <1>11 DEF Unmask, Unmasked, Goes
  <2>3. InOrder'
    BY <1>3, <2>2 DEF InOrder
  <2> QED BY <2>1, <2>2, <2>3 DEF GetkInv, MaskInv
<1>12. CASE Returned \/ CMDL \/ STEP \/ BODY
  <2>1. /\ UNCHANGED <<kqo, taken, kch2, sampled, open>> /\ at # "UNMASK"
        /\ at' \in {"GETK", "BODY", "CMDL", "STEP", "STOP"}
    BY <1>12 DEF Returned, CMDL, STEP, BODY, Home, Goes
  <2>2. KeyTypeOK'
    <3>1. /\ brk' \in BOOLEAN /\ reader' \in {"line", "ask"}
          /\ UNCHANGED <<batch, waiting>>
      BY <1>12 DEF Returned, CMDL, STEP, BODY, Goes, KeyTypeOK, device, queue
    <3> QED BY <1>1, <2>1, <3>1 DEF KeyTypeOK
  <2>3. InOrder' /\ MaskInv'
    BY <1>3, <1>4, <2>1
  <2> QED BY <2>1, <2>2, <2>3 DEF GetkInv
<1> QED BY <1>5, <1>6, <1>7, <1>8, <1>9, <1>10, <1>11, <1>12 DEF Mainline

(* KeyInv is inductive.                                                    *)
LEMMA KeyInductive == KeyInv /\ [KeyNext]_keyVars => KeyInv'
<1> SUFFICES ASSUME KeyInv, [KeyNext]_keyVars PROVE KeyInv'
  OBVIOUS
<1>1. CASE UNCHANGED keyVars
  BY <1>1 DEF KeyInv, KeyTypeOK, InOrder, GetkInv, MaskInv, Ahead, Holding,
              keyVars, device, queue, main
<1> QED BY <1>1, PressInv, HandlerInv, MainlineInv DEF KeyNext

LEMMA KeyAlways == KeySpec => []KeyInv
BY KeyInitInv, KeyInductive, PTL DEF KeySpec

-----------------------------------------------------------------------------
(* The results.                                                            *)

(* Registers, queue and control points stay in their ranges; KQI and KQO   *)
(* never leave the queue (focal.s KBDISR, GETK).                           *)
THEOREM KeyTypeCorrect == KeySpec => []KeyTypeOK
<1>1. KeyInv => KeyTypeOK
  BY DEF KeyInv
<1> QED BY <1>1, KeyAlways, PTL

(* Nothing typed is dropped, duplicated or reordered between the key and   *)
(* the reader, whatever the size of the queue (README "FOCAL").            *)
THEOREM NothingLost == KeySpec => []InOrder
<1>1. KeyInv => InOrder
  BY DEF KeyInv
<1> QED BY <1>1, KeyAlways, PTL

(* The handler masks the line only with a keystroke held and something to  *)
(* read, so the line cannot stay masked on an empty queue (focal.s KFULL). *)
THEOREM MaskSafe == KeySpec => []MaskedHolds
<1>1. KeyInv => MaskedHolds
  <2> SUFFICES ASSUME KeyInv, ~open PROVE Holding /\ kqi # kqo
    BY DEF MaskedHolds
  <2>1. Holding /\ Ahead(kqo, kqi) # 0 /\ kqi \in Slots /\ kqo \in Slots
    BY QueueAssumption DEF KeyInv, KeyTypeOK, MaskInv
  <2> QED BY <2>1, Distance
<1> QED BY <1>1, KeyAlways, PTL
=============================================================================
