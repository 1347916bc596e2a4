------------------------------- MODULE Arena -------------------------------
(***************************************************************************)
(* The storage of FOCAL (focal.s): program text growing up from the bottom *)
(* of the arena, blocks for names and strings carved down from its top,    *)
(* and one boundary between them.                                          *)
(*                                                                         *)
(* The arena is modelled word by word, because lines, blocks and free      *)
(* bodies are found by what their words hold.  Each action is one command, *)
(* with every carving, clearing, copying and freeing it does; a command    *)
(* refused with ?S keeps what it had done so far.  Numbers, arrays and the *)
(* rest of the evaluator are left out; names are strings once declared.    *)
(*                                                                         *)
(* Three things the code does not keep apart end a behaviour, with the     *)
(* reason in spoilt: text and heap meeting exactly, an ERASE that leaves a *)
(* free body linked, and an answer longer than the body it is put in.      *)
(***************************************************************************)
EXTENDS Integers, Sequences, FiniteSetsExt

CONSTANTS
  TXTB, Top,        \* the arena: TXTB .. Top - 1 (0x2000 .. 0x1EFFF)
  Keys, Bodies,     \* line numbers, and lines compiled, without key, length, newline
  Classes, PerClass,\* second characters of names, first characters
  Small, Large,     \* words of a string body (8, 256)
  Texts, Decimals, Answers,   \* strings: of a SET, spelled by DEC, typed at an ASK
  Limit0            \* SLM1 as assembled (19)

NL     == 10
SPC    == 32
String == 4         \* the type of a string, and the words of a descriptor

Arena == TXTB .. Top - 1
Vars  == Classes \X (0 .. PerClass - 1)
ClassSize == 4 * PerClass

ASSUME ArenaAssumption ==
  /\ TXTB \in Nat \ {0} /\ Top \in Nat /\ TXTB < Top
  /\ Keys \subseteq Nat \ (0 .. SPC) /\ Bodies \subseteq Seq(Nat \ {0, NL})
  /\ Classes \subseteq Nat /\ PerClass \in Nat \ {0}
  /\ Small \in Nat \ {0, 1} /\ Large \in Nat /\ Small < Large
  /\ Texts \subseteq Seq(Nat \ {0}) /\ \A s \in Texts : Len(s) < Large
  /\ Decimals \subseteq Seq(Nat \ {0}) /\ \A s \in Decimals : Len(s) < Small
  /\ Answers \subseteq Seq(Nat \ {0}) /\ Limit0 \in Nat

VARIABLES
  mem,              \* the words of the arena
  tend,             \* TEND, where the text's terminating zero is
  heap,             \* HEAP, the lowest word given to a block
  vptr,             \* VPTR, the block of each class, 0 when there is none
  fl,               \* FL8 and FL256, the first free body of each size
  slm1,             \* SLM1, the last slot a copy may use
  spoilt            \* why the arena is not to be trusted any more, or "no"

arenaVars == <<mem, tend, heap, vptr, fl, slm1, spoilt>>

Least(S) == Min(S)
Zeros(n) == [j \in 1 .. n |-> 0]
Written(mm, a, words) ==
  [x \in Arena |-> IF x - a + 1 \in DOMAIN words THEN words[x - a + 1] ELSE mm[x]]

-----------------------------------------------------------------------------
(* The text.  A line is its key, its length, its words and a newline.      *)

Line(k, body) == <<k, Len(body) + 3>> \o body \o <<NL>>

\* STBODY: a line of nothing but spaces is a bare number.
Bare(body) == \A j \in DOMAIN body : body[j] = SPC

Txt(mm, x) == mm[TXTB + x]
TLEN(mm) == Least({x \in 0 .. Top - TXTB : TXTB + x = Top \/ Txt(mm, x) = 0})

\* TNUM: past the first newline after the key, or at the end of the text.
TNEXT(mm, x) ==
  LET stop == Least({y \in x + 1 .. Top - TXTB :
                       TXTB + y = Top \/ Txt(mm, y) \in {0, NL}})
  IN  IF TXTB + stop # Top /\ Txt(mm, stop) = NL THEN stop + 1 ELSE stop

\* LFIND: the first line whose number is not below k, or the end.
LaterThan(k, key) == key > k
LaterOrEqual(k, key) == key >= k
LFIND(mm, end, k) ==
  LET from[x \in 0 .. end] ==
        IF x = end \/ LaterOrEqual(k, Txt(mm, x)) THEN x ELSE from[TNEXT(mm, x)]
      pos == from[0]
  IN  [pos |-> pos, match |-> pos # end /\ Txt(mm, pos) = k]

\* TDEL and TINS move the rest of the text, its terminating zero included.
TDEL(mm, end, pos) ==
  LET gap == TNEXT(mm, pos) - pos
  IN  [mem  |-> [x \in Arena |-> IF x \in TXTB + pos .. TXTB + end - gap
                                 THEN mm[x + gap] ELSE mm[x]],
       tend |-> end - gap]

TINS(mm, end, pos, gap) ==
  [mem  |-> [x \in Arena |-> IF x \in TXTB + pos + gap .. TXTB + end + gap
                             THEN mm[x - gap] ELSE mm[x]],
   tend |-> end + gap]

\* STORE's test, and HCARVE's below: the words from the text's end to the heap.
FitsAnyhow(end, words) == TRUE
Fits(end, words) == heap - (TXTB + end + words) >= 0

\* Text and heap meet: the text's zero is the heap's first word.
Meeting(end, hp) == IF TXTB + end = hp THEN "met" ELSE spoilt

\* File a line, replacing the one with its number; a bare number deletes.
STORE(k, body) ==
  LET end   == TLEN(mem)
      found == LFIND(mem, end, k)
      rest  == IF found.match THEN TDEL(mem, end, found.pos)
               ELSE [mem |-> mem, tend |-> end]
      line  == Line(k, body)
      hole  == TINS(rest.mem, rest.tend, found.pos, Len(line))
  IN  /\ spoilt = "no"
      /\ UNCHANGED <<heap, vptr, fl, slm1>>
      /\ IF Bare(body) \/ ~Fits(rest.tend, Len(line))
         THEN mem' = rest.mem /\ tend' = rest.tend
         ELSE mem' = Written(hole.mem, TXTB + found.pos, line) /\ tend' = hole.tend
      /\ spoilt' = Meeting(tend', heap)

-----------------------------------------------------------------------------
(* The heap.  h is its state in the middle of a command: at is what a      *)
(* routine answers in AC, ok is FALSE once one went to ERROR with ?S.      *)

Heap == [mem |-> mem, heap |-> heap, vptr |-> vptr, fl |-> fl, at |-> 0, ok |-> TRUE]

HCARVE(h, n) ==
  IF h.heap - n - (TXTB + tend) >= 0
  THEN [h EXCEPT !.heap = @ - n, !.at = h.heap - n]
  ELSE [h EXCEPT !.ok = FALSE]

Cleared(h, n) == IF h.ok THEN [h EXCEPT !.mem = Written(@, h.at, Zeros(n))] ELSE h

\* The block of a class, carved when a name of the class is first met.
VLOOK(h, c) ==
  IF h.vptr[c] # 0 THEN [h EXCEPT !.at = h.vptr[c]]
  ELSE LET b == Cleared(HCARVE(h, ClassSize), ClassSize)
       IN  IF b.ok THEN [b EXCEPT !.vptr[c] = b.at] ELSE b

\* A descriptor is four words: type, pointer, capacity, length.
VDESC(h, v) ==
  LET b == VLOOK(h, v[1]) IN [b EXCEPT !.at = @ + 4 * v[2]]

\* The free lists are stacks linked through the first word of a body.
HeadNext(h, n) == h.mem[h.fl[n]]
SALLOC(h, n) ==
  IF h.fl[n] # 0
  THEN Cleared([h EXCEPT !.fl[n] = HeadNext(h, n), !.at = h.fl[n]], n)
  ELSE Cleared(HCARVE(h, n), n)

SFREEUnlinked(h, p, n) == [h EXCEPT !.fl[n] = p]
SFREE(h, p, n) == [h EXCEPT !.mem[p] = h.fl[n], !.fl[n] = p]

VBODY(h, v) ==
  LET d == VDESC(h, v)
      b == SALLOC(d, Small)
  IN  IF ~d.ok THEN d
      ELSE IF d.mem[d.at + 1] # 0 THEN [d EXCEPT !.at = d.mem[d.at + 1]]
      ELSE IF ~b.ok THEN b
      ELSE [b EXCEPT !.mem = Written(@, d.at + 1, <<b.at, Small>>)]

StringAt(mm, p) ==
  LET n == Least({j \in 0 .. Top - p : p + j = Top \/ mm[p + j] = 0})
  IN  [j \in 1 .. n |-> mm[p + j - 1]]

Cut(s, n) == IF Len(s) > n THEN SubSeq(s, 1, n) ELSE s
Terminated(s, n) == Append(Cut(s, n), 0)
SCOPY(mm, src, dst, limit) == Written(mm, dst, Terminated(StringAt(mm, src), limit))

Capacity(h, v) == h.mem[VDESC(h, v).at + 2]

\* SGROW: a small body that is too small for n is copied into a large one and
\* given back.
TooSmall(cap, n) == cap < n + 1 /\ cap # Large
SGROW(h, v, n) ==
  LET d   == VDESC(h, v).at
      old == h.mem[d + 1]
      b   == SALLOC(h, Large)
      c   == SFREE([b EXCEPT !.mem = SCOPY(@, old, b.at, Large - 1)], old, Small)
  IN  IF ~TooSmall(h.mem[d + 2], n) THEN h
      ELSE IF ~b.ok THEN b
      ELSE [c EXCEPT !.mem = Written(@, d + 1, <<b.at, Large>>)]

SDEST(h, v, n) ==
  LET b == VBODY(h, v)
      g == SGROW(b, v, n)
  IN  IF ~b.ok THEN b ELSE IF ~g.ok THEN g ELSE VBODY(g, v)

Become(h) == heap' = h.heap /\ vptr' = h.vptr /\ fl' = h.fl /\ mem' = h.mem

\* The end of a command that writes text into v's body at h.at.
Fill(h, v, text) ==
  /\ UNCHANGED tend
  /\ IF h.ok
     THEN /\ slm1' = Capacity(h, v) - 1
          /\ Become([h EXCEPT !.mem = Written(@, h.at, Terminated(text, Capacity(h, v) - 1))])
     ELSE UNCHANGED slm1 /\ Become(h)
  /\ spoilt' = Meeting(tend, heap')

Declared(v) == vptr[v[1]] # 0 /\ mem[vptr[v[1]] + 4 * v[2]] = String

-----------------------------------------------------------------------------
(* The commands that use the heap.                                         *)

\* SET v AS STRING
DECLAR(v) ==
  LET d == VDESC(Heap, v)
  IN  /\ spoilt = "no"
      /\ UNCHANGED <<tend, slm1>>
      /\ Become(IF d.ok THEN [d EXCEPT !.mem[d.at] = String] ELSE d)
      /\ spoilt' = Meeting(tend, heap')

\* SET v = "text"
SETSL(v, s) ==
  LET b == VBODY(Heap, v)
  IN  /\ spoilt = "no" /\ Declared(v)
      /\ Fill(IF b.ok THEN SDEST(b, v, Len(s)) ELSE b, v, s)

\* SET v = w.  SGROW borrows the address of the source and puts it back.
SourceLost(old, src) == old
Source(old, src) == src
SETSV(v, w) ==
  LET b   == VBODY(Heap, v)
      src == VBODY(b, w)
      n   == Len(StringAt(src.mem, src.at))
      dst == SDEST(src, v, n)
      at  == IF dst.at # b.at THEN Source(b.at, src.at) ELSE src.at
  IN  /\ spoilt = "no" /\ Declared(v) /\ Declared(w)
      /\ IF ~b.ok THEN Fill(b, v, << >>)
         ELSE IF ~src.ok THEN Fill(src, v, << >>)
         ELSE Fill(dst, v, StringAt(dst.mem, at))

\* SET v = a number: its digits, a sign and six at most, go in unchecked.
SETSN(v, s) ==
  LET b == VBODY(Heap, v)
  IN  /\ spoilt = "no" /\ Declared(v)
      /\ UNCHANGED <<tend, slm1>>
      /\ Become(IF b.ok THEN [b EXCEPT !.mem = Written(@, b.at, Append(s, 0))] ELSE b)
      /\ spoilt' = Meeting(tend, heap')

\* ASK v: the limit is the one the last copy left.
ASKSTR(v, s) ==
  LET b == VBODY(Heap, v)
  IN  /\ spoilt = "no" /\ Declared(v)
      /\ UNCHANGED <<tend, slm1>>
      /\ Become(IF b.ok THEN [b EXCEPT !.mem = Written(@, b.at, Terminated(s, slm1))] ELSE b)
      /\ spoilt' = IF b.ok /\ Len(Cut(s, slm1)) >= Capacity(b, v) THEN "asked"
                   ELSE Meeting(tend, heap')

\* ERASE: the class pointers go empty and the heap rewinds.
DOERAS ==
  /\ spoilt = "no"
  /\ vptr' = [c \in Classes |-> 0] /\ heap' = Top
  /\ spoilt' = IF fl[Small] # 0 THEN "erased" ELSE "no"
  /\ UNCHANGED <<mem, tend, fl, slm1>>

\* Nothing typed in yet.
ArenaInit ==
  /\ mem = [x \in Arena |-> 0] /\ tend = 0 /\ heap = Top
  /\ vptr = [c \in Classes |-> 0] /\ fl = [n \in {Small, Large} |-> 0]
  /\ slm1 = Limit0 /\ spoilt = "no"

ArenaNext ==
  \/ \E k \in Keys, body \in Bodies : STORE(k, body)
  \/ \E v \in Vars : DECLAR(v)
  \/ \E v \in Vars, s \in Texts : SETSL(v, s)
  \/ \E v, w \in Vars : SETSV(v, w)
  \/ \E v \in Vars, s \in Decimals : SETSN(v, s)
  \/ \E v \in Vars, s \in Answers : ASKSTR(v, s)
  \/ DOERAS

ArenaSpec == ArenaInit /\ [][ArenaNext]_arenaVars

-----------------------------------------------------------------------------
(* Properties.                                                             *)

ArenaTypeOK ==
  /\ mem \in [Arena -> Nat]
  /\ tend \in 0 .. Top - TXTB /\ heap \in TXTB .. Top
  /\ vptr \in [Classes -> {0} \cup Arena]
  /\ fl \in [{Small, Large} -> {0} \cup Arena]
  /\ slm1 \in Nat
  /\ spoilt \in {"no", "met", "erased", "asked"}

\* The lines as RUN and WRITE find them, by the length each one carries.
Heads ==
  LET from[x \in 0 .. Top - TXTB] ==
        IF TXTB + x >= Top - 1 \/ Txt(mem, x) = 0 THEN {}
        ELSE {x} \cup (IF Txt(mem, x + 1) \in 1 .. Top - TXTB - x - 1
                       THEN from[x + Txt(mem, x + 1)] ELSE {})
  IN  from[0]

BodyAt(x) ==
  [j \in 1 .. Least({Txt(mem, x + 1) - 3, Top - TXTB - x - 2}) |-> Txt(mem, x + 1 + j)]

Descriptor(v) == vptr[v[1]] + 4 * v[2]
HasBody(v) == vptr[v[1]] # 0 /\ mem[Descriptor(v) + 1] # 0

\* What the arena holds, read back the way the interpreter reads it.
Held ==
  INSTANCE Workspace WITH
    program <- [k \in {Txt(mem, x) : x \in Heads} |->
                  BodyAt(CHOOSE x \in Heads : Txt(mem, x) = k)],
    strings <- [v \in Vars |-> IF HasBody(v) THEN StringAt(mem, mem[Descriptor(v) + 1])
                               ELSE << >>]

\* What each command does to them, or that it is refused for lack of room.
Faithfully ==
  spoilt' = "no" =>
    /\ \A k \in Keys, body \in Bodies :
         STORE(k, body) =>
           \/ ~Bare(body) /\ Held!File(k, body)
           \/ /\ Held!Drop(k)
              /\ Bare(body) \/ TXTB + tend' + Len(Line(k, body)) > heap
    /\ \A v \in Vars : DECLAR(v) => UNCHANGED Held!workspace
    /\ \A v \in Vars, s \in Texts :
         SETSL(v, s) => Held!Assign(v, s) \/ UNCHANGED Held!workspace
    /\ \A v, w \in Vars :
         SETSV(v, w) => Held!Copy(v, w) \/ UNCHANGED Held!workspace
    /\ \A v \in Vars, s \in Decimals :
         SETSN(v, s) => Held!Assign(v, s) \/ UNCHANGED Held!workspace
    /\ \A v \in Vars, s \in Answers :
         ASKSTR(v, s) => Held!Assign(v, Cut(s, slm1)) \/ UNCHANGED Held!workspace
    /\ DOERAS => Held!Forget

(* Each command does to the program and to the strings what it says and    *)
(* nothing else, or is refused for lack of room: no line and no string is  *)
(* ever disturbed by one filed, grown, copied, freed or carved beside it   *)
(* (focal.s STORE, DOSET, SGROW, ASKSTR, ERASE).                           *)
ImplementsWorkspace == Held!WorkInit /\ [][Faithfully]_arenaVars

(* An answer becomes the string asked for, what does not fit dropped, and  *)
(* no other string changes, unless text and heap have met (focal.s:2964,   *)
(* "full: keep reading, drop the rest").                                   *)
AnswerIsCut ==
  [][ \A v \in Vars, s \in Answers :
        ASKSTR(v, s) /\ TXTB + tend < heap' =>
          \/ \E n \in 0 .. Len(s) : Held!Assign(v, SubSeq(s, 1, n))
          \/ UNCHANGED Held!workspace
    ]_arenaVars

(* The two ways of walking the text agree, by newline when a line is filed *)
(* and by length when it is run, and the lines ascend (focal.s TNUM,       *)
(* LINEXT; LIGE, "held in ascending order").                               *)
Ordered ==
  spoilt = "no" =>
    /\ Txt(mem, tend) = 0
    /\ \A x \in Heads : LET next == x + Txt(mem, x + 1)
                        IN  /\ TNEXT(mem, x) = next
                            /\ next # tend => next \in Heads /\ Txt(mem, next) > Txt(mem, x)

Extent(base, n) == base .. base + n - 1

\* Who owns which words of the heap: classes, names, and the free list.
FreeBodies ==
  LET hop[j \in 0 .. Top - TXTB] ==
        IF j = 0 THEN fl[Small] ELSE IF hop[j - 1] \in Arena THEN mem[hop[j - 1]] ELSE 0
  IN  {hop[j] : j \in 0 .. Top - TXTB} \cap Arena

Owners ==
  {[of |-> <<"class", c, 0>>, words |-> Extent(vptr[c], ClassSize)] : c \in {c \in Classes : vptr[c] # 0}}
  \cup {[of |-> <<"body", v[1], v[2]>>, words |-> Extent(mem[Descriptor(v) + 1], mem[Descriptor(v) + 2])] :
          v \in {v \in Vars : HasBody(v)}}
  \cup {[of |-> <<"free", p, 0>>, words |-> Extent(p, Small)] : p \in FreeBodies}

(* The heap is exactly its blocks, the bodies of its strings and the free  *)
(* bodies, no word owned twice and none lost, and the text and its zero    *)
(* lie below all of them (focal.s HCARVE, SALLOC, SFREE, SGROW).           *)
Accounted ==
  spoilt = "no" =>
    /\ \A p, q \in Owners : p # q => p.words \cap q.words = {}
    /\ UNION {p.words : p \in Owners} = heap .. Top - 1
    /\ TXTB + tend < heap
=============================================================================
