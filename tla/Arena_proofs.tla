---------------------------- MODULE Arena_proofs ----------------------------
(***************************************************************************)
(* For an arena of every size, with bodies, classes, lines and texts of    *)
(* every kind: the storage keeps its types, each word of the heap has one  *)
(* owner, the lines of the text are in order, and every command does to    *)
(* the lines and the strings what Workspace says.  Types are no invariant  *)
(* on their own, for a pointer is one because of what the words of the     *)
(* heap hold; the inductive invariant (Tidy) says what they hold: the      *)
(* blocks of the classes, the bodies the descriptors point to and those on *)
(* the free list tile the heap (Well), and the text's zero lies below.     *)
(*                                                                         *)
(* First the record a routine works on, field by field, behind operators   *)
(* the later proofs do not open; then what writing words does to who owns  *)
(* what; then the routines (each leaves the heap Well, with or without a   *)
(* body in hand, nothing below it touched, and every string but the one    *)
(* asked for with its zero where it was); then the commands, which leave   *)
(* each string its zero within its body (Shut), and the filing of lines,   *)
(* all of it below the heap.  Last the text: that its lines ascend and are *)
(* found alike by newline and by length (Neat), and that a line filed      *)
(* leaves the others with the words they had.                              *)
(***************************************************************************)
EXTENDS Arena, TLAPS, FiniteSetTheorems

(* What the sizes are.                                                     *)
LEMMA Constants ==
  /\ TXTB \in Nat \ {0} /\ Top \in Nat /\ TXTB < Top /\ PerClass \in Nat \ {0}
  /\ Small \in Nat \ {0, 1} /\ Large \in Nat \ {0, 1} /\ Small < Large /\ ClassSize \in Nat \ {0}
BY ArenaAssumption DEF ClassSize

\* The bodies there are.
Sizes == {Small, Large}

(* A body is small or large, and at least two words.                       *)
LEMMA SizesAre == Small \in Sizes /\ Large \in Sizes /\ \A n \in Sizes : n \in {Small, Large} /\ n \in Nat \ {0, 1}
BY Constants DEF Sizes

(* Induction up to a bound, over a set of numbers.                         *)
LEMMA UpTo ==
  ASSUME NEW n \in Nat, NEW S, 0 \in S, \A k \in 0 .. n - 1 : k \in S => k + 1 \in S
  PROVE  0 .. n \subseteq S
<1> DEFINE Out == {k \in 0 .. n : k \notin S}
<1> SUFFICES ASSUME Out # {} PROVE FALSE
  OBVIOUS
<1>1. Out \subseteq Nat
  OBVIOUS
<1>2. PICK x \in Out : \A y \in Out : ~(<<y, x>> \in OpToRel(<, Nat))
  BY <1>1, NatLessThanWellFounded, WFMin
<1>3. x # 0 /\ x \in 1 .. n /\ x - 1 \in 0 .. n - 1
  OBVIOUS
<1>4. x - 1 \in Out
  BY <1>3, x = (x - 1) + 1
<1>5. <<x - 1, x>> \in OpToRel(<, Nat)
  BY <1>3 DEF OpToRel
<1> QED BY <1>2, <1>4, <1>5

(* A set of numbers that is not empty has a least one.                     *)
LEMMA LeastIs ==
  ASSUME NEW S \in SUBSET Nat, S # {}
  PROVE  Least(S) \in S /\ \A y \in S : Least(S) <= y
<1>1. PICK x \in S : \A y \in S : ~(<<y, x>> \in OpToRel(<, Nat))
  BY NatLessThanWellFounded, WFMin
<1>2. ASSUME NEW y \in S PROVE x <= y
  <2>1. x \in Nat /\ y \in Nat
    OBVIOUS
  <2>2. ASSUME y < x PROVE FALSE
    <3>1. <<y, x>> \in OpToRel(<, Nat)
      BY <2>1, <2>2 DEF OpToRel
    <3> QED BY <1>1, <3>1
  <2> QED BY <2>1, <2>2
<1> QED BY <1>1, <1>2 DEF Least, Min

(* What a range of words holds after words were written in a row.          *)
LEMMA WrittenIs ==
  ASSUME NEW mm \in [Arena -> Nat], NEW a \in Nat, NEW ws \in Seq(Nat)
  PROVE  /\ Written(mm, a, ws) \in [Arena -> Nat]
         /\ \A x \in Arena : x \in a .. a + Len(ws) - 1 => Written(mm, a, ws)[x] = ws[x - a + 1]
         /\ \A x \in Arena : x \notin a .. a + Len(ws) - 1 => Written(mm, a, ws)[x] = mm[x]
<1>1. DOMAIN ws = 1 .. Len(ws) /\ Len(ws) \in Nat /\ \A k \in 1 .. Len(ws) : ws[k] \in Nat
  OBVIOUS
<1>2. Arena \subseteq Nat
  BY Constants DEF Arena
<1>3. \A x \in Arena : x - a + 1 \in 1 .. Len(ws) <=> x \in a .. a + Len(ws) - 1
  BY <1>1, <1>2
<1> QED BY <1>1, <1>2, <1>3 DEF Written

(* One word written.                                                       *)
LEMMA OneIs ==
  ASSUME NEW mm \in [Arena -> Nat], NEW a \in Arena, NEW ws \in Seq(Nat), Len(ws) = 1
  PROVE  /\ Written(mm, a, ws) \in [Arena -> Nat] /\ Written(mm, a, ws)[a] = ws[1]
         /\ \A x \in Arena : x # a => Written(mm, a, ws)[x] = mm[x]
<1>1. a \in Nat /\ Arena \subseteq Nat
  BY Constants DEF Arena
<1>2. \A x \in Arena : x \in a .. a + Len(ws) - 1 <=> x = a
  BY <1>1
<1>3. a - a + 1 = 1
  BY <1>1
<1>4. Written(mm, a, ws) \in [Arena -> Nat]
  BY <1>1, WrittenIs
<1>5. \A x \in Arena : x \in a .. a + Len(ws) - 1 => Written(mm, a, ws)[x] = ws[x - a + 1]
  BY <1>1, WrittenIs
<1>6. \A x \in Arena : x \notin a .. a + Len(ws) - 1 => Written(mm, a, ws)[x] = mm[x]
  BY <1>1, WrittenIs
<1> QED BY <1>2, <1>3, <1>4, <1>5, <1>6

(* Two words written, as a pointer and a capacity are.                     *)
LEMMA PairIs ==
  ASSUME NEW mm \in [Arena -> Nat], NEW a \in Arena, NEW b \in Arena, b = a + 1,
         NEW ws \in Seq(Nat), Len(ws) = 2
  PROVE  /\ Written(mm, a, ws) \in [Arena -> Nat]
         /\ Written(mm, a, ws)[a] = ws[1] /\ Written(mm, a, ws)[b] = ws[2]
         /\ \A x \in Arena : x # a /\ x # b => Written(mm, a, ws)[x] = mm[x]
<1>1. a \in Nat /\ Arena \subseteq Nat
  BY Constants DEF Arena
<1>2. \A x \in Arena : x \in a .. a + Len(ws) - 1 <=> x = a \/ x = b
  BY <1>1
<1>3. a - a + 1 = 1 /\ b - a + 1 = 2
  BY <1>1
<1>4. Written(mm, a, ws) \in [Arena -> Nat]
  BY <1>1, WrittenIs
<1>5. \A x \in Arena : x \in a .. a + Len(ws) - 1 => Written(mm, a, ws)[x] = ws[x - a + 1]
  BY <1>1, WrittenIs, ZenonT(30)
<1>6. \A x \in Arena : x \notin a .. a + Len(ws) - 1 => Written(mm, a, ws)[x] = mm[x]
  BY <1>1, WrittenIs, ZenonT(30)
<1> QED BY <1>2, <1>3, <1>4, <1>5, <1>6

(* Beside the two words nothing changes.                                   *)
LEMMA BesidePair ==
  ASSUME NEW mm \in [Arena -> Nat], NEW a \in Arena, NEW b \in Arena, b = a + 1,
         NEW ws \in Seq(Nat), Len(ws) = 2, NEW x \in Arena, x # a, x # b
  PROVE  Written(mm, a, ws)[x] = mm[x]
BY PairIs

(* The fields of the heap's state, and what each routine leaves in them.   *)
Mem(h) == h.mem
Hp(h) == h.heap
Vp(h) == h.vptr
Fl(h) == h.fl
At(h) == h.at
Ok(h) == h.ok = TRUE

Record == [mem : [Arena -> Nat], heap : Nat, vptr : [Classes -> {0} \cup Arena],
           fl : [Sizes -> {0} \cup Arena], at : Nat, ok : BOOLEAN]

Same(h, g) == Mem(g) = Mem(h) /\ Hp(g) = Hp(h) /\ Vp(g) = Vp(h) /\ Fl(g) = Fl(h)

(* The types of the fields.                                                *)
LEMMA Fields ==
  ASSUME NEW h \in Record
  PROVE  /\ Mem(h) \in [Arena -> Nat] /\ Hp(h) \in Nat /\ Vp(h) \in [Classes -> {0} \cup Arena]
         /\ Fl(h) \in [Sizes -> {0} \cup Arena] /\ At(h) \in Nat
BY DEF Record, Mem, Hp, Vp, Fl, At, Ok

Failed(h) == [h EXCEPT !.ok = FALSE]
Moved(h, a) == [h EXCEPT !.at = a]
Carved(h, n) == [h EXCEPT !.heap = @ - n, !.at = h.heap - n]
Stored(h, a, ws) == [h EXCEPT !.mem = Written(@, a, ws)]
Based(h, c, p) == [h EXCEPT !.vptr[c] = p]
Popped(h, n, p, a) == [h EXCEPT !.fl[n] = p, !.at = a]

(* A routine that goes to ERROR changes nothing else.                      *)
LEMMA FailedIs ==
  ASSUME NEW h \in Record
  PROVE  Failed(h) \in Record /\ Same(h, Failed(h)) /\ ~Ok(Failed(h))
BY DEF Record, Mem, Hp, Vp, Fl, At, Ok, Same, Failed

(* Another answer in AC.                                                   *)
LEMMA MovedIs ==
  ASSUME NEW h \in Record, NEW a \in Nat
  PROVE  /\ Moved(h, a) \in Record /\ Same(h, Moved(h, a)) /\ At(Moved(h, a)) = a
         /\ (Ok(Moved(h, a)) <=> Ok(h))
BY DEF Record, Mem, Hp, Vp, Fl, At, Ok, Same, Moved

(* Other words in the arena.                                               *)
LEMMA MemIs ==
  ASSUME NEW h \in Record, NEW b \in [Arena -> Nat], NEW g, g = [h EXCEPT !.mem = b]
  PROVE  /\ g \in Record /\ Mem(g) = b /\ Hp(g) = Hp(h) /\ Vp(g) = Vp(h) /\ Fl(g) = Fl(h)
         /\ At(g) = At(h) /\ (Ok(g) <=> Ok(h))
BY DEF Record, Mem, Hp, Vp, Fl, At, Ok, Same

(* The bottom of the heap goes down, and is the answer.                    *)
LEMMA CarvedIs ==
  ASSUME NEW h \in Record, NEW n, NEW p \in Nat, Hp(h) - n = p, NEW g, g = Carved(h, n)
  PROVE  /\ g \in Record /\ Mem(g) = Mem(h) /\ Hp(g) = p /\ Vp(g) = Vp(h) /\ Fl(g) = Fl(h)
         /\ At(g) = p /\ (Ok(g) <=> Ok(h))
<1>1. h.heap - n = p
  BY Zenon DEF Hp
<1>2. g = [h EXCEPT !.heap = p, !.at = p]
  BY <1>1, Zenon DEF Carved
<1> QED BY <1>2, Zenon DEF Record, Mem, Hp, Vp, Fl, At, Ok

(* A class gets its block.                                                 *)
LEMMA BasedIs ==
  ASSUME NEW h \in Record, NEW c \in Classes, NEW p \in Arena, NEW g, g = Based(h, c, p)
  PROVE  /\ g \in Record /\ Mem(g) = Mem(h) /\ Hp(g) = Hp(h) /\ Fl(g) = Fl(h)
         /\ At(g) = At(h) /\ (Ok(g) <=> Ok(h))
         /\ Vp(g)[c] = p /\ \A d \in Classes : d # c => Vp(g)[d] = Vp(h)[d]
<1>1. /\ g \in Record /\ Mem(g) = Mem(h) /\ Hp(g) = Hp(h) /\ Vp(g) = [Vp(h) EXCEPT ![c] = p]
      /\ Fl(g) = Fl(h) /\ At(g) = At(h) /\ (Ok(g) <=> Ok(h))
  BY DEF Based, Record, Mem, Hp, Vp, Fl, At, Ok
<1>2. Vp(h) \in [Classes -> {0} \cup Arena]
  BY Fields
<1> QED BY <1>1, <1>2

(* A free list gets another first body.                                    *)
LEMMA PoppedIs ==
  ASSUME NEW h \in Record, NEW n \in Sizes, NEW p \in {0} \cup Arena, NEW a \in Nat, NEW g,
         g = Popped(h, n, p, a)
  PROVE  /\ g \in Record /\ Mem(g) = Mem(h) /\ Hp(g) = Hp(h) /\ Vp(g) = Vp(h) /\ At(g) = a /\ (Ok(g) <=> Ok(h))
         /\ Fl(g)[n] = p /\ \A k \in Sizes : k # n => Fl(g)[k] = Fl(h)[k]
<1>1. /\ g \in Record /\ Mem(g) = Mem(h) /\ Hp(g) = Hp(h) /\ Vp(g) = Vp(h)
      /\ Fl(g) = [Fl(h) EXCEPT ![n] = p] /\ At(g) = a /\ (Ok(g) <=> Ok(h))
  BY DEF Popped, Record, Mem, Hp, Vp, Fl, At, Ok
<1>2. Fl(h) \in [Sizes -> {0} \cup Arena]
  BY Fields
<1> QED BY <1>1, <1>2

Linked(h, n, p, b) == [h EXCEPT !.mem[p] = b, !.fl[n] = p]

(* A body becomes the first of a free list.                                *)
LEMMA LinkIs ==
  ASSUME NEW h \in Record, NEW n \in Sizes, NEW p \in Arena, NEW b \in Nat,
         NEW g, g = Linked(h, n, p, b)
  PROVE  /\ g \in Record /\ Hp(g) = Hp(h) /\ Vp(g) = Vp(h) /\ At(g) = At(h) /\ (Ok(g) <=> Ok(h))
         /\ Mem(g)[p] = b /\ \A a \in Arena : a # p => Mem(g)[a] = Mem(h)[a]
         /\ Fl(g)[n] = p /\ \A k \in Sizes : k # n => Fl(g)[k] = Fl(h)[k]
<1>1. /\ g \in Record /\ Mem(g) = [Mem(h) EXCEPT ![p] = b] /\ Hp(g) = Hp(h) /\ Vp(g) = Vp(h)
      /\ Fl(g) = [Fl(h) EXCEPT ![n] = p]
      /\ At(g) = At(h) /\ (Ok(g) <=> Ok(h))
  BY Zenon DEF Linked, Record, Mem, Hp, Vp, Fl, At, Ok
<1>2. Mem(h) \in [Arena -> Nat] /\ Fl(h) \in [Sizes -> {0} \cup Arena]
  BY Fields
<1> QED BY <1>1, <1>2

(* SFREE links a body to the list it was given back to (focal.s SFREE).    *)
LEMMA FreeIs ==
  ASSUME NEW h \in Record, NEW n \in Sizes, NEW p \in Arena, NEW g, g = SFREE(h, p, n)
  PROVE  /\ g \in Record /\ Hp(g) = Hp(h) /\ Vp(g) = Vp(h) /\ At(g) = At(h) /\ (Ok(g) <=> Ok(h))
         /\ Mem(g)[p] = Fl(h)[n] /\ \A a \in Arena : a # p => Mem(g)[a] = Mem(h)[a]
         /\ Fl(g)[n] = p /\ \A k \in Sizes : k # n => Fl(g)[k] = Fl(h)[k]
<1>1. \A b \in Nat : b = Fl(h)[n] => g = Linked(h, n, p, b)
  BY Zenon DEF SFREE, Fl, Linked
<1>2. Fl(h)[n] \in Nat
  BY Fields, Constants DEF Arena
<1>3. PICK b \in Nat : b = Fl(h)[n]
  BY <1>2
<1>4. g = Linked(h, n, p, b)
  BY <1>1, <1>3
<1>5. g \in Record
  BY <1>4, LinkIs
<1>6. /\ Hp(g) = Hp(h) /\ Vp(g) = Vp(h) /\ At(g) = At(h) /\ (Ok(g) <=> Ok(h))
  BY <1>4, LinkIs
<1>7. Mem(g)[p] = b /\ \A a \in Arena : a # p => Mem(g)[a] = Mem(h)[a]
  BY <1>4, LinkIs
<1>8. Fl(g)[n] = p /\ \A k \in Sizes : k # n => Fl(g)[k] = Fl(h)[k]
  BY <1>4, LinkIs
<1> QED BY <1>3, <1>5, <1>6, <1>7, <1>8

(* Words written in a row into the arena.                                  *)
LEMMA StoredIs ==
  ASSUME NEW h \in Record, NEW a \in Nat, NEW ws \in Seq(Nat), NEW g, g = Stored(h, a, ws)
  PROVE  /\ g \in Record /\ Mem(g) = Written(Mem(h), a, ws) /\ Hp(g) = Hp(h) /\ Vp(g) = Vp(h)
         /\ Fl(g) = Fl(h) /\ At(g) = At(h) /\ (Ok(g) <=> Ok(h))
<1>1. Written(Mem(h), a, ws) \in [Arena -> Nat]
  BY Fields, WrittenIs
<1>2. g = [h EXCEPT !.mem = Written(Mem(h), a, ws)]
  BY Zenon DEF Stored, Mem
<1> QED BY <1>1, <1>2, MemIs, Zenon

-----------------------------------------------------------------------------
(* The heap as a routine sees it, and who owns which words of it.          *)

\* A name's descriptor, in the block of its class.
Place(vp, v) == vp[v[1]] + 4 * v[2]
Bodied(mm, vp, v) == vp[v[1]] # 0 /\ mm[Place(vp, v) + 1] # 0

ClassOwner(vp, c) == [of |-> <<"class", c, 0>>, words |-> Extent(vp[c], ClassSize)]
BodyOwner(mm, vp, v) ==
  [of |-> <<"body", v[1], v[2]>>, words |-> Extent(mm[Place(vp, v) + 1], mm[Place(vp, v) + 2])]
FreeOwner(p) == [of |-> <<"free", p, 0>>, words |-> Extent(p, Small)]
\* A body a routine has taken and not yet given to a name.
Loose(p, n) == [of |-> <<"loose", p, n>>, words |-> Extent(p, n)]
Just(p, n) == {Loose(p, n)}

OwnersOf(mm, vp, F) ==
  {ClassOwner(vp, c) : c \in {c \in Classes : vp[c] # 0}}
  \cup {BodyOwner(mm, vp, v) : v \in {v \in Vars : Bodied(mm, vp, v)}}
  \cup {FreeOwner(p) : p \in F}

WordsOf(r) == r.words

Tiled(T, lo) ==
  /\ \A p, q \in T : p # q => WordsOf(p) \cap WordsOf(q) = {}
  /\ UNION {WordsOf(p) : p \in T} = lo .. Top - 1

\* The free bodies one by one, from the first.
Chain(mm, first, s) ==
  /\ s \in Seq(Arena)
  /\ first = IF s = << >> THEN 0 ELSE s[1]
  /\ \A j \in 1 .. Len(s) : mm[s[j]] = IF j = Len(s) THEN 0 ELSE s[j + 1]
  /\ \A j, k \in 1 .. Len(s) : s[j] = s[k] => j = k

\* Memory, bottom, blocks and lists of the heap; s is the free list, X what is loose.
Well(mm, hp, vp, ff, s, X) ==
  /\ mm \in [Arena -> Nat] /\ hp \in Nat
  /\ vp \in [Classes -> {0} \cup Arena] /\ ff \in [Sizes -> {0} \cup Arena]
  /\ tend \in Nat /\ TXTB + tend <= hp /\ hp <= Top
  /\ ff[Large] = 0
  /\ Chain(mm, ff[Small], s)
  /\ \A v \in Vars : Bodied(mm, vp, v) => mm[Place(vp, v) + 2] \in Sizes
  /\ Tiled(OwnersOf(mm, vp, Range(s)) \cup X, hp)

(* What each of them owns.                                                *)
LEMMA OwnWords ==
  /\ \A vp, c : WordsOf(ClassOwner(vp, c)) = Extent(vp[c], ClassSize)
  /\ \A mm, vp, v : WordsOf(BodyOwner(mm, vp, v)) = Extent(mm[Place(vp, v) + 1], mm[Place(vp, v) + 2])
  /\ \A p : WordsOf(FreeOwner(p)) = Extent(p, Small)
  /\ \A p, n : WordsOf(Loose(p, n)) = Extent(p, n)
BY DEF WordsOf, ClassOwner, BodyOwner, FreeOwner, Loose

(* One owner more, below all the others.                                   *)
LEMMA CarveTiles ==
  ASSUME NEW T, NEW lo \in Nat, NEW n \in Nat, n <= lo, lo <= Top, Tiled(T, lo), NEW r,
         WordsOf(r) = Extent(lo - n, n)
  PROVE  Tiled(T \cup {r}, lo - n)
<1> USE Constants
<1>1. WordsOf(r) = lo - n .. lo - 1
  BY DEF Extent
<1>2. \A p \in T : WordsOf(p) \subseteq lo .. Top - 1
  BY DEF Tiled
<1>3. \A p, q \in T \cup {r} : p # q => WordsOf(p) \cap WordsOf(q) = {}
  BY <1>1, <1>2 DEF Tiled
<1>4. UNION {WordsOf(p) : p \in T \cup {r}} = (UNION {WordsOf(p) : p \in T}) \cup WordsOf(r)
  OBVIOUS
<1>5. (lo .. Top - 1) \cup (lo - n .. lo - 1) = lo - n .. Top - 1
  OBVIOUS
<1> QED BY <1>1, <1>3, <1>4, <1>5 DEF Tiled

(* An owner gives way to another of the same words.                        *)
LEMMA RenameTiles ==
  ASSUME NEW T, NEW lo, Tiled(T, lo), NEW r \in T, NEW q, WordsOf(q) = WordsOf(r)
  PROVE  Tiled((T \ {r}) \cup {q}, lo)
<1>1. \A p1, p2 \in (T \ {r}) \cup {q} : p1 # p2 => WordsOf(p1) \cap WordsOf(p2) = {}
  BY DEF Tiled
<1>2. UNION {WordsOf(p) : p \in (T \ {r}) \cup {q}} = UNION {WordsOf(p) : p \in T}
  OBVIOUS
<1> QED BY <1>1, <1>2 DEF Tiled

(* A descriptor lies in the block of its class.                            *)
LEMMA PlaceIn ==
  ASSUME NEW vp \in [Classes -> {0} \cup Arena], NEW v \in Vars
  PROVE  /\ v[1] \in Classes /\ v[2] \in 0 .. PerClass - 1 /\ v = <<v[1], v[2]>>
         /\ Place(vp, v) \in Nat
         /\ \A k \in 0 .. 3 : Place(vp, v) + k \in Extent(vp[v[1]], ClassSize)
<1> USE Constants
<1>1. v[1] \in Classes /\ v[2] \in 0 .. PerClass - 1 /\ v = <<v[1], v[2]>>
  BY DEF Vars
<1>2. vp[v[1]] \in Nat /\ v[2] \in Nat /\ v[2] + 1 <= PerClass
  BY <1>1 DEF Arena
<1>3. Place(vp, v) \in Nat /\ Place(vp, v) = vp[v[1]] + 4 * v[2]
  BY <1>2 DEF Place
<1>4. \A x, y, P \in Nat, k \in 0 .. 3 : y + 1 <= P => x + 4 * y + k \in x .. x + 4 * P - 1
  OBVIOUS
<1>5. Extent(vp[v[1]], ClassSize) = vp[v[1]] .. vp[v[1]] + 4 * PerClass - 1
  BY DEF Extent, ClassSize
<1>6. \A k \in 0 .. 3 : Place(vp, v) + k \in vp[v[1]] .. vp[v[1]] + 4 * PerClass - 1
  BY <1>2, <1>3, <1>4
<1> QED BY <1>1, <1>3, <1>5, <1>6

(* An owner's words lie in the heap.                                       *)
LEMMA Inside ==
  ASSUME NEW mm, NEW hp, NEW vp, NEW ff, NEW s, NEW X, Well(mm, hp, vp, ff, s, X),
         NEW r \in OwnersOf(mm, vp, Range(s)) \cup X,
         NEW p \in Nat, NEW n \in Nat \ {0}, WordsOf(r) = Extent(p, n)
  PROVE  hp <= p /\ p + n <= Top /\ p \in Arena /\ Extent(p, n) \subseteq Arena
<1> USE Constants
<1>1. hp \in Nat /\ tend \in Nat /\ TXTB + tend <= hp
  BY DEF Well
<1>2. WordsOf(r) \subseteq hp .. Top - 1
  BY DEF Well, Tiled
<1>3. p \in Extent(p, n) /\ p + n - 1 \in Extent(p, n)
  BY DEF Extent
<1>4. hp <= p /\ p + n - 1 <= Top - 1
  BY <1>1, <1>2, <1>3
<1>5. TXTB <= p /\ p + n <= Top
  BY <1>1, <1>4
<1>6. p .. p + n - 1 \subseteq TXTB .. Top - 1 /\ p \in TXTB .. Top - 1
  BY <1>5
<1> QED BY <1>4, <1>5, <1>6 DEF Arena, Extent

(* The words of a descriptor are the same as the block's.                  *)
LEMMA SamePlace ==
  ASSUME NEW vp \in [Classes -> {0} \cup Arena], NEW m1, NEW m2, NEW v \in Vars,
         \A a \in Extent(vp[v[1]], ClassSize) : m1[a] = m2[a]
  PROVE  /\ Bodied(m1, vp, v) <=> Bodied(m2, vp, v)
         /\ BodyOwner(m1, vp, v) = BodyOwner(m2, vp, v)
         /\ m1[Place(vp, v) + 2] = m2[Place(vp, v) + 2]
<1>1. m1[Place(vp, v) + 1] = m2[Place(vp, v) + 1] /\ m1[Place(vp, v) + 2] = m2[Place(vp, v) + 2]
  <2>1. \A k \in 0 .. 3 : Place(vp, v) + k \in Extent(vp[v[1]], ClassSize)
    BY PlaceIn
  <2>2. 1 \in 0 .. 3 /\ 2 \in 0 .. 3
    OBVIOUS
  <2> QED BY <2>1, <2>2
<1> QED BY <1>1 DEF Bodied, BodyOwner

(* What is written outside the descriptors and the links changes nobody's  *)
(* ownership.                                                              *)
LEMMA Frame ==
  ASSUME NEW mm, NEW hp, NEW vp, NEW ff, NEW s, NEW X, Well(mm, hp, vp, ff, s, X),
         NEW m2 \in [Arena -> Nat],
         \A c \in Classes : vp[c] # 0 => \A a \in Extent(vp[c], ClassSize) : m2[a] = mm[a],
         \A p \in Range(s) : m2[p] = mm[p]
  PROVE  /\ Well(m2, hp, vp, ff, s, X)
         /\ OwnersOf(m2, vp, Range(s)) = OwnersOf(mm, vp, Range(s))
<1>1. vp \in [Classes -> {0} \cup Arena]
  BY DEF Well
<1>2. ASSUME NEW v \in Vars, vp[v[1]] # 0
      PROVE  /\ Bodied(m2, vp, v) <=> Bodied(mm, vp, v)
             /\ BodyOwner(m2, vp, v) = BodyOwner(mm, vp, v)
             /\ m2[Place(vp, v) + 2] = mm[Place(vp, v) + 2]
  <2>1. v[1] \in Classes
    BY <1>1, PlaceIn
  <2>2. \A a \in Extent(vp[v[1]], ClassSize) : m2[a] = mm[a]
    BY <1>2, <2>1
  <2> QED BY <1>1, <2>2, SamePlace
<1>3. \A v \in Vars : Bodied(m2, vp, v) <=> Bodied(mm, vp, v)
  BY <1>2 DEF Bodied
<1>4. \A v \in Vars : Bodied(mm, vp, v) =>
         /\ BodyOwner(m2, vp, v) = BodyOwner(mm, vp, v)
         /\ m2[Place(vp, v) + 2] = mm[Place(vp, v) + 2]
  BY <1>2 DEF Bodied
<1>5. OwnersOf(m2, vp, Range(s)) = OwnersOf(mm, vp, Range(s))
  <2>1. {v \in Vars : Bodied(m2, vp, v)} = {v \in Vars : Bodied(mm, vp, v)}
    BY <1>3
  <2>2. {BodyOwner(m2, vp, v) : v \in {v \in Vars : Bodied(mm, vp, v)}}
          = {BodyOwner(mm, vp, v) : v \in {v \in Vars : Bodied(mm, vp, v)}}
    BY <1>4
  <2> QED BY <2>1, <2>2 DEF OwnersOf
<1>6. Chain(m2, ff[Small], s)
  <2>1. \A j \in 1 .. Len(s) : s[j] \in Range(s)
    BY DEF Well, Chain, Range
  <2> QED BY <2>1 DEF Well, Chain
<1>7. \A v \in Vars : Bodied(m2, vp, v) => m2[Place(vp, v) + 2] \in Sizes
  BY <1>3, <1>4 DEF Well
<1> QED BY <1>5, <1>6, <1>7 DEF Well

(* Writing into a body, or into words nobody has been given, is such a     *)
(* write.                                                                  *)
LEMMA BodyWrite ==
  ASSUME NEW mm, NEW hp, NEW vp, NEW ff, NEW s, NEW X, Well(mm, hp, vp, ff, s, X),
         NEW p \in Nat, NEW n \in Nat \ {0},
         NEW r \in OwnersOf(mm, vp, Range(s)) \cup X, WordsOf(r) = Extent(p, n),
         \A c \in Classes : r # ClassOwner(vp, c), \A q \in Range(s) : r # FreeOwner(q),
         NEW ws \in Seq(Nat), Len(ws) <= n, NEW m2, m2 = Written(mm, p, ws)
  PROVE  /\ Well(m2, hp, vp, ff, s, X)
         /\ OwnersOf(m2, vp, Range(s)) = OwnersOf(mm, vp, Range(s))
         /\ \A a \in Arena : a \in p .. p + Len(ws) - 1 => m2[a] = ws[a - p + 1]
         /\ \A a \in Arena : a \notin Extent(p, n) => m2[a] = mm[a]
<1> USE Constants
<1> DEFINE T == OwnersOf(mm, vp, Range(s)) \cup X
<1>1. mm \in [Arena -> Nat] /\ vp \in [Classes -> {0} \cup Arena]
  BY DEF Well
<1>2. m2 \in [Arena -> Nat] /\ \A a \in Arena : a \in p .. p + Len(ws) - 1 => m2[a] = ws[a - p + 1]
  <2>1. /\ Written(mm, p, ws) \in [Arena -> Nat]
        /\ \A x \in Arena : x \in p .. p + Len(ws) - 1 => Written(mm, p, ws)[x] = ws[x - p + 1]
    BY <1>1, WrittenIs, SMTT(30)
  <2> QED BY <2>1
<1>3. ASSUME NEW a \in Arena, a \notin Extent(p, n) PROVE m2[a] = mm[a]
  <2>1. a \notin p .. p + Len(ws) - 1
    BY <1>3, Len(ws) \in Nat DEF Extent, Arena
  <2> QED BY <1>1, <2>1, WrittenIs
<1>4. ASSUME NEW q \in T, q # r PROVE WordsOf(q) \cap Extent(p, n) = {}
  BY <1>4 DEF Well, Tiled
<1>5. ASSUME NEW q \in T PROVE WordsOf(q) \subseteq Arena
  <2>1. WordsOf(q) \subseteq hp .. Top - 1
    BY DEF Well, Tiled
  <2>2. hp \in Nat /\ TXTB <= hp
    BY DEF Well
  <2> QED BY <2>1, <2>2 DEF Arena
<1>6. ASSUME NEW c \in Classes, vp[c] # 0, NEW a \in Extent(vp[c], ClassSize)
      PROVE  m2[a] = mm[a]
  <2>1. ClassOwner(vp, c) \in T
    BY <1>6 DEF OwnersOf
  <2>2. a \in WordsOf(ClassOwner(vp, c))
    BY OwnWords
  <2> HIDE DEF T
  <2> QED BY <1>3, <1>4, <1>5, <2>1, <2>2
<1>7. ASSUME NEW q \in Range(s) PROVE m2[q] = mm[q]
  <2>1. FreeOwner(q) \in T
    BY DEF OwnersOf
  <2>2. q \in WordsOf(FreeOwner(q))
    <3>1. q \in Arena
      BY DEF Range, Well, Chain
    <3> QED BY <3>1, OwnWords DEF Extent, Arena
  <2> HIDE DEF T
  <2> QED BY <1>3, <1>4, <1>5, <2>1, <2>2
<1>8. /\ Well(m2, hp, vp, ff, s, X)
      /\ OwnersOf(m2, vp, Range(s)) = OwnersOf(mm, vp, Range(s))
  BY <1>2, <1>6, <1>7, Frame
<1> QED BY <1>2, <1>3, <1>8

(* The owners' names are all different.                                    *)
LEMMA Names ==
  /\ \A vp, c, d : ClassOwner(vp, c) = ClassOwner(vp, d) => c = d
  /\ \A vp, c, q : ClassOwner(vp, c) # FreeOwner(q)
  /\ \A vp, c, p, n : ClassOwner(vp, c) # Loose(p, n)
  /\ \A q, p, n : FreeOwner(q) # Loose(p, n)
  /\ \A m1, vp1, v, vp, c : BodyOwner(m1, vp1, v) # ClassOwner(vp, c)
  /\ \A m1, vp1, v, q : BodyOwner(m1, vp1, v) # FreeOwner(q)
  /\ \A m1, vp1, v, p, n : BodyOwner(m1, vp1, v) # Loose(p, n)
  /\ \A q, p : FreeOwner(q) = FreeOwner(p) => q = p
BY DEF ClassOwner, FreeOwner, BodyOwner, Loose
(* Two names do not share an owner.                                        *)
LEMMA BodyNames ==
  ASSUME NEW v \in Vars, NEW w \in Vars, NEW m1, NEW m2, NEW vp1, NEW vp2,
         BodyOwner(m1, vp1, v) = BodyOwner(m2, vp2, w)
  PROVE  v = w
<1>1. <<"body", v[1], v[2]>> = <<"body", w[1], w[2]>>
  BY DEF BodyOwner
<1>2. v = <<v[1], v[2]>> /\ w = <<w[1], w[2]>>
  BY DEF Vars
<1> QED BY <1>1, <1>2

(* Two names' descriptors have no word in common.                          *)
LEMMA Apart ==
  ASSUME NEW mm, NEW hp, NEW vp, NEW ff, NEW s, NEW X, Well(mm, hp, vp, ff, s, X), NEW v \in Vars, NEW w \in Vars, v # w,
         vp[v[1]] # 0, vp[w[1]] # 0, NEW j \in 0 .. 3, NEW k \in 0 .. 3
  PROVE  Place(vp, v) + j # Place(vp, w) + k
<1>1. vp \in [Classes -> {0} \cup Arena]
  BY DEF Well
<1>2. /\ v[1] \in Classes /\ w[1] \in Classes /\ v = <<v[1], v[2]>> /\ w = <<w[1], w[2]>>
      /\ v[2] \in Nat /\ w[2] \in Nat
  BY <1>1, PlaceIn DEF Vars
<1>3. CASE v[1] # w[1]
  <2>1. ClassOwner(vp, v[1]) # ClassOwner(vp, w[1])
    BY <1>3, Names
  <2>2. /\ ClassOwner(vp, v[1]) \in OwnersOf(mm, vp, Range(s)) \cup X
        /\ ClassOwner(vp, w[1]) \in OwnersOf(mm, vp, Range(s)) \cup X
    BY <1>2 DEF OwnersOf
  <2>3. WordsOf(ClassOwner(vp, v[1])) \cap WordsOf(ClassOwner(vp, w[1])) = {}
    BY <2>1, <2>2 DEF Well, Tiled
  <2>4. /\ Place(vp, v) + j \in WordsOf(ClassOwner(vp, v[1]))
        /\ Place(vp, w) + k \in WordsOf(ClassOwner(vp, w[1]))
    BY <1>1, PlaceIn, OwnWords
  <2> QED BY <2>3, <2>4
<1>4. CASE v[1] = w[1]
  <2>1. v[2] # w[2]
    BY <1>2, <1>4
  <2>2. vp[v[1]] \in Nat
    BY <1>1, <1>2, Constants DEF Arena
  <2>3. \A b, x, y \in Nat : x # y => b + 4 * x + j # b + 4 * y + k
    OBVIOUS
  <2> QED BY <1>2, <1>4, <2>1, <2>2, <2>3 DEF Place
<1> QED BY <1>3, <1>4

(* A descriptor is written: its name owns what it points to instead.       *)
LEMMA Redirect ==
  ASSUME NEW mm, NEW hp, NEW vp, NEW ff, NEW s, NEW X, Well(mm, hp, vp, ff, s, X), NEW v \in Vars, vp[v[1]] # 0, NEW m2,
         m2[Place(vp, v) + 1] # 0,
         \A c \in Classes : vp[c] # 0 =>
           \A a \in Extent(vp[c], ClassSize) :
             a # Place(vp, v) + 1 /\ a # Place(vp, v) + 2 => m2[a] = mm[a]
  PROVE  /\ \A F : OwnersOf(m2, vp, F) =
               (OwnersOf(mm, vp, F) \ {BodyOwner(mm, vp, v)})
                  \cup {BodyOwner(m2, vp, v)}
         /\ \A w \in Vars : w # v /\ Bodied(m2, vp, w) =>
               Bodied(mm, vp, w) /\ m2[Place(vp, w) + 2] = mm[Place(vp, w) + 2]
<1>1. vp \in [Classes -> {0} \cup Arena]
  BY DEF Well
<1>2. ASSUME NEW w \in Vars, w # v, vp[w[1]] # 0
      PROVE  m2[Place(vp, w) + 1] = mm[Place(vp, w) + 1] /\ m2[Place(vp, w) + 2] = mm[Place(vp, w) + 2]
  <2>1. w[1] \in Classes
    BY <1>1, PlaceIn
  <2>2. ASSUME NEW k \in {1, 2} PROVE m2[Place(vp, w) + k] = mm[Place(vp, w) + k]
    <3>1. k \in 0 .. 3 /\ 1 \in 0 .. 3 /\ 2 \in 0 .. 3
      OBVIOUS
    <3>2. Place(vp, w) + k # Place(vp, v) + 1 /\ Place(vp, w) + k # Place(vp, v) + 2
      BY <1>2, <3>1, Apart
    <3>3. Place(vp, w) + k \in Extent(vp[w[1]], ClassSize)
      BY <1>1, <3>1, PlaceIn
    <3> QED BY <1>2, <2>1, <3>2, <3>3
  <2> QED BY <2>2
<1>3. \A w \in Vars : w # v => /\ Bodied(m2, vp, w) <=> Bodied(mm, vp, w)
                               /\ Bodied(m2, vp, w) =>
                                    /\ BodyOwner(m2, vp, w) = BodyOwner(mm, vp, w)
                                    /\ m2[Place(vp, w) + 2] = mm[Place(vp, w) + 2]
  BY <1>2 DEF Bodied, BodyOwner
<1>4. Bodied(m2, vp, v)
  BY DEF Bodied
<1>5. ASSUME NEW F PROVE OwnersOf(m2, vp, F) =
               (OwnersOf(mm, vp, F) \ {BodyOwner(mm, vp, v)}) \cup {BodyOwner(m2, vp, v)}
  <2> DEFINE B(m1) == {BodyOwner(m1, vp, w) : w \in {w \in Vars : Bodied(m1, vp, w)}}
             C == {ClassOwner(vp, c) : c \in {c \in Classes : vp[c] # 0}}
             D == {FreeOwner(p) : p \in F}
             old == BodyOwner(mm, vp, v)
             new == BodyOwner(m2, vp, v)
  <2>1. old \notin C /\ old \notin D
    BY Names
  <2>2. B(m2) = (B(mm) \ {old}) \cup {new}
    <3>1. ASSUME NEW r \in B(m2) PROVE r \in (B(mm) \ {old}) \cup {new}
      <4>1. PICK w \in Vars : Bodied(m2, vp, w) /\ r = BodyOwner(m2, vp, w)
        BY <3>1
      <4>2. CASE w = v
        BY <4>1, <4>2
      <4>3. CASE w # v
        <5>1. Bodied(mm, vp, w) /\ r = BodyOwner(mm, vp, w)
          BY <1>3, <4>1, <4>3
        <5>2. r # old
          BY <4>3, <5>1, BodyNames
        <5> QED BY <5>1, <5>2
      <4> QED BY <4>2, <4>3
    <3>2. ASSUME NEW r \in B(mm), r # old PROVE r \in B(m2)
      <4>1. PICK w \in Vars : Bodied(mm, vp, w) /\ r = BodyOwner(mm, vp, w)
        BY <3>2
      <4>2. w # v
        BY <3>2, <4>1
      <4> QED BY <1>3, <4>1, <4>2
    <3>3. new \in B(m2)
      BY <1>4
    <3> QED BY <3>1, <3>2, <3>3
  <2> HIDE DEF B, C, D, old, new
  <2>3. (C \cup B(m2) \cup D) = ((C \cup B(mm) \cup D) \ {old}) \cup {new}
    BY <2>1, <2>2
  <2> QED BY <2>3 DEF B, C, D, old, new, OwnersOf
<1> QED BY <1>3, <1>5

(* Writing into a body that no name has yet.                               *)
LEMMA LooseWrite ==
  ASSUME NEW mm, NEW hp, NEW vp, NEW ff, NEW s, NEW X, NEW p \in Nat, NEW n \in Nat \ {0},
         Loose(p, n) \in X, Well(mm, hp, vp, ff, s, X),
         NEW ws \in Seq(Nat), Len(ws) <= n, NEW m2, m2 = Written(mm, p, ws)
  PROVE  /\ Well(m2, hp, vp, ff, s, X)
         /\ OwnersOf(m2, vp, Range(s)) = OwnersOf(mm, vp, Range(s))
         /\ \A a \in Arena : a \in p .. p + Len(ws) - 1 => m2[a] = ws[a - p + 1]
         /\ \A a \in Arena : a \notin Extent(p, n) => m2[a] = mm[a]
<1> DEFINE r == Loose(p, n)
<1>1. (\A c \in Classes : r # ClassOwner(vp, c)) /\ (\A q \in Range(s) : r # FreeOwner(q))
  BY Names
<1>2. r \in OwnersOf(mm, vp, Range(s)) \cup X /\ WordsOf(r) = Extent(p, n)
  BY OwnWords
<1> HIDE DEF r
<1>4. /\ Well(m2, hp, vp, ff, s, X)
      /\ OwnersOf(m2, vp, Range(s)) = OwnersOf(mm, vp, Range(s))
      /\ \A a \in Arena : a \in p .. p + Len(ws) - 1 => m2[a] = ws[a - p + 1]
      /\ \A a \in Arena : a \notin Extent(p, n) => m2[a] = mm[a]
  BY <1>1, <1>2, BodyWrite
<1> QED BY <1>4 DEF r

-----------------------------------------------------------------------------
(* Strings, in bodies that have a zero to end them.                        *)

WellIn(h, s, X) == Well(Mem(h), Hp(h), Vp(h), Fl(h), s, X)

\* Whether a name has a body, where and how large.
Has(h, v) == Bodied(Mem(h), Vp(h), v)
BodyOf(h, v) == Mem(h)[Place(Vp(h), v) + 1]
RoomOf(h, v) == Mem(h)[Place(Vp(h), v) + 2]

\* What a name's string is, and that its zero is within the body.
Content(h, v) == IF Has(h, v) THEN StringAt(Mem(h), BodyOf(h, v)) ELSE << >>
Ended(h, v) == Has(h, v) => \E j \in 0 .. RoomOf(h, v) - 1 : Mem(h)[BodyOf(h, v) + j] = 0
\* A name's string is left as it was.
Intact(h, g, v) == Ended(h, v) => Ended(g, v) /\ Content(g, v) = Content(h, v)
AllIntact(h, g) == \A v \in Vars : Intact(h, g, v)
\* But for those of V, the bodies are where they were.
Others(h, g, V) == \A w \in Vars \ V : Has(h, w) => Has(g, w) /\ BodyOf(g, w) = BodyOf(h, w)

\* The first zero from p on is k words further.
Stops(mm, p, k) == k \in Nat /\ p + k \in Arena /\ mm[p + k] = 0 /\ \A i \in 0 .. k - 1 : mm[p + i] # 0

(* A string is read up to its zero (focal.s STRLEN).                       *)
LEMMA StringEnds ==
  ASSUME NEW mm \in [Arena -> Nat], NEW p \in Arena, NEW k, Stops(mm, p, k)
  PROVE  StringAt(mm, p) = [j \in 1 .. k |-> mm[p + j - 1]]
<1> USE Constants
<1> DEFINE S == {j \in 0 .. Top - p : p + j = Top \/ mm[p + j] = 0}
           n == Least(S)
<1>0. k \in Nat /\ p + k \in Arena /\ mm[p + k] = 0 /\ \A i \in 0 .. k - 1 : mm[p + i] # 0
  BY DEF Stops
<1>1. p \in Nat /\ k \in S /\ S \subseteq Nat /\ p + k # Top
  BY <1>0 DEF Arena
<1>2. n \in S /\ \A y \in S : n <= y
  <2> HIDE DEF S
  <2> QED BY <1>1, LeastIs
<1>3. n <= k /\ n \in Nat
  BY <1>0, <1>1, <1>2
<1>4. p + n # Top
  BY <1>1, <1>3 DEF Arena
<1>5. n = k
  BY <1>0, <1>1, <1>2, <1>3, <1>4
<1> HIDE DEF n
<1> QED BY <1>5 DEF StringAt, n, S

(* A body with a zero in it has a first one.                               *)
LEMMA FirstZero ==
  ASSUME NEW mm \in [Arena -> Nat], NEW p \in Arena, NEW n \in Nat, p + n <= Top,
         \E j \in 0 .. n - 1 : mm[p + j] = 0
  PROVE  \E k \in 0 .. n - 1 : Stops(mm, p, k)
<1> DEFINE S == {j \in 0 .. n - 1 : mm[p + j] = 0}
           k == Least(S)
<1>1. S # {} /\ S \subseteq Nat
  OBVIOUS
<1>2. k \in S /\ \A y \in S : k <= y
  <2> HIDE DEF S
  <2> QED BY <1>1, LeastIs
<1> HIDE DEF k
<1>3. p + k \in Arena /\ k \in 0 .. n - 1 /\ k \in Nat
  BY <1>2, Constants DEF Arena
<1> QED BY <1>2, <1>3 DEF Stops

(* The string in a body that ends it: shorter than the body, without zeros,*)
(* and read alike from any words that are the same there.                  *)
LEMMA Reads ==
  ASSUME NEW mm \in [Arena -> Nat], NEW p \in Arena, NEW n \in Nat, p + n <= Top,
         \E j \in 0 .. n - 1 : mm[p + j] = 0
  PROVE  /\ StringAt(mm, p) \in Seq(Nat \ {0}) /\ Len(StringAt(mm, p)) < n
         /\ \A m2 \in [Arena -> Nat] : (\A a \in Extent(p, n) : m2[a] = mm[a]) => StringAt(m2, p) = StringAt(mm, p)
<1> USE Constants
<1>1. PICK k \in 0 .. n - 1 : Stops(mm, p, k)
  BY FirstZero
<1>0. mm[p + k] = 0 /\ \A i \in 0 .. k - 1 : mm[p + i] # 0
  BY <1>1 DEF Stops
<1>2. k \in Nat /\ p + k \in Arena /\ p \in Nat /\ \A i \in 0 .. k : p + i \in Extent(p, n) /\ p + i \in Arena
  BY DEF Arena, Extent
<1>3. StringAt(mm, p) = [j \in 1 .. k |-> mm[p + j - 1]]
  BY <1>1, StringEnds
<1>4. \A j \in 1 .. k : j - 1 \in 0 .. k - 1 /\ p + j - 1 = p + (j - 1)
  BY <1>2
<1>5. \A j \in 1 .. k : mm[p + j - 1] \in Nat \ {0}
  BY <1>0, <1>2, <1>4
<1>6. [j \in 1 .. k |-> mm[p + j - 1]] \in Seq(Nat \ {0}) /\ Len([j \in 1 .. k |-> mm[p + j - 1]]) = k
  BY <1>2, <1>5
<1>7. ASSUME NEW m2 \in [Arena -> Nat], \A a \in Extent(p, n) : m2[a] = mm[a]
      PROVE  StringAt(m2, p) = StringAt(mm, p)
  <2>1. \A i \in 0 .. k : m2[p + i] = mm[p + i]
    BY <1>2, <1>7
  <2>2. m2[p + k] = 0 /\ \A i \in 0 .. k - 1 : m2[p + i] # 0
    BY <1>0, <1>2, <2>1
  <2>6. Stops(m2, p, k)
    BY <1>2, <2>2 DEF Stops
  <2>3. StringAt(m2, p) = [j \in 1 .. k |-> m2[p + j - 1]]
    BY <2>6, StringEnds
  <2>4. \A j \in 1 .. k : m2[p + j - 1] = mm[p + j - 1]
    BY <1>2, <1>4, <2>1
  <2>5. [j \in 1 .. k |-> m2[p + j - 1]] = [j \in 1 .. k |-> mm[p + j - 1]]
    BY <2>4
  <2> QED BY <1>3, <2>3, <2>5
<1>8. StringAt(mm, p) \in Seq(Nat \ {0}) /\ Len(StringAt(mm, p)) < n
  BY <1>2, <1>3, <1>6
<1>9. \A m2 \in [Arena -> Nat] : (\A a \in Extent(p, n) : m2[a] = mm[a]) => StringAt(m2, p) = StringAt(mm, p)
  BY <1>7
<1> QED BY <1>8, <1>9

(* A string written with its zero is read back.                            *)
LEMMA ReadsBack ==
  ASSUME NEW mm \in [Arena -> Nat], NEW p \in Arena, NEW n \in Nat, p + n <= Top,
         NEW s \in Seq(Nat \ {0}), Len(s) < n,
         \A a \in Arena : a \in p .. p + Len(s) => mm[a] = Append(s, 0)[a - p + 1]
  PROVE  StringAt(mm, p) = s /\ \E j \in 0 .. n - 1 : mm[p + j] = 0
<1> USE Constants
<1> DEFINE k == Len(s)
<1>0. k \in Nat /\ k < n /\ p \in Nat
  BY DEF Arena
<1>2. /\ s = [j \in 1 .. k |-> s[j]] /\ \A j \in 1 .. k : s[j] \in Nat \ {0} /\ Append(s, 0)[j] = s[j]
      /\ Append(s, 0)[k + 1] = 0
  OBVIOUS
<1> HIDE DEF k
<1>1. \A i \in 0 .. k : p + i \in Arena /\ p + i \in p .. p + k /\ p + i - p + 1 = i + 1
  BY <1>0 DEF Arena
<1>3. \A i \in 0 .. k : mm[p + i] = Append(s, 0)[i + 1]
  <2>1. \A a \in Arena : a \in p .. p + k => mm[a] = Append(s, 0)[a - p + 1]
    BY DEF k
  <2>2. ASSUME NEW i \in 0 .. k PROVE mm[p + i] = Append(s, 0)[i + 1]
    <3>1. PICK a : a = p + i
      OBVIOUS
    <3>2. a \in Arena /\ a \in p .. p + k /\ a - p + 1 = i + 1
      BY <1>1, <3>1
    <3>3. mm[a] = Append(s, 0)[a - p + 1]
      BY <2>1, <3>2, Zenon
    <3> QED BY <3>1, <3>2, <3>3, Zenon
  <2> QED BY <2>2
<1>4. mm[p + k] = 0 /\ \A i \in 0 .. k - 1 : mm[p + i] # 0
  <2>1. mm[p + k] = 0
    <3>1. k \in 0 .. k
      BY <1>0
    <3>2. mm[p + k] = Append(s, 0)[k + 1]
      BY <1>3, <3>1
    <3> QED BY <1>2, <3>2
  <2>2. ASSUME NEW i \in 0 .. k - 1 PROVE mm[p + i] # 0
    <3>1. PICK j \in 1 .. k : j = i + 1
      BY <1>0
    <3>2. mm[p + i] = Append(s, 0)[j]
      <4>1. i \in 0 .. k
        BY <1>0
      <4> QED BY <1>3, <3>1, <4>1
    <3> QED BY <1>2, <3>1, <3>2
  <2> QED BY <2>1, <2>2
<1>9. Stops(mm, p, k)
  BY <1>0, <1>1, <1>4 DEF Stops
<1>5. StringAt(mm, p) = [j \in 1 .. k |-> mm[p + j - 1]]
  BY <1>9, StringEnds
<1>6. \A j \in 1 .. k : mm[p + j - 1] = s[j]
  <2>1. ASSUME NEW j \in 1 .. k PROVE mm[p + j - 1] = s[j]
    <3>1. PICK i \in 0 .. k : i = j - 1
      BY <1>0
    <3>2. p + j - 1 = p + i /\ i + 1 = j
      BY <1>0, <3>1
    <3>3. mm[p + i] = Append(s, 0)[i + 1]
      BY <1>3
    <3> QED BY <1>2, <3>2, <3>3
  <2> QED BY <2>1
<1>7. [j \in 1 .. k |-> mm[p + j - 1]] = [j \in 1 .. k |-> s[j]]
  BY <1>6
<1>8. k \in 0 .. n - 1
  BY <1>0
<1> QED BY <1>2, <1>4, <1>5, <1>7, <1>8

\* A name's descriptor, and all of its body, are as they were.
Spares(h, g, v) ==
  /\ Has(g, v) <=> Has(h, v)
  /\ Has(h, v) =>
       /\ BodyOf(g, v) = BodyOf(h, v) /\ RoomOf(g, v) = RoomOf(h, v)
       /\ BodyOf(h, v) \in Arena /\ RoomOf(h, v) \in Nat /\ BodyOf(h, v) + RoomOf(h, v) <= Top
       /\ \A a \in Extent(BodyOf(h, v), RoomOf(h, v)) : Mem(g)[a] = Mem(h)[a]

(* Then so is its string.                                                  *)
LEMMA Spared ==
  ASSUME NEW h \in Record, NEW g \in Record, NEW v, Spares(h, g, v)
  PROVE  Intact(h, g, v)
<1> SUFFICES ASSUME Ended(h, v) PROVE Ended(g, v) /\ Content(g, v) = Content(h, v)
  BY DEF Intact
<1>1. CASE ~Has(h, v)
  BY <1>1 DEF Spares, Ended, Content
<1>2. CASE Has(h, v)
  <2> DEFINE p == BodyOf(h, v)
             n == RoomOf(h, v)
             mm == Mem(h)
             m2 == Mem(g)
  <2>1. /\ Has(g, v) /\ BodyOf(g, v) = p /\ RoomOf(g, v) = n /\ p \in Arena /\ n \in Nat /\ p + n <= Top
        /\ \A a \in Extent(p, n) : m2[a] = mm[a]
    BY <1>2 DEF Spares
  <2>2. \E j \in 0 .. n - 1 : mm[p + j] = 0
    BY <1>2 DEF Ended
  <2>3. mm \in [Arena -> Nat] /\ m2 \in [Arena -> Nat]
    BY Fields
  <2>4. Content(h, v) = StringAt(mm, p) /\ Content(g, v) = StringAt(m2, p)
    BY <1>2, <2>1 DEF Content
  <2>5. Ended(g, v) <=> \E j \in 0 .. n - 1 : m2[p + j] = 0
    BY <2>1 DEF Ended
  <2> HIDE DEF p, n, mm, m2
  <2>6. StringAt(m2, p) = StringAt(mm, p)
    BY <2>1, <2>2, <2>3, Reads
  <2>7. \A j \in 0 .. n - 1 : p + j \in Extent(p, n)
    BY <2>1, Constants DEF Extent, Arena
  <2> QED BY <2>1, <2>2, <2>4, <2>5, <2>6, <2>7
<1> QED BY <1>1, <1>2

(* One routine after another.                                              *)
LEMMA IntactAgain ==
  ASSUME NEW h, NEW g, NEW k, AllIntact(h, g), AllIntact(g, k)
  PROVE  AllIntact(h, k)
BY DEF AllIntact, Intact

(* Where only the answer differs, every string is left as it was.          *)
LEMMA SameIntact ==
  ASSUME NEW h, NEW g, Mem(g) = Mem(h), Vp(g) = Vp(h)
  PROVE  AllIntact(h, g) /\ \A V : Others(h, g, V)
BY DEF AllIntact, Others, Intact, Ended, Content, Has, BodyOf, RoomOf

(* What a name's descriptor says of its body, other words in hand.         *)
LEMMA BodyIn ==
  ASSUME NEW h \in Record, NEW s, NEW X, WellIn(h, s, X), NEW v \in Vars, Has(h, v)
  PROVE  /\ RoomOf(h, v) \in Sizes /\ BodyOf(h, v) \in Arena /\ Hp(h) <= BodyOf(h, v)
         /\ BodyOf(h, v) + RoomOf(h, v) <= Top
         /\ RoomOf(h, v) \in Nat /\ Extent(BodyOf(h, v), RoomOf(h, v)) \subseteq Arena
         /\ BodyOwner(Mem(h), Vp(h), v) \in OwnersOf(Mem(h), Vp(h), Range(s))
         /\ WordsOf(BodyOwner(Mem(h), Vp(h), v)) = Extent(BodyOf(h, v), RoomOf(h, v))
         /\ Vp(h)[v[1]] # 0
<1> DEFINE mm == Mem(h)
           vp == Vp(h)
           p == mm[Place(vp, v) + 1]
           n == mm[Place(vp, v) + 2]
           r == BodyOwner(mm, vp, v)
<1>1. Well(mm, Hp(h), vp, Fl(h), s, X) /\ Bodied(mm, vp, v)
  BY DEF WellIn, Has
<1>2. n \in Sizes
  BY <1>1 DEF Well
<1>3. r \in OwnersOf(mm, vp, Range(s)) /\ WordsOf(r) = Extent(p, n)
  BY <1>1, OwnWords DEF OwnersOf
<1>4. Place(vp, v) + 1 \in Arena
  <2>1. mm \in [Arena -> Nat] /\ vp \in [Classes -> {0} \cup Arena] /\ v[1] \in Classes
    BY <1>1, PlaceIn DEF Well
  <2>2. 1 \in 0 .. 3
    OBVIOUS
  <2>3. Place(vp, v) + 1 \in Extent(vp[v[1]], ClassSize)
    BY <2>1, <2>2, PlaceIn
  <2>4. ClassOwner(vp, v[1]) \in OwnersOf(mm, vp, Range(s)) \cup X /\ vp[v[1]] \in Nat
        /\ WordsOf(ClassOwner(vp, v[1])) = Extent(vp[v[1]], ClassSize)
    BY <1>1, <2>1, OwnWords, Constants DEF OwnersOf, Bodied, Arena
  <2>5. Extent(vp[v[1]], ClassSize) \subseteq Arena
    BY <1>1, <2>4, Constants, Inside
  <2> QED BY <2>3, <2>5
<1>5. p \in Nat /\ n \in Nat \ {0}
  <2>1. mm \in [Arena -> Nat]
    BY <1>1 DEF Well
  <2> QED BY <1>2, <1>4, <2>1, SizesAre
<1>6. r \in OwnersOf(mm, vp, Range(s)) \cup X
  BY <1>3
<1>7. vp[v[1]] # 0
  BY <1>1 DEF Bodied
<1> HIDE DEF mm, vp, p, n, r
<1>8. Hp(h) <= p /\ p \in Arena /\ p + n <= Top /\ Extent(p, n) \subseteq Arena
  BY <1>1, <1>3, <1>5, <1>6, Inside
<1> QED BY <1>2, <1>3, <1>5, <1>7, <1>8 DEF BodyOf, RoomOf, mm, vp, p, n, r

(* A descriptor's words, in the block of its class.                        *)
LEMMA DescriptorIn ==
  ASSUME NEW h \in Record, NEW s, NEW X, WellIn(h, s, X), NEW v \in Vars, Vp(h)[v[1]] # 0
  PROVE  /\ ClassOwner(Vp(h), v[1]) \in OwnersOf(Mem(h), Vp(h), Range(s))
         /\ \A k \in 0 .. 3 : /\ Place(Vp(h), v) + k \in WordsOf(ClassOwner(Vp(h), v[1]))
                              /\ Place(Vp(h), v) + k \in Arena /\ Hp(h) <= Place(Vp(h), v) + k
<1> DEFINE vp == Vp(h)
           b == vp[v[1]]
           r == ClassOwner(vp, v[1])
<1>1. vp \in [Classes -> {0} \cup Arena] /\ v[1] \in Classes /\ Hp(h) \in Nat
  BY Fields, PlaceIn
<1>2. r \in OwnersOf(Mem(h), vp, Range(s)) /\ WordsOf(r) = Extent(b, ClassSize)
  BY <1>1, OwnWords DEF OwnersOf
<1>3. b \in Nat /\ r \in OwnersOf(Mem(h), vp, Range(s)) \cup X
  BY <1>1, <1>2, Constants DEF Arena
<1>4. \A k \in 0 .. 3 : Place(vp, v) + k \in Extent(b, ClassSize)
  BY <1>1, PlaceIn
<1>5. Well(Mem(h), Hp(h), vp, Fl(h), s, X)
  BY DEF WellIn
<1> HIDE DEF vp, b, r
<1>6. Hp(h) <= b /\ Extent(b, ClassSize) \subseteq Arena
  BY <1>2, <1>3, <1>5, Constants, Inside
<1>7. \A a \in Extent(b, ClassSize) : Hp(h) <= a
  BY <1>1, <1>3, <1>6 DEF Extent
<1> QED BY <1>2, <1>4, <1>6, <1>7 DEF vp, r

(* Two owners have no word in common.                                      *)
LEMMA NoneShared ==
  ASSUME NEW h, NEW s, NEW X, WellIn(h, s, X), NEW p \in OwnersOf(Mem(h), Vp(h), Range(s)) \cup X,
         NEW q \in OwnersOf(Mem(h), Vp(h), Range(s)) \cup X, p # q
  PROVE  WordsOf(p) \cap WordsOf(q) = {}
BY DEF WellIn, Well, Tiled

(* What is written in a body nobody has yet, or was before it was taken,   *)
(* disturbs no string.                                                     *)
LEMMA BesideLoose ==
  ASSUME NEW h \in Record, NEW g \in Record, Vp(g) = Vp(h), NEW t, NEW X, WellIn(g, t, X),
         NEW p, NEW n, Loose(p, n) \in X,
         \A a \in Arena : a \notin Extent(p, n) => Mem(g)[a] = Mem(h)[a]
  PROVE  AllIntact(h, g) /\ Others(h, g, {})
<1> SUFFICES ASSUME NEW w \in Vars PROVE Spares(h, g, w)
  BY Spared DEF AllIntact, Others, Spares
<1> DEFINE O == OwnersOf(Mem(g), Vp(g), Range(t))
<1>1. WordsOf(Loose(p, n)) = Extent(p, n) /\ Loose(p, n) \in O \cup X
  BY OwnWords
<1>2. CASE Vp(g)[w[1]] = 0
  BY <1>2 DEF Spares, Has, Bodied
<1>3. CASE Vp(g)[w[1]] # 0
  <2> DEFINE d == Place(Vp(g), w)
  <2>1. \A k \in 0 .. 3 : Mem(g)[d + k] = Mem(h)[d + k]
    <3>1. ClassOwner(Vp(g), w[1]) \in O
      BY <1>3, DescriptorIn
    <3>2. \A k \in 0 .. 3 : d + k \in WordsOf(ClassOwner(Vp(g), w[1])) /\ d + k \in Arena
      BY <1>3, DescriptorIn
    <3>3. ClassOwner(Vp(g), w[1]) # Loose(p, n)
      BY Names
    <3>4. WordsOf(ClassOwner(Vp(g), w[1])) \cap WordsOf(Loose(p, n)) = {}
      BY <1>1, <3>1, <3>3, NoneShared
    <3> QED BY <1>1, <3>2, <3>4
  <2>2. 1 \in 0 .. 3 /\ 2 \in 0 .. 3
    OBVIOUS
  <2>3. (Has(g, w) <=> Has(h, w)) /\ BodyOf(g, w) = BodyOf(h, w) /\ RoomOf(g, w) = RoomOf(h, w)
    BY <2>1, <2>2 DEF Has, Bodied, BodyOf, RoomOf
  <2>4. CASE ~Has(h, w)
    BY <2>3, <2>4 DEF Spares
  <2>5. CASE Has(h, w)
    <3> DEFINE r == BodyOwner(Mem(g), Vp(g), w)
    <3>1. Has(g, w)
      BY <2>3, <2>5
    <3>2. /\ RoomOf(g, w) \in Sizes /\ BodyOf(g, w) \in Arena /\ BodyOf(g, w) + RoomOf(g, w) <= Top
          /\ r \in O /\ WordsOf(r) = Extent(BodyOf(g, w), RoomOf(g, w))
      BY <3>1, BodyIn
    <3>3. r # Loose(p, n)
      BY Names
    <3>4. WordsOf(r) \cap WordsOf(Loose(p, n)) = {}
      BY <1>1, <3>2, <3>3, NoneShared
    <3>5. RoomOf(g, w) \in Nat /\ Extent(BodyOf(g, w), RoomOf(g, w)) \subseteq Arena
      BY BodyIn, <3>1
    <3>6. \A a \in Extent(BodyOf(g, w), RoomOf(g, w)) : Mem(g)[a] = Mem(h)[a]
      BY <1>1, <3>2, <3>4, <3>5
    <3> QED BY <2>3, <3>2, <3>5, <3>6 DEF Spares
  <2> QED BY <2>4, <2>5
<1> QED BY <1>2, <1>3

\* Words are written in v's body and descriptor only.
Mine(h, g, v) ==
  \A a \in Arena :
    (Has(h, v) => a \notin Extent(BodyOf(h, v), RoomOf(h, v)))
    /\ (\A k \in 0 .. 3 : a # Place(Vp(h), v) + k) => Mem(g)[a] = Mem(h)[a]

(* What is written in the body and the descriptor of a name disturbs no    *)
(* other's string.                                                         *)
LEMMA BesideName ==
  ASSUME NEW h \in Record, NEW g \in Record, Vp(g) = Vp(h), NEW t, NEW X, WellIn(h, t, X),
         NEW v \in Vars, Vp(h)[v[1]] # 0, Mine(h, g, v), NEW w \in Vars, w # v
  PROVE  Intact(h, g, w) /\ (Has(h, w) => Has(g, w) /\ BodyOf(g, w) = BodyOf(h, w))
<1> SUFFICES Spares(h, g, w)
  BY Spared DEF Spares
<1> DEFINE O == OwnersOf(Mem(h), Vp(h), Range(t))
           B == BodyOwner(Mem(h), Vp(h), v)
           R == ClassOwner(Vp(h), v[1])
<1>1. R \in O \cup X /\ \A k \in 0 .. 3 : Place(Vp(h), v) + k \in WordsOf(R)
  BY DescriptorIn
<1>2. Has(h, v) => B \in O \cup X /\ WordsOf(B) = Extent(BodyOf(h, v), RoomOf(h, v))
  BY BodyIn
<1>3. CASE Vp(h)[w[1]] = 0
  BY <1>3 DEF Spares, Has, Bodied
<1>4. CASE Vp(h)[w[1]] # 0
  <2> DEFINE d == Place(Vp(h), w)
             C == ClassOwner(Vp(h), w[1])
  <2>1. C \in O \cup X /\ \A k \in 0 .. 3 : d + k \in WordsOf(C) /\ d + k \in Arena
    BY <1>4, DescriptorIn
  <2>2. \A k \in 0 .. 3 : Mem(g)[d + k] = Mem(h)[d + k]
    <3>1. ASSUME NEW k \in 0 .. 3 PROVE Mem(g)[d + k] = Mem(h)[d + k]
      <4>1. \A j \in 0 .. 3 : d + k # Place(Vp(h), v) + j
        <5>1. Well(Mem(h), Hp(h), Vp(h), Fl(h), t, X)
          BY DEF WellIn
        <5> QED BY <1>4, <5>1, Apart
      <4>2. Has(h, v) => WordsOf(C) \cap WordsOf(B) = {}
        <5>1. C # B
          BY Names
        <5> QED BY <1>2, <2>1, <5>1, NoneShared
      <4>3. Has(h, v) => d + k \notin Extent(BodyOf(h, v), RoomOf(h, v))
        BY <1>2, <2>1, <4>2
      <4>4. PICK a \in Arena : a = d + k
        BY <2>1
      <4> QED BY <4>1, <4>3, <4>4 DEF Mine
    <3> QED BY <3>1
  <2>3. 1 \in 0 .. 3 /\ 2 \in 0 .. 3
    OBVIOUS
  <2>4. (Has(g, w) <=> Has(h, w)) /\ BodyOf(g, w) = BodyOf(h, w) /\ RoomOf(g, w) = RoomOf(h, w)
    BY <2>2, <2>3 DEF Has, Bodied, BodyOf, RoomOf
  <2>5. CASE ~Has(h, w)
    BY <2>4, <2>5 DEF Spares
  <2>6. CASE Has(h, w)
    <3> DEFINE r == BodyOwner(Mem(h), Vp(h), w)
    <3>1. /\ RoomOf(h, w) \in Sizes /\ BodyOf(h, w) \in Arena /\ BodyOf(h, w) + RoomOf(h, w) <= Top
          /\ r \in O \cup X /\ WordsOf(r) = Extent(BodyOf(h, w), RoomOf(h, w))
      BY <2>6, BodyIn
    <3>2. RoomOf(h, w) \in Nat /\ Extent(BodyOf(h, w), RoomOf(h, w)) \subseteq Arena
      BY BodyIn, <2>6
    <3>3. WordsOf(r) \cap WordsOf(R) = {}
      <4>1. r # R
        BY Names
      <4> QED BY <1>1, <3>1, <4>1, NoneShared
    <3>4. Has(h, v) => WordsOf(r) \cap WordsOf(B) = {}
      <4>1. r # B
        BY BodyNames
      <4> QED BY <1>2, <3>1, <4>1, NoneShared
    <3>5. \A a \in Extent(BodyOf(h, w), RoomOf(h, w)) : Mem(g)[a] = Mem(h)[a]
      BY <1>1, <1>2, <3>1, <3>2, <3>3, <3>4 DEF Mine
    <3> QED BY <2>4, <3>1, <3>2, <3>5 DEF Spares
  <2> QED BY <2>5, <2>6
<1> QED BY <1>3, <1>4

(* The type of a name is no part of its string, or of any other.           *)
LEMMA BesideType ==
  ASSUME NEW h \in Record, NEW g \in Record, Vp(g) = Vp(h), NEW t, WellIn(h, t, {}),
         NEW v \in Vars, Vp(h)[v[1]] # 0, \A a \in Arena : a # Place(Vp(h), v) => Mem(g)[a] = Mem(h)[a]
  PROVE  AllIntact(h, g)
<1> SUFFICES ASSUME NEW w \in Vars PROVE Intact(h, g, w)
  BY DEF AllIntact
<1> DEFINE d == Place(Vp(h), v)
<1>1. d \in Nat /\ \A k \in 0 .. 3 : d + k \in WordsOf(ClassOwner(Vp(h), v[1])) /\ d + k \in Arena
  BY DescriptorIn, Fields, PlaceIn
<1>2. 0 \in 0 .. 3 /\ 1 \in 0 .. 3 /\ 2 \in 0 .. 3 /\ d + 0 = d
  BY <1>1
<1>3. CASE w # v
  <2>1. Mine(h, g, v)
    BY <1>1, <1>2 DEF Mine
  <2> QED BY <1>3, <2>1, BesideName
<1>4. CASE w = v
  <2>1. Mem(g)[d + 1] = Mem(h)[d + 1] /\ Mem(g)[d + 2] = Mem(h)[d + 2]
    BY <1>1, <1>2
  <2>2. (Has(g, v) <=> Has(h, v)) /\ BodyOf(g, v) = BodyOf(h, v) /\ RoomOf(g, v) = RoomOf(h, v)
    BY <2>1 DEF Has, Bodied, BodyOf, RoomOf
  <2>3. CASE ~Has(h, v)
    BY <1>4, <2>2, <2>3, Spared DEF Spares
  <2>4. CASE Has(h, v)
    <3> DEFINE r == BodyOwner(Mem(h), Vp(h), v)
               R == ClassOwner(Vp(h), v[1])
               X == {}
               O == OwnersOf(Mem(h), Vp(h), Range(t))
    <3>1. /\ RoomOf(h, v) \in Sizes /\ BodyOf(h, v) \in Arena /\ BodyOf(h, v) + RoomOf(h, v) <= Top
          /\ r \in O \cup X /\ WordsOf(r) = Extent(BodyOf(h, v), RoomOf(h, v))
      BY <2>4, BodyIn
    <3>2. RoomOf(h, v) \in Nat /\ Extent(BodyOf(h, v), RoomOf(h, v)) \subseteq Arena
      BY BodyIn, <2>4
    <3>3. R \in O \cup X /\ r # R /\ WellIn(h, t, X)
      BY DescriptorIn, Names
    <3> HIDE DEF X
    <3>4. WordsOf(r) \cap WordsOf(R) = {}
      BY <3>1, <3>3, NoneShared
    <3>5. \A a \in Extent(BodyOf(h, v), RoomOf(h, v)) : Mem(g)[a] = Mem(h)[a]
      BY <1>1, <1>2, <3>1, <3>2, <3>4
    <3>6. Spares(h, g, v)
      BY <2>2, <3>1, <3>2, <3>5 DEF Spares
    <3> QED BY <1>4, <3>6, Spared
  <2> QED BY <2>3, <2>4
<1> QED BY <1>3, <1>4

(* A class that gets a cleared block had no strings, and has none yet.     *)
LEMMA BesideClass ==
  ASSUME NEW h \in Record, NEW g \in Record, Mem(g) = Mem(h), NEW c \in Classes, Vp(h)[c] = 0,
         \A d \in Classes : d # c => Vp(g)[d] = Vp(h)[d],
         \A a \in Extent(Vp(g)[c], ClassSize) : Mem(h)[a] = 0
  PROVE  AllIntact(h, g)
<1> SUFFICES ASSUME NEW w \in Vars PROVE Intact(h, g, w)
  BY DEF AllIntact
<1>1. Vp(g) \in [Classes -> {0} \cup Arena] /\ w[1] \in Classes /\ 1 \in 0 .. 3
  BY Fields, PlaceIn
<1>2. Place(Vp(g), w) + 1 \in Extent(Vp(g)[w[1]], ClassSize)
  BY <1>1, PlaceIn
<1>3. CASE w[1] = c
  <2>1. ~Has(h, w) /\ ~Has(g, w)
    BY <1>2, <1>3 DEF Has, Bodied
  <2> QED BY <2>1 DEF Intact, Ended, Content
<1>4. CASE w[1] # c
  <2>1. Vp(g)[w[1]] = Vp(h)[w[1]] /\ Place(Vp(g), w) = Place(Vp(h), w)
    BY <1>1, <1>4 DEF Place
  <2> QED BY <2>1 DEF Intact, Ended, Content, Has, Bodied, BodyOf, RoomOf
<1> QED BY <1>3, <1>4

-----------------------------------------------------------------------------
(* The routines that give and take words.                                  *)

\* Below the heap's bottom nothing is written, and the bottom only falls.
Later(h, g) ==
  /\ Hp(g) <= Hp(h)
  /\ \A a \in Arena : a < Hp(g) => Mem(g)[a] = Mem(h)[a]

(* One routine after another.                                              *)
LEMMA LaterAgain ==
  ASSUME NEW h \in Record, NEW g \in Record, NEW k \in Record, Later(h, g), Later(g, k)
  PROVE  Later(h, k)
<1> USE Constants
<1>1. Hp(h) \in Nat /\ Hp(g) \in Nat /\ Hp(k) \in Nat
  BY Fields
<1>2. Hp(k) <= Hp(h)
  BY <1>1 DEF Later
<1>3. ASSUME NEW a \in Arena, a < Hp(k) PROVE Mem(k)[a] = Mem(h)[a]
  <2>1. a < Hp(g)
    BY <1>1, <1>3 DEF Later, Arena
  <2> QED BY <1>3, <2>1 DEF Later
<1> QED BY <1>2, <1>3 DEF Later

(* Words to clear with.                                                    *)
LEMMA Zeroed ==
  ASSUME NEW n \in Nat
  PROVE  Zeros(n) \in Seq(Nat) /\ Len(Zeros(n)) = n /\ \A k \in 1 .. n : Zeros(n)[k] = 0
BY DEF Zeros

(* Words are carved off below the heap and cleared, or there is no room    *)
(* for them (focal.s HCARVE, CLRN).                                        *)
LEMMA CarveIs ==
  ASSUME NEW h \in Record, NEW s, WellIn(h, s, {}), Ok(h), NEW n \in Nat \ {0},
         NEW g, g = Cleared(HCARVE(h, n), n)
  PROVE  /\ g \in Record /\ Vp(g) = Vp(h) /\ Fl(g) = Fl(h) /\ Later(h, g)
         /\ ~Ok(g) => WellIn(g, s, {}) /\ Mem(g) = Mem(h)
         /\ Ok(g) => /\ At(g) \in Arena /\ WellIn(g, s, Just(At(g), n))
                     /\ \A a \in Extent(At(g), n) : Mem(g)[a] = 0
                     /\ \A a \in Arena : a \notin Extent(At(g), n) => Mem(g)[a] = Mem(h)[a]
<1> USE Constants
<1>1. Hp(h) \in Nat /\ tend \in Nat /\ TXTB + tend <= Hp(h) /\ Hp(h) <= Top
  BY DEF Well, WellIn
<1>2. CASE ~(Hp(h) - n - (TXTB + tend) >= 0)
  <2>1. g = Failed(h)
    <3>1. HCARVE(h, n) = Failed(h)
      BY <1>2, Zenon DEF HCARVE, Hp, Failed
    <3>2. ~Ok(Failed(h))
      BY FailedIs
    <3> QED BY <3>1, <3>2, Zenon DEF Cleared, Ok
  <2>2. g \in Record /\ Same(h, g) /\ ~Ok(g)
    BY <2>1, FailedIs
  <2>3. WellIn(g, s, {})
    BY <2>2 DEF WellIn, Same
  <2>4. Later(h, g)
    BY <1>1, <2>2 DEF Later, Same
  <2> QED BY <2>2, <2>3, <2>4 DEF Same
<1>3. CASE Hp(h) - n - (TXTB + tend) >= 0
  <2> DEFINE p == Hp(h) - n
  <2>1. p \in Arena /\ p \in Nat /\ p + n = Hp(h) /\ TXTB + tend <= p /\ n <= Hp(h) /\ Hp(h) - n = p
    BY <1>1, <1>3 DEF Arena
  <2> HIDE DEF p
  <2>2. PICK k : k = HCARVE(h, n)
    OBVIOUS
  <2>3. k = Carved(h, n)
    BY <1>3, <2>2, Zenon DEF HCARVE, Hp, Carved
  <2>5. /\ k \in Record /\ Mem(k) = Mem(h) /\ Hp(k) = p /\ Vp(k) = Vp(h) /\ Fl(k) = Fl(h)
        /\ At(k) = p /\ (Ok(k) <=> Ok(h))
    BY <2>1, <2>3, CarvedIs
  <2>6. Tiled(OwnersOf(Mem(k), Vp(k), Range(s)) \cup Just(p, n), p)
    <3>1. Tiled(OwnersOf(Mem(h), Vp(h), Range(s)), Hp(h))
      <4>1. OwnersOf(Mem(h), Vp(h), Range(s)) \cup {} = OwnersOf(Mem(h), Vp(h), Range(s))
        OBVIOUS
      <4> QED BY <4>1 DEF Well, WellIn
    <3>2. WordsOf(Loose(p, n)) = Extent(Hp(h) - n, n)
      BY <2>1, OwnWords
    <3>4. Tiled(OwnersOf(Mem(h), Vp(h), Range(s)) \cup Just(p, n), Hp(h) - n)
      BY <1>1, <2>1, <3>1, <3>2, CarveTiles DEF Just
    <3> QED BY <2>1, <2>5, <3>4
  <2>7. WellIn(k, s, Just(p, n))
    BY <1>1, <2>1, <2>5, <2>6 DEF Well, WellIn
  <2> DEFINE ws == Zeros(n)
  <2>8. ws \in Seq(Nat) /\ Len(ws) = n /\ Len(ws) <= n /\ \A j \in 1 .. n : ws[j] = 0
    BY Zeroed
  <2>9. g = Stored(k, p, ws)
    BY <2>2, <2>5, Zenon DEF Cleared, Ok, At, Stored
  <2> HIDE DEF ws
  <2>10. /\ g \in Record /\ Mem(g) = Written(Mem(k), p, ws) /\ Hp(g) = p /\ Vp(g) = Vp(h) /\ Fl(g) = Fl(h)
         /\ At(g) = p /\ (Ok(g) <=> Ok(h))
    BY <2>1, <2>5, <2>8, <2>9, StoredIs
  <2>11. /\ WellIn(g, s, Just(p, n))
         /\ \A a \in Arena : a \in p .. p + Len(ws) - 1 => Mem(g)[a] = ws[a - p + 1]
         /\ \A a \in Arena : a \notin Extent(p, n) => Mem(g)[a] = Mem(h)[a]
    <3> DEFINE X == Just(p, n)
    <3>1. Well(Mem(k), Hp(k), Vp(k), Fl(k), s, X) /\ Loose(p, n) \in X
      BY <2>7 DEF WellIn, Just
    <3>2. Mem(g) = Written(Mem(k), p, ws) /\ n \in Nat \ {0}
      BY <2>10
    <3> HIDE DEF X
    <3> DEFINE mm == Mem(k)
               m2 == Mem(g)
    <3>4. Well(mm, Hp(k), Vp(k), Fl(k), s, X) /\ m2 = Written(mm, p, ws)
      BY <3>1, <3>2
    <3> HIDE DEF mm, m2
    <3>3. Well(m2, Hp(k), Vp(k), Fl(k), s, X)
      BY <2>1, <2>8, <3>1, <3>4, LooseWrite
    <3>5. \A a \in Arena : a \in p .. p + Len(ws) - 1 => m2[a] = ws[a - p + 1]
      BY <2>1, <2>8, <3>1, <3>4, LooseWrite
    <3>6. \A a \in Arena : a \notin Extent(p, n) => m2[a] = mm[a]
      BY <2>1, <2>8, <3>1, <3>4, LooseWrite
    <3> QED BY <2>5, <2>10, <3>3, <3>5, <3>6 DEF WellIn, X, mm, m2
  <2>12. \A a \in Extent(p, n) : Mem(g)[a] = 0
    <3>1. ASSUME NEW a \in Extent(p, n) PROVE a \in Arena /\ a \in p .. p + Len(ws) - 1 /\ a - p + 1 \in 1 .. n
      BY <1>1, <2>1, <2>8 DEF Extent, Arena
    <3> QED BY <2>8, <2>11, <3>1
  <2>13. Later(h, g)
    <3>1. \A a \in Arena : a < p => a \notin Extent(p, n)
      BY <2>1 DEF Extent, Arena
    <3>2. Hp(g) = p /\ \A a \in Arena : a < p => Mem(g)[a] = Mem(h)[a]
      BY <2>10, <2>11, <3>1
    <3> QED BY <1>1, <2>1, <3>2 DEF Later
  <2> QED BY <2>1, <2>10, <2>11, <2>12, <2>13
<1> QED BY <1>2, <1>3

(* A block carved and cleared becomes that of a class without one: none of *)
(* its names has a body (focal.s VLOOK).                                   *)
LEMMA NewClass ==
  ASSUME NEW mm, NEW hp, NEW vo, NEW ff, NEW s, NEW p \in Arena,
         Well(mm, hp, vo, ff, s, Just(p, ClassSize)),
         NEW c \in Classes, vo[c] = 0, \A a \in Extent(p, ClassSize) : mm[a] = 0,
         NEW vp \in [Classes -> {0} \cup Arena], vp[c] = p, \A d \in Classes : d # c => vp[d] = vo[d]
  PROVE  Well(mm, hp, vp, ff, s, {})
<1> USE Constants
<1> DEFINE r == Loose(p, ClassSize)
           T == OwnersOf(mm, vo, Range(s))
           F == Range(s)
<1>1. vo \in [Classes -> {0} \cup Arena] /\ p \in Nat /\ p # 0
  BY DEF Well, Arena
<1>3. vp \in [Classes -> {0} \cup Arena] /\ vp[c] = p /\ \A d \in Classes : d # c => vp[d] = vo[d]
  OBVIOUS
<1>4. \A v \in Vars : v[1] \in Classes
  BY DEF Vars
<1>5. ASSUME NEW v \in Vars
      PROVE  /\ Bodied(mm, vp, v) <=> Bodied(mm, vo, v)
             /\ Bodied(mm, vp, v) => v[1] # c
  <2>1. CASE v[1] = c
    <3>1. Place(vp, v) + 1 \in Extent(vp[v[1]], ClassSize)
      <4>1. 1 \in 0 .. 3
        OBVIOUS
      <4> QED BY <1>3, <4>1, PlaceIn
    <3>2. mm[Place(vp, v) + 1] = 0
      BY <1>3, <2>1, <3>1
    <3> QED BY <2>1, <3>2 DEF Bodied
  <2>2. CASE v[1] # c
    <3>1. vp[v[1]] = vo[v[1]]
      BY <1>3, <1>4, <2>2
    <3> QED BY <2>2, <3>1 DEF Bodied, Place
  <2> QED BY <2>1, <2>2
<1>6. \A v \in Vars : Bodied(mm, vp, v) =>
        /\ BodyOwner(mm, vp, v) = BodyOwner(mm, vo, v)
        /\ mm[Place(vp, v) + 2] = mm[Place(vo, v) + 2]
  <2> QED BY <1>3, <1>4, <1>5 DEF BodyOwner, Place
<1>7. OwnersOf(mm, vp, F) = ((T \cup {r}) \ {r}) \cup {ClassOwner(vp, c)}
  <2>1. r \notin T
    BY Names DEF OwnersOf
  <2>2. {ClassOwner(vp, d) : d \in {d \in Classes : vp[d] # 0}}
          = {ClassOwner(vo, d) : d \in {d \in Classes : vo[d] # 0}} \cup {ClassOwner(vp, c)}
    <3>1. \A d \in Classes : d # c => ClassOwner(vp, d) = ClassOwner(vo, d)
      BY <1>3 DEF ClassOwner
    <3> QED BY <1>1, <1>3, <3>1
  <2>3. {BodyOwner(mm, vp, v) : v \in {v \in Vars : Bodied(mm, vp, v)}}
          = {BodyOwner(mm, vo, v) : v \in {v \in Vars : Bodied(mm, vo, v)}}
    <3>1. {v \in Vars : Bodied(mm, vp, v)} = {v \in Vars : Bodied(mm, vo, v)}
      BY <1>5
    <3> QED BY <1>5, <1>6, <3>1
  <2> HIDE DEF r
  <2> QED BY <2>1, <2>2, <2>3 DEF OwnersOf
<1>8. Tiled(OwnersOf(mm, vp, F), hp)
  <2>1. Tiled(T \cup {r}, hp)
    BY DEF Well, Just
  <2>2. WordsOf(ClassOwner(vp, c)) = WordsOf(r)
    BY <1>3, OwnWords
  <2> HIDE DEF T, r, F
  <2> QED BY <1>7, <2>1, <2>2, RenameTiles
<1>9. \A v \in Vars : Bodied(mm, vp, v) => mm[Place(vp, v) + 2] \in Sizes
  BY <1>5, <1>6 DEF Well
<1> QED
  <2>1. OwnersOf(mm, vp, F) \cup {} = OwnersOf(mm, vp, F)
    OBVIOUS
  <2> QED BY <1>8, <1>9, <2>1 DEF Well

(* The block of a class, there already or carved for it (focal.s VLOOK).   *)
LEMMA VlookIs ==
  ASSUME NEW h \in Record, NEW s, WellIn(h, s, {}), Ok(h), NEW c \in Classes, NEW g, g = VLOOK(h, c)
  PROVE  /\ g \in Record /\ Fl(g) = Fl(h) /\ Later(h, g) /\ WellIn(g, s, {}) /\ AllIntact(h, g)
         /\ Ok(g) => Vp(g)[c] # 0 /\ At(g) = Vp(g)[c]
         /\ Vp(h)[c] # 0 => Same(h, g) /\ Ok(g)
<1> USE Constants
<1>1. /\ Vp(h) \in [Classes -> {0} \cup Arena] /\ Hp(h) \in Nat /\ Vp(h)[c] \in Nat
  BY Fields DEF Arena
<1>2. CASE Vp(h)[c] # 0
  <2>1. g = Moved(h, Vp(h)[c])
    BY <1>2, Zenon DEF VLOOK, Vp, Moved
  <2>2. g \in Record /\ Same(h, g) /\ At(g) = Vp(h)[c] /\ Ok(g)
    BY <1>1, <2>1, MovedIs
  <2>3. Later(h, g)
    BY <1>1, <2>2 DEF Later, Same
  <2>4. AllIntact(h, g)
    BY <2>2, SameIntact DEF Same
  <2> QED BY <1>2, <2>2, <2>3, <2>4 DEF Same, WellIn
<1>3. CASE Vp(h)[c] = 0
  <2>1. ClassSize \in Nat \ {0}
    BY DEF ClassSize
  <2>2. PICK b : b = Cleared(HCARVE(h, ClassSize), ClassSize)
    OBVIOUS
  <2>3. /\ b \in Record /\ Vp(b) = Vp(h) /\ Fl(b) = Fl(h) /\ Later(h, b)
        /\ ~Ok(b) => WellIn(b, s, {}) /\ Mem(b) = Mem(h)
        /\ Ok(b) => /\ At(b) \in Arena /\ WellIn(b, s, Just(At(b), ClassSize))
                    /\ \A a \in Extent(At(b), ClassSize) : Mem(b)[a] = 0
                    /\ \A a \in Arena : a \notin Extent(At(b), ClassSize) => Mem(b)[a] = Mem(h)[a]
    BY <2>1, <2>2, CarveIs
  <2>4. CASE ~Ok(b)
    <3>1. b.ok # TRUE
      BY <2>4, Zenon DEF Ok
    <3>2. b.ok \in BOOLEAN
      BY <2>3 DEF Record
    <3>3. g = b
      BY <1>3, <2>2, <3>1, <3>2, Zenon DEF VLOOK, Vp
    <3>4. AllIntact(h, b)
      BY <2>3, <2>4, SameIntact
    <3> QED BY <1>3, <2>3, <2>4, <3>3, <3>4
  <2>5. CASE Ok(b)
    <3>1. g = Based(b, c, At(b))
      BY <1>3, <2>2, <2>5, Zenon DEF VLOOK, Vp, Ok, At, Based
    <3>2. /\ g \in Record /\ Mem(g) = Mem(b) /\ Hp(g) = Hp(b) /\ Fl(g) = Fl(b) /\ At(g) = At(b) /\ Ok(g)
          /\ Vp(g)[c] = At(b) /\ \A d \in Classes : d # c => Vp(g)[d] = Vp(b)[d]
      BY <2>3, <2>5, <3>1, BasedIs
    <3>3. Vp(g) \in [Classes -> {0} \cup Arena]
      BY <3>2, Fields
    <3>4. Well(Mem(b), Hp(b), Vp(b), Fl(b), s, Just(At(b), ClassSize))
      BY <2>3, <2>5 DEF WellIn
    <3> DEFINE vp == Vp(g)
               vo == Vp(b)
               p == At(b)
    <3>5. /\ Well(Mem(b), Hp(b), vo, Fl(b), s, Just(p, ClassSize)) /\ p \in Arena /\ vo[c] = 0
          /\ \A a \in Extent(p, ClassSize) : Mem(b)[a] = 0
          /\ vp \in [Classes -> {0} \cup Arena] /\ vp[c] = p /\ \A d \in Classes : d # c => vp[d] = vo[d]
      BY <1>3, <2>3, <2>5, <3>2, <3>3, <3>4
    <3> HIDE DEF vp, vo, p
    <3>6. Well(Mem(b), Hp(b), vp, Fl(b), s, {})
      BY <3>5, NewClass
    <3>7. WellIn(g, s, {})
      BY <3>2, <3>6 DEF WellIn, vp
    <3>8. Later(h, g)
      BY <2>3, <3>2 DEF Later
    <3>9. At(g) # 0 /\ At(g) = Vp(g)[c]
      BY <2>3, <2>5, <3>2 DEF Arena
    <3>10. AllIntact(h, b)
      <4> DEFINE X == Just(p, ClassSize)
      <4>1. WellIn(b, s, X) /\ Loose(p, ClassSize) \in X
        BY <2>3, <2>5 DEF Just, p
      <4>2. \A a \in Arena : a \notin Extent(p, ClassSize) => Mem(b)[a] = Mem(h)[a]
        BY <2>3, <2>5 DEF p
      <4> HIDE DEF X
      <4> QED BY <2>3, <4>1, <4>2, BesideLoose
    <3>11. AllIntact(b, g)
      <4>1. Vp(b)[c] = 0 /\ \A a \in Extent(Vp(g)[c], ClassSize) : Mem(b)[a] = 0
        BY <1>3, <2>3, <2>5, <3>2
      <4> QED BY <2>3, <3>2, <4>1, BesideClass
    <3> QED BY <1>3, <2>3, <3>2, <3>7, <3>8, <3>9, <3>10, <3>11, IntactAgain
  <2> QED BY <2>4, <2>5
<1> QED BY <1>2, <1>3

(* The descriptor of a name (focal.s VDESC).                               *)
LEMMA VdescIs ==
  ASSUME NEW h \in Record, NEW s, WellIn(h, s, {}), Ok(h), NEW v \in Vars, NEW g, g = VDESC(h, v)
  PROVE  /\ g \in Record /\ Fl(g) = Fl(h) /\ Later(h, g) /\ WellIn(g, s, {}) /\ AllIntact(h, g)
         /\ Ok(g) => Vp(g)[v[1]] # 0 /\ At(g) = Place(Vp(g), v)
         /\ Vp(h)[v[1]] # 0 => Same(h, g) /\ Ok(g)
<1> USE Constants
<1>1. v[1] \in Classes /\ v[2] \in Nat
  BY DEF Vars
<1>2. PICK b : b = VLOOK(h, v[1])
  OBVIOUS
<1>3. /\ b \in Record /\ Fl(b) = Fl(h) /\ Later(h, b) /\ WellIn(b, s, {}) /\ AllIntact(h, b)
      /\ Ok(b) => Vp(b)[v[1]] # 0 /\ At(b) = Vp(b)[v[1]]
      /\ Vp(h)[v[1]] # 0 => Same(h, b) /\ Ok(b)
  <2> DEFINE c == v[1]
  <2>1. c \in Classes /\ b = VLOOK(h, c)
    BY <1>1, <1>2
  <2> HIDE DEF c
  <2>2. b \in Record /\ Fl(b) = Fl(h) /\ Later(h, b) /\ WellIn(b, s, {}) /\ AllIntact(h, b)
    BY <2>1, VlookIs
  <2>3. Ok(b) => Vp(b)[c] # 0 /\ At(b) = Vp(b)[c]
    BY <2>1, VlookIs
  <2>4. Vp(h)[c] # 0 => Same(h, b) /\ Ok(b)
    BY <2>1, VlookIs
  <2> QED BY <2>2, <2>3, <2>4 DEF c
<1>4. At(b) + 4 * v[2] \in Nat
  BY <1>1, <1>3, Fields
<1>5. g = Moved(b, At(b) + 4 * v[2])
  BY <1>2, Zenon DEF VDESC, At, Moved
<1>6. g \in Record /\ Same(b, g) /\ At(g) = At(b) + 4 * v[2] /\ (Ok(g) <=> Ok(b))
  BY <1>3, <1>4, <1>5, MovedIs
<1>7. Later(h, g) /\ WellIn(g, s, {})
  BY <1>3, <1>6 DEF Same, Later, WellIn
<1>8. AllIntact(h, g)
  <2>1. AllIntact(b, g)
    BY <1>6, SameIntact DEF Same
  <2> QED BY <1>3, <2>1, IntactAgain
<1> QED BY <1>3, <1>6, <1>7, <1>8 DEF Same, Place

(* The first free body, and the one its link leads to.                     *)
LEMMA First ==
  ASSUME NEW mm, NEW hp, NEW vp, NEW ff, NEW s, NEW X, Well(mm, hp, vp, ff, s, X), ff[Small] # 0
  PROVE  ff[Small] \in Arena /\ mm[ff[Small]] \in {0} \cup Arena
<1>1. Chain(mm, ff[Small], s) /\ s \in Seq(Arena)
  BY DEF Well, Chain
<1>2. s # << >> /\ ff[Small] = s[1] /\ 1 \in 1 .. Len(s) /\ Len(s) \in Nat /\ s[1] \in Arena
  BY <1>1 DEF Chain
<1>3. \A j \in 1 .. Len(s) : mm[s[j]] = IF j = Len(s) THEN 0 ELSE s[j + 1]
  BY <1>1 DEF Chain
<1>4. 1 # Len(s) => 1 + 1 \in 1 .. Len(s)
  <2> DEFINE n == Len(s)
  <2>1. n \in Nat /\ 1 \in 1 .. n
    BY <1>2
  <2> HIDE DEF n
  <2>2. 1 # n => 1 + 1 \in 1 .. n
    BY <2>1
  <2> QED BY <2>2 DEF n
<1>5. 1 # Len(s) => s[1 + 1] \in Arena
  BY <1>1, <1>4
<1> QED BY <1>2, <1>3, <1>5

(* The first free body is taken off the list.                              *)
LEMMA Pop ==
  ASSUME NEW mm, NEW hp, NEW vp, NEW ff, NEW s, Well(mm, hp, vp, ff, s, {}), ff[Small] # 0,
         NEW f2 \in [Sizes -> {0} \cup Arena], f2[Small] = mm[ff[Small]], f2[Large] = ff[Large]
  PROVE  /\ Well(mm, hp, vp, f2, Tail(s), Just(ff[Small], Small))
         /\ ff[Small] \in Arena /\ mm[ff[Small]] \in {0} \cup Arena
<1> USE Constants
<1> DEFINE p == ff[Small]
           t == Tail(s)
           T == OwnersOf(mm, vp, Range(s))
<1>1. Chain(mm, p, s) /\ s \in Seq(Arena)
  BY DEF Well, Chain
<1>2. s # << >> /\ p = s[1] /\ 1 \in 1 .. Len(s) /\ Len(s) \in Nat /\ p \in Arena
  BY <1>1 DEF Chain
<1>11. t \in Seq(Arena) /\ Len(t) = Len(s) - 1 /\ \A j \in 1 .. Len(t) : t[j] = s[j + 1] /\ j + 1 \in 1 .. Len(s)
  BY <1>1, <1>2
<1>10. f2[Small] = mm[p]
  OBVIOUS
<1> HIDE DEF t, p, T
<1>12. t = << >> <=> Len(t) = 0
  BY <1>11, SMTT(30)
<1>3. t \in Seq(Arena) /\ Len(t) = Len(s) - 1 /\ (t = << >> <=> Len(t) = 0)
      /\ \A j \in 1 .. Len(t) : t[j] = s[j + 1] /\ j + 1 \in 1 .. Len(s)
  BY <1>11, <1>12
<1>4. f2[Small] = IF t = << >> THEN 0 ELSE t[1]
  <2>1. mm[s[1]] = IF 1 = Len(s) THEN 0 ELSE s[2]
    <3>1. \A j \in 1 .. Len(s) : mm[s[j]] = IF j = Len(s) THEN 0 ELSE s[j + 1]
      BY <1>1 DEF Chain
    <3>2. 1 + 1 = 2
      OBVIOUS
    <3> QED BY <1>2, <3>1, <3>2
  <2>2. CASE Len(s) = 1
    <3>1. t = << >>
      BY <1>3, <2>2
    <3> QED BY <1>2, <1>10, <2>1, <2>2, <3>1
  <2>3. CASE Len(s) # 1
    <3>1. 1 \in 1 .. Len(t) /\ t # << >> /\ t[1] = s[2]
      BY <1>2, <1>3, <2>3
    <3> QED BY <1>2, <1>10, <2>1, <2>3, <3>1
  <2> QED BY <2>2, <2>3
<1>5. Chain(mm, f2[Small], t)
  <2>1. \A j \in 1 .. Len(t) : mm[t[j]] = IF j = Len(t) THEN 0 ELSE t[j + 1]
    <3> SUFFICES ASSUME NEW j \in 1 .. Len(t) PROVE mm[t[j]] = IF j = Len(t) THEN 0 ELSE t[j + 1]
      OBVIOUS
    <3>1. mm[s[j + 1]] = IF j + 1 = Len(s) THEN 0 ELSE s[j + 1 + 1]
      BY <1>1, <1>3 DEF Chain
    <3>2. j # Len(t) => t[j + 1] = s[j + 1 + 1]
      BY <1>2, <1>3
    <3> QED BY <1>2, <1>3, <3>1, <3>2
  <2>2. \A j, k \in 1 .. Len(t) : t[j] = t[k] => j = k
    <3>1. \A j, k \in 1 .. Len(s) : s[j] = s[k] => j = k
      BY <1>1 DEF Chain
    <3> QED BY <1>2, <1>3, <3>1
  <2> QED BY <1>3, <1>4, <2>1, <2>2 DEF Chain
<1>6. Range(s) = {p} \cup Range(t) /\ p \notin Range(t)
  <2>1. DOMAIN s = 1 .. Len(s) /\ DOMAIN t = 1 .. Len(t)
    BY <1>1, <1>3
  <2>2. \A j \in 1 .. Len(s) : j = 1 \/ (j - 1 \in 1 .. Len(t) /\ s[j] = t[j - 1])
    BY <1>2, <1>3
  <2>3. \A j, k \in 1 .. Len(s) : s[j] = s[k] => j = k
    BY <1>1 DEF Chain
  <2>4. p \notin Range(t)
    <3> SUFFICES ASSUME p \in Range(t) PROVE FALSE
      OBVIOUS
    <3>1. PICK j \in 1 .. Len(t) : p = t[j]
      BY <2>1 DEF Range
    <3>2. s[j + 1] = s[1] /\ j + 1 \in 1 .. Len(s)
      BY <1>2, <1>3, <3>1
    <3>3. j + 1 = 1
      BY <1>2, <2>3, <3>2
    <3> QED BY <3>3
  <2>5. Range(s) \subseteq {p} \cup Range(t)
    BY <1>2, <2>1, <2>2, SMTT(30) DEF Range
  <2>6. {p} \cup Range(t) \subseteq Range(s)
    <3>1. p \in Range(s)
      BY <1>2, <2>1 DEF Range
    <3>2. ASSUME NEW q \in Range(t) PROVE q \in Range(s)
      <4>1. PICK j \in 1 .. Len(t) : q = t[j]
        BY <2>1 DEF Range
      <4>2. q = s[j + 1] /\ j + 1 \in 1 .. Len(s)
        BY <1>3, <4>1
      <4> QED BY <2>1, <4>2 DEF Range
    <3> QED BY <3>1, <3>2
  <2> QED BY <2>4, <2>5, <2>6
<1>7. OwnersOf(mm, vp, Range(t)) = T \ {FreeOwner(p)}
  <2> DEFINE A == {ClassOwner(vp, c) : c \in {c \in Classes : vp[c] # 0}}
             B == {BodyOwner(mm, vp, v) : v \in {v \in Vars : Bodied(mm, vp, v)}}
             D(F) == {FreeOwner(q) : q \in F}
  <2>1. FreeOwner(p) \notin A /\ FreeOwner(p) \notin B
    BY Names
  <2>2. D(Range(t)) = D(Range(s)) \ {FreeOwner(p)}
    BY <1>6, Names
  <2>3. T = A \cup B \cup D(Range(s)) /\ OwnersOf(mm, vp, Range(t)) = A \cup B \cup D(Range(t))
    BY DEF OwnersOf, T
  <2> HIDE DEF A, B, D
  <2> QED BY <2>1, <2>2, <2>3
<1>8. Tiled(OwnersOf(mm, vp, Range(t)) \cup Just(p, Small), hp)
  <2>1. T \cup {} = T
    OBVIOUS
  <2>2. Tiled(T, hp)
    BY <2>1 DEF Well, T
  <2>3. FreeOwner(p) \in T
    BY <1>6 DEF OwnersOf, T
  <2>4. WordsOf(Loose(p, Small)) = WordsOf(FreeOwner(p))
    BY OwnWords
  <2> QED BY <1>7, <2>2, <2>3, <2>4, RenameTiles DEF Just
<1>9. mm[p] \in {0} \cup Arena
  BY First DEF p
<1> QED BY <1>2, <1>5, <1>8, <1>9 DEF Well, p, t

(* What a class block holds is no part of a loose body.                    *)
LEMMA Aside ==
  ASSUME NEW mm, NEW hp, NEW vp, NEW ff, NEW s, NEW X, Well(mm, hp, vp, ff, s, X), NEW p, NEW n,
         Loose(p, n) \in X, NEW c \in Classes, vp[c] # 0, NEW a \in Extent(vp[c], ClassSize)
  PROVE  a \notin Extent(p, n)
<1>1. ClassOwner(vp, c) \in OwnersOf(mm, vp, Range(s)) \cup X /\ Loose(p, n) \in OwnersOf(mm, vp, Range(s)) \cup X
  BY DEF OwnersOf
<1>2. ClassOwner(vp, c) # Loose(p, n)
  BY Names
<1>3. WordsOf(ClassOwner(vp, c)) \cap WordsOf(Loose(p, n)) = {}
  BY <1>1, <1>2 DEF Well, Tiled
<1> QED BY <1>3, OwnWords

(* A body, from the free list or carved, is cleared and loose (SALLOC).    *)
Taken(h, g, n) ==
  \E t : /\ At(g) \in Arena /\ WellIn(g, t, Just(At(g), n)) /\ \A a \in Extent(At(g), n) : Mem(g)[a] = 0
         /\ \A a \in Arena : a \notin Extent(At(g), n) => Mem(g)[a] = Mem(h)[a]

(* A body is taken off its free list or carved, and cleared, or there is   *)
(* no room for one (focal.s SALLOC).                                       *)
LEMMA SallocIs ==
  ASSUME NEW h \in Record, NEW s, WellIn(h, s, {}), Ok(h), NEW n \in Sizes,
         NEW g, g = SALLOC(h, n)
  PROVE  /\ g \in Record /\ Vp(g) = Vp(h) /\ Later(h, g)
         /\ ~Ok(g) => WellIn(g, s, {}) /\ Mem(g) = Mem(h)
         /\ Ok(g) => Taken(h, g, n)
<1>1. n \in Nat \ {0}
  BY SizesAre
<1>2. CASE Fl(h)[n] = 0
  <2>1. g = Cleared(HCARVE(h, n), n)
    BY <1>2, Zenon DEF SALLOC, Fl
  <2>2. g \in Record /\ Vp(g) = Vp(h) /\ Later(h, g)
    BY <1>1, <2>1, CarveIs
  <2>3. ~Ok(g) => WellIn(g, s, {}) /\ Mem(g) = Mem(h)
    BY <1>1, <2>1, CarveIs
  <2>4. Ok(g) => /\ At(g) \in Arena /\ WellIn(g, s, Just(At(g), n))
                 /\ \A a \in Extent(At(g), n) : Mem(g)[a] = 0
    BY <1>1, <2>1, CarveIs
  <2>5. ASSUME Ok(g), NEW a \in Arena, a \notin Extent(At(g), n) PROVE Mem(g)[a] = Mem(h)[a]
    BY <1>1, <2>1, <2>5, CarveIs
  <2>6. Ok(g) => Taken(h, g, n)
    BY <2>4, <2>5 DEF Taken
  <2> QED BY <2>2, <2>3, <2>6
<1>3. CASE Fl(h)[n] # 0
  <2>1. n = Small
    BY <1>3, SizesAre DEF WellIn, Well
  <2> DEFINE p == Fl(h)[Small]
             q == Mem(h)[p]
             k == Popped(h, Small, q, p)
             ws == Zeros(Small)
  <2>2. Well(Mem(h), Hp(h), Vp(h), Fl(h), s, {})
    BY DEF WellIn
  <2>3. p \in Arena /\ q \in {0} \cup Arena /\ p \in Nat
    <3>1. Fl(h)[Small] # 0
      BY <1>3, <2>1
    <3>2. Fl(h)[Small] \in Arena /\ Mem(h)[Fl(h)[Small]] \in {0} \cup Arena
      BY <2>2, <3>1, First
    <3> QED BY <3>2, Constants DEF Arena
  <2> HIDE DEF p, q, k, ws
  <2>4. /\ k \in Record /\ Mem(k) = Mem(h) /\ Hp(k) = Hp(h) /\ Vp(k) = Vp(h) /\ At(k) = p /\ (Ok(k) <=> Ok(h))
        /\ Fl(k)[Small] = q /\ \A j \in Sizes : j # Small => Fl(k)[j] = Fl(h)[j]
    <3>1. k = Popped(h, Small, q, p) /\ Small \in Sizes
      BY SizesAre DEF k
    <3>21. k \in Record
      BY <2>3, <3>1, PoppedIs
    <3>22. Mem(k) = Mem(h)
      BY <2>3, <3>1, PoppedIs
    <3>23. Hp(k) = Hp(h) /\ Vp(k) = Vp(h)
      BY <2>3, <3>1, PoppedIs
    <3>24. At(k) = p /\ (Ok(k) <=> Ok(h))
      BY <2>3, <3>1, PoppedIs
    <3>2. k \in Record /\ Mem(k) = Mem(h) /\ Hp(k) = Hp(h) /\ Vp(k) = Vp(h) /\ At(k) = p /\ (Ok(k) <=> Ok(h))
      BY <3>21, <3>22, <3>23, <3>24
    <3>3. Fl(k)[Small] = q /\ \A j \in Sizes : j # Small => Fl(k)[j] = Fl(h)[j]
      BY <2>3, <3>1, PoppedIs
    <3> QED BY <3>2, <3>3
  <2>5. WellIn(k, Tail(s), Just(p, Small))
    <3> DEFINE f2 == Fl(k)
               ff == Fl(h)
    <3>4. Fl(k) \in [Sizes -> {0} \cup Arena]
      BY <2>4, Fields
    <3>5. Fl(k)[Small] = Mem(h)[Fl(h)[Small]] /\ Fl(h)[Small] # 0
      BY <1>3, <2>1, <2>4 DEF p, q
    <3>6. Fl(k)[Large] = Fl(h)[Large]
      BY <2>4, SizesAre, Constants
    <3>1. f2 \in [Sizes -> {0} \cup Arena] /\ f2[Small] = Mem(h)[ff[Small]] /\ f2[Large] = ff[Large] /\ ff[Small] # 0
      BY <3>4, <3>5, <3>6
    <3>2. Well(Mem(h), Hp(h), Vp(h), ff, s, {})
      BY <2>2
    <3> HIDE DEF f2, ff
    <3>3. Well(Mem(h), Hp(h), Vp(h), f2, Tail(s), Just(ff[Small], Small))
      BY <3>1, <3>2, Pop
    <3> QED BY <2>4, <3>3 DEF WellIn, f2, ff, p
  <2>6. g = Stored(k, p, ws)
    <3>1. g = Cleared(k, Small)
      BY <1>3, <2>1, Zenon DEF SALLOC, HeadNext, Fl, Mem, Popped, k, q, p
    <3> QED BY <2>4, <3>1, Zenon DEF Cleared, Ok, At, Stored, ws
  <2>7. ws \in Seq(Nat) /\ Len(ws) = Small /\ Len(ws) <= Small /\ \A j \in 1 .. Small : ws[j] = 0
    BY Zeroed, Constants DEF ws
  <2>8. /\ g \in Record /\ Mem(g) = Written(Mem(k), p, ws) /\ Hp(g) = Hp(k) /\ Vp(g) = Vp(k)
        /\ Fl(g) = Fl(k) /\ At(g) = At(k) /\ (Ok(g) <=> Ok(k))
    BY <2>3, <2>4, <2>6, <2>7, StoredIs
  <2> DEFINE X == Just(p, Small)
             mm == Mem(k)
             m2 == Mem(g)
  <2>9. Well(mm, Hp(k), Vp(k), Fl(k), Tail(s), X) /\ Loose(p, Small) \in X /\ m2 = Written(mm, p, ws)
    BY <2>5, <2>8 DEF WellIn, Just
  <2> HIDE DEF X, mm, m2
  <2>10. Well(m2, Hp(k), Vp(k), Fl(k), Tail(s), X)
    BY <1>1, <2>1, <2>3, <2>7, <2>9, LooseWrite
  <2>11. \A a \in Arena : a \notin Extent(p, Small) => m2[a] = mm[a]
    BY <1>1, <2>1, <2>3, <2>7, <2>9, LooseWrite
  <2>12. Hp(h) <= p
    <3>1. X \subseteq OwnersOf(mm, Vp(k), Range(Tail(s))) \cup X /\ WordsOf(Loose(p, Small)) = Extent(p, Small)
      BY OwnWords
    <3>2. Hp(k) <= p
      BY <1>1, <2>1, <2>3, <2>9, <3>1, Inside
    <3> QED BY <2>4, <3>2
  <2>13. Later(h, g)
    <3>1. \A a \in Arena : a < Hp(h) => a \notin Extent(p, Small)
      BY <2>3, <2>12, Fields, Constants DEF Extent, Arena
    <3>2. Hp(g) = Hp(h) /\ Hp(h) \in Nat
      BY <2>4, <2>8, Fields
    <3> QED BY <2>4, <2>11, <3>1, <3>2 DEF Later, mm, m2
  <2>14. WellIn(g, Tail(s), Just(p, Small))
    BY <2>8, <2>10 DEF WellIn, X, m2
  <2>16. \A a \in Extent(p, Small) : m2[a] = 0
    <3>1. \A a \in Arena : a \in p .. p + Len(ws) - 1 => m2[a] = ws[a - p + 1]
      BY <1>1, <2>1, <2>3, <2>7, <2>9, LooseWrite
    <3>2. Extent(p, Small) \subseteq Arena
      <4>1. Loose(p, Small) \in OwnersOf(mm, Vp(k), Range(Tail(s))) \cup X /\ WordsOf(Loose(p, Small)) = Extent(p, Small)
        BY <2>9, OwnWords
      <4> QED BY <1>1, <2>1, <2>3, <2>9, <4>1, Inside
    <3>3. \A a \in Extent(p, Small) : a \in p .. p + Small - 1 /\ a - p + 1 \in 1 .. Small
      BY <2>3, Constants DEF Extent
    <3> QED BY <2>7, <3>1, <3>2, <3>3
  <2>15. Taken(h, g, n)
    BY <2>1, <2>3, <2>4, <2>8, <2>11, <2>14, <2>16 DEF Taken, mm, m2
  <2> QED BY <2>4, <2>8, <2>13, <2>15
<1> QED BY <1>2, <1>3

(* A descriptor is made to point to p, a body of n words.                  *)
LEMMA Pointed ==
  ASSUME NEW mm, NEW hp, NEW vp, NEW ff, NEW s, NEW X, Well(mm, hp, vp, ff, s, X),
         NEW v \in Vars, vp[v[1]] # 0, NEW p \in Arena, NEW n \in Sizes,
         NEW m2, m2 = Written(mm, Place(vp, v) + 1, <<p, n>>)
  PROVE  /\ m2 \in [Arena -> Nat] /\ m2[Place(vp, v) + 1] = p /\ m2[Place(vp, v) + 2] = n
         /\ Place(vp, v) + 1 \in Arena /\ Place(vp, v) + 2 \in Arena
         /\ \A a \in Arena : a # Place(vp, v) + 1 /\ a # Place(vp, v) + 2 => m2[a] = mm[a]
         /\ Chain(m2, ff[Small], s)
         /\ \A w \in Vars : Bodied(m2, vp, w) => m2[Place(vp, w) + 2] \in Sizes
         /\ Bodied(m2, vp, v) /\ WordsOf(BodyOwner(m2, vp, v)) = Extent(p, n)
         /\ \A F : OwnersOf(m2, vp, F) = (OwnersOf(mm, vp, F) \ {BodyOwner(mm, vp, v)}) \cup {BodyOwner(m2, vp, v)}
<1> DEFINE d == Place(vp, v)
           ws == <<p, n>>
<1>1. mm \in [Arena -> Nat] /\ vp \in [Classes -> {0} \cup Arena] /\ v[1] \in Classes /\ d \in Nat
  BY PlaceIn DEF Well
<1>2. d + 1 \in Extent(vp[v[1]], ClassSize) /\ d + 2 \in Extent(vp[v[1]], ClassSize)
  <2>1. 1 \in 0 .. 3 /\ 2 \in 0 .. 3
    OBVIOUS
  <2> QED BY <1>1, <2>1, PlaceIn
<1>3. p \in Nat /\ p # 0 /\ n \in Nat
  BY SizesAre, Constants DEF Arena
<1>4. ws \in Seq(Nat) /\ Len(ws) = 2 /\ ws[1] = p /\ ws[2] = n
  BY <1>3
<1> HIDE DEF ws, d
<1>5. ClassOwner(vp, v[1]) \in OwnersOf(mm, vp, Range(s)) \cup X
  BY <1>1 DEF OwnersOf
<1>6. Extent(vp[v[1]], ClassSize) \subseteq Arena
  <2>1. vp[v[1]] \in Nat /\ WordsOf(ClassOwner(vp, v[1])) = Extent(vp[v[1]], ClassSize)
    BY <1>1, OwnWords, Constants DEF Arena
  <2> QED BY <1>5, <2>1, Constants, Inside
<1>7. d + 1 \in Nat /\ d + 1 \in Arena /\ d + 2 \in Arena
  BY <1>1, <1>2, <1>6
<1> DEFINE e == d + 1
<1>8. m2 = Written(mm, e, ws) /\ e \in Nat
  BY <1>7 DEF d, ws
<1> HIDE DEF e
<1>30. Written(mm, e, ws) \in [Arena -> Nat]
  BY <1>1, <1>4, <1>8, WrittenIs
<1>31. \A x \in Arena : x \in e .. e + Len(ws) - 1 => Written(mm, e, ws)[x] = ws[x - e + 1]
  BY <1>1, <1>4, <1>8, WrittenIs
<1>32. \A x \in Arena : x \notin e .. e + Len(ws) - 1 => Written(mm, e, ws)[x] = mm[x]
  BY <1>1, <1>4, <1>8, WrittenIs
<1>9. m2 \in [Arena -> Nat]
  BY <1>8, <1>30
<1>10. \A a \in Arena : a \in d + 1 .. d + 1 + 2 - 1 => m2[a] = ws[a - (d + 1) + 1]
  BY <1>4, <1>8, <1>31 DEF e
<1>11. \A a \in Arena : a \notin d + 1 .. d + 1 + 2 - 1 => m2[a] = mm[a]
  BY <1>4, <1>8, <1>32 DEF e
<1>12. m2[d + 1] = p /\ m2[d + 2] = n
  <2>1. d + 1 \in d + 1 .. d + 1 + 2 - 1 /\ d + 2 \in d + 1 .. d + 1 + 2 - 1
        /\ (d + 1) - (d + 1) + 1 = 1 /\ (d + 2) - (d + 1) + 1 = 2
    BY <1>1
  <2> QED BY <1>4, <1>7, <1>10, <2>1
<1>13. \A a \in Arena : a # d + 1 /\ a # d + 2 => m2[a] = mm[a]
  <2>1. \A a \in Arena : a # d + 1 /\ a # d + 2 => a \notin d + 1 .. d + 1 + 2 - 1
    BY <1>1, Constants DEF Arena
  <2> QED BY <1>11, <2>1
<1>14. \A q \in Range(s) : q \in Arena /\ q # d + 1 /\ q # d + 2
  <2> SUFFICES ASSUME NEW q \in Range(s) PROVE q \in Arena /\ q # d + 1 /\ q # d + 2
    OBVIOUS
  <2>1. FreeOwner(q) \in OwnersOf(mm, vp, Range(s)) \cup X
    BY DEF OwnersOf
  <2>2. WordsOf(FreeOwner(q)) \cap WordsOf(ClassOwner(vp, v[1])) = {}
    BY <1>5, <2>1, Names DEF Well, Tiled
  <2>3. q \in Arena
    BY DEF Range, Well, Chain
  <2>4. q \in WordsOf(FreeOwner(q))
    BY <2>3, OwnWords, Constants DEF Extent, Arena
  <2> QED BY <1>2, <2>2, <2>3, <2>4, OwnWords
<1>15. Chain(m2, ff[Small], s)
  <2>1. \A j \in 1 .. Len(s) : s[j] \in Range(s)
    BY DEF Well, Chain, Range
  <2>2. Chain(mm, ff[Small], s)
    BY DEF Well
  <2>3. \A j \in 1 .. Len(s) : m2[s[j]] = mm[s[j]]
    BY <1>13, <1>14, <2>1
  <2> QED BY <2>2, <2>3 DEF Chain
<1>16. ASSUME NEW c \in Classes, vp[c] # 0, NEW a \in Extent(vp[c], ClassSize), a # d + 1, a # d + 2
       PROVE  m2[a] = mm[a]
  <2>1. ClassOwner(vp, c) \in OwnersOf(mm, vp, Range(s)) \cup X
    BY <1>16 DEF OwnersOf
  <2>2. vp[c] \in Nat /\ WordsOf(ClassOwner(vp, c)) = Extent(vp[c], ClassSize)
    BY <1>1, OwnWords, Constants DEF Arena
  <2>3. Extent(vp[c], ClassSize) \subseteq Arena
    BY <2>1, <2>2, Constants, Inside
  <2> QED BY <1>13, <1>16, <2>3
<1>17. \A F : OwnersOf(m2, vp, F) = (OwnersOf(mm, vp, F) \ {BodyOwner(mm, vp, v)}) \cup {BodyOwner(m2, vp, v)}
  BY <1>3, <1>12, <1>16, Redirect DEF d
<1>18. \A w \in Vars : w # v /\ Bodied(m2, vp, w) => Bodied(mm, vp, w) /\ m2[Place(vp, w) + 2] = mm[Place(vp, w) + 2]
  BY <1>3, <1>12, <1>16, Redirect DEF d
<1>19. \A w \in Vars : Bodied(m2, vp, w) => m2[Place(vp, w) + 2] \in Sizes
  BY <1>12, <1>18 DEF Well, d
<1>20. Bodied(m2, vp, v) /\ WordsOf(BodyOwner(m2, vp, v)) = Extent(p, n)
  BY <1>3, <1>12, OwnWords DEF Bodied, d
<1> QED BY <1>7, <1>9, <1>12, <1>13, <1>15, <1>17, <1>19, <1>20 DEF d

(* A loose body becomes that of a name without one (focal.s VBODY).        *)
LEMMA Given ==
  ASSUME NEW mm, NEW hp, NEW vp, NEW ff, NEW s, NEW p \in Arena, NEW n \in Sizes,
         Well(mm, hp, vp, ff, s, Just(p, n)),
         NEW v \in Vars, vp[v[1]] # 0, ~Bodied(mm, vp, v),
         NEW m2, m2 = Written(mm, Place(vp, v) + 1, <<p, n>>)
  PROVE  Well(m2, hp, vp, ff, s, {}) /\ Bodied(m2, vp, v) /\ m2[Place(vp, v) + 1] = p
<1> DEFINE T == OwnersOf(mm, vp, Range(s))
           T2 == OwnersOf(m2, vp, Range(s))
           old == BodyOwner(mm, vp, v)
           new == BodyOwner(m2, vp, v)
           r == Loose(p, n)
<1>1. /\ m2 \in [Arena -> Nat] /\ m2[Place(vp, v) + 1] = p
      /\ Chain(m2, ff[Small], s)
      /\ Bodied(m2, vp, v) /\ WordsOf(new) = Extent(p, n)
  BY Pointed
<1>2. \A w \in Vars : Bodied(m2, vp, w) => m2[Place(vp, w) + 2] \in Sizes
  BY Pointed
<1>3. T2 = (T \ {old}) \cup {new}
  BY Pointed
<1>4. old \notin T
  <2> SUFFICES ASSUME old \in T PROVE FALSE
    OBVIOUS
  <2>1. PICK w \in Vars : Bodied(mm, vp, w) /\ old = BodyOwner(mm, vp, w)
    BY Names DEF OwnersOf
  <2>2. v = w
    BY <2>1, BodyNames
  <2> QED BY <2>1, <2>2
<1>5. r \notin T /\ WordsOf(r) = WordsOf(new) /\ Tiled(T \cup {r}, hp)
  <2>1. r \notin T
    BY Names DEF OwnersOf
  <2>2. Tiled(T \cup {r}, hp)
    BY DEF Well, Just
  <2> QED BY <1>1, <2>1, <2>2, OwnWords
<1> HIDE DEF T, T2, old, new, r
<1>6. T2 = ((T \cup {r}) \ {r}) \cup {new} /\ r \in T \cup {r}
  BY <1>3, <1>4, <1>5
<1>7. Tiled(T2, hp)
  BY <1>5, <1>6, RenameTiles
<1>8. Tiled(OwnersOf(m2, vp, Range(s)) \cup {}, hp)
  BY <1>7 DEF T2
<1> QED BY <1>1, <1>2, <1>8 DEF Well

(* A name's small body gives way to a loose large one.                     *)
LEMMA Swap ==
  ASSUME NEW mm, NEW hp, NEW vp, NEW ff, NEW s, NEW p \in Arena,
         Well(mm, hp, vp, ff, s, Just(p, Large)),
         NEW v \in Vars, vp[v[1]] # 0, Bodied(mm, vp, v), mm[Place(vp, v) + 2] = Small,
         NEW old, old = mm[Place(vp, v) + 1],
         NEW m2, m2 = Written(mm, Place(vp, v) + 1, <<p, Large>>)
  PROVE  Well(m2, hp, vp, ff, s, Just(old, Small)) /\ Bodied(m2, vp, v)
<1> DEFINE T == OwnersOf(mm, vp, Range(s))
           T2 == OwnersOf(m2, vp, Range(s))
           r == BodyOwner(mm, vp, v)
           new == BodyOwner(m2, vp, v)
           lp == Loose(p, Large)
           lo == Loose(old, Small)
<1>10. Large \in Sizes
  BY SizesAre
<1>1. /\ m2 \in [Arena -> Nat]
      /\ Chain(m2, ff[Small], s)
      /\ Bodied(m2, vp, v) /\ WordsOf(new) = Extent(p, Large)
  BY <1>10, Pointed
<1>2. \A w \in Vars : Bodied(m2, vp, w) => m2[Place(vp, w) + 2] \in Sizes
  BY <1>10, Pointed
<1>3. T2 = (T \ {r}) \cup {new}
  BY <1>10, Pointed
<1>4. /\ r \in T /\ lp \notin T /\ lp # r /\ Tiled(T \cup {lp}, hp)
      /\ WordsOf(lp) = WordsOf(new) /\ WordsOf(r) = WordsOf(lo)
  <2>1. r \in T
    BY DEF OwnersOf
  <2>2. lp \notin T /\ lp # r
    BY Names DEF OwnersOf
  <2>3. Tiled(T \cup {lp}, hp)
    BY DEF Well, Just
  <2>4. WordsOf(r) = WordsOf(lo)
    BY OwnWords
  <2> QED BY <1>1, <2>1, <2>2, <2>3, <2>4, OwnWords
<1>5. p \in WordsOf(lp)
  BY OwnWords, Constants DEF Extent, Arena
<1> HIDE DEF T, T2, r, new, lp, lo
<1>6. new # r
  BY <1>4, <1>5 DEF Tiled
<1>7. Tiled(((T \cup {lp}) \ {lp}) \cup {new}, hp)
  BY <1>4, RenameTiles
<1>8. ((T \cup {lp}) \ {lp}) \cup {new} = T \cup {new}
  BY <1>4
<1>9. Tiled(((T \cup {new}) \ {r}) \cup {lo}, hp)
  <2>1. r \in T \cup {new}
    BY <1>4
  <2> QED BY <1>4, <1>7, <1>8, <2>1, RenameTiles
<1>11. ((T \cup {new}) \ {r}) \cup {lo} = T2 \cup {lo}
  BY <1>3, <1>6
<1>12. Tiled(OwnersOf(m2, vp, Range(s)) \cup Just(old, Small), hp)
  BY <1>9, <1>11 DEF T2, lo, Just
<1> QED BY <1>1, <1>2, <1>12 DEF Well

(* A loose small body is put on the free list (focal.s SFREE).             *)
LEMMA Give ==
  ASSUME NEW m2, NEW hp, NEW vp, NEW ff, NEW s, NEW p \in Arena,
         Well(m2, hp, vp, ff, s, Just(p, Small)), m2[p] = ff[Small],
         NEW f2 \in [Sizes -> {0} \cup Arena], f2[Small] = p, f2[Large] = ff[Large]
  PROVE  \E t : Well(m2, hp, vp, f2, t, {})
<1> DEFINE X == Just(p, Small)
           t == <<p>> \o s
           T == OwnersOf(m2, vp, Range(s))
           r == Loose(p, Small)
           q == FreeOwner(p)
<1>1. ff \in [Sizes -> {0} \cup Arena] /\ ff[Small] \in Nat /\ p \in Nat /\ Small \in Nat \ {0}
  BY SizesAre, Constants DEF Well, Arena
<1>3. r \in X
  BY DEF Just
<1>5. Well(m2, hp, vp, ff, s, X)
  OBVIOUS
<1>7. m2[p] = ff[Small]
  OBVIOUS
<1> HIDE DEF X
<1>8. p \notin Range(s)
  <2> SUFFICES ASSUME p \in Range(s) PROVE FALSE
    OBVIOUS
  <2>1. q \in T \cup X /\ r \in T \cup X /\ q # r
    BY <1>3, Names DEF OwnersOf
  <2>2. WordsOf(q) \cap WordsOf(r) = {}
    BY <1>5, <2>1 DEF Well, Tiled
  <2>3. p \in WordsOf(q) /\ p \in WordsOf(r)
    BY <1>1, OwnWords DEF Extent
  <2> QED BY <2>2, <2>3
<1>9. Chain(m2, ff[Small], s) /\ s \in Seq(Arena)
  BY <1>5 DEF Well, Chain
<1>10. /\ t \in Seq(Arena) /\ Len(t) = Len(s) + 1 /\ t[1] = p /\ Len(s) \in Nat
       /\ \A j \in 1 .. Len(s) : t[j + 1] = s[j]
  BY <1>9
<1> HIDE DEF t
<1>11. t # << >> /\ DOMAIN t = 1 .. Len(t) /\ DOMAIN s = 1 .. Len(s)
  BY <1>9, <1>10
<1>12. \A j \in 1 .. Len(t) : j = 1 \/ (j - 1 \in 1 .. Len(s) /\ t[j] = s[j - 1])
  <2> SUFFICES ASSUME NEW j \in 1 .. Len(t), j # 1 PROVE j - 1 \in 1 .. Len(s) /\ t[j] = s[j - 1]
    OBVIOUS
  <2>1. j - 1 \in 1 .. Len(s) /\ (j - 1) + 1 = j
    BY <1>10
  <2> QED BY <1>10, <2>1
<1>13. \A j \in 1 .. Len(s) : s[j] \in Range(s)
  BY <1>11 DEF Range
<1>14. \A j, k \in 1 .. Len(t) : t[j] = t[k] => j = k
  <2>1. \A j, k \in 1 .. Len(s) : s[j] = s[k] => j = k
    BY <1>9 DEF Chain
  <2> SUFFICES ASSUME NEW j \in 1 .. Len(t), NEW k \in 1 .. Len(t), t[j] = t[k] PROVE j = k
    OBVIOUS
  <2>2. CASE j = 1 /\ k = 1
    BY <2>2
  <2>3. CASE j = 1 /\ k # 1
    BY <1>8, <1>10, <1>12, <1>13, <2>3
  <2>4. CASE j # 1 /\ k = 1
    BY <1>8, <1>10, <1>12, <1>13, <2>4
  <2>5. CASE j # 1 /\ k # 1
    <3>1. s[j - 1] = s[k - 1] /\ j - 1 \in 1 .. Len(s) /\ k - 1 \in 1 .. Len(s)
      BY <1>12, <2>5
    <3>2. j - 1 = k - 1
      BY <2>1, <3>1
    <3> QED BY <1>10, <3>2
  <2> QED BY <2>2, <2>3, <2>4, <2>5
<1>15. \A j \in 1 .. Len(t) : m2[t[j]] = IF j = Len(t) THEN 0 ELSE t[j + 1]
  <2> SUFFICES ASSUME NEW j \in 1 .. Len(t) PROVE m2[t[j]] = IF j = Len(t) THEN 0 ELSE t[j + 1]
    OBVIOUS
  <2>1. CASE j = 1
    <3>1. ff[Small] = IF s = << >> THEN 0 ELSE s[1]
      BY <1>9 DEF Chain
    <3>2. s = << >> <=> Len(s) = 0
      BY <1>9
    <3>3. Len(s) # 0 => 1 \in 1 .. Len(s) /\ t[1 + 1] = s[1]
      BY <1>10
    <3> QED BY <1>7, <1>10, <2>1, <3>1, <3>2, <3>3
  <2>2. CASE j # 1
    <3>1. j - 1 \in 1 .. Len(s) /\ t[j] = s[j - 1]
      BY <1>12, <2>2
    <3>2. m2[s[j - 1]] = IF j - 1 = Len(s) THEN 0 ELSE s[j - 1 + 1]
      BY <1>9, <3>1 DEF Chain
    <3>3. j # Len(t) => j \in 1 .. Len(s) /\ t[j + 1] = s[j]
      BY <1>10
    <3>4. j - 1 = Len(s) <=> j = Len(t)
      BY <1>10
    <3>5. j - 1 + 1 = j
      BY <1>10
    <3> QED BY <3>1, <3>2, <3>3, <3>4, <3>5
  <2> QED BY <2>1, <2>2
<1>16. Chain(m2, f2[Small], t)
  BY <1>10, <1>11, <1>14, <1>15 DEF Chain
<1>17. Range(t) = Range(s) \cup {p}
  <2>1. ASSUME NEW y \in Range(t) PROVE y \in Range(s) \cup {p}
    <3>1. PICK j \in 1 .. Len(t) : y = t[j]
      BY <1>11 DEF Range
    <3> QED BY <1>10, <1>12, <1>13, <3>1
  <2>2. p \in Range(t)
    <3>1. 1 \in 1 .. Len(t)
      BY <1>10
    <3> QED BY <1>10, <1>11, <3>1 DEF Range
  <2>3. ASSUME NEW y \in Range(s) PROVE y \in Range(t)
    <3>1. PICK j \in 1 .. Len(s) : y = s[j]
      BY <1>11 DEF Range
    <3>2. j + 1 \in 1 .. Len(t) /\ t[j + 1] = y
      BY <1>10, <3>1
    <3> QED BY <1>11, <3>2 DEF Range
  <2> QED BY <2>1, <2>2, <2>3
<1>18. OwnersOf(m2, vp, Range(t)) = T \cup {q}
  BY <1>17 DEF OwnersOf
<1>19. r \notin T /\ WordsOf(q) = WordsOf(r) /\ Tiled(T \cup {r}, hp)
  <2>1. r \notin T
    BY Names DEF OwnersOf
  <2>2. Tiled(T \cup {r}, hp)
    BY <1>5 DEF Well, Just, X
  <2> QED BY <2>1, <2>2, OwnWords
<1> HIDE DEF T, q, r
<1>20. ((T \cup {r}) \ {r}) \cup {q} = T \cup {q} /\ r \in T \cup {r}
  BY <1>19
<1>21. Tiled(T \cup {q}, hp)
  BY <1>19, <1>20, RenameTiles
<1>22. Tiled(OwnersOf(m2, vp, Range(t)) \cup {}, hp)
  BY <1>18, <1>21
<1>23. Well(m2, hp, vp, f2, t, {})
  BY <1>5, <1>16, <1>22 DEF Well
<1> QED BY <1>23

-----------------------------------------------------------------------------
(* Strings, and the routines that find, make and move bodies.              *)

(* A string read is a sequence of words, wherever it starts (focal.s       *)
(* STRLEN).                                                                *)
LEMMA StringIs ==
  ASSUME NEW mm \in [Arena -> Nat], NEW p \in Arena
  PROVE  StringAt(mm, p) \in Seq(Nat)
<1> USE Constants
<1> DEFINE S == {j \in 0 .. Top - p : p + j = Top \/ mm[p + j] = 0}
           n == Least(S)
<1>1. p \in Nat /\ Top - p \in S /\ S \subseteq Nat
  BY DEF Arena
<1>2. n \in S
  <2> HIDE DEF S
  <2> QED BY <1>1, LeastIs
<1>3. n \in Nat /\ n <= Top - p
  BY <1>1, <1>2
<1> HIDE DEF n, S
<1>4. \A j \in 1 .. n : p + j - 1 \in Arena
  BY <1>1, <1>3 DEF Arena
<1>5. \A j \in 1 .. n : mm[p + j - 1] \in Nat
  BY <1>4
<1>6. [j \in 1 .. n |-> mm[p + j - 1]] \in Seq(Nat)
  BY <1>3, <1>5
<1> QED BY <1>6 DEF StringAt, n, S

(* A text copied is cut at the limit and has its zero (focal.s SCOPY).     *)
LEMMA TerminatedIs ==
  ASSUME NEW s \in Seq(Nat), NEW n \in Nat
  PROVE  /\ Cut(s, n) \in Seq(Nat) /\ Len(Cut(s, n)) <= n
         /\ Terminated(s, n) \in Seq(Nat) /\ Len(Terminated(s, n)) = Len(Cut(s, n)) + 1
<1>1. Cut(s, n) \in Seq(Nat) /\ Len(Cut(s, n)) <= n
  <2>1. CASE Len(s) > n
    <3>1. SubSeq(s, 1, n) \in Seq(Nat) /\ Len(SubSeq(s, 1, n)) = n
      BY <2>1
    <3> QED BY <2>1, <3>1 DEF Cut
  <2>2. CASE ~(Len(s) > n)
    BY <2>2 DEF Cut
  <2> QED BY <2>1, <2>2
<1>2. ASSUME NEW c \in Seq(Nat) PROVE Append(c, 0) \in Seq(Nat) /\ Len(Append(c, 0)) = Len(c) + 1
  OBVIOUS
<1> QED BY <1>1, <1>2 DEF Terminated

Good(h) == h \in Record /\ \E s : WellIn(h, s, {})
After(h, g) == Good(g) /\ Later(h, g) /\ Vp(g) = Vp(h)

(* One routine after another, with the same blocks.                        *)
LEMMA AfterAgain ==
  ASSUME NEW h \in Record, NEW g, NEW k, After(h, g), After(g, k)
  PROVE  After(h, k)
<1>1. g \in Record /\ k \in Record /\ Later(h, g) /\ Later(g, k) /\ Vp(k) = Vp(h) /\ Good(k)
  BY DEF After, Good
<1> QED BY <1>1, LaterAgain DEF After

(* Words that fit are written into a name's body.                          *)
LEMMA StoreIn ==
  ASSUME NEW h \in Record, NEW s, WellIn(h, s, {}), NEW v \in Vars, Has(h, v),
         NEW ws \in Seq(Nat), Len(ws) <= RoomOf(h, v), NEW g, g = Stored(h, BodyOf(h, v), ws)
  PROVE  /\ After(h, g) /\ \A w \in Vars : w # v => Intact(h, g, w)
         /\ Mem(g) = Written(Mem(h), BodyOf(h, v), ws)
         /\ \A a \in Arena : a \notin Extent(BodyOf(h, v), RoomOf(h, v)) => Mem(g)[a] = Mem(h)[a]
<1> DEFINE p == BodyOf(h, v)
           n == RoomOf(h, v)
           r == BodyOwner(Mem(h), Vp(h), v)
           mm == Mem(h)
           m2 == Mem(g)
           X == {}
<1>1. /\ n \in Sizes /\ p \in Arena /\ Hp(h) <= p
      /\ r \in OwnersOf(mm, Vp(h), Range(s)) \cup X
      /\ WordsOf(r) = Extent(p, n)
  BY BodyIn
<1>2. p \in Nat /\ n \in Nat \ {0} /\ Hp(h) \in Nat
  <2>1. p \in Nat
    BY <1>1, Constants DEF Arena
  <2>2. n \in Nat \ {0}
    BY <1>1, SizesAre
  <2> QED BY <2>1, <2>2, Fields
<1>3. (\A c \in Classes : r # ClassOwner(Vp(h), c)) /\ (\A q \in Range(s) : r # FreeOwner(q))
  BY Names
<1>4. Well(mm, Hp(h), Vp(h), Fl(h), s, X)
  BY DEF WellIn
<1>5. g = Stored(h, p, ws) /\ Len(ws) <= n
  OBVIOUS
<1> HIDE DEF p, n, r, X
<1>6. /\ g \in Record /\ Mem(g) = Written(Mem(h), p, ws) /\ Hp(g) = Hp(h) /\ Vp(g) = Vp(h)
      /\ Fl(g) = Fl(h)
  BY <1>2, <1>5, StoredIs
<1>7. m2 = Written(mm, p, ws)
  BY <1>6
<1> HIDE DEF mm, m2
<1>8. Well(m2, Hp(h), Vp(h), Fl(h), s, X)
  BY <1>1, <1>2, <1>3, <1>4, <1>5, <1>7, BodyWrite
<1>9. \A a \in Arena : a \notin Extent(p, n) => m2[a] = mm[a]
  BY <1>1, <1>2, <1>3, <1>4, <1>5, <1>7, BodyWrite
<1>10. WellIn(g, s, {})
  BY <1>6, <1>8 DEF WellIn, m2, X
<1>11. Later(h, g)
  <2>1. \A a \in Arena : a < Hp(h) => a \notin Extent(p, n)
    BY <1>1, <1>2, Constants DEF Extent, Arena
  <2> QED BY <1>2, <1>6, <1>9, <2>1 DEF Later, mm, m2
<1>12. Mine(h, g, v) /\ Vp(h)[v[1]] # 0
  BY <1>9, BodyIn DEF Mine, mm, m2, p, n
<1>13. \A w \in Vars : w # v => Intact(h, g, w)
  BY <1>6, <1>12, BesideName
<1> QED BY <1>6, <1>9, <1>10, <1>11, <1>13 DEF After, Good, mm, m2, p, n

(* The body of a name's string, made for it when it has none (VBODY).      *)
LEMMA VbodyIs ==
  ASSUME NEW h \in Record, NEW s, WellIn(h, s, {}), Ok(h), NEW v \in Vars, Vp(h)[v[1]] # 0,
         NEW g, g = VBODY(h, v)
  PROVE  /\ After(h, g) /\ AllIntact(h, g) /\ Others(h, g, {}) /\ (Ok(g) => Has(g, v) /\ At(g) = BodyOf(g, v))
         /\ Has(h, v) => Same(h, g) /\ Ok(g)
<1> DEFINE vp == Vp(h)
           e == Place(vp, v) + 1
<1>1. PICK d : d = VDESC(h, v)
  OBVIOUS
<1>2. d \in Record /\ Later(h, d) /\ WellIn(d, s, {}) /\ Same(h, d) /\ Ok(d) /\ At(d) = Place(vp, v)
  <2>1. d \in Record /\ Later(h, d) /\ WellIn(d, s, {}) /\ Same(h, d) /\ Ok(d)
    BY <1>1, VdescIs
  <2>2. At(d) = Place(Vp(d), v)
    BY <1>1, <2>1, VdescIs
  <2> QED BY <2>1, <2>2 DEF Same
<1>3. PICK b : b = SALLOC(d, Small)
  OBVIOUS
<1>4. /\ b \in Record /\ Vp(b) = Vp(d) /\ Later(d, b)
      /\ ~Ok(b) => WellIn(b, s, {}) /\ Mem(b) = Mem(d)
      /\ Ok(b) => Taken(d, b, Small)
  BY <1>2, <1>3, SizesAre, SallocIs
<1>5. Vp(d) = vp /\ Mem(d) = Mem(h) /\ vp[v[1]] # 0 /\ Place(vp, v) \in Nat
  BY <1>2, Fields, PlaceIn DEF Same
<1> HIDE DEF vp, e
<1>6. CASE Has(h, v)
  <2>1. Mem(d)[At(d) + 1] = BodyOf(h, v) /\ BodyOf(h, v) # 0
    BY <1>2, <1>5, <1>6 DEF BodyOf, Has, Bodied, vp
  <2>2. g = Moved(d, BodyOf(h, v))
    BY <1>1, <1>2, <2>1, Zenon DEF VBODY, Ok, Mem, At, Moved
  <2>3. BodyOf(h, v) \in Nat
    BY <1>6, BodyIn, Constants DEF Arena
  <2>4. g \in Record /\ Same(d, g) /\ At(g) = BodyOf(h, v) /\ (Ok(g) <=> Ok(d))
    BY <1>2, <2>2, <2>3, MovedIs
  <2>5. Same(h, g)
    BY <1>2, <2>4 DEF Same
  <2>6. After(h, g)
    BY <2>4, <2>5, Fields DEF After, Good, Later, Same, WellIn
  <2>7. Has(g, v) /\ At(g) = BodyOf(g, v)
    BY <1>6, <2>4, <2>5 DEF Same, Has, BodyOf
  <2>8. AllIntact(h, g) /\ Others(h, g, {})
    BY <2>5, SameIntact DEF Same
  <2> QED BY <1>2, <2>4, <2>5, <2>6, <2>7, <2>8
<1>7. CASE ~Has(h, v)
  <2>1. Mem(d)[At(d) + 1] = 0
    BY <1>2, <1>5, <1>7 DEF Has, Bodied, vp
  <2>2. CASE ~Ok(b)
    <3>1. g = b
      BY <1>1, <1>2, <1>3, <2>1, <2>2, Zenon DEF VBODY, Ok, Mem, At
    <3>2. Later(h, b)
      BY <1>2, <1>4, LaterAgain
    <3>3. AllIntact(h, b) /\ Others(h, b, {})
      BY <1>4, <1>5, <2>2, SameIntact DEF vp
    <3> QED BY <1>4, <1>5, <1>7, <2>2, <3>1, <3>2, <3>3 DEF After, Good, vp
  <2>3. CASE Ok(b)
    <3>1. PICK t : /\ At(b) \in Arena /\ WellIn(b, t, Just(At(b), Small)) /\ \A a \in Extent(At(b), Small) : Mem(b)[a] = 0
                   /\ \A a \in Arena : a \notin Extent(At(b), Small) => Mem(b)[a] = Mem(d)[a]
      BY <1>4, <2>3 DEF Taken
    <3> DEFINE p == At(b)
               ws == <<p, Small>>
               mm == Mem(b)
               m2 == Mem(g)
    <3>2. g = Stored(b, At(d) + 1, ws)
      BY <1>1, <1>2, <1>3, <2>1, <2>3, Zenon DEF VBODY, Ok, Mem, At, Stored
    <3>3. ws \in Seq(Nat) /\ e \in Nat
      BY <1>5, <3>1, Constants DEF Arena, e
    <3>4. g = Stored(b, e, ws)
      BY <1>2, <3>2 DEF e
    <3>15. p \in Arena /\ At(b) = p
      BY <3>1
    <3> HIDE DEF ws, p
    <3>5. /\ g \in Record /\ Mem(g) = Written(Mem(b), e, ws) /\ Hp(g) = Hp(b) /\ Vp(g) = Vp(b)
          /\ Fl(g) = Fl(b) /\ At(g) = At(b) /\ (Ok(g) <=> Ok(b))
      BY <1>4, <3>3, <3>4, StoredIs
    <3>6. Vp(b) = vp
      BY <1>4, <1>5
    <3>7. m2 = Written(mm, Place(vp, v) + 1, <<p, Small>>)
      BY <3>5 DEF e, ws
    <3>8. Well(mm, Hp(b), vp, Fl(b), t, Just(p, Small))
      BY <3>1, <3>6 DEF WellIn, p
    <3>9. \A a \in Arena : a \notin Extent(p, Small) => mm[a] = Mem(h)[a]
      BY <1>5, <3>1 DEF p
    <3> HIDE DEF mm, m2
    <3>10. /\ Place(vp, v) + 1 \in Extent(vp[v[1]], ClassSize)
           /\ Place(vp, v) + 2 \in Extent(vp[v[1]], ClassSize) /\ v[1] \in Classes
      <4>1. vp \in [Classes -> {0} \cup Arena]
        BY Fields DEF vp
      <4>2. 1 \in 0 .. 3 /\ 2 \in 0 .. 3
        OBVIOUS
      <4> QED BY <4>1, <4>2, PlaceIn
    <3>11. ~Bodied(mm, vp, v)
      <4>1. Loose(p, Small) \in Just(p, Small)
        BY DEF Just
      <4>2. Place(vp, v) + 1 \notin Extent(p, Small)
        BY <1>5, <3>8, <3>10, <4>1, Aside
      <4>3. Place(vp, v) + 1 \in Arena
        BY <1>5, <3>7, <3>8, <3>15, SizesAre, Pointed
      <4>4. mm[Place(vp, v) + 1] = 0
        BY <1>2, <1>5, <2>1, <3>9, <4>2, <4>3
      <4> QED BY <4>4 DEF Bodied
    <3>12. Well(m2, Hp(b), vp, Fl(b), t, {}) /\ Bodied(m2, vp, v) /\ m2[Place(vp, v) + 1] = p
      BY <1>5, <3>7, <3>8, <3>11, <3>15, SizesAre, Given
    <3>13. Later(b, g)
      <4>1. \A a \in Arena : a # Place(vp, v) + 1 /\ a # Place(vp, v) + 2 => m2[a] = mm[a]
        BY <1>5, <3>7, <3>8, <3>15, SizesAre, Pointed
      <4>2. Hp(b) <= vp[v[1]] /\ Hp(b) \in Nat /\ vp[v[1]] \in Nat
        <5>1. ClassOwner(vp, v[1]) \in OwnersOf(mm, vp, Range(t)) \cup Just(p, Small)
          BY <1>5, <3>10 DEF OwnersOf
        <5>2. vp[v[1]] \in Nat
          BY <3>10, Fields, Constants DEF vp, Arena
        <5>3. WordsOf(ClassOwner(vp, v[1])) = Extent(vp[v[1]], ClassSize)
          BY OwnWords
        <5>4. Hp(b) <= vp[v[1]]
          BY <3>8, <5>1, <5>2, <5>3, Constants, Inside
        <5> QED BY <1>4, <5>2, <5>4, Fields
      <4>3. \A a \in Arena : a < Hp(b) => a # Place(vp, v) + 1 /\ a # Place(vp, v) + 2
        BY <3>10, <4>2, Constants DEF Extent, Arena
      <4> QED BY <3>5, <4>1, <4>2, <4>3 DEF Later, mm, m2
    <3>14. After(h, g)
      <4>1. Later(h, g)
        BY <1>2, <1>4, <3>5, <3>13, LaterAgain
      <4>2. WellIn(g, t, {})
        BY <3>5, <3>6, <3>12 DEF WellIn, m2
      <4> QED BY <3>5, <3>6, <4>1, <4>2 DEF After, Good, vp
    <3>16. Has(g, v) /\ At(g) = BodyOf(g, v) /\ BodyOf(g, v) = p
      BY <3>5, <3>6, <3>12, <3>15 DEF Has, BodyOf, m2
    <3>17. AllIntact(h, b) /\ Others(h, b, {})
      <4> DEFINE X == Just(p, Small)
      <4>1. WellIn(b, t, X) /\ Loose(p, Small) \in X
        BY <3>1 DEF Just, p
      <4>2. \A a \in Arena : a \notin Extent(p, Small) => Mem(b)[a] = Mem(h)[a]
        BY <3>9 DEF mm
      <4> HIDE DEF X
      <4> QED BY <1>4, <1>5, <4>1, <4>2, BesideLoose DEF vp
    <3>18. \A a \in Arena : a # Place(vp, v) + 1 /\ a # Place(vp, v) + 2 => m2[a] = mm[a]
      BY <1>5, <3>7, <3>8, <3>15, SizesAre, Pointed
    <3>19. Mine(b, g, v) /\ Vp(b)[v[1]] # 0 /\ Vp(g) = Vp(b)
      <4>1. 1 \in 0 .. 3 /\ 2 \in 0 .. 3
        OBVIOUS
      <4>2. \A a \in Arena : (\A k \in 0 .. 3 : a # Place(vp, v) + k) => m2[a] = mm[a]
        BY <3>18, <4>1
      <4> QED BY <1>5, <3>5, <3>6, <4>2 DEF Mine, mm, m2
    <3>20. ASSUME NEW w \in Vars, w # v
           PROVE  Intact(b, g, w) /\ (Has(b, w) => Has(g, w) /\ BodyOf(g, w) = BodyOf(b, w))
      <4> DEFINE X == Just(p, Small)
      <4>1. WellIn(b, t, X)
        BY <3>1 DEF p
      <4> HIDE DEF X
      <4> QED BY <1>4, <3>5, <3>19, <3>20, <4>1, BesideName
    <3>21. Intact(h, g, v)
      <4>1. p \in Extent(p, Small) /\ p \in Nat
        BY <3>15, Constants DEF Extent, Arena
      <4>2. mm[p] = 0
        BY <3>1, <4>1 DEF mm, p
      <4>3. p # Place(vp, v) + 1 /\ p # Place(vp, v) + 2
        <5>1. Loose(p, Small) \in Just(p, Small)
          BY DEF Just
        <5> QED BY <1>5, <3>8, <3>10, <4>1, <5>1, Aside
      <4>4. m2[p] = 0
        BY <3>15, <3>18, <4>2, <4>3
      <4>5. RoomOf(g, v) = Small
        <5>1. m2[Place(vp, v) + 2] = Small
          BY <1>5, <3>7, <3>8, <3>15, SizesAre, Pointed
        <5> QED BY <3>5, <3>6, <5>1 DEF RoomOf, m2
      <4>6. Stops(m2, p, 0)
        BY <3>15, <4>1, <4>4 DEF Stops
      <4>7. m2 \in [Arena -> Nat]
        BY <3>5, Fields DEF m2
      <4>8. StringAt(m2, p) = << >>
        <5>1. StringAt(m2, p) = [j \in 1 .. 0 |-> m2[p + j - 1]]
          BY <3>15, <4>6, <4>7, StringEnds
        <5> QED BY <5>1
      <4>9. Content(g, v) = << >> /\ Content(h, v) = << >>
        BY <1>7, <3>16, <4>8 DEF Content, m2
      <4>10. Ended(g, v)
        <5>1. 0 \in 0 .. RoomOf(g, v) - 1
          BY <4>5, Constants
        <5>2. Mem(g)[BodyOf(g, v) + 0] = 0
          BY <3>16, <4>1, <4>4 DEF m2
        <5> QED BY <5>1, <5>2 DEF Ended
      <4> QED BY <4>9, <4>10 DEF Intact
    <3>22. AllIntact(h, g)
      BY <3>17, <3>20, <3>21 DEF AllIntact, Intact
    <3>23. Others(h, g, {})
      BY <1>7, <3>17, <3>20 DEF Others
    <3> QED BY <1>7, <3>14, <3>16, <3>22, <3>23
  <2> QED BY <2>2, <2>3
<1> QED BY <1>6, <1>7

(* A small body too small is copied into a large one and freed (SGROW).    *)
LEMMA SgrowIs ==
  ASSUME NEW h \in Record, NEW s, WellIn(h, s, {}), Ok(h), NEW v \in Vars, Has(h, v),
         NEW n, NEW g, g = SGROW(h, v, n)
  PROVE  /\ After(h, g) /\ AllIntact(h, g) /\ Others(h, g, {v})
         /\ Ok(g) => Has(g, v) /\ ~TooSmall(RoomOf(g, v), n)
         /\ ~TooSmall(RoomOf(h, v), n) => g = h
<1> DEFINE vp == Vp(h)
           d == Place(vp, v)
           e == d + 1
           old == BodyOf(h, v)
<1>1. VDESC(h, v).at = d
  <2>1. PICK k : k = VDESC(h, v)
    OBVIOUS
  <2>2. Vp(h)[v[1]] # 0
    BY BodyIn
  <2>3. Same(h, k) /\ At(k) = Place(Vp(k), v)
    BY <2>1, <2>2, VdescIs
  <2>4. At(k) = d
    BY <2>3 DEF Same
  <2> QED BY <2>1, <2>4, Zenon DEF At
<1>2. /\ RoomOf(h, v) \in Sizes /\ old \in Arena /\ Hp(h) <= old /\ vp[v[1]] # 0
      /\ BodyOwner(Mem(h), Vp(h), v) \in OwnersOf(Mem(h), Vp(h), Range(s))
      /\ WordsOf(BodyOwner(Mem(h), Vp(h), v)) = Extent(old, RoomOf(h, v))
  BY BodyIn
<1>3. /\ vp \in [Classes -> {0} \cup Arena] /\ v[1] \in Classes /\ d \in Nat /\ e \in Nat
      /\ d + 1 \in Extent(vp[v[1]], ClassSize) /\ d + 2 \in Extent(vp[v[1]], ClassSize)
  <2>1. vp \in [Classes -> {0} \cup Arena]
    BY Fields
  <2>2. 1 \in 0 .. 3 /\ 2 \in 0 .. 3
    OBVIOUS
  <2> QED BY <2>1, <2>2, PlaceIn
<1> HIDE DEF vp, d, e, old
<1>4. PICK b : b = SALLOC(h, Large)
  OBVIOUS
<1>5. /\ b \in Record /\ Vp(b) = vp /\ Later(h, b)
      /\ ~Ok(b) => WellIn(b, s, {}) /\ Mem(b) = Mem(h)
      /\ Ok(b) => Taken(h, b, Large)
  BY <1>4, SizesAre, SallocIs DEF vp
<1>6. Mem(h)[d + 1] = old /\ Mem(h)[d + 2] = RoomOf(h, v)
  BY DEF BodyOf, RoomOf, d, vp, old
<1>7. CASE ~TooSmall(Mem(h)[d + 2], n)
  <2>1. g = h
    BY <1>1, <1>7, Zenon DEF SGROW, Mem
  <2>2. Later(h, h)
    BY Fields DEF Later
  <2>3. AllIntact(h, h) /\ Others(h, h, {v})
    BY SameIntact DEF Others
  <2> QED BY <1>6, <1>7, <2>1, <2>2, <2>3 DEF After, Good
<1>8. CASE TooSmall(Mem(h)[d + 2], n) /\ ~Ok(b)
  <2>1. g = b
    BY <1>1, <1>4, <1>8, Zenon DEF SGROW, Mem, Ok
  <2>2. AllIntact(h, b) /\ Others(h, b, {v})
    BY <1>5, <1>8, SameIntact DEF vp
  <2> QED BY <1>5, <1>6, <1>8, <2>1, <2>2 DEF After, Good, vp
<1>9. CASE TooSmall(Mem(h)[d + 2], n) /\ Ok(b)
  <2>1. RoomOf(h, v) = Small
    BY <1>2, <1>6, <1>9, SizesAre DEF TooSmall
  <2>2. PICK t : /\ At(b) \in Arena /\ WellIn(b, t, Just(At(b), Large))
                 /\ \A a \in Arena : a \notin Extent(At(b), Large) => Mem(b)[a] = Mem(h)[a]
    BY <1>5, <1>9 DEF Taken
  <2> DEFINE p == At(b)
             ts == Terminated(StringAt(Mem(b), old), Large - 1)
             k == Stored(b, p, ts)
             c == SFREE(k, old, Small)
             ws == <<p, Large>>
  <2>3. g = Stored(c, e, ws)
    <3>1. g = [c EXCEPT !.mem = Written(@, d + 1, <<b.at, Large>>)]
      BY <1>1, <1>4, <1>6, <1>9, Zenon DEF SGROW, Mem, Ok, SCOPY, Stored, At
    <3> QED BY <3>1, Zenon DEF Stored, At, e
  <2>4. ts \in Seq(Nat) /\ Len(ts) <= Large
    <3>1. Large - 1 \in Nat /\ StringAt(Mem(b), old) \in Seq(Nat)
      <4>1. Mem(b) \in [Arena -> Nat]
        BY <1>5, Fields
      <4>2. StringAt(Mem(b), old) \in Seq(Nat)
        BY <1>2, <4>1, StringIs
      <4> QED BY <4>2, Constants
    <3>2. PICK w : w = StringAt(Mem(b), old)
      OBVIOUS
    <3>3. Terminated(w, Large - 1) \in Seq(Nat) /\ Len(Terminated(w, Large - 1)) <= Large
      <4>1. PICK m : m = Large - 1
        OBVIOUS
      <4>2. Terminated(w, m) \in Seq(Nat) /\ Len(Terminated(w, m)) = Len(Cut(w, m)) + 1
            /\ Len(Cut(w, m)) <= m /\ Len(Cut(w, m)) \in Nat
        BY <3>1, <3>2, <4>1, TerminatedIs
      <4> QED BY <4>1, <4>2, Constants
    <3> QED BY <3>2, <3>3
  <2>5. p \in Arena /\ p \in Nat /\ p # 0 /\ At(b) = p
    BY <2>2, Constants DEF Arena
  <2>6. ws \in Seq(Nat) /\ Len(ws) = 2 /\ ws[1] = p /\ ws[2] = Large
    BY <2>5, Constants
  <2>7. k = Stored(b, p, ts) /\ c = SFREE(k, old, Small)
    OBVIOUS
  <2> HIDE DEF p, ts, k, c, ws
  <2>8. /\ k \in Record /\ Mem(k) = Written(Mem(b), p, ts) /\ Hp(k) = Hp(b) /\ Vp(k) = vp
        /\ Fl(k) = Fl(b) /\ (Ok(k) <=> Ok(b))
    BY <1>5, <2>4, <2>5, <2>7, StoredIs
  <2>35. k \in Record /\ old \in Arena /\ c = SFREE(k, old, Small) /\ Small \in Sizes
    BY <1>2, <2>7, <2>8, SizesAre
  <2>9. /\ c \in Record /\ Hp(c) = Hp(b) /\ Vp(c) = vp /\ (Ok(c) <=> Ok(b))
    <3>1. c \in Record /\ Hp(c) = Hp(k)
      BY <2>35, FreeIs
    <3>2. Vp(c) = Vp(k)
      BY <2>35, FreeIs
    <3>3. Ok(c) <=> Ok(k)
      BY <2>35, FreeIs
    <3> QED BY <2>8, <3>1, <3>2, <3>3
  <2>10. Mem(c)[old] = Fl(b)[Small] /\ \A a \in Arena : a # old => Mem(c)[a] = Mem(k)[a]
    <3>1. Mem(c)[old] = Fl(k)[Small] /\ \A a \in Arena : a # old => Mem(c)[a] = Mem(k)[a]
      BY <2>35, FreeIs
    <3> QED BY <2>8, <3>1
  <2>11. Fl(c)[Small] = old /\ Fl(c)[Large] = Fl(b)[Large]
    <3>1. Fl(c)[Small] = old /\ \A j \in Sizes : j # Small => Fl(c)[j] = Fl(k)[j]
      BY <2>35, FreeIs
    <3> QED BY <2>8, <3>1, SizesAre, Constants
  <2>12. /\ g \in Record /\ Mem(g) = Written(Mem(c), e, ws) /\ Hp(g) = Hp(b) /\ Vp(g) = vp
         /\ Fl(g) = Fl(c) /\ (Ok(g) <=> Ok(b))
    <3>1. /\ g \in Record /\ Mem(g) = Written(Mem(c), e, ws) /\ Hp(g) = Hp(c) /\ Vp(g) = Vp(c)
          /\ Fl(g) = Fl(c) /\ (Ok(g) <=> Ok(c))
      BY <1>3, <2>3, <2>6, <2>9, StoredIs
    <3> QED BY <2>9, <3>1
  <2> DEFINE mb == Mem(b)
             mk == Mem(k)
             mc == Mem(c)
             mg == Mem(g)
             fb == Fl(b)
             X == Just(p, Large)
             Y == Just(old, Small)
             m1 == Written(mk, e, ws)
             fs == <<fb[Small]>>
             m3 == Written(m1, old, fs)
             hb == Hp(b)
  <2>13. /\ Well(mb, hb, vp, fb, t, X) /\ mk = Written(mb, p, ts) /\ mg = Written(mc, e, ws)
         /\ mk \in [Arena -> Nat] /\ mc \in [Arena -> Nat] /\ mg \in [Arena -> Nat]
         /\ mc[old] = fb[Small] /\ fb \in [Sizes -> {0} \cup Arena]
         /\ Fl(c) \in [Sizes -> {0} \cup Arena] /\ hb \in Nat
    BY <1>5, <2>2, <2>8, <2>9, <2>10, <2>12, Fields DEF WellIn, p
  <2>14. (\A a \in Arena : a # old => mc[a] = mk[a]) /\ (\A a \in Arena : a \notin Extent(p, Large) => mb[a] = Mem(h)[a])
    BY <2>2, <2>10 DEF p
  <2> HIDE DEF mb, mk, mc, mg, fb, m1, fs, m3, hb
  <2>15. Well(mk, hb, vp, fb, t, X) /\ \A a \in Arena : a \notin Extent(p, Large) => mk[a] = mb[a]
    <3>1. Loose(p, Large) \in X /\ Large \in Nat \ {0}
      BY Constants DEF Just
    <3> HIDE DEF X, Y
    <3>2. Well(mk, hb, vp, fb, t, X)
      BY <2>4, <2>5, <2>13, <3>1, LooseWrite
    <3>3. \A a \in Arena : a \notin Extent(p, Large) => mk[a] = mb[a]
      BY <2>4, <2>5, <2>13, <3>1, LooseWrite
    <3> QED BY <3>2, <3>3
  <2>16. e \in Arena /\ d + 2 \in Arena /\ e \notin Extent(p, Large) /\ d + 2 \notin Extent(p, Large) /\ e = d + 1
         /\ hb <= e /\ hb <= d + 2
    <3>1. ClassOwner(vp, v[1]) \in OwnersOf(mk, vp, Range(t)) \cup X
      BY <1>2, <1>3 DEF OwnersOf
    <3>2. vp[v[1]] \in Nat /\ WordsOf(ClassOwner(vp, v[1])) = Extent(vp[v[1]], ClassSize)
      BY <1>3, OwnWords, Constants DEF Arena
    <3>3. Extent(vp[v[1]], ClassSize) \subseteq Arena /\ hb <= vp[v[1]]
      BY <2>15, <3>1, <3>2, Constants, Inside
    <3>4. Loose(p, Large) \in X
      BY DEF Just
    <3> HIDE DEF X, Y
    <3>5. \A a \in Extent(vp[v[1]], ClassSize) : a \notin Extent(p, Large)
      BY <1>2, <1>3, <2>15, <3>4, Aside
    <3>6. \A a \in Extent(vp[v[1]], ClassSize) : hb <= a
      BY <2>13, <3>2, <3>3 DEF Extent
    <3> QED BY <1>3, <3>3, <3>5, <3>6 DEF e
  <2>17. mk[e] = old /\ mk[d + 2] = Small
    BY <1>6, <2>1, <2>14, <2>15, <2>16
  <2>18. Well(m1, hb, vp, fb, t, Y)
    <3>1. m1 = Written(mk, Place(vp, v) + 1, <<p, Large>>)
      BY DEF m1, e, d, ws
    <3>2. Bodied(mk, vp, v) /\ mk[Place(vp, v) + 2] = Small /\ old = mk[Place(vp, v) + 1]
      BY <1>2, <2>17, Constants DEF Bodied, d, e, Arena
    <3> QED BY <1>2, <2>5, <2>15, <3>1, <3>2, Swap
  <2>19. old # e /\ old # d + 2
    <3>1. ClassOwner(vp, v[1]) \in OwnersOf(Mem(h), vp, Range(s)) \cup {}
      BY <1>2, <1>3 DEF OwnersOf
    <3>2. BodyOwner(Mem(h), vp, v) \in OwnersOf(Mem(h), vp, Range(s)) \cup {}
      BY <1>2 DEF vp
    <3>3. BodyOwner(Mem(h), vp, v) # ClassOwner(vp, v[1])
      BY Names
    <3>4. WordsOf(BodyOwner(Mem(h), vp, v)) \cap WordsOf(ClassOwner(vp, v[1])) = {}
      <4>1. Tiled(OwnersOf(Mem(h), vp, Range(s)) \cup {}, Hp(h))
        BY DEF WellIn, Well, vp
      <4> QED BY <3>1, <3>2, <3>3, <4>1 DEF Tiled
    <3>5. old \in WordsOf(BodyOwner(Mem(h), vp, v))
      <4>1. WordsOf(BodyOwner(Mem(h), vp, v)) = Extent(old, Small)
        BY <1>2, <2>1 DEF vp
      <4> QED BY <1>2, <4>1, Constants DEF Extent, Arena
    <3>6. WordsOf(ClassOwner(vp, v[1])) = Extent(vp[v[1]], ClassSize)
      BY OwnWords
    <3> QED BY <1>3, <3>4, <3>5, <3>6 DEF e
  <2> DEFINE f == d + 2
  <2>31. e \in Arena /\ f \in Arena /\ f = e + 1
    BY <1>3, <2>16
  <2>32. mk \in [Arena -> Nat] /\ mc \in [Arena -> Nat] /\ mg = Written(mc, e, ws)
    BY <2>13
  <2> HIDE DEF f
  <2>33. mk \in [Arena -> Nat] /\ mc \in [Arena -> Nat] /\ ws \in Seq(Nat) /\ Len(ws) = 2
    BY <2>6, <2>32
  <2>20. /\ m1 \in [Arena -> Nat] /\ m1[e] = p /\ m1[d + 2] = Large
         /\ \A a \in Arena : a # e /\ a # d + 2 => m1[a] = mk[a]
    <3>1. /\ Written(mk, e, ws) \in [Arena -> Nat]
          /\ Written(mk, e, ws)[e] = ws[1] /\ Written(mk, e, ws)[f] = ws[2]
      BY <2>31, <2>33, PairIs, SMTT(30)
    <3>2. ASSUME NEW a \in Arena, a # e, a # f PROVE Written(mk, e, ws)[a] = mk[a]
      BY <2>31, <2>33, <3>2, BesidePair, SMTT(30)
    <3> QED BY <2>6, <3>1, <3>2 DEF m1, f
  <2>21. /\ mg[e] = p /\ mg[d + 2] = Large
         /\ \A a \in Arena : a # e /\ a # d + 2 => mg[a] = mc[a]
    <3>1. Written(mc, e, ws)[e] = ws[1] /\ Written(mc, e, ws)[f] = ws[2]
      BY <2>31, <2>33, PairIs, SMTT(30)
    <3>2. ASSUME NEW a \in Arena, a # e, a # f PROVE Written(mc, e, ws)[a] = mc[a]
      BY <2>31, <2>33, <3>2, BesidePair
    <3> QED BY <2>6, <2>13, <3>1, <3>2 DEF f
  <2>22. fs \in Seq(Nat) /\ Len(fs) = 1 /\ fs[1] = fb[Small] /\ old \in Nat
    <3>1. fb[Small] \in Nat
      BY <2>13, SizesAre, Constants DEF Arena
    <3> QED BY <1>2, <3>1, Constants DEF fs, Arena
  <2>23. m3 \in [Arena -> Nat] /\ m3[old] = fb[Small] /\ \A a \in Arena : a # old => m3[a] = m1[a]
    BY <1>2, <2>20, <2>22, OneIs DEF m3
  <2>24. mg = m3
    <3>1. ASSUME NEW a \in Arena PROVE mg[a] = m3[a]
      BY <2>13, <2>14, <2>16, <2>19, <2>20, <2>21, <2>23, <3>1
    <3> QED BY <2>13, <2>23, <3>1
  <2>25. Well(m3, hb, vp, fb, t, Y)
    <3>1. Loose(old, Small) \in Y /\ Small \in Nat \ {0} /\ Len(fs) <= Small
      BY <2>22, Constants DEF Just
    <3>2. m3 = Written(m1, old, fs)
      BY DEF m3
    <3> HIDE DEF X, Y
    <3> QED BY <2>18, <2>22, <3>1, <3>2, LooseWrite
  <2>26. \E t2 : Well(mg, hb, vp, Fl(c), t2, {})
    <3> DEFINE f2 == Fl(c)
    <3>1. f2 \in [Sizes -> {0} \cup Arena] /\ f2[Small] = old /\ f2[Large] = fb[Large]
      BY <2>11, <2>13 DEF fb
    <3> HIDE DEF f2
    <3>2. \E t2 : Well(mg, hb, vp, f2, t2, {})
      BY <1>2, <2>23, <2>24, <2>25, <3>1, Give
    <3> QED BY <3>2 DEF f2
  <2>27. Good(g)
    BY <2>12, <2>26 DEF Good, WellIn, mg, hb
  <2>28. Later(b, g)
    <3>1. hb <= p
      <4>1. Loose(p, Large) \in OwnersOf(mb, vp, Range(t)) \cup X /\ WordsOf(Loose(p, Large)) = Extent(p, Large)
        BY OwnWords DEF Just
      <4> HIDE DEF X, Y
      <4> QED BY <2>5, <2>13, <4>1, Constants, Inside
    <3>2. hb <= old
      BY <1>2, <1>5, <2>13, <2>22, Fields DEF Later, hb
    <3>3. ASSUME NEW a \in Arena, a < hb PROVE mg[a] = mb[a]
      <4>1. a # e /\ a # d + 2 /\ a # old /\ a \notin Extent(p, Large)
        <5>1. a \in Nat
          BY Constants DEF Arena
        <5>2. a # e /\ a # d + 2 /\ a # old
          BY <1>3, <2>13, <2>16, <2>22, <3>2, <3>3, <5>1, SMTT(30)
        <5>3. a \notin Extent(p, Large)
          BY <2>5, <2>13, <3>1, <3>3, <5>1, Constants DEF Extent
        <5> QED BY <5>2, <5>3
      <4> QED BY <2>14, <2>15, <2>21, <4>1
    <3> QED BY <2>12, <2>13, <3>3 DEF Later, mg, mb, hb
  <2>29. Later(h, g)
    BY <1>5, <2>12, <2>28, LaterAgain
  <2>30. Has(g, v)
    BY <1>2, <2>5, <2>12, <2>21 DEF Has, Bodied, mg, e, d
  <2>36. RoomOf(g, v) = Large /\ BodyOf(g, v) = p /\ ~TooSmall(RoomOf(g, v), n)
    BY <2>12, <2>21 DEF RoomOf, BodyOf, TooSmall, mg, e, d
  <2>37. AllIntact(h, b) /\ Others(h, b, {})
    <3>1. WellIn(b, t, X) /\ Loose(p, Large) \in X
      BY <2>2 DEF Just, p
    <3>2. \A a \in Arena : a \notin Extent(p, Large) => Mem(b)[a] = Mem(h)[a]
      BY <2>14 DEF mb
    <3> HIDE DEF X, Y
    <3> QED BY <1>5, <3>1, <3>2, BesideLoose DEF vp
  <2>38. AllIntact(b, k) /\ Others(b, k, {}) /\ WellIn(k, t, X)
    <3>1. Loose(p, Large) \in X
      BY DEF Just
    <3>2. \A a \in Arena : a \notin Extent(p, Large) => Mem(k)[a] = Mem(b)[a]
      BY <2>15 DEF mk, mb
    <3>3. Vp(k) = Vp(b) /\ Hp(k) = Hp(b) /\ Fl(k) = Fl(b)
      BY <1>5, <2>8
    <3> HIDE DEF X, Y
    <3>4. WellIn(k, t, X)
      BY <1>5, <2>15, <3>3 DEF WellIn, mk, hb, fb
    <3> QED BY <1>5, <2>8, <3>1, <3>2, <3>3, <3>4, BesideLoose
  <2>39. ASSUME NEW w \in Vars, w # v
         PROVE  Intact(k, g, w) /\ (Has(k, w) => Has(g, w) /\ BodyOf(g, w) = BodyOf(k, w))
    <3>1. Has(k, v) /\ BodyOf(k, v) = old /\ RoomOf(k, v) = Small
      BY <1>2, <2>8, <2>17, Constants DEF Has, Bodied, BodyOf, RoomOf, Arena, mk, e, d
    <3>2. old \in Extent(old, Small)
      BY <2>22, Constants DEF Extent
    <3>3. 1 \in 0 .. 3 /\ 2 \in 0 .. 3
      OBVIOUS
    <3>4. \A a \in Arena : a # old /\ a # d + 1 /\ a # d + 2 => Mem(g)[a] = Mem(k)[a]
      BY <2>14, <2>21 DEF mg, mk, e
    <3>5. Mine(k, g, v)
      BY <2>8, <3>1, <3>2, <3>3, <3>4 DEF Mine, d
    <3>6. Vp(k)[v[1]] # 0 /\ Vp(g) = Vp(k)
      BY <1>2, <2>8, <2>12
    <3> HIDE DEF X, Y
    <3> QED BY <2>8, <2>12, <2>38, <2>39, <3>5, <3>6, BesideName
  <2>40. Intact(h, g, v)
    <3> SUFFICES ASSUME Ended(h, v) PROVE Ended(g, v) /\ Content(g, v) = Content(h, v)
      BY DEF Intact
    <3> DEFINE str == StringAt(mb, old)
    <3>1. Ended(b, v) /\ Content(b, v) = Content(h, v)
      BY <2>37 DEF AllIntact, Intact
    <3>2. Has(b, v) /\ BodyOf(b, v) = old /\ RoomOf(b, v) = Small
      <4>1. mb[e] = old /\ mb[d + 2] = Small
        BY <2>15, <2>16, <2>17
      <4> QED BY <1>2, <1>5, <4>1, Constants DEF Has, Bodied, BodyOf, RoomOf, Arena, mb, e, d
    <3>3. \E j \in 0 .. Small - 1 : mb[old + j] = 0
      BY <3>1, <3>2 DEF Ended, mb
    <3>4. old + Small <= Top /\ mb \in [Arena -> Nat] /\ Small \in Nat
      <4>1. WellIn(b, t, X)
        BY <2>2 DEF p
      <4>2. mb \in [Arena -> Nat]
        BY <1>5, Fields DEF mb
      <4> HIDE DEF X, Y
      <4>3. BodyOf(b, v) + RoomOf(b, v) <= Top
        BY <1>5, <3>2, <4>1, BodyIn
      <4> QED BY <3>2, <4>2, <4>3, Constants
    <3>5. str \in Seq(Nat \ {0}) /\ Len(str) < Small
      BY <1>2, <3>3, <3>4, Reads
    <3>6. str = Content(h, v)
      BY <3>1, <3>2 DEF Content, mb
    <3>7. ts = Append(str, 0)
      BY <3>5, Constants DEF ts, Terminated, Cut, mb
    <3> HIDE DEF str
    <3>8. p + Large <= Top
      <4>1. Loose(p, Large) \in OwnersOf(mb, vp, Range(t)) \cup X /\ WordsOf(Loose(p, Large)) = Extent(p, Large)
        BY OwnWords DEF Just
      <4> HIDE DEF X, Y
      <4> QED BY <2>5, <2>13, <4>1, Constants, Inside
    <3>9. \A a \in Extent(p, Large) : mg[a] = mk[a]
      <4>1. \A a \in Extent(p, Large) : a \in Arena
        BY <2>5, <3>8, Constants DEF Extent, Arena
      <4>2. old \notin Extent(p, Large)
        <5> DEFINE r == BodyOwner(Mem(b), Vp(b), v)
                   O == OwnersOf(Mem(b), Vp(b), Range(t))
        <5>1. WellIn(b, t, X) /\ Loose(p, Large) \in O \cup X
          BY <2>2 DEF p, Just
        <5> HIDE DEF X, Y
        <5>2. r \in O \cup X /\ WordsOf(r) = Extent(old, Small)
          BY <1>5, <3>2, <5>1, BodyIn
        <5>3. r # Loose(p, Large)
          BY Names
        <5>4. WordsOf(r) \cap WordsOf(Loose(p, Large)) = {}
          BY <5>1, <5>2, <5>3, NoneShared
        <5>5. old \in Extent(old, Small)
          BY <2>22, Constants DEF Extent
        <5> QED BY <5>2, <5>4, <5>5, OwnWords
      <4> QED BY <2>14, <2>16, <2>21, <4>1, <4>2
    <3>10. \A a \in Arena : a \in p .. p + Len(str) => mg[a] = Append(str, 0)[a - p + 1]
      <4>1. Len(ts) = Len(str) + 1 /\ Len(str) \in Nat
        BY <3>5, <3>7
      <4>2. \A a \in Arena : a \in p .. p + Len(ts) - 1 => mk[a] = ts[a - p + 1]
        <5>1. Mem(b) \in [Arena -> Nat]
          BY <1>5, Fields
        <5>2. mk = Written(mb, p, ts)
          BY <2>13
        <5> QED BY <2>4, <2>5, <5>1, <5>2, WrittenIs DEF mb
      <4>3. \A a \in p .. p + Len(str) : a \in p .. p + Len(ts) - 1 /\ a \in Extent(p, Large)
        BY <2>5, <3>5, <4>1, Constants DEF Extent
      <4> QED BY <3>7, <3>9, <4>2, <4>3
    <3>11. StringAt(mg, p) = str /\ \E j \in 0 .. Large - 1 : mg[p + j] = 0
      <4>1. Len(str) < Large /\ Large \in Nat
        BY <3>5, Constants
      <4> QED BY <2>5, <2>13, <3>5, <3>8, <3>10, <4>1, ReadsBack
    <3> QED BY <2>30, <2>36, <3>6, <3>11 DEF Content, Ended, mg
  <2>41. AllIntact(h, g)
    BY <2>37, <2>38, <2>39, <2>40 DEF AllIntact, Intact
  <2>42. Others(h, g, {v})
    BY <2>37, <2>38, <2>39 DEF Others
  <2> QED BY <1>6, <1>9, <2>12, <2>27, <2>29, <2>30, <2>36, <2>41, <2>42 DEF After, vp
<1> QED BY <1>7, <1>8, <1>9

(* The body a string will be written to, large enough or the large one     *)
(* (focal.s SDEST).                                                        *)
LEMMA SdestIs ==
  ASSUME NEW h \in Record, NEW s, WellIn(h, s, {}), Ok(h), NEW v \in Vars, Vp(h)[v[1]] # 0,
         NEW n, NEW g, g = SDEST(h, v, n)
  PROVE  /\ After(h, g) /\ AllIntact(h, g) /\ Others(h, g, {v})
         /\ Has(h, v) /\ ~TooSmall(RoomOf(h, v), n) => Same(h, g)
         /\ Ok(g) => Has(g, v) /\ At(g) = BodyOf(g, v) /\ ~TooSmall(RoomOf(g, v), n)
<1>1. PICK b : b = VBODY(h, v)
  OBVIOUS
<1>2. /\ After(h, b) /\ AllIntact(h, b) /\ Others(h, b, {}) /\ (Ok(b) => Has(b, v) /\ At(b) = BodyOf(b, v))
      /\ Has(h, v) => Same(h, b) /\ Ok(b)
  BY <1>1, VbodyIs
<1>5. Others(h, b, {v})
  BY <1>2 DEF Others
<1>3. CASE ~Ok(b)
  <2>1. b.ok # TRUE /\ b.ok \in BOOLEAN
    BY <1>2, <1>3 DEF Ok, After, Good, Record
  <2>2. g = b
    BY <1>1, <2>1, Zenon DEF SDEST
  <2> QED BY <1>2, <1>3, <1>5, <2>2
<1>4. CASE Ok(b)
  <2>1. PICK k : k = SGROW(b, v, n)
    OBVIOUS
  <2>2. PICK t : b \in Record /\ WellIn(b, t, {}) /\ Has(b, v)
    BY <1>2, <1>4 DEF After, Good
  <2>3. /\ After(b, k) /\ AllIntact(b, k) /\ Others(b, k, {v})
        /\ Ok(k) => Has(k, v) /\ ~TooSmall(RoomOf(k, v), n)
        /\ ~TooSmall(RoomOf(b, v), n) => k = b
    BY <1>4, <2>1, <2>2, SgrowIs
  <2>4. After(h, k) /\ AllIntact(h, k) /\ Others(h, k, {v})
    BY <1>2, <1>5, <2>3, AfterAgain, IntactAgain DEF Others
  <2>7. Has(h, v) /\ ~TooSmall(RoomOf(h, v), n) => Same(h, k) /\ Ok(k)
    BY <1>2, <1>4, <2>3 DEF Same, RoomOf
  <2>5. CASE ~Ok(k)
    <3>1. k.ok # TRUE /\ k.ok \in BOOLEAN
      BY <2>3, <2>5 DEF Ok, After, Good, Record
    <3>2. g = k
      BY <1>1, <1>4, <2>1, <3>1, Zenon DEF SDEST, Ok
    <3> QED BY <2>4, <2>5, <2>7, <3>2
  <2>6. CASE Ok(k)
    <3>1. g = VBODY(k, v)
      BY <1>1, <1>4, <2>1, <2>6, Zenon DEF SDEST, Ok
    <3>2. PICK u : k \in Record /\ WellIn(k, u, {}) /\ Has(k, v)
      BY <2>3, <2>6 DEF After, Good
    <3>3. Vp(k)[v[1]] # 0
      BY <2>4 DEF After
    <3>4. /\ After(k, g) /\ AllIntact(k, g) /\ Others(k, g, {}) /\ (Ok(g) => Has(g, v) /\ At(g) = BodyOf(g, v))
          /\ Same(k, g)
      BY <2>6, <3>1, <3>2, <3>3, VbodyIs
    <3>5. After(h, g) /\ AllIntact(h, g) /\ Others(h, g, {v})
      BY <2>4, <3>4, AfterAgain, IntactAgain DEF Others
    <3>6. RoomOf(g, v) = RoomOf(k, v)
      BY <3>4 DEF Same, RoomOf
    <3>7. Has(h, v) /\ ~TooSmall(RoomOf(h, v), n) => Same(h, g)
      BY <2>7, <3>4 DEF Same
    <3> QED BY <2>3, <2>6, <3>4, <3>5, <3>6, <3>7
  <2> QED BY <2>5, <2>6
<1> QED BY <1>3, <1>4

(* The third word of the descriptor is the capacity.                       *)
LEMMA CapacityIs ==
  ASSUME NEW h \in Record, NEW s, WellIn(h, s, {}), Ok(h), NEW v \in Vars, Vp(h)[v[1]] # 0
  PROVE  Capacity(h, v) = RoomOf(h, v)
<1>1. PICK k : k = VDESC(h, v)
  OBVIOUS
<1>2. Same(h, k) /\ Ok(k)
  BY <1>1, VdescIs
<1>3. At(k) = Place(Vp(k), v)
  BY <1>1, <1>2, VdescIs
<1>4. At(k) = Place(Vp(h), v)
  BY <1>2, <1>3 DEF Same
<1>5. Capacity(h, v) = Mem(h)[At(k) + 2]
  BY <1>1, Zenon DEF Capacity, Mem, At
<1> QED BY <1>4, <1>5 DEF RoomOf

(* Any word of a descriptor but the second and the third may change.       *)
LEMMA TypeWrite ==
  ASSUME NEW mm, NEW hp, NEW vp, NEW ff, NEW s, Well(mm, hp, vp, ff, s, {}),
         NEW v \in Vars, vp[v[1]] # 0, NEW m2 \in [Arena -> Nat],
         \A a \in Arena : a # Place(vp, v) => m2[a] = mm[a]
  PROVE  Well(m2, hp, vp, ff, s, {}) /\ hp <= Place(vp, v) /\ Place(vp, v) \in Arena
<1>1. mm \in [Arena -> Nat] /\ vp \in [Classes -> {0} \cup Arena] /\ hp \in Nat
  BY DEF Well
<1>2. ASSUME NEW w \in Vars, vp[w[1]] # 0, NEW k \in 0 .. 3
      PROVE  Place(vp, w) + k \in Arena /\ hp <= Place(vp, w) + k
             /\ Place(vp, w) + k \in WordsOf(ClassOwner(vp, w[1])) /\ Place(vp, w) \in Nat
  <2>1. w[1] \in Classes /\ Place(vp, w) + k \in Extent(vp[w[1]], ClassSize) /\ Place(vp, w) \in Nat
    BY <1>1, PlaceIn
  <2>2. ClassOwner(vp, w[1]) \in OwnersOf(mm, vp, Range(s)) \cup {} /\ vp[w[1]] \in Nat
        /\ WordsOf(ClassOwner(vp, w[1])) = Extent(vp[w[1]], ClassSize)
    BY <1>1, <1>2, <2>1, OwnWords, Constants DEF OwnersOf, Arena
  <2>3. Extent(vp[w[1]], ClassSize) \subseteq Arena /\ hp <= vp[w[1]]
    BY <2>2, Constants, Inside
  <2>4. vp[w[1]] <= Place(vp, w) + k
    BY <2>1, <2>2 DEF Extent
  <2> QED BY <1>1, <2>1, <2>2, <2>3, <2>4
<1>3. Place(vp, v) \in Arena /\ hp <= Place(vp, v) /\ Place(vp, v) \in WordsOf(ClassOwner(vp, v[1])) /\ v[1] \in Classes
  <2>1. 0 \in 0 .. 3
    OBVIOUS
  <2>2. /\ Place(vp, v) + 0 \in Arena /\ hp <= Place(vp, v) + 0
        /\ Place(vp, v) + 0 \in WordsOf(ClassOwner(vp, v[1])) /\ Place(vp, v) \in Nat
    BY <1>2, <2>1
  <2>3. Place(vp, v) + 0 = Place(vp, v)
    BY <2>2
  <2> QED BY <1>1, <2>2, <2>3, PlaceIn
<1>4. ASSUME NEW w \in Vars, vp[w[1]] # 0
      PROVE  m2[Place(vp, w) + 1] = mm[Place(vp, w) + 1] /\ m2[Place(vp, w) + 2] = mm[Place(vp, w) + 2]
  <2>1. 0 \in 0 .. 3 /\ 1 \in 0 .. 3 /\ 2 \in 0 .. 3
    OBVIOUS
  <2>2. /\ Place(vp, w) + 1 \in Arena /\ Place(vp, w) + 2 \in Arena
        /\ Place(vp, v) \in Nat /\ Place(vp, w) \in Nat
    BY <1>2, <1>4, <2>1
  <2>3. Place(vp, w) + 1 # Place(vp, v) /\ Place(vp, w) + 2 # Place(vp, v)
    <3>1. CASE w = v
      BY <2>2, <3>1
    <3>2. CASE w # v
      <4>1. Place(vp, w) + 1 # Place(vp, v) + 0 /\ Place(vp, w) + 2 # Place(vp, v) + 0
        BY <1>4, <2>1, <3>2, Apart
      <4> QED BY <2>2, <4>1
    <3> QED BY <3>1, <3>2
  <2> QED BY <2>2, <2>3
<1>5. \A w \in Vars : /\ Bodied(m2, vp, w) <=> Bodied(mm, vp, w)
                      /\ Bodied(mm, vp, w) => /\ BodyOwner(m2, vp, w) = BodyOwner(mm, vp, w)
                                              /\ m2[Place(vp, w) + 2] = mm[Place(vp, w) + 2]
  BY <1>4 DEF Bodied, BodyOwner
<1>6. OwnersOf(m2, vp, Range(s)) = OwnersOf(mm, vp, Range(s))
  <2>1. {w \in Vars : Bodied(m2, vp, w)} = {w \in Vars : Bodied(mm, vp, w)}
    BY <1>5
  <2>2. {BodyOwner(m2, vp, w) : w \in {w \in Vars : Bodied(mm, vp, w)}}
          = {BodyOwner(mm, vp, w) : w \in {w \in Vars : Bodied(mm, vp, w)}}
    BY <1>5
  <2> QED BY <2>1, <2>2 DEF OwnersOf
<1>7. \A q \in Range(s) : m2[q] = mm[q]
  <2> SUFFICES ASSUME NEW q \in Range(s) PROVE m2[q] = mm[q]
    OBVIOUS
  <2>1. FreeOwner(q) \in OwnersOf(mm, vp, Range(s)) /\ q \in Arena
    <3>1. FreeOwner(q) \in OwnersOf(mm, vp, Range(s))
      BY DEF OwnersOf
    <3>2. q \in Arena
      BY DEF Well, Chain, Range
    <3> QED BY <3>1, <3>2
  <2>2. ClassOwner(vp, v[1]) \in OwnersOf(mm, vp, Range(s))
    BY <1>3 DEF OwnersOf
  <2>3. WordsOf(FreeOwner(q)) \cap WordsOf(ClassOwner(vp, v[1])) = {}
    BY <2>1, <2>2, Names DEF Well, Tiled
  <2>4. q \in WordsOf(FreeOwner(q))
    BY <2>1, OwnWords, Constants DEF Extent, Arena
  <2> QED BY <1>3, <2>1, <2>3, <2>4
<1>8. Chain(m2, ff[Small], s)
  <2>1. \A j \in 1 .. Len(s) : s[j] \in Range(s)
    BY DEF Well, Chain, Range
  <2> QED BY <1>7, <2>1 DEF Well, Chain
<1>9. \A w \in Vars : Bodied(m2, vp, w) => m2[Place(vp, w) + 2] \in Sizes
  BY <1>5 DEF Well
<1> QED BY <1>3, <1>6, <1>8, <1>9 DEF Well

-----------------------------------------------------------------------------
(* The commands.  Tidy is inductive: what the heap's words belong to is    *)
(* known by the free list that leads through them, and the text's zero     *)
(* lies below.                                                             *)

Tidy ==
  /\ ArenaTypeOK
  /\ spoilt = "no" => /\ \E s : Well(mem, heap, vptr, fl, s, {})
                      /\ TXTB + tend < heap /\ mem[TXTB + tend] = 0

\* The text and its zero as they were, unless the arena is not to be trusted.
Kept == spoilt' = "no" => tend' = tend /\ \A a \in Arena : a <= TXTB + tend => mem'[a] = mem[a]

(* The heap a command starts from.                                         *)
LEMMA HeapIs ==
  ASSUME Tidy
  PROVE  /\ Heap \in Record /\ Mem(Heap) = mem /\ Hp(Heap) = heap /\ Vp(Heap) = vptr /\ Fl(Heap) = fl
         /\ Ok(Heap)
BY Constants DEF Tidy, ArenaTypeOK, Heap, Record, Mem, Hp, Vp, Fl, Ok, Sizes

(* What a command leaves when the heap is as a routine left it.            *)
LEMMA Ends ==
  ASSUME Tidy, spoilt = "no", NEW g, Good(g), Later(Heap, g),
         mem' = Mem(g), heap' = Hp(g), vptr' = Vp(g), fl' = Fl(g), tend' = tend, slm1' \in Nat,
         spoilt' \in {Meeting(tend, heap'), "asked"}
  PROVE  Tidy' /\ Kept
<1>1. PICK s : Well(Mem(g), Hp(g), Vp(g), Fl(g), s, {})
  BY DEF Good, WellIn
<1>2. g \in Record /\ tend \in Nat /\ TXTB + tend <= Hp(g) /\ Hp(g) <= Top
  BY <1>1 DEF Well, Good
<1>3. TXTB + tend < heap /\ mem[TXTB + tend] = 0 /\ tend \in 0 .. Top - TXTB
  BY DEF Tidy, ArenaTypeOK
<1>4. /\ mem' \in [Arena -> Nat] /\ heap' \in Nat /\ vptr' \in [Classes -> {0} \cup Arena]
      /\ fl' \in [Sizes -> {0} \cup Arena]
  BY <1>2, Fields
<1>5. heap' \in TXTB .. Top
  BY <1>2, <1>4, Constants
<1>6. spoilt' \in {"no", "met", "erased", "asked"}
  BY DEF Meeting
<1>7. ArenaTypeOK'
  BY <1>3, <1>4, <1>5, <1>6 DEF ArenaTypeOK, Sizes
<1>8. ASSUME spoilt' = "no"
      PROVE  /\ \E t : Well(mem', heap', vptr', fl', t, {})
             /\ TXTB + tend < heap' /\ mem'[TXTB + tend] = 0
  <2>1. TXTB + tend # heap'
    BY <1>8 DEF Meeting
  <2>2. TXTB + tend < heap' /\ TXTB + tend \in Arena
    BY <1>2, <1>5, <2>1, Constants DEF Arena
  <2>3. mem'[TXTB + tend] = Mem(Heap)[TXTB + tend]
    BY <2>2 DEF Later
  <2> QED BY <1>1, <1>3, <2>2, <2>3, HeapIs
<1>9. ASSUME NEW t PROVE Well(mem', heap', vptr', fl', t, {}) => Well(mem, heap, vptr, fl, t, {})'
  BY DEF Well, Chain, Tiled, OwnersOf, Bodied, BodyOwner, ClassOwner, FreeOwner, Place
<1>10. Tidy'
  BY <1>7, <1>8, <1>9 DEF Tidy
<1>11. Kept
  <2> SUFFICES ASSUME spoilt' = "no", NEW a \in Arena, a <= TXTB + tend PROVE mem'[a] = mem[a]
    BY DEF Kept
  <2>1. a < Hp(g)
    BY <1>2, <1>5, <1>8, Constants DEF Arena
  <2> QED BY <2>1, HeapIs DEF Later
<1> QED BY <1>10, <1>11

\* The strings as the interpreter reads them, and that each has its zero.
Strings == [v \in Vars |-> IF HasBody(v) THEN StringAt(mem, mem[Descriptor(v) + 1]) ELSE << >>]
Shut ==
  spoilt = "no" =>
    \A v \in Vars : HasBody(v) =>
      \E j \in 0 .. mem[Descriptor(v) + 2] - 1 : mem[mem[Descriptor(v) + 1] + j] = 0

\* Where every string had its zero they have it still, and v's may be another.
Unassigned == Shut => Shut' /\ Strings' = Strings
Assigned(v, str) == Shut => Shut' /\ Strings' = [Strings EXCEPT ![v] = str]

(* The strings a command starts from.                                      *)
LEMMA StringsNow ==
  ASSUME Tidy
  PROVE  /\ \A v \in Vars : Strings[v] = Content(Heap, v)
         /\ spoilt = "no" /\ Shut => \A v \in Vars : Ended(Heap, v)
BY HeapIs DEF Strings, Shut, Content, Ended, Has, Bodied, BodyOf, RoomOf, HasBody, Descriptor, Place

(* The strings it leaves.                                                  *)
LEMMA StringsThen ==
  ASSUME NEW g, mem' = Mem(g), vptr' = Vp(g)
  PROVE  /\ Strings' = [v \in Vars |-> Content(g, v)]
         /\ (\A v \in Vars : Ended(g, v)) => Shut'
BY DEF Strings, Shut, Content, Ended, Has, Bodied, BodyOf, RoomOf, HasBody, Descriptor, Place

(* A command that leaves every string as it was.                           *)
LEMMA Leaves ==
  ASSUME Tidy, spoilt = "no", NEW g, mem' = Mem(g), vptr' = Vp(g), AllIntact(Heap, g)
  PROVE  Unassigned
<1> SUFFICES ASSUME Shut PROVE Shut' /\ Strings' = Strings
  BY DEF Unassigned
<1>1. \A v \in Vars : Ended(g, v) /\ Content(g, v) = Strings[v]
  BY StringsNow DEF AllIntact, Intact
<1>2. Strings' = [v \in Vars |-> Strings[v]] /\ Shut'
  BY <1>1, StringsThen
<1>3. Strings = [v \in Vars |-> Strings[v]]
  BY DEF Strings
<1> QED BY <1>2, <1>3

(* A command that leaves every string but v's as it was.                   *)
LEMMA Changes ==
  ASSUME Tidy, spoilt = "no", NEW h, AllIntact(Heap, h), NEW g, mem' = Mem(g), vptr' = Vp(g),
         NEW v \in Vars, \A w \in Vars : w # v => Intact(h, g, w), NEW str,
         Ended(g, v), Content(g, v) = str
  PROVE  Assigned(v, str)
<1> SUFFICES ASSUME Shut PROVE Shut' /\ Strings' = [Strings EXCEPT ![v] = str]
  BY DEF Assigned
<1>1. \A w \in Vars : w # v => Ended(g, w) /\ Content(g, w) = Strings[w]
  BY StringsNow DEF AllIntact, Intact
<1>2. Strings' = [w \in Vars |-> Content(g, w)] /\ Shut'
  BY <1>1, StringsThen
<1>3. Strings = [w \in Vars |-> Strings[w]]
  BY DEF Strings
<1> QED BY <1>1, <1>2, <1>3

\* The words of a text, its zero last.
Spells(ws, str) == ws = Append(str, 0)

(* A text written with its zero into a body that has room for both is what *)
(* the name holds then.                                                    *)
LEMMA StoreText ==
  ASSUME NEW h \in Record, NEW s, WellIn(h, s, {}), NEW v \in Vars, Has(h, v),
         NEW str \in Seq(Nat \ {0}), Len(str) < RoomOf(h, v),
         NEW ws, Spells(ws, str), NEW g, g = Stored(h, BodyOf(h, v), ws)
  PROVE  Ended(g, v) /\ Content(g, v) = str
<1> DEFINE p == BodyOf(h, v)
           n == RoomOf(h, v)
           d == Place(Vp(h), v)
           X == {}
<1>1. /\ n \in Nat /\ p \in Arena /\ p + n <= Top /\ Extent(p, n) \subseteq Arena /\ Vp(h)[v[1]] # 0
      /\ BodyOwner(Mem(h), Vp(h), v) \in OwnersOf(Mem(h), Vp(h), Range(s)) \cup X
      /\ WordsOf(BodyOwner(Mem(h), Vp(h), v)) = Extent(p, n) /\ WellIn(h, s, X)
  BY BodyIn
<1>2. ws \in Seq(Nat) /\ Len(ws) = Len(str) + 1 /\ Len(ws) <= n /\ Len(str) \in Nat
  <2>1. Len(str) < n /\ Len(str) \in Nat
    OBVIOUS
  <2>2. Append(str, 0) \in Seq(Nat) /\ Len(Append(str, 0)) = Len(str) + 1
    OBVIOUS
  <2>3. ws \in Seq(Nat) /\ Len(ws) = Len(str) + 1
    BY <2>2 DEF Spells
  <2> HIDE DEF n
  <2> QED BY <1>1, <2>1, <2>3
<1>3. /\ After(h, g) /\ Mem(g) = Written(Mem(h), p, ws)
      /\ \A a \in Arena : a \notin Extent(p, n) => Mem(g)[a] = Mem(h)[a]
  BY <1>2, StoreIn
<1>4. /\ ClassOwner(Vp(h), v[1]) \in OwnersOf(Mem(h), Vp(h), Range(s)) \cup X
      /\ \A k \in 0 .. 3 : d + k \in WordsOf(ClassOwner(Vp(h), v[1])) /\ d + k \in Arena
  BY <1>1, DescriptorIn
<1> HIDE DEF p, n, X
<1>5. WordsOf(ClassOwner(Vp(h), v[1])) \cap Extent(p, n) = {}
  <2>1. ClassOwner(Vp(h), v[1]) # BodyOwner(Mem(h), Vp(h), v)
    BY Names
  <2> QED BY <1>1, <1>4, <2>1, NoneShared
<1>6. Mem(g)[d + 1] = Mem(h)[d + 1] /\ Mem(g)[d + 2] = Mem(h)[d + 2]
  <2>1. 1 \in 0 .. 3 /\ 2 \in 0 .. 3
    OBVIOUS
  <2> HIDE DEF d
  <2> QED BY <1>3, <1>4, <1>5, <2>1
<1>7. Has(g, v) /\ BodyOf(g, v) = p /\ RoomOf(g, v) = n
  BY <1>3, <1>6 DEF After, Has, Bodied, BodyOf, RoomOf, p, n
<1>8. Mem(g) \in [Arena -> Nat] /\ Mem(h) \in [Arena -> Nat] /\ p \in Nat
  BY <1>1, <1>3, Fields, Constants, SMTT(30) DEF After, Good, Arena
<1>9. StringAt(Mem(g), p) = str /\ \E j \in 0 .. n - 1 : Mem(g)[p + j] = 0
  <2>1. Len(str) < n
    BY DEF n
  <2>2. \A a \in Arena : a \in p .. p + Len(ws) - 1 => Written(Mem(h), p, ws)[a] = ws[a - p + 1]
    BY <1>2, <1>8, WrittenIs
  <2>3. p + Len(ws) - 1 = p + Len(str) /\ ws = Append(str, 0)
    BY <1>2, <1>8 DEF Spells
  <2>4. \A a \in Arena : a \in p .. p + Len(str) => Mem(g)[a] = Append(str, 0)[a - p + 1]
    BY <1>3, <2>2, <2>3, Zenon
  <2> QED BY <1>1, <1>8, <2>1, <2>4, ReadsBack
<1> QED BY <1>7, <1>9 DEF Ended, Content

(* The heap a command ends with.                                           *)
LEMMA Becomes ==
  ASSUME NEW g, Become(g)
  PROVE  mem' = Mem(g) /\ heap' = Hp(g) /\ vptr' = Vp(g) /\ fl' = Fl(g)
BY Zenon DEF Become, Mem, Hp, Vp, Fl

(* A command starts from a heap in order.                                  *)
LEMMA Start ==
  ASSUME Tidy, spoilt = "no"
  PROVE  Good(Heap) /\ \E s : WellIn(Heap, s, {})
BY HeapIs DEF Tidy, Good, WellIn

(* A command that ends by copying a text into a body, up to its capacity   *)
(* (focal.s DOSET, SETSV).                                                 *)
LEMMA FillIs ==
  ASSUME Tidy, spoilt = "no", NEW h, After(Heap, h), AllIntact(Heap, h), NEW v \in Vars,
         Ok(h) => Has(h, v) /\ At(h) = BodyOf(h, v),
         NEW text \in Seq(Nat), Fill(h, v, text)
  PROVE  /\ Tidy' /\ Kept
         /\ ~Ok(h) => Unassigned
         /\ Ok(h) /\ text \in Seq(Nat \ {0}) /\ Len(text) < RoomOf(h, v) => Assigned(v, text)
<1>1. PICK s : h \in Record /\ WellIn(h, s, {}) /\ Good(h) /\ Later(Heap, h) /\ Vp(h) = Vp(Heap)
  BY DEF After, Good
<1>2. tend' = tend /\ spoilt' = Meeting(tend, heap') /\ slm1 \in Nat
  BY DEF Fill, Tidy, ArenaTypeOK
<1>3. CASE ~Ok(h)
  <2>1. h.ok # TRUE /\ h.ok \in BOOLEAN
    BY <1>1, <1>3 DEF Ok, Record
  <2>2. slm1' = slm1 /\ Become(h)
    BY <2>1, Zenon DEF Fill
  <2>3. mem' = Mem(h) /\ heap' = Hp(h) /\ vptr' = Vp(h) /\ fl' = Fl(h)
    BY <2>2, Becomes
  <2>4. Unassigned
    BY <2>3, Leaves
  <2> QED BY <1>1, <1>2, <1>3, <2>2, <2>3, <2>4, Ends
<1>4. CASE Ok(h)
  <2> DEFINE room == RoomOf(h, v)
             ws == Terminated(text, room - 1)
  <2>1. room \in Sizes /\ Vp(h)[v[1]] # 0
    BY <1>1, <1>4, BodyIn
  <2>2. Capacity(h, v) = room
    BY <1>1, <1>4, <2>1, CapacityIs
  <2>3. room - 1 \in Nat /\ room \in Nat
    <3>1. \A n \in Nat \ {0, 1} : n - 1 \in Nat /\ n \in Nat
      OBVIOUS
    <3>2. room \in Nat \ {0, 1}
      BY <2>1, SizesAre
    <3> QED BY <3>1, <3>2
  <2>4. ws \in Seq(Nat) /\ Len(ws) <= room
    <3> HIDE DEF room
    <3>1. PICK m : m = room - 1
      OBVIOUS
    <3>2. Terminated(text, m) \in Seq(Nat) /\ Len(Terminated(text, m)) = Len(Cut(text, m)) + 1
          /\ Len(Cut(text, m)) <= m /\ Len(Cut(text, m)) \in Nat
      BY <2>3, <3>1, TerminatedIs
    <3> QED BY <2>3, <3>1, <3>2
  <2>5. slm1' = Capacity(h, v) - 1 /\ Become([h EXCEPT !.mem = Written(@, h.at, Terminated(text, Capacity(h, v) - 1))])
    BY <1>4, Zenon DEF Fill, Ok
  <2>6. slm1' = room - 1 /\ Become(Stored(h, BodyOf(h, v), ws))
    <3>1. At(h) = BodyOf(h, v)
      BY <1>4
    <3> QED BY <2>2, <2>5, <3>1, Zenon DEF Stored, At
  <2>7. PICK g : g = Stored(h, BodyOf(h, v), ws)
    OBVIOUS
  <2> HIDE DEF ws
  <2>8. After(h, g) /\ \A w \in Vars : w # v => Intact(h, g, w)
    BY <1>1, <1>4, <2>4, <2>7, StoreIn
  <2>9. Good(g) /\ Later(Heap, g)
    <3>1. After(Heap, g)
      BY <2>8, AfterAgain, HeapIs
    <3> QED BY <3>1 DEF After
  <2>10. Become(g)
    BY <2>6, <2>7
  <2>11. mem' = Mem(g) /\ heap' = Hp(g) /\ vptr' = Vp(g) /\ fl' = Fl(g)
    BY <2>10, Becomes
  <2>12. ASSUME text \in Seq(Nat \ {0}), Len(text) < RoomOf(h, v) PROVE Assigned(v, text)
    <3>1. ws = Append(text, 0)
      <4>1. Len(text) \in Nat
        OBVIOUS
      <4>2. ~(Len(text) > room - 1)
        BY <2>3, <2>12, <4>1
      <4> QED BY <4>2 DEF Terminated, Cut, ws
    <3>2. Ended(g, v) /\ Content(g, v) = text
      <4>1. Spells(ws, text)
        BY <3>1 DEF Spells
      <4>2. h \in Record /\ WellIn(h, s, {}) /\ Has(h, v) /\ text \in Seq(Nat \ {0})
            /\ Len(text) < RoomOf(h, v)
        BY <1>1, <1>4, <2>12
      <4> QED BY <2>7, <4>1, <4>2, StoreText
    <3> QED BY <2>8, <2>11, <3>2, Changes
  <2> QED BY <1>2, <1>4, <2>3, <2>6, <2>9, <2>11, <2>12, Ends
<1> QED BY <1>3, <1>4

(* A name made a string: its block is there, its type is written (focal.s  *)
(* DECLAR).                                                                *)
LEMMA DECLARIs ==
  ASSUME Tidy, NEW v \in Vars, DECLAR(v)
  PROVE  Tidy' /\ Kept /\ Unassigned
<1>1. PICK d : d = VDESC(Heap, v)
  OBVIOUS
<1>2. spoilt = "no" /\ tend' = tend /\ slm1' = slm1 /\ spoilt' = Meeting(tend, heap') /\ slm1 \in Nat
  BY DEF DECLAR, Tidy, ArenaTypeOK
<1>3. PICK s : WellIn(Heap, s, {})
  BY <1>2, Start
<1>4. /\ d \in Record /\ Later(Heap, d) /\ WellIn(d, s, {}) /\ AllIntact(Heap, d)
      /\ Ok(d) => Vp(d)[v[1]] # 0 /\ At(d) = Place(Vp(d), v)
  <2>1. Heap \in Record /\ Ok(Heap)
    BY HeapIs
  <2>2. d \in Record /\ Later(Heap, d) /\ WellIn(d, s, {}) /\ AllIntact(Heap, d)
    BY <1>1, <1>3, <2>1, VdescIs
  <2>3. Ok(d) => Vp(d)[v[1]] # 0 /\ At(d) = Place(Vp(d), v)
    BY <1>1, <1>3, <2>1, VdescIs
  <2> QED BY <2>2, <2>3
<1>5. CASE ~Ok(d)
  <2>1. d.ok # TRUE /\ d.ok \in BOOLEAN
    BY <1>4, <1>5 DEF Ok, Record
  <2>2. Become(d)
    BY <1>1, <2>1, Zenon DEF DECLAR
  <2>3. Good(d)
    BY <1>4 DEF Good
  <2>4. mem' = Mem(d) /\ heap' = Hp(d) /\ vptr' = Vp(d) /\ fl' = Fl(d)
    BY <2>2, Becomes
  <2> QED BY <1>2, <1>4, <2>3, <2>4, Ends, Leaves
<1>6. CASE Ok(d)
  <2> DEFINE p == Place(Vp(d), v)
             m2 == [Mem(d) EXCEPT ![p] = String]
  <2>1. Become([d EXCEPT !.mem[p] = String])
    <3>1. Become([d EXCEPT !.mem[d.at] = String])
      BY <1>1, <1>6, Zenon DEF DECLAR, Ok
    <3>2. d.at = p
      BY <1>4, <1>6, Zenon DEF At
    <3> QED BY <3>1, <3>2, Zenon
  <2>2. PICK g : g = [d EXCEPT !.mem = m2]
    OBVIOUS
  <2>3. Become(g)
    BY <2>1, <2>2, Zenon DEF Mem
  <2>4. Mem(d) \in [Arena -> Nat] /\ String \in Nat
    BY <1>4, Fields DEF String
  <2>5. m2 \in [Arena -> Nat] /\ \A a \in Arena : a # p => m2[a] = Mem(d)[a]
    <3> HIDE DEF p
    <3> QED BY <2>4
  <2> HIDE DEF p, m2
  <2>6. g \in Record /\ Mem(g) = m2 /\ Hp(g) = Hp(d) /\ Vp(g) = Vp(d) /\ Fl(g) = Fl(d)
    BY <1>4, <2>2, <2>5, MemIs, Zenon
  <2>7. Well(m2, Hp(d), Vp(d), Fl(d), s, {}) /\ Hp(d) <= p
    <3>1. Well(Mem(d), Hp(d), Vp(d), Fl(d), s, {})
      BY <1>4 DEF WellIn
    <3> DEFINE vp == Vp(d)
               mm == Mem(d)
    <3>2. vp[v[1]] # 0 /\ \A a \in Arena : a # Place(vp, v) => m2[a] = mm[a]
      BY <1>4, <1>6, <2>5 DEF p
    <3>3. Well(mm, Hp(d), vp, Fl(d), s, {}) /\ p = Place(vp, v)
      BY <3>1 DEF p
    <3> HIDE DEF vp, mm
    <3>4. Well(m2, Hp(d), vp, Fl(d), s, {}) /\ Hp(d) <= Place(vp, v)
      BY <2>5, <3>2, <3>3, TypeWrite
    <3> QED BY <3>3, <3>4 DEF vp
  <2>8. Good(g)
    BY <2>6, <2>7 DEF Good, WellIn
  <2>9. Later(d, g)
    <3>1. Hp(d) \in Nat /\ p \in Nat
      BY <1>4, Fields, PlaceIn DEF p
    <3>2. \A a \in Arena : a < Hp(d) => a # p
      BY <2>7, <3>1, Constants DEF Arena
    <3> QED BY <2>5, <2>6, <3>1, <3>2 DEF Later
  <2>10. Later(Heap, g)
    BY <1>4, <2>6, <2>9, HeapIs, LaterAgain
  <2>11. mem' = Mem(g) /\ heap' = Hp(g) /\ vptr' = Vp(g) /\ fl' = Fl(g)
    BY <2>3, Becomes
  <2>12. AllIntact(d, g)
    <3>1. Vp(g) = Vp(d) /\ Vp(d)[v[1]] # 0 /\ \A a \in Arena : a # Place(Vp(d), v) => Mem(g)[a] = Mem(d)[a]
      BY <1>4, <1>6, <2>5, <2>6 DEF p
    <3> QED BY <1>4, <2>6, <3>1, BesideType
  <2>13. Unassigned
    <3>1. AllIntact(Heap, g)
      BY <1>4, <2>12, IntactAgain
    <3> QED BY <1>2, <2>11, <3>1, Leaves
  <2> QED BY <1>2, <2>8, <2>10, <2>11, <2>13, Ends
<1> QED BY <1>5, <1>6

(* A name declared has its class's block, and the routine that finds its   *)
(* body starts from there.                                                 *)
LEMMA Begun ==
  ASSUME Tidy, spoilt = "no", NEW v \in Vars, Declared(v), NEW b, b = VBODY(Heap, v)
  PROVE  /\ After(Heap, b) /\ AllIntact(Heap, b) /\ (Ok(b) => Has(b, v) /\ At(b) = BodyOf(b, v))
         /\ Vp(Heap)[v[1]] # 0
<1>1. PICK s : WellIn(Heap, s, {})
  BY Start
<1>2. Heap \in Record /\ Ok(Heap) /\ Vp(Heap)[v[1]] # 0
  BY HeapIs DEF Declared
<1> QED BY <1>1, <1>2, VbodyIs

(* A body that is not too small has room for the text and its zero.        *)
LEMMA HasRoom ==
  ASSUME NEW room \in Sizes, NEW n \in Nat, n < Large, ~TooSmall(room, n)
  PROVE  n < room
BY SizesAre, Constants DEF TooSmall

(* A string assigned.                                                      *)
LEMMA SETSLIs ==
  ASSUME Tidy, NEW v \in Vars, NEW s \in Texts, SETSL(v, s)
  PROVE  Tidy' /\ Kept /\ (Assigned(v, s) \/ Unassigned)
<1>1. spoilt = "no" /\ Declared(v)
  BY DEF SETSL
<1>2. PICK b : b = VBODY(Heap, v)
  OBVIOUS
<1>3. /\ After(Heap, b) /\ AllIntact(Heap, b) /\ (Ok(b) => Has(b, v) /\ At(b) = BodyOf(b, v))
      /\ Vp(Heap)[v[1]] # 0
  BY <1>1, <1>2, Begun
<1>4. s \in Seq(Nat) /\ s \in Seq(Nat \ {0}) /\ Len(s) < Large
  BY ArenaAssumption
<1>5. CASE ~Ok(b)
  <2>1. b.ok # TRUE /\ b.ok \in BOOLEAN
    BY <1>3, <1>5 DEF Ok, After, Good, Record
  <2>2. Fill(b, v, s)
    BY <1>2, <2>1, Zenon DEF SETSL
  <2> QED BY <1>1, <1>3, <1>4, <1>5, <2>2, FillIs
<1>6. CASE Ok(b)
  <2>1. PICK g : g = SDEST(b, v, Len(s))
    OBVIOUS
  <2>2. Fill(g, v, s)
    BY <1>2, <1>6, <2>1, Zenon DEF SETSL, Ok
  <2>3. PICK t : b \in Record /\ WellIn(b, t, {}) /\ Vp(b)[v[1]] # 0
    BY <1>3 DEF After, Good
  <2>4. /\ After(b, g) /\ AllIntact(b, g)
        /\ Ok(g) => Has(g, v) /\ At(g) = BodyOf(g, v) /\ ~TooSmall(RoomOf(g, v), Len(s))
    BY <1>6, <2>1, <2>3, SdestIs
  <2>5. After(Heap, g) /\ AllIntact(Heap, g)
    BY <1>3, <2>4, AfterAgain, IntactAgain, HeapIs
  <2>6. Ok(g) => Len(s) < RoomOf(g, v)
    <3>1. Ok(g) => RoomOf(g, v) \in Sizes
      BY <2>4, BodyIn DEF After, Good
    <3>2. Len(s) \in Nat
      BY <1>4
    <3> QED BY <1>4, <2>4, <3>1, <3>2, HasRoom
  <2>7. Tidy' /\ Kept
    BY <1>1, <1>4, <2>2, <2>4, <2>5, FillIs
  <2>8. ~Ok(g) => Unassigned
    BY <1>1, <1>4, <2>2, <2>4, <2>5, FillIs
  <2>9. Ok(g) => Assigned(v, s)
    BY <1>1, <1>4, <2>2, <2>4, <2>5, <2>6, FillIs
  <2> QED BY <2>7, <2>8, <2>9
<1> QED BY <1>5, <1>6

(* A string copied: the body of the source stays a body while the other    *)
(* grows.                                                                  *)
LEMMA SETSVIs ==
  ASSUME Tidy, NEW v \in Vars, NEW w \in Vars, SETSV(v, w)
  PROVE  Tidy' /\ Kept /\ (Assigned(v, Strings[w]) \/ Unassigned)
<1>1. spoilt = "no" /\ Declared(v) /\ Declared(w)
  BY DEF SETSV
<1>2. PICK b : b = VBODY(Heap, v)
  OBVIOUS
<1>3. /\ After(Heap, b) /\ AllIntact(Heap, b) /\ (Ok(b) => Has(b, v) /\ At(b) = BodyOf(b, v))
      /\ Vp(Heap)[v[1]] # 0
  BY <1>1, <1>2, Begun
<1>4. << >> \in Seq(Nat) /\ Vp(Heap)[w[1]] # 0
  BY <1>1, HeapIs DEF Declared
<1>5. CASE ~Ok(b)
  <2>1. b.ok # TRUE /\ b.ok \in BOOLEAN
    BY <1>3, <1>5 DEF Ok, After, Good, Record
  <2>2. Fill(b, v, << >>)
    BY <1>2, <2>1, Zenon DEF SETSV
  <2> QED BY <1>1, <1>3, <1>4, <1>5, <2>2, FillIs
<1>6. CASE Ok(b)
  <2>1. PICK src : src = VBODY(b, w)
    OBVIOUS
  <2>2. PICK t : b \in Record /\ WellIn(b, t, {}) /\ Vp(b)[v[1]] # 0 /\ Vp(b)[w[1]] # 0 /\ Vp(b) = Vp(Heap)
    BY <1>3, <1>4 DEF After, Good
  <2>3. After(b, src) /\ AllIntact(b, src) /\ (Ok(src) => Has(src, w) /\ At(src) = BodyOf(src, w))
    BY <1>6, <2>1, <2>2, VbodyIs
  <2>4. After(Heap, src) /\ AllIntact(Heap, src)
    BY <1>3, <2>3, AfterAgain, IntactAgain, HeapIs
  <2>5. CASE ~Ok(src)
    <3>1. src.ok # TRUE /\ src.ok \in BOOLEAN
      BY <2>3, <2>5 DEF Ok, After, Good, Record
    <3>2. Fill(src, v, << >>)
      BY <1>2, <1>6, <2>1, <3>1, Zenon DEF SETSV, Ok
    <3> QED BY <1>1, <1>4, <2>4, <2>5, <3>2, FillIs
  <2>6. CASE Ok(src)
    <3>1. PICK n : n = Len(StringAt(src.mem, src.at))
      OBVIOUS
    <3>2. PICK dst : dst = SDEST(src, v, n)
      OBVIOUS
    <3>3. PICK u : src \in Record /\ WellIn(src, u, {}) /\ Vp(src)[v[1]] # 0
      BY <2>2, <2>3 DEF After, Good
    <3>4. /\ After(src, dst) /\ AllIntact(src, dst) /\ Others(src, dst, {v})
          /\ Has(src, v) /\ ~TooSmall(RoomOf(src, v), n) => Same(src, dst)
          /\ Ok(dst) => Has(dst, v) /\ At(dst) = BodyOf(dst, v) /\ ~TooSmall(RoomOf(dst, v), n)
      BY <2>6, <3>2, <3>3, SdestIs
    <3>5. After(Heap, dst) /\ AllIntact(Heap, dst)
      BY <2>4, <3>4, AfterAgain, IntactAgain, HeapIs
    <3>6. Fill(dst, v, StringAt(Mem(dst), At(src)))
      <4>1. Fill(dst, v, StringAt(dst.mem, IF dst.at # b.at THEN Source(b.at, src.at) ELSE src.at))
        BY <1>2, <1>6, <2>1, <2>6, <3>1, <3>2, Zenon DEF SETSV, Ok
      <4>2. (IF dst.at # b.at THEN Source(b.at, src.at) ELSE src.at) = src.at
        BY Zenon DEF Source
      <4>3. Fill(dst, v, StringAt(dst.mem, src.at))
        BY <4>1, <4>2, Zenon
      <4> QED BY <4>3, Zenon DEF Mem, At
    <3>7. StringAt(Mem(dst), At(src)) \in Seq(Nat)
      <4>1. At(src) \in Arena
        BY <2>3, <2>6, <3>3, BodyIn
      <4>2. Mem(dst) \in [Arena -> Nat]
        BY <3>4, Fields DEF After, Good
      <4> QED BY <4>1, <4>2, StringIs
    <3>8. PICK text : text = StringAt(Mem(dst), At(src))
      OBVIOUS
    <3>9. Tidy' /\ Kept /\ (~Ok(dst) => Unassigned)
      BY <1>1, <3>4, <3>5, <3>6, <3>7, <3>8, FillIs
    <3>10. ASSUME Ok(dst), Shut PROVE Assigned(v, text) /\ text = Strings[w]
      <4> DEFINE p == BodyOf(src, w)
                 room == RoomOf(src, w)
      <4>1. /\ Has(src, w) /\ At(src) = p /\ p \in Arena /\ room \in Nat /\ room \in Sizes /\ p + room <= Top
        BY <2>3, <2>6, <3>3, BodyIn
      <4>2. Ended(src, w) /\ Content(src, w) = Strings[w]
        BY <1>1, <2>4, <3>10, StringsNow DEF AllIntact, Intact
      <4>3. StringAt(Mem(src), p) = Strings[w] /\ \E j \in 0 .. room - 1 : Mem(src)[p + j] = 0
        BY <4>1, <4>2 DEF Ended, Content
      <4>4. Mem(src) \in [Arena -> Nat]
        BY <3>3, Fields
      <4> HIDE DEF p, room
      <4>5. Strings[w] \in Seq(Nat \ {0}) /\ Len(Strings[w]) < room
        BY <4>1, <4>3, <4>4, Reads
      <4>6. n = Len(Strings[w])
        <5>1. n = Len(StringAt(Mem(src), At(src)))
          BY <3>1, Zenon DEF Mem, At
        <5> QED BY <4>1, <4>3, <5>1
      <4>7. n \in Nat /\ n < room /\ n < Large /\ ~TooSmall(room, n)
        <5>1. n \in Nat /\ n < room
          BY <4>5, <4>6
        <5>2. room = Small \/ room = Large
          BY <4>1, SizesAre
        <5>3. n < Large
          BY <5>1, <5>2, Constants
        <5> QED BY <4>1, <5>1, <5>3 DEF TooSmall
      <4>8. text = Strings[w]
        <5>1. CASE w = v
          <6>1. Same(src, dst)
            BY <3>4, <4>1, <4>7, <5>1 DEF room
          <6> QED BY <3>8, <4>1, <4>3, <6>1 DEF Same
        <5>2. CASE w # v
          <6>1. Has(dst, w) /\ BodyOf(dst, w) = p
            BY <3>4, <4>1, <5>2 DEF Others, p
          <6>2. Content(dst, w) = Strings[w]
            BY <3>4, <4>2 DEF AllIntact, Intact
          <6> QED BY <3>8, <4>1, <6>1, <6>2 DEF Content
        <5> QED BY <5>1, <5>2
      <4>9. Len(text) < RoomOf(dst, v)
        <5>1. RoomOf(dst, v) \in Sizes
          BY <3>4, <3>10, BodyIn DEF After, Good
        <5> QED BY <3>4, <3>10, <4>6, <4>7, <4>8, <5>1, HasRoom
      <4>10. Assigned(v, text)
        BY <1>1, <3>4, <3>5, <3>6, <3>7, <3>8, <3>10, <4>5, <4>8, <4>9, FillIs
      <4> QED BY <4>8, <4>10
    <3>11. Ok(dst) => Assigned(v, Strings[w])
      BY <3>10 DEF Assigned
    <3> QED BY <3>9, <3>11
  <2> QED BY <2>5, <2>6
<1> QED BY <1>5, <1>6

(* A text that fits is written into a body just found.                     *)
LEMMA Puts ==
  ASSUME Tidy, spoilt = "no", NEW b, After(Heap, b), AllIntact(Heap, b), Ok(b), NEW v \in Vars, Has(b, v), At(b) = BodyOf(b, v),
         NEW str \in Seq(Nat \ {0}), Len(str) < RoomOf(b, v), NEW ws, ws = Append(str, 0),
         Become([b EXCEPT !.mem = Written(@, b.at, ws)]), tend' = tend, slm1' = slm1,
         spoilt' = Meeting(tend, heap')
  PROVE  Tidy' /\ Kept /\ Assigned(v, str)
<1>1. PICK s : b \in Record /\ WellIn(b, s, {})
  BY DEF After, Good
<1>2. PICK g : g = Stored(b, BodyOf(b, v), ws)
  OBVIOUS
<1>3. Become(Stored(b, b.at, ws))
  BY Zenon DEF Stored
<1>4. b.at = BodyOf(b, v)
  BY Zenon DEF At
<1>5. Become(g)
  BY <1>2, <1>3, <1>4, Zenon
<1>11. ws \in Seq(Nat) /\ Len(ws) <= RoomOf(b, v)
  <2>1. RoomOf(b, v) \in Nat
    BY <1>1, BodyIn
  <2>2. ws \in Seq(Nat) /\ Len(ws) = Len(str) + 1 /\ Len(str) \in Nat
    OBVIOUS
  <2> QED BY <2>1, <2>2
<1>6. After(b, g) /\ \A w \in Vars : w # v => Intact(b, g, w)
  BY <1>1, <1>2, <1>11, StoreIn
<1>12. Ended(g, v) /\ Content(g, v) = str
  <2>1. Spells(ws, str)
    BY DEF Spells
  <2> QED BY <1>1, <1>2, <2>1, StoreText
<1>7. After(Heap, g)
  BY <1>6, AfterAgain, HeapIs
<1>8. Good(g) /\ Later(Heap, g)
  BY <1>7 DEF After
<1>9. mem' = Mem(g) /\ heap' = Hp(g) /\ vptr' = Vp(g) /\ fl' = Fl(g)
  BY <1>5, Becomes
<1>10. slm1' \in Nat
  BY DEF Tidy, ArenaTypeOK
<1>13. Assigned(v, str)
  BY <1>6, <1>9, <1>12, Changes
<1> QED BY <1>8, <1>9, <1>10, <1>13, Ends

\* A command that went no further than the routine.
LEMMA Fails ==
  ASSUME Tidy, spoilt = "no", NEW b, After(Heap, b), AllIntact(Heap, b), Become(b), tend' = tend, slm1' = slm1,
         spoilt' = Meeting(tend, heap')
  PROVE  Tidy' /\ Kept /\ Unassigned
<1>1. Good(b) /\ Later(Heap, b)
  BY DEF After
<1>2. mem' = Mem(b) /\ heap' = Hp(b) /\ vptr' = Vp(b) /\ fl' = Fl(b)
  BY Becomes
<1>3. slm1' \in Nat
  BY DEF Tidy, ArenaTypeOK
<1> QED BY <1>1, <1>2, <1>3, Ends, Leaves

(* A number spelled into a string fits the smallest body.                  *)
LEMMA SETSNIs ==
  ASSUME Tidy, NEW v \in Vars, NEW s \in Decimals, SETSN(v, s)
  PROVE  Tidy' /\ Kept /\ (Assigned(v, s) \/ Unassigned)
<1>1. /\ spoilt = "no" /\ Declared(v) /\ tend' = tend /\ slm1' = slm1
      /\ spoilt' = Meeting(tend, heap')
  BY DEF SETSN
<1>2. PICK b : b = VBODY(Heap, v)
  OBVIOUS
<1>3. /\ After(Heap, b) /\ AllIntact(Heap, b) /\ (Ok(b) => Has(b, v) /\ At(b) = BodyOf(b, v))
      /\ Vp(Heap)[v[1]] # 0
  BY <1>1, <1>2, Begun
<1>4. CASE ~Ok(b)
  <2>1. b.ok # TRUE /\ b.ok \in BOOLEAN
    BY <1>3, <1>4 DEF Ok, After, Good, Record
  <2>2. Become(b)
    BY <1>2, <2>1, Zenon DEF SETSN
  <2> QED BY <1>1, <1>3, <2>2, Fails
<1>5. CASE Ok(b)
  <2> DEFINE ws == Append(s, 0)
  <2>1. Become([b EXCEPT !.mem = Written(@, b.at, ws)])
    BY <1>2, <1>5, Zenon DEF SETSN, Ok
  <2>2. s \in Seq(Nat \ {0}) /\ Len(s) < Small
    BY ArenaAssumption
  <2>3. Len(s) \in Nat
    BY <2>2
  <2>4. b \in Record /\ \E t : WellIn(b, t, {})
    BY <1>3 DEF After, Good
  <2>5. RoomOf(b, v) \in Sizes
    BY <1>3, <1>5, <2>4, BodyIn
  <2> HIDE DEF ws
  <2>6. Len(s) < RoomOf(b, v)
    <3>2. RoomOf(b, v) = Small \/ RoomOf(b, v) = Large
      BY <2>5, SizesAre
    <3> QED BY <2>2, <2>3, <3>2, Constants
  <2>7. ws = Append(s, 0)
    BY DEF ws
  <2> QED BY <1>1, <1>3, <1>5, <2>1, <2>2, <2>6, <2>7, Puts
<1> QED BY <1>4, <1>5

(* An answer: a text that fits is written, and one that does not ends what *)
(* is promised.                                                            *)
LEMMA ASKSTRIs ==
  ASSUME Tidy, NEW v \in Vars, NEW s \in Answers, ASKSTR(v, s)
  PROVE  Tidy' /\ Kept /\ (spoilt' = "asked" \/ Assigned(v, Cut(s, slm1)) \/ Unassigned)
<1>1. PICK b : b = VBODY(Heap, v)
  OBVIOUS
<1>2. /\ spoilt = "no" /\ Declared(v) /\ tend' = tend /\ slm1' = slm1 /\ slm1 \in Nat
      /\ spoilt' = IF b.ok /\ Len(Cut(s, slm1)) >= Capacity(b, v) THEN "asked"
                   ELSE Meeting(tend, heap')
  BY <1>1, Zenon DEF ASKSTR, Tidy, ArenaTypeOK
<1>3. /\ After(Heap, b) /\ AllIntact(Heap, b) /\ (Ok(b) => Has(b, v) /\ At(b) = BodyOf(b, v))
      /\ Vp(Heap)[v[1]] # 0
  BY <1>1, <1>2, Begun
<1>4. CASE ~Ok(b)
  <2>1. b.ok # TRUE /\ b.ok \in BOOLEAN
    BY <1>3, <1>4 DEF Ok, After, Good, Record
  <2>2. Become(b)
    BY <1>1, <2>1, Zenon DEF ASKSTR
  <2>3. spoilt' = Meeting(tend, heap')
    BY <1>2, <2>1, Zenon
  <2> QED BY <1>2, <1>3, <2>2, <2>3, Fails
<1>5. CASE Ok(b)
  <2> DEFINE ws == Terminated(s, slm1)
             n == Len(Cut(s, slm1))
  <2>1. Become([b EXCEPT !.mem = Written(@, b.at, ws)])
    BY <1>1, <1>5, Zenon DEF ASKSTR, Ok
  <2>2. s \in Seq(Nat) /\ s \in Seq(Nat \ {0})
    BY ArenaAssumption
  <2>3. ws \in Seq(Nat) /\ Len(ws) = n + 1
    BY <1>2, <2>2, TerminatedIs
  <2>4. n \in Nat
    BY <1>2, <2>2, TerminatedIs
  <2>5. PICK t : b \in Record /\ WellIn(b, t, {}) /\ Vp(b)[v[1]] # 0 /\ Good(b)
    BY <1>3 DEF After, Good
  <2>6. Capacity(b, v) = RoomOf(b, v) /\ RoomOf(b, v) \in Nat
    <3>1. Capacity(b, v) = RoomOf(b, v)
      BY <1>5, <2>5, CapacityIs
    <3>2. RoomOf(b, v) \in Sizes
      BY <1>3, <1>5, <2>5, BodyIn
    <3> QED BY <3>1, <3>2, SizesAre
  <2>7. b.ok
    BY <1>5, Zenon DEF Ok
  <2>8. spoilt' = IF n >= RoomOf(b, v) THEN "asked" ELSE Meeting(tend, heap')
    BY <1>2, <2>6, <2>7, Zenon
  <2> HIDE DEF ws, n
  <2>9. CASE n >= RoomOf(b, v)
    <3>1. spoilt' = "asked"
      BY <2>8, <2>9
    <3>2. PICK g : g = Stored(b, At(b), ws)
      OBVIOUS
    <3>3. Become(g)
      BY <2>1, <3>2, Zenon DEF Stored, At
    <3>4. At(b) \in Nat
      BY <2>5, Fields
    <3>5. g \in Record /\ Hp(g) = Hp(b)
      BY <2>3, <2>5, <3>2, <3>4, StoredIs
    <3>6. /\ mem' \in [Arena -> Nat] /\ heap' = Hp(b) /\ vptr' \in [Classes -> {0} \cup Arena]
          /\ fl' \in [Sizes -> {0} \cup Arena]
      BY <3>3, <3>5, Becomes, Fields
    <3>7. heap' \in TXTB .. Top
      BY <2>5, <3>6, Constants DEF WellIn, Well
    <3>8. ArenaTypeOK'
      BY <1>2, <3>1, <3>6, <3>7 DEF ArenaTypeOK, Tidy, Sizes
    <3> QED BY <3>1, <3>8 DEF Tidy, Kept
  <2>10. CASE ~(n >= RoomOf(b, v))
    <3>1. Len(Cut(s, slm1)) < RoomOf(b, v)
      BY <2>4, <2>6, <2>10 DEF n
    <3>2. spoilt' = Meeting(tend, heap')
      BY <2>8, <2>10
    <3>3. Cut(s, slm1) \in Seq(Nat \ {0})
      <4>1. ASSUME Len(s) > slm1 PROVE SubSeq(s, 1, slm1) \in Seq(Nat \ {0})
        BY <1>2, <2>2, <4>1
      <4> QED BY <2>2, <4>1 DEF Cut
    <3>4. PICK str : str = Cut(s, slm1)
      OBVIOUS
    <3>5. ws = Append(str, 0) /\ str \in Seq(Nat \ {0}) /\ Len(str) < RoomOf(b, v)
      BY <3>1, <3>3, <3>4 DEF ws, Terminated
    <3>6. Tidy' /\ Kept /\ Assigned(v, str)
      BY <1>2, <1>3, <1>5, <2>1, <3>2, <3>5, Puts
    <3> QED BY <3>4, <3>6
  <2> QED BY <2>9, <2>10
<1> QED BY <1>4, <1>5

(* Nothing carved: nobody owns a word.                                     *)
LEMMA NobodyOwns ==
  ASSUME NEW mm \in [Arena -> Nat], NEW vp, vp = [c \in Classes |-> 0],
         NEW ff \in [Sizes -> {0} \cup Arena], ff[Small] = 0, ff[Large] = 0,
         tend \in Nat, TXTB + tend <= Top
  PROVE  Well(mm, Top, vp, ff, << >>, {})
<1>1. vp \in [Classes -> {0} \cup Arena] /\ \A c \in Classes : vp[c] = 0
  OBVIOUS
<1>2. \A v \in Vars : v[1] \in Classes
  BY DEF Vars
<1>3. \A v \in Vars : ~Bodied(mm, vp, v)
  BY <1>1, <1>2 DEF Bodied
<1>4. << >> \in Seq(Arena) /\ Len(<< >>) = 0 /\ Range(<< >>) = {}
  BY DEF Range
<1>5. Chain(mm, ff[Small], << >>)
  BY <1>4 DEF Chain
<1>6. OwnersOf(mm, vp, {}) = {}
  BY <1>1, <1>3 DEF OwnersOf
<1>7. Top .. Top - 1 = {}
  BY Constants
<1>8. Tiled({}, Top)
  BY <1>7 DEF Tiled
<1>9. OwnersOf(mm, vp, Range(<< >>)) \cup {} = {}
  <2> DEFINE s == << >>
  <2>1. Range(s) = {}
    BY <1>4
  <2> HIDE DEF s
  <2>2. OwnersOf(mm, vp, Range(s)) = {}
    BY <1>6, <2>1
  <2> QED BY <2>2 DEF s
<1>10. Tiled(OwnersOf(mm, vp, Range(<< >>)) \cup {}, Top)
  BY <1>8, <1>9
<1> QED BY <1>1, <1>3, <1>5, <1>10, Constants DEF Well

(* The commands leave Well as it stands for the variables' next values.    *)
LEMMA WellNext ==
  ASSUME NEW s, tend' = tend, Well(mem', heap', vptr', fl', s, {})
  PROVE  Well(mem, heap, vptr, fl, s, {})'
BY DEF Well, Chain, Tiled, OwnersOf, Bodied, BodyOwner, ClassOwner, FreeOwner, Place

(* ERASE: with no body on a list, all the heap's words are free again      *)
(* (focal.s DOERAS).                                                       *)
LEMMA DOERASIs ==
  ASSUME Tidy, DOERAS
  PROVE  Tidy' /\ Kept /\ Shut' /\ Strings' = [v \in Vars |-> << >>]
<1>1. /\ spoilt = "no" /\ mem' = mem /\ tend' = tend /\ fl' = fl /\ slm1' = slm1 /\ heap' = Top
      /\ vptr' = [c \in Classes |-> 0] /\ spoilt' = IF fl[Small] # 0 THEN "erased" ELSE "no"
  BY DEF DOERAS
<1>2. /\ mem \in [Arena -> Nat] /\ tend \in Nat /\ fl \in [Sizes -> {0} \cup Arena]
      /\ heap \in TXTB .. Top /\ TXTB + tend < heap /\ mem[TXTB + tend] = 0 /\ ArenaTypeOK
  BY <1>1, Constants DEF Tidy, ArenaTypeOK, Sizes
<1>3. ArenaTypeOK'
  <2>1. Top \in TXTB .. Top
    BY Constants
  <2> QED BY <1>1, <1>2, <2>1 DEF ArenaTypeOK
<1>4. TXTB + tend < Top
  BY <1>2, Constants
<1>5. ASSUME spoilt' = "no" PROVE \E s : Well(mem, heap, vptr, fl, s, {})'
  <2>1. fl[Small] = 0
    BY <1>1, <1>5
  <2>2. fl[Large] = 0
    BY <1>1 DEF Tidy, Well
  <2>4. Well(mem, Top, vptr', fl, << >>, {})
    BY <1>1, <1>2, <1>4, <2>1, <2>2, Constants, NobodyOwns
  <2>3. Well(mem', heap', vptr', fl', << >>, {})
    BY <1>1, <2>4
  <2> QED BY <1>1, <2>3, WellNext
<1>6. \A v \in Vars : v[1] \in Classes
  BY DEF Vars
<1>7. \A v \in Vars : ~HasBody(v)'
  BY <1>1, <1>6 DEF HasBody
<1>8. Shut' /\ Strings' = [v \in Vars |-> << >>]
  BY <1>7 DEF Shut, Strings
<1> QED BY <1>1, <1>2, <1>3, <1>4, <1>5, <1>8 DEF Tidy, Kept

(* Before the first command nobody owns a word.                            *)
LEMMA Initially ==
  ASSUME ArenaInit
  PROVE  Tidy /\ Shut /\ Strings = [v \in Vars |-> << >>]
<1>1. /\ mem = [x \in Arena |-> 0] /\ tend = 0 /\ heap = Top /\ vptr = [c \in Classes |-> 0]
      /\ fl = [n \in Sizes |-> 0] /\ slm1 = Limit0 /\ spoilt = "no"
  BY DEF ArenaInit, Sizes
<1>2. mem \in [Arena -> Nat] /\ fl \in [Sizes -> {0} \cup Arena] /\ fl[Small] = 0 /\ fl[Large] = 0
      /\ vptr \in [Classes -> {0} \cup Arena]
  BY <1>1, SizesAre
<1>3. TXTB + tend < Top /\ tend \in 0 .. Top - TXTB /\ Top \in TXTB .. Top
      /\ TXTB \in Arena /\ TXTB + tend = TXTB /\ Limit0 \in Nat
  BY <1>1, Constants, ArenaAssumption DEF Arena
<1>4. Well(mem, heap, vptr, fl, << >>, {})
  BY <1>1, <1>2, <1>3, NobodyOwns, Constants
<1>5. ArenaTypeOK
  BY <1>1, <1>2, <1>3 DEF ArenaTypeOK, Sizes
<1>6. mem[TXTB + tend] = 0
  BY <1>1, <1>3
<1>7. \A v \in Vars : v[1] \in Classes
  BY DEF Vars
<1>8. \A v \in Vars : ~HasBody(v)
  BY <1>1, <1>7 DEF HasBody
<1>9. Shut /\ Strings = [v \in Vars |-> << >>]
  BY <1>8 DEF Shut, Strings
<1> QED BY <1>1, <1>3, <1>4, <1>5, <1>6, <1>9 DEF Tidy

-----------------------------------------------------------------------------
(* Filing a line: everything that moves lies below the heap.               *)

\* A walk over 0 .. end by G, until a place in Q; and from x on down there.
IsWalk(f, end, Q, G) == f = [x \in 0 .. end |-> IF x \in Q THEN x ELSE f[G[x]]]
Goes(f, x, Q, G) == f[x] = IF x \in Q THEN x ELSE f[G[x]]
GoesFrom(f, a, end, Q, G) == \A x \in a .. end : Goes(f, x, Q, G)
StaysFrom(f, a, end) == \A x \in a .. end : f[x] \in 0 .. end

(* A walk that only goes up ends, and not past the end.                    *)
LEMMA WalkEnds ==
  ASSUME NEW end \in Nat, NEW G \in [0 .. end -> 0 .. end], NEW Q, end \in Q,
         \A x \in 0 .. end : x \notin Q => G[x] > x
  PROVE  (\E f : IsWalk(f, end, Q, G)) /\ (\A f : IsWalk(f, end, Q, G) => f[0] \in 0 .. end)
<1>1. \E f : IsWalk(f, end, Q, G)
  <2> DEFINE Some(a) == \E f \in [0 .. end -> 0 .. end] : GoesFrom(f, a, end, Q, G)
             S == {d \in 0 .. end : Some(end - d)}
  <2>1. 0 \in S
    <3> DEFINE f == [x \in 0 .. end |-> x]
    <3>1. f \in [0 .. end -> 0 .. end] /\ end - 0 = end /\ f[end] = end
      OBVIOUS
    <3>2. \A x \in end .. end : x = end
      OBVIOUS
    <3> HIDE DEF f
    <3>3. GoesFrom(f, end, end, Q, G)
      BY <3>1, <3>2 DEF GoesFrom, Goes
    <3>4. Some(end)
      BY <3>1, <3>3
    <3> HIDE DEF Some
    <3> QED BY <3>1, <3>4
  <2>2. ASSUME NEW d \in 0 .. end - 1, d \in S PROVE d + 1 \in S
    <3>1. PICK f \in [0 .. end -> 0 .. end] : GoesFrom(f, end - d, end, Q, G)
      BY <2>2
    <3>2. PICK y \in 0 .. end : y = end - (d + 1)
      OBVIOUS
    <3>3. PICK z : z = IF y \in Q THEN y ELSE f[G[y]]
      OBVIOUS
    <3>4. z \in 0 .. end
      BY <3>3
    <3>5. PICK g \in [0 .. end -> 0 .. end] : g = [f EXCEPT ![y] = z]
      BY <3>4
    <3>6. ASSUME NEW x \in y .. end PROVE Goes(g, x, Q, G)
      <4>1. x \in 0 .. end /\ x >= y /\ (x # y => x \in end - d .. end)
        BY <3>2
      <4>2. x \notin Q => G[x] \in 0 .. end /\ G[x] > x
        BY <4>1
      <4>3. x \notin Q => G[x] # y
        BY <4>1, <4>2
      <4>4. x \notin Q => g[G[x]] = f[G[x]]
        BY <3>5, <4>2, <4>3
      <4>5. CASE x = y
        BY <3>3, <3>5, <4>4, <4>5 DEF Goes
      <4>6. CASE x # y
        BY <3>1, <3>5, <4>1, <4>4, <4>6 DEF Goes, GoesFrom
      <4> QED BY <4>5, <4>6
    <3>7. GoesFrom(g, y, end, Q, G)
      BY <3>2, <3>6 DEF GoesFrom
    <3>8. Some(end - (d + 1))
      BY <3>2, <3>7
    <3>9. d + 1 \in 0 .. end
      OBVIOUS
    <3> HIDE DEF Some
    <3> QED BY <3>8, <3>9
  <2>3. end \in S
    <3> HIDE DEF S
    <3>1. 0 .. end \subseteq S
      BY <2>1, <2>2, UpTo
    <3> QED BY <3>1
  <2>4. PICK f \in [0 .. end -> 0 .. end] : GoesFrom(f, end - end, end, Q, G)
    BY <2>3
  <2>5. \A x \in 0 .. end : f[x] = IF x \in Q THEN x ELSE f[G[x]]
    BY <2>4, end - end = 0 DEF GoesFrom, Goes
  <2>6. [x \in 0 .. end |-> f[x]] = [x \in 0 .. end |-> IF x \in Q THEN x ELSE f[G[x]]]
    BY <2>5, Zenon
  <2> QED BY <2>6 DEF IsWalk
<1>2. ASSUME NEW f, IsWalk(f, end, Q, G)
      PROVE  f[0] \in 0 .. end
  <2> DEFINE S == {d \in 0 .. end : StaysFrom(f, end - d, end)}
  <2>1. \A x \in 0 .. end : Goes(f, x, Q, G)
    BY <1>2 DEF IsWalk, Goes
  <2>2. 0 \in S
    <3>1. \A x \in end - 0 .. end : x = end
      OBVIOUS
    <3>2. f[end] = end
      BY <2>1 DEF Goes
    <3> QED BY <3>1, <3>2 DEF StaysFrom
  <2>3. ASSUME NEW d \in 0 .. end - 1, d \in S PROVE d + 1 \in S
    <3>1. ASSUME NEW x \in end - (d + 1) .. end PROVE f[x] \in 0 .. end
      <4>1. x \in 0 .. end /\ Goes(f, x, Q, G)
        BY <2>1
      <4>2. CASE x \in Q
        BY <4>1, <4>2 DEF Goes
      <4>3. CASE x \notin Q
        <5>1. G[x] \in 0 .. end /\ G[x] > x
          BY <4>1, <4>3
        <5>2. G[x] \in end - d .. end
          BY <5>1
        <5> QED BY <2>3, <4>1, <4>3, <5>2 DEF Goes, StaysFrom
      <4> QED BY <4>2, <4>3
    <3> QED BY <3>1 DEF StaysFrom
  <2>4. end \in S
    <3> HIDE DEF S
    <3>1. 0 .. end \subseteq S
      BY <2>2, <2>3, UpTo
    <3> QED BY <3>1
  <2> QED BY <2>4 DEF StaysFrom
<1> QED BY <1>1, <1>2

\* The zero is found, and no line goes past it (focal.s TLEN, TNUM).
LEMMA TlenIs ==
  ASSUME NEW mm \in [Arena -> Nat], NEW t \in Nat, TXTB + t < Top, mm[TXTB + t] = 0
  PROVE  TLEN(mm) \in 0 .. t /\ mm[TXTB + TLEN(mm)] = 0
<1> DEFINE S == {x \in 0 .. Top - TXTB : TXTB + x = Top \/ Txt(mm, x) = 0}
<1>1. t \in S /\ S \subseteq Nat
  BY Constants DEF Txt
<1> HIDE DEF S
<1>2. Least(S) \in S /\ Least(S) <= t
  BY <1>1, LeastIs
<1>3. PICK x : x = Least(S)
  OBVIOUS
<1>4. x \in Nat /\ x <= t /\ (TXTB + x = Top \/ mm[TXTB + x] = 0)
  BY <1>1, <1>2, <1>3 DEF S, Txt
<1>5. TLEN(mm) = x
  BY <1>3 DEF TLEN, S
<1> QED BY <1>4, <1>5, Constants

(* The next line begins further on, at the zero at the latest.             *)
LEMMA TnextIs ==
  ASSUME NEW mm \in [Arena -> Nat], NEW end \in Nat, TXTB + end < Top, mm[TXTB + end] = 0,
         NEW x \in 0 .. end - 1
  PROVE  TNEXT(mm, x) \in x + 1 .. end
<1> DEFINE S == {y \in x + 1 .. Top - TXTB : TXTB + y = Top \/ Txt(mm, y) \in {0, NL}}
<1>1. end \in S /\ S \subseteq Nat
  BY Constants DEF Txt
<1>2. PICK stop : stop = Least(S)
  OBVIOUS
<1>3. stop \in S /\ stop <= end
  <2> HIDE DEF S
  <2> QED BY <1>1, <1>2, LeastIs
<1>4. stop \in x + 1 .. end
  BY <1>1, <1>3
<1>5. TNEXT(mm, x) = IF TXTB + stop # Top /\ Txt(mm, stop) = NL THEN stop + 1 ELSE stop
  BY <1>2, Zenon DEF TNEXT
<1>6. Txt(mm, stop) = NL => stop # end
  BY DEF Txt, NL
<1> QED BY <1>4, <1>5, <1>6

(* LFIND's walk.                                                           *)
StopsAt(mm, end, k) == {x \in 0 .. end : x = end \/ LaterOrEqual(k, Txt(mm, x))}
Hops(mm, end) == [x \in 0 .. end |-> IF x = end THEN end ELSE TNEXT(mm, x)]

LEMMA FindWalks ==
  ASSUME NEW mm \in [Arena -> Nat], NEW end \in Nat, TXTB + end < Top, mm[TXTB + end] = 0, NEW k
  PROVE  \E f : /\ IsWalk(f, end, StopsAt(mm, end, k), Hops(mm, end)) /\ f[0] \in 0 .. end
                /\ LFIND(mm, end, k) = [pos |-> f[0], match |-> f[0] # end /\ Txt(mm, f[0]) = k]
<1> DEFINE ok(f) == f = [x \in 0 .. end |-> IF x = end \/ LaterOrEqual(k, Txt(mm, x)) THEN x
                                            ELSE f[TNEXT(mm, x)]]
           Q == StopsAt(mm, end, k)
           G == Hops(mm, end)
<1>1. \A x \in 0 .. end : x # end => TNEXT(mm, x) \in 0 .. end /\ TNEXT(mm, x) > x
  <2> SUFFICES ASSUME NEW x \in 0 .. end, x # end PROVE TNEXT(mm, x) \in 0 .. end /\ TNEXT(mm, x) > x
    OBVIOUS
  <2>1. x \in 0 .. end - 1
    OBVIOUS
  <2>2. TNEXT(mm, x) \in x + 1 .. end
    BY <2>1, TnextIs
  <2> QED BY <2>2
<1>2. G \in [0 .. end -> 0 .. end] /\ end \in Q /\ \A x \in 0 .. end : x \notin Q => G[x] > x
  BY <1>1 DEF StopsAt, Hops
<1>3. \A f : ok(f) <=> IsWalk(f, end, Q, G)
  <2> SUFFICES ASSUME NEW f PROVE ok(f) <=> IsWalk(f, end, Q, G)
    OBVIOUS
  <2>1. \A x \in 0 .. end : (IF x = end \/ LaterOrEqual(k, Txt(mm, x)) THEN x ELSE f[TNEXT(mm, x)])
                              = (IF x \in Q THEN x ELSE f[G[x]])
    BY DEF StopsAt, Hops
  <2> QED BY <2>1 DEF IsWalk
<1>4. (\E f : IsWalk(f, end, Q, G)) /\ \A f : IsWalk(f, end, Q, G) => f[0] \in 0 .. end
  <2> HIDE DEF G, Q
  <2> QED BY <1>2, WalkEnds
<1>5. ok(CHOOSE f : ok(f))
  <2> HIDE DEF ok
  <2> QED BY <1>3, <1>4
<1>6. PICK f : f = CHOOSE g : ok(g)
  OBVIOUS
<1>7. IsWalk(f, end, Q, G) /\ f[0] \in 0 .. end
  <2> HIDE DEF ok
  <2> QED BY <1>3, <1>4, <1>5, <1>6
<1>8. LFIND(mm, end, k) = [pos |-> f[0], match |-> f[0] # end /\ Txt(mm, f[0]) = k]
  BY <1>6, Zenon DEF LFIND
<1> QED BY <1>7, <1>8

(* A line is found somewhere in the text, or its end is (focal.s LFIND).   *)
LEMMA FindIs ==
  ASSUME NEW mm \in [Arena -> Nat], NEW end \in Nat, TXTB + end < Top, mm[TXTB + end] = 0, NEW k
  PROVE  \E p \in 0 .. end : LFIND(mm, end, k) = [pos |-> p, match |-> p # end /\ Txt(mm, p) = k]
BY FindWalks

(* A line cut out of the text: its zero comes down with the rest of it,    *)
(* and nothing above it is touched (focal.s TDEL).                         *)
LEMMA CutOut ==
  ASSUME NEW mm \in [Arena -> Nat], NEW end \in Nat, TXTB + end < Top, mm[TXTB + end] = 0,
         NEW pos \in 0 .. end - 1
  PROVE  \E m2 \in [Arena -> Nat], t \in 0 .. end :
           /\ TDEL(mm, end, pos) = [mem |-> m2, tend |-> t]
           /\ pos <= t /\ m2[TXTB + t] = 0 /\ \A a \in Arena : a > TXTB + end => m2[a] = mm[a]
<1> USE Constants
<1>1. TNEXT(mm, pos) \in pos + 1 .. end
  BY TnextIs
<1>2. PICK gap : gap = TNEXT(mm, pos) - pos
  OBVIOUS
<1>3. gap \in 1 .. end - pos
  BY <1>1, <1>2
<1> DEFINE lo == TXTB + pos
           hi == TXTB + end - gap
           m2 == [x \in Arena |-> IF x \in lo .. hi THEN mm[x + gap] ELSE mm[x]]
           t == end - gap
<1>4. t \in 0 .. end /\ hi = TXTB + t /\ TXTB + t \in lo .. hi /\ TXTB + t + gap = TXTB + end
      /\ TXTB + t \in Arena /\ pos <= t
  BY <1>3 DEF Arena
<1>5. \A x \in lo .. hi : x + gap \in Arena
  BY <1>3 DEF Arena
<1>6. m2 \in [Arena -> Nat]
  BY <1>5
<1>7. m2[TXTB + t] = 0
  BY <1>4
<1>8. \A a \in Arena : a > TXTB + end => a \notin lo .. hi
  BY <1>3 DEF Arena
<1>9. \A a \in Arena : a > TXTB + end => m2[a] = mm[a]
  BY <1>8
<1>10. TDEL(mm, end, pos) = [mem |-> m2, tend |-> t]
  BY <1>2, Zenon DEF TDEL
<1> HIDE DEF m2, t, lo, hi
<1> QED BY <1>4, <1>6, <1>7, <1>9, <1>10

\* Outside a range written the words stay.
LEMMA Unwritten ==
  ASSUME NEW mm \in [Arena -> Nat], NEW a \in Nat, NEW ws \in Seq(Nat), NEW x \in Arena,
         x \notin a .. a + Len(ws) - 1
  PROVE  Written(mm, a, ws)[x] = mm[x]
BY WrittenIs

\* Within the range written the words are those.
LEMMA WrittenAt ==
  ASSUME NEW mm \in [Arena -> Nat], NEW a \in Nat, NEW ws \in Seq(Nat), NEW x \in Arena,
         x \in a .. a + Len(ws) - 1
  PROVE  Written(mm, a, ws)[x] = ws[x - a + 1]
BY WrittenIs

(* A hole for a line: the zero goes up with the rest of the text, and the  *)
(* line put into the hole stays below it (focal.s TINS).                   *)
LEMMA MadeRoom ==
  ASSUME NEW mm \in [Arena -> Nat], NEW end \in Nat, TXTB + end < Top, mm[TXTB + end] = 0,
         NEW pos \in 0 .. end, NEW ws \in Seq(Nat), TXTB + end + Len(ws) <= Top,
         NEW hole, hole = TINS(mm, end, pos, Len(ws)),
         NEW m2, m2 = Written(hole.mem, TXTB + pos, ws)
  PROVE  /\ m2 \in [Arena -> Nat] /\ hole.tend = end + Len(ws)
         /\ TXTB + end + Len(ws) < Top => m2[TXTB + end + Len(ws)] = 0
         /\ \A a \in Arena : a > TXTB + end + Len(ws) => m2[a] = mm[a]
<1> USE Constants
<1>1. PICK gap \in Nat : gap = Len(ws)
  OBVIOUS
<1> DEFINE lo == TXTB + pos + gap
           hi == TXTB + end + gap
           m1 == [x \in Arena |-> IF x \in lo .. hi THEN mm[x - gap] ELSE mm[x]]
           p == TXTB + pos
<1>2. TINS(mm, end, pos, gap) = [mem |-> m1, tend |-> end + gap]
  BY Zenon DEF TINS
<1>3. hole = [mem |-> m1, tend |-> end + gap]
  BY <1>1, <1>2
<1>4. hole.mem = m1 /\ hole.tend = end + gap
  <2> HIDE DEF m1
  <2> QED BY <1>3
<1>5. \A x \in lo .. hi : x - gap \in Arena
  BY <1>1 DEF Arena
<1>6. m1 \in [Arena -> Nat]
  BY <1>5
<1>7. hi < Top => hi \in Arena /\ hi \in lo .. hi /\ hi - gap = TXTB + end
  BY DEF Arena
<1>8. hi < Top => m1[hi] = 0
  BY <1>7
<1>9. \A a \in Arena : a > hi => m1[a] = mm[a]
  BY DEF Arena
<1>10. p \in Nat /\ \A a \in Arena : a >= hi => a \notin p .. p + Len(ws) - 1
  BY <1>1 DEF Arena
<1>11. m2 = Written(m1, p, ws)
  BY <1>4
<1>12. hi \in Nat /\ Arena \subseteq Nat
  BY DEF Arena
<1> HIDE DEF m1, p
<1>13. m2 \in [Arena -> Nat] /\ \A x \in Arena : x \notin p .. p + Len(ws) - 1 => m2[x] = m1[x]
  <2>1. p \in Nat
    BY <1>10
  <2>2. Written(m1, p, ws) \in [Arena -> Nat]
    BY <1>6, <2>1, WrittenIs
  <2>3. \A x \in Arena : x \notin p .. p + Len(ws) - 1 => Written(m1, p, ws)[x] = m1[x]
    <3> SUFFICES ASSUME NEW x \in Arena, x \notin p .. p + Len(ws) - 1
                 PROVE  Written(m1, p, ws)[x] = m1[x]
      OBVIOUS
    <3> QED BY <1>6, <2>1, Unwritten, SMTT(30)
  <2> QED BY <1>11, <2>2, <2>3
<1>14. hi < Top => m2[hi] = 0
  BY <1>7, <1>8, <1>10, <1>12, <1>13
<1>15. \A a \in Arena : a > hi => m2[a] = mm[a]
  <2> HIDE DEF hi
  <2>1. \A a \in Arena : a > hi => a >= hi
    BY <1>12
  <2> QED BY <2>1, <1>9, <1>10, <1>13
<1> QED BY <1>1, <1>4, <1>13, <1>14, <1>15

(* A command that touches nothing from the heap up touches no string.      *)
LEMMA Beneath ==
  ASSUME NEW h \in Record, NEW s, WellIn(h, s, {}), NEW g \in Record, Vp(g) = Vp(h),
         \A a \in Arena : a >= Hp(h) => Mem(g)[a] = Mem(h)[a]
  PROVE  AllIntact(h, g)
<1> SUFFICES ASSUME NEW v \in Vars PROVE Spares(h, g, v)
  BY Spared DEF AllIntact
<1>1. PICK X : X = {}
  OBVIOUS
<1>2. WellIn(h, s, X)
  BY <1>1
<1>3. CASE Vp(h)[v[1]] = 0
  BY <1>3 DEF Spares, Has, Bodied
<1>4. CASE Vp(h)[v[1]] # 0
  <2>1. PICK d : d = Place(Vp(h), v)
    OBVIOUS
  <2>2. \A k \in 0 .. 3 : d + k \in Arena /\ Hp(h) <= d + k
    BY <1>2, <1>4, <2>1, DescriptorIn
  <2>3. Hp(h) \in Nat /\ Arena \subseteq Nat
    BY Fields, Constants DEF Arena
  <2>4. Mem(g)[d + 1] = Mem(h)[d + 1] /\ Mem(g)[d + 2] = Mem(h)[d + 2]
    <3>1. d + 1 \in Arena /\ Hp(h) <= d + 1 /\ d + 2 \in Arena /\ Hp(h) <= d + 2
      BY <2>2
    <3>2. d + 1 >= Hp(h) /\ d + 2 >= Hp(h)
      BY <2>3, <3>1
    <3> QED BY <3>1, <3>2
  <2>5. (Has(g, v) <=> Has(h, v)) /\ BodyOf(g, v) = BodyOf(h, v) /\ RoomOf(g, v) = RoomOf(h, v)
    BY <2>1, <2>4 DEF Has, Bodied, BodyOf, RoomOf
  <2>6. ASSUME Has(h, v)
        PROVE  /\ BodyOf(h, v) \in Arena /\ RoomOf(h, v) \in Nat /\ BodyOf(h, v) + RoomOf(h, v) <= Top
               /\ \A a \in Extent(BodyOf(h, v), RoomOf(h, v)) : Mem(g)[a] = Mem(h)[a]
    <3>1. PICK p : p = BodyOf(h, v)
      OBVIOUS
    <3>2. PICK n : n = RoomOf(h, v)
      OBVIOUS
    <3>3. p \in Arena /\ n \in Nat /\ p + n <= Top /\ Hp(h) <= p /\ Extent(p, n) \subseteq Arena
      BY <1>2, <2>6, <3>1, <3>2, BodyIn
    <3>4. \A a \in Extent(p, n) : a \in Arena /\ a >= Hp(h)
      BY <2>3, <3>3 DEF Extent
    <3> QED BY <3>1, <3>2, <3>3, <3>4
  <2> QED BY <2>5, <2>6 DEF Spares
<1> QED BY <1>3, <1>4

(* What a line filed below the heap leaves of the heap.                    *)
LEMMA Filed ==
  ASSUME Tidy, spoilt = "no", NEW m2 \in [Arena -> Nat], NEW t \in Nat, TXTB + t <= heap,
         TXTB + t < heap => m2[TXTB + t] = 0 /\ \A a \in Arena : a >= heap => m2[a] = mem[a],
         mem' = m2, tend' = t, UNCHANGED <<heap, vptr, fl, slm1>>, spoilt' = Meeting(t, heap)
  PROVE  Tidy' /\ (spoilt' = "no" => Unassigned)
<1> USE Constants
<1>1. PICK s : Well(mem, heap, vptr, fl, s, {})
  BY DEF Tidy
<1>2. heap \in TXTB .. Top /\ heap' = heap /\ vptr' = vptr /\ fl' = fl /\ slm1' = slm1
  BY DEF Tidy, ArenaTypeOK
<1>3. ArenaTypeOK'
  <2>1. tend' \in 0 .. Top - TXTB
    BY <1>2
  <2>2. spoilt' \in {"no", "met", "erased", "asked"}
    BY DEF Meeting
  <2> QED BY <1>2, <2>1, <2>2 DEF Tidy, ArenaTypeOK
<1>4. ASSUME TXTB + t < heap PROVE Well(m2, heap, vptr, fl, s, {})
  <2>1. ASSUME NEW c \in Classes, vptr[c] # 0, NEW a \in Extent(vptr[c], ClassSize)
        PROVE  m2[a] = mem[a]
    <3>1. ClassOwner(vptr, c) \in OwnersOf(mem, vptr, Range(s)) \cup {}
      BY <2>1 DEF OwnersOf
    <3>2. vptr[c] \in Nat /\ ClassSize \in Nat \ {0} /\ WordsOf(ClassOwner(vptr, c)) = Extent(vptr[c], ClassSize)
      BY <1>1, OwnWords DEF Well, Arena
    <3>3. heap <= vptr[c] /\ Extent(vptr[c], ClassSize) \subseteq Arena
      BY <1>1, <3>1, <3>2, Inside
    <3>4. a \in Arena /\ a >= heap
      BY <1>2, <3>2, <3>3 DEF Extent
    <3> QED BY <1>4, <3>4
  <2>2. ASSUME NEW p \in Range(s)
        PROVE  m2[p] = mem[p]
    <3>1. FreeOwner(p) \in OwnersOf(mem, vptr, Range(s)) \cup {}
      BY DEF OwnersOf
    <3>2. p \in Arena
      <4>1. s \in Seq(Arena)
        BY <1>1 DEF Well, Chain
      <4> QED BY <4>1 DEF Range
    <3>3. p \in Nat /\ Small \in Nat \ {0} /\ WordsOf(FreeOwner(p)) = Extent(p, Small)
      BY <3>2, OwnWords DEF Arena
    <3>4. heap <= p
      BY <1>1, <3>1, <3>3, Inside
    <3> QED BY <1>2, <1>4, <3>2, <3>3, <3>4
  <2> QED BY <1>1, <2>1, <2>2, Frame
<1>5. ASSUME spoilt' = "no" PROVE TXTB + t < heap
  <2>1. TXTB + t # heap
    BY <1>5 DEF Meeting
  <2> QED BY <1>2, <2>1
<1>6. ASSUME spoilt' = "no" PROVE Well(mem, heap, vptr, fl, s, {})'
  <2>1. t \in Nat /\ TXTB + t <= heap /\ Well(m2, heap, vptr, fl, s, {})
    BY <1>4, <1>5, <1>6
  <2>2. mem' = m2 /\ tend' = t /\ heap' = heap /\ vptr' = vptr /\ fl' = fl
    BY <1>2
  <2> QED BY <2>1, <2>2 DEF Well, Chain, Tiled, OwnersOf, Bodied, BodyOwner, ClassOwner, FreeOwner, Place
<1>7. ASSUME spoilt' = "no" PROVE TXTB + tend' < heap' /\ mem'[TXTB + tend'] = 0
  BY <1>2, <1>5, <1>7
<1>8. ASSUME spoilt' = "no" PROVE Unassigned
  <2>1. PICK g : g = [Heap EXCEPT !.mem = m2]
    OBVIOUS
  <2>2. Heap \in Record /\ WellIn(Heap, s, {})
    BY <1>1, HeapIs DEF WellIn
  <2>3. g \in Record /\ Mem(g) = m2 /\ Vp(g) = vptr
    BY <2>1, <2>2, HeapIs, MemIs
  <2>4. \A a \in Arena : a >= Hp(Heap) => Mem(g)[a] = Mem(Heap)[a]
    BY <1>5, <1>8, <2>3, HeapIs
  <2>5. AllIntact(Heap, g)
    BY <2>2, <2>3, <2>4, HeapIs, Beneath
  <2> QED BY <1>2, <2>3, <2>5, Leaves
<1> QED BY <1>3, <1>6, <1>7, <1>8 DEF Tidy

(* A line filed, put in place of another, refused or deleted (focal.s      *)
(* STORE).                                                                 *)
LEMMA STOREIs ==
  ASSUME Tidy, NEW k \in Keys, NEW body \in Bodies, STORE(k, body)
  PROVE  Tidy' /\ (spoilt' = "no" => Unassigned)
<1> USE Constants
<1>1. /\ spoilt = "no" /\ heap \in TXTB .. Top /\ mem \in [Arena -> Nat] /\ tend \in Nat
      /\ TXTB + tend < heap /\ mem[TXTB + tend] = 0 /\ TXTB + tend < Top
  BY DEF STORE, Tidy, ArenaTypeOK
<1>2. PICK end : end = TLEN(mem)
  OBVIOUS
<1>3. end \in 0 .. tend /\ mem[TXTB + end] = 0
  BY <1>1, <1>2, TlenIs
<1>4. end \in Nat /\ TXTB + end < heap /\ TXTB + end < Top
  BY <1>1, <1>3
<1>5. PICK pos \in 0 .. end : LFIND(mem, end, k) = [pos |-> pos, match |-> pos # end /\ Txt(mem, pos) = k]
  BY <1>1, <1>3, <1>4, FindIs
<1>6. PICK found : found = LFIND(mem, end, k)
  OBVIOUS
<1>7. found.pos = pos /\ (found.match => pos \in 0 .. end - 1)
  <2>1. found = [pos |-> pos, match |-> pos # end /\ Txt(mem, pos) = k]
    BY <1>5, <1>6
  <2>2. found.pos = pos /\ (found.match => pos # end)
    BY <2>1, Zenon
  <2>3. pos # end => pos \in 0 .. end - 1
    BY <1>4
  <2> QED BY <2>2, <2>3
<1>8. PICK rest : rest = IF found.match THEN TDEL(mem, end, found.pos) ELSE [mem |-> mem, tend |-> end]
  OBVIOUS
<1>9. PICK m1 \in [Arena -> Nat], t \in 0 .. end :
        /\ rest = [mem |-> m1, tend |-> t] /\ pos \in 0 .. t /\ m1[TXTB + t] = 0
        /\ \A a \in Arena : a > TXTB + end => m1[a] = mem[a]
  <2>1. CASE found.match
    <3>1. rest = TDEL(mem, end, pos) /\ pos \in 0 .. end - 1
      BY <1>7, <1>8, <2>1
    <3>2. PICK m2 \in [Arena -> Nat], u \in 0 .. end :
            /\ TDEL(mem, end, pos) = [mem |-> m2, tend |-> u]
            /\ pos <= u /\ m2[TXTB + u] = 0 /\ \A a \in Arena : a > TXTB + end => m2[a] = mem[a]
      BY <1>1, <1>3, <1>4, <3>1, CutOut
    <3>3. pos \in 0 .. u
      BY <3>2
    <3> QED BY <3>1, <3>2, <3>3
  <2>2. CASE ~found.match
    <3>1. rest = [mem |-> mem, tend |-> end]
      BY <1>8, <2>2
    <3>2. end \in 0 .. end
      BY <1>4
    <3> QED BY <1>1, <1>3, <3>1, <3>2
  <2> QED BY <2>1, <2>2
<1>10. rest.mem = m1 /\ rest.tend = t
  BY <1>9
<1>11. PICK line : line = Line(k, body)
  OBVIOUS
<1>12. line \in Seq(Nat)
  <2>1. body \in Seq(Nat) /\ k \in Nat
    BY ArenaAssumption
  <2>2. Len(body) + 3 \in Nat /\ NL \in Nat
    BY <2>1 DEF NL
  <2>3. <<k, Len(body) + 3>> \in Seq(Nat) /\ <<NL>> \in Seq(Nat)
    BY <2>1, <2>2
  <2>4. \A a, b, c \in Seq(Nat) : a \o b \o c \in Seq(Nat)
    OBVIOUS
  <2> QED BY <1>11, <2>1, <2>3, <2>4 DEF Line
<1>13. PICK hole : hole = TINS(rest.mem, rest.tend, found.pos, Len(line))
  OBVIOUS
<1>14. /\ UNCHANGED <<heap, vptr, fl, slm1>>
       /\ IF Bare(body) \/ ~Fits(t, Len(line))
          THEN mem' = m1 /\ tend' = t
          ELSE mem' = Written(hole.mem, TXTB + pos, line) /\ tend' = hole.tend
       /\ spoilt' = Meeting(tend', heap)
  BY <1>2, <1>6, <1>7, <1>8, <1>10, <1>11, <1>13, Zenon DEF STORE
<1>15. CASE Bare(body) \/ ~Fits(t, Len(line))
  <2>1. t \in Nat /\ TXTB + t < heap /\ TXTB + t <= heap
    BY <1>1, <1>4
  <2>2. \A a \in Arena : a >= heap => m1[a] = mem[a]
    <3>1. \A a \in Arena : a >= heap => a > TXTB + end
      BY <1>1, <1>4 DEF Arena
    <3> QED BY <1>9, <3>1
  <2> QED BY <1>1, <1>9, <1>14, <1>15, <2>1, <2>2, Filed
<1>16. CASE ~(Bare(body) \/ ~Fits(t, Len(line)))
  <2>1. t \in Nat /\ Len(line) \in Nat /\ TXTB + (t + Len(line)) <= heap /\ TXTB + t < Top
    <3>1. t \in Nat /\ Len(line) \in Nat /\ TXTB + t < Top
      BY <1>1, <1>4, <1>12
    <3>2. heap - (TXTB + t + Len(line)) >= 0
      BY <1>16 DEF Fits
    <3> QED BY <1>1, <3>1, <3>2
  <2>2. PICK m2 : m2 = Written(hole.mem, TXTB + pos, line)
    OBVIOUS
  <2>3. hole = TINS(m1, t, pos, Len(line)) /\ TXTB + t + Len(line) <= Top
    BY <1>1, <1>7, <1>10, <1>13, <2>1
  <2>4. /\ m2 \in [Arena -> Nat] /\ hole.tend = t + Len(line)
        /\ TXTB + t + Len(line) < Top => m2[TXTB + t + Len(line)] = 0
        /\ \A a \in Arena : a > TXTB + t + Len(line) => m2[a] = m1[a]
    <3>1. t \in Nat /\ pos \in 0 .. t /\ m1[TXTB + t] = 0 /\ TXTB + t < Top
      BY <1>9, <2>1
    <3> QED BY <1>12, <2>2, <2>3, <3>1, MadeRoom
  <2>5. PICK u : u = t + Len(line)
    OBVIOUS
  <2>6. u \in Nat /\ TXTB + u <= heap /\ mem' = m2 /\ tend' = u /\ TXTB + t + Len(line) = TXTB + u
    BY <1>14, <1>16, <2>1, <2>2, <2>4, <2>5
  <2>7. TXTB + u < heap => m2[TXTB + u] = 0 /\ \A a \in Arena : a >= heap => m2[a] = mem[a]
    <3>1. ASSUME TXTB + u < heap PROVE m2[TXTB + u] = 0
      BY <1>1, <2>4, <2>6, <3>1
    <3>2. ASSUME TXTB + u < heap, NEW a \in Arena, a >= heap PROVE m2[a] = mem[a]
      <4>1. a > TXTB + u /\ a > TXTB + end
        BY <1>1, <1>4, <2>6, <3>2 DEF Arena
      <4> QED BY <1>9, <2>4, <2>6, <4>1
    <3> QED BY <3>1, <3>2
  <2> QED BY <1>1, <1>14, <2>4, <2>6, <2>7, Filed
<1> QED BY <1>15, <1>16

-----------------------------------------------------------------------------
(* What the properties say, from the free list that Tidy has.              *)

(* A list with no body twice is no longer than the arena.                  *)
LEMMA ChainIsShort ==
  ASSUME NEW mm, NEW first, NEW s, Chain(mm, first, s)
  PROVE  Len(s) \in Nat /\ Len(s) <= Top - TXTB
<1> USE Constants
<1>1. s \in Seq(Arena) /\ \A j, k \in 1 .. Len(s) : s[j] = s[k] => j = k
  BY DEF Chain
<1>2. PICK n \in Nat : n = Len(s)
  BY <1>1
<1>3. s \in [1 .. n -> Arena]
  BY <1>1, <1>2
<1>4. IsFiniteSet(1 .. n) /\ Cardinality(1 .. n) = n
  BY FS_Interval
<1>5. IsFiniteSet(Arena) /\ Cardinality(Arena) = Top - TXTB
  <2>1. TXTB \in Int /\ Top - 1 \in Int /\ TXTB <= Top - 1 /\ (Top - 1) - TXTB + 1 = Top - TXTB
    OBVIOUS
  <2> QED BY <2>1, FS_Interval DEF Arena
<1>6. ASSUME n > Top - TXTB PROVE FALSE
  <2>1. Cardinality(Arena) < Cardinality(1 .. n)
    BY <1>4, <1>5, <1>6
  <2>2. \E x, y \in 1 .. n : x # y /\ s[x] = s[y]
    BY <1>3, <1>4, <1>5, <2>1, FS_PigeonHole
  <2> QED BY <1>1, <1>2, <2>2
<1> QED BY <1>2, <1>6

(* Following the links from FL8 finds the free bodies and no others.       *)
LEMMA FreeIsChain ==
  ASSUME NEW s, Chain(mem, fl[Small], s)
  PROVE  FreeBodies = Range(s)
<1> USE Constants
<1> DEFINE ok(h) == h = [j \in 0 .. Top - TXTB |->
                            IF j = 0 THEN fl[Small]
                            ELSE IF h[j - 1] \in Arena THEN mem[h[j - 1]] ELSE 0]
           n == Len(s)
           N == Top - TXTB
           f == [j \in 0 .. N |-> IF j < n THEN s[j + 1] ELSE 0]
<1>1. n \in Nat /\ n <= N /\ N \in Nat
  BY ChainIsShort
<1>2. s \in Seq(Arena) /\ 0 \notin Arena /\ fl[Small] = (IF s = << >> THEN 0 ELSE s[1])
      /\ \A j \in 1 .. n : mem[s[j]] = IF j = n THEN 0 ELSE s[j + 1]
  BY DEF Chain, Arena
<1>3. s = << >> <=> n = 0
  BY <1>2
<1>4. ASSUME NEW j \in 0 .. N
      PROVE  f[j] = IF j = 0 THEN fl[Small] ELSE IF f[j - 1] \in Arena THEN mem[f[j - 1]] ELSE 0
  <2> HIDE DEF n, N
  <2>1. f[j] = IF j < n THEN s[j + 1] ELSE 0
    OBVIOUS
  <2>2. CASE j = 0
    <3>1. j < n <=> n # 0
      BY <1>1, <2>2
    <3>2. j + 1 = 1
      BY <2>2
    <3> QED BY <1>2, <1>3, <2>1, <2>2, <3>1, <3>2
  <2>3. CASE j # 0
    <3>1. j - 1 \in 0 .. N /\ (j - 1) + 1 = j /\ j \in Nat
      BY <1>1, <2>3
    <3>2. f[j - 1] = IF j - 1 < n THEN s[j] ELSE 0
      BY <3>1
    <3>3. CASE j - 1 < n
      <4>1. j \in 1 .. n /\ (j < n <=> j # n)
        BY <1>1, <2>3, <3>1, <3>3
      <4>2. s[j] \in Arena
        BY <1>2, <4>1 DEF n
      <4>3. f[j - 1] = s[j] /\ mem[s[j]] = IF j = n THEN 0 ELSE s[j + 1]
        BY <1>2, <3>2, <3>3, <4>1
      <4> HIDE DEF f
      <4> QED BY <2>1, <2>3, <4>1, <4>2, <4>3
    <3>4. CASE ~(j - 1 < n)
      <4>1. ~(j < n)
        BY <1>1, <3>1, <3>4
      <4>2. f[j - 1] = 0 /\ f[j] = 0
        BY <2>1, <3>2, <3>4, <4>1
      <4> HIDE DEF f
      <4> QED BY <1>2, <2>3, <4>2
    <3> QED BY <3>3, <3>4
  <2> QED BY <2>2, <2>3
<1>5. ok(f)
  <2> DEFINE body(j) == IF j = 0 THEN fl[Small] ELSE IF f[j - 1] \in Arena THEN mem[f[j - 1]] ELSE 0
             k == [j \in 0 .. N |-> body(j)]
  <2>1. \A j \in 0 .. N : f[j] = k[j]
    BY <1>4
  <2>2. f \in [0 .. N -> {f[j] : j \in 0 .. N}] /\ k \in [0 .. N -> {f[j] : j \in 0 .. N}]
    <3> HIDE DEF body, n
    <3> QED BY <2>1
  <2>3. f = k
    <3> HIDE DEF body, f
    <3> QED BY <2>1, <2>2
  <2> QED BY <2>3
<1>6. PICK h : h = CHOOSE g : ok(g)
  OBVIOUS
<1>7. ok(h)
  <2> HIDE DEF ok
  <2> QED BY <1>5, <1>6
<1> DEFINE S == {j \in 0 .. N : h[j] = f[j]}
<1>8. ASSUME NEW j \in 0 .. N
      PROVE  h[j] = IF j = 0 THEN fl[Small] ELSE IF h[j - 1] \in Arena THEN mem[h[j - 1]] ELSE 0
  <2> HIDE DEF f, n
  <2> QED BY <1>7
<1>9. 0 .. N \subseteq S
  <2>1. 0 \in S
    <3>1. 0 \in 0 .. N
      BY <1>1
    <3> HIDE DEF f, N, ok
    <3> QED BY <1>4, <1>8, <3>1
  <2>2. ASSUME NEW j \in 0 .. N - 1, j \in S PROVE j + 1 \in S
    <3>1. j + 1 \in 0 .. N /\ (j + 1) - 1 = j /\ j + 1 # 0
      BY <1>1
    <3>2. h[j] = f[j]
      BY <2>2
    <3> HIDE DEF f, N, ok
    <3> QED BY <1>4, <1>8, <3>1, <3>2
  <2> HIDE DEF S, N
  <2> QED BY <1>1, <2>1, <2>2, UpTo
<1>10. FreeBodies = {h[j] : j \in 0 .. N} \cap Arena
  BY <1>6, Zenon DEF FreeBodies
<1>11. {h[j] : j \in 0 .. N} = {f[j] : j \in 0 .. N}
  <2> HIDE DEF f, N, ok
  <2> QED BY <1>9
<1>12. {f[j] : j \in 0 .. N} \cap Arena = Range(s)
  <2> HIDE DEF N, n
  <2>1. ASSUME NEW j \in 0 .. N, f[j] \in Arena PROVE f[j] \in Range(s)
    <3>1. j < n /\ f[j] = s[j + 1]
      BY <1>2, <2>1
    <3>2. j + 1 \in 1 .. n
      BY <1>1, <3>1
    <3>3. DOMAIN s = 1 .. n
      BY <1>2 DEF n
    <3> HIDE DEF f
    <3> QED BY <3>1, <3>2, <3>3 DEF Range
  <2>2. ASSUME NEW j \in 1 .. n PROVE s[j] \in Arena /\ s[j] \in {f[i] : i \in 0 .. N}
    <3>1. j - 1 \in 0 .. N /\ j - 1 < n /\ (j - 1) + 1 = j
      BY <1>1
    <3>2. f[j - 1] = s[j]
      BY <3>1
    <3>3. s[j] \in Arena
      BY <1>2 DEF n
    <3> HIDE DEF f
    <3> QED BY <3>1, <3>2, <3>3
  <2>3. Range(s) = {s[j] : j \in 1 .. n}
    BY <1>2 DEF Range, n
  <2> HIDE DEF f
  <2> QED BY <2>1, <2>2, <2>3
<1> QED BY <1>10, <1>11, <1>12

\* The owners of the property are those of the proof.
LEMMA OwnersAre ==
  Owners = OwnersOf(mem, vptr, FreeBodies) /\ \A p : WordsOf(p) = p.words
<1>1. \A v : Descriptor(v) = Place(vptr, v)
  BY DEF Descriptor, Place
<1>2. \A v : HasBody(v) <=> Bodied(mem, vptr, v)
  BY <1>1 DEF HasBody, Bodied
<1>3. {[of |-> <<"class", c, 0>>, words |-> Extent(vptr[c], ClassSize)] : c \in {c \in Classes : vptr[c] # 0}}
        = {ClassOwner(vptr, c) : c \in {c \in Classes : vptr[c] # 0}}
  BY Zenon DEF ClassOwner
<1>4. {[of |-> <<"body", v[1], v[2]>>, words |-> Extent(mem[Descriptor(v) + 1], mem[Descriptor(v) + 2])] :
          v \in {v \in Vars : HasBody(v)}}
        = {BodyOwner(mem, vptr, v) : v \in {v \in Vars : Bodied(mem, vptr, v)}}
  <2>1. {v \in Vars : HasBody(v)} = {v \in Vars : Bodied(mem, vptr, v)}
    BY <1>2, Zenon
  <2>2. \A v : [of |-> <<"body", v[1], v[2]>>, words |-> Extent(mem[Descriptor(v) + 1], mem[Descriptor(v) + 2])]
                 = BodyOwner(mem, vptr, v)
    BY <1>1, Zenon DEF BodyOwner
  <2> QED BY <2>1, <2>2, Zenon
<1>5. {[of |-> <<"free", p, 0>>, words |-> Extent(p, Small)] : p \in FreeBodies} = {FreeOwner(p) : p \in FreeBodies}
  BY Zenon DEF FreeOwner
<1>6. Owners = OwnersOf(mem, vptr, FreeBodies)
  BY <1>3, <1>4, <1>5, Zenon DEF Owners, OwnersOf
<1> QED BY <1>6, Zenon DEF WordsOf

(* What Tidy says of the owners is what Accounted says.                    *)
LEMMA AccountedFor ==
  ASSUME Tidy
  PROVE  Accounted
<1> SUFFICES ASSUME spoilt = "no"
             PROVE  /\ \A p, q \in Owners : p # q => p.words \cap q.words = {}
                    /\ UNION {p.words : p \in Owners} = heap .. Top - 1
                    /\ TXTB + tend < heap
  BY Zenon DEF Accounted
<1>1. PICK s : Well(mem, heap, vptr, fl, s, {})
  BY DEF Tidy
<1>2. FreeBodies = Range(s)
  BY <1>1, FreeIsChain DEF Well
<1>3. Tiled(Owners, heap)
  <2>1. Tiled(OwnersOf(mem, vptr, Range(s)) \cup {}, heap)
    BY <1>1 DEF Well
  <2>2. OwnersOf(mem, vptr, Range(s)) \cup {} = OwnersOf(mem, vptr, Range(s))
    BY Zenon
  <2> QED BY <1>2, <2>1, <2>2, OwnersAre, Zenon
<1>4. \A p, q \in Owners : p # q => p.words \cap q.words = {}
  BY <1>3, Zenon DEF Tiled, WordsOf
<1>5. UNION {p.words : p \in Owners} = heap .. Top - 1
  BY <1>3, Zenon DEF Tiled, WordsOf
<1>6. TXTB + tend < heap
  BY DEF Tidy
<1> QED BY <1>4, <1>5, <1>6

(* Every command and every command refused leaves it so.                   *)
LEMMA TidySteps ==
  ASSUME Tidy, [ArenaNext]_arenaVars
  PROVE  Tidy'
<1>1. ASSUME NEW k \in Keys, NEW body \in Bodies, STORE(k, body) PROVE Tidy'
  BY <1>1, STOREIs
<1>2. ASSUME NEW v \in Vars, DECLAR(v) PROVE Tidy'
  BY <1>2, DECLARIs
<1>3. ASSUME NEW v \in Vars, NEW s \in Texts, SETSL(v, s) PROVE Tidy'
  BY <1>3, SETSLIs
<1>4. ASSUME NEW v \in Vars, NEW w \in Vars, SETSV(v, w) PROVE Tidy'
  BY <1>4, SETSVIs
<1>5. ASSUME NEW v \in Vars, NEW s \in Decimals, SETSN(v, s) PROVE Tidy'
  BY <1>5, SETSNIs
<1>6. ASSUME NEW v \in Vars, NEW s \in Answers, ASKSTR(v, s) PROVE Tidy'
  BY <1>6, ASKSTRIs
<1>7. CASE DOERAS
  BY <1>7, DOERASIs
<1>8. CASE UNCHANGED arenaVars
  <2>1. /\ mem' = mem /\ tend' = tend /\ heap' = heap /\ vptr' = vptr /\ fl' = fl
        /\ slm1' = slm1 /\ spoilt' = spoilt
    BY <1>8 DEF arenaVars
  <2>2. ArenaTypeOK'
    BY <2>1 DEF Tidy, ArenaTypeOK
  <2>3. ASSUME NEW s, Well(mem, heap, vptr, fl, s, {}) PROVE Well(mem, heap, vptr, fl, s, {})'
    BY <2>1, <2>3, WellNext
  <2> QED BY <2>1, <2>2, <2>3 DEF Tidy
<1> QED BY <1>1, <1>2, <1>3, <1>4, <1>5, <1>6, <1>7, <1>8 DEF ArenaNext

-----------------------------------------------------------------------------
(* Every command, and every command refused, leaves every string its zero  *)
(* within its body, where the arena is still to be trusted.                *)
LEMMA ShutSteps ==
  ASSUME Tidy, Shut, [ArenaNext]_arenaVars
  PROVE  Shut'
<1> SUFFICES ASSUME spoilt' = "no" PROVE Shut'
  BY DEF Shut
<1>1. ASSUME NEW k \in Keys, NEW body \in Bodies, STORE(k, body) PROVE Shut'
  BY <1>1, STOREIs DEF Unassigned
<1>2. ASSUME NEW v \in Vars, DECLAR(v) PROVE Shut'
  BY <1>2, DECLARIs DEF Unassigned
<1>3. ASSUME NEW v \in Vars, NEW s \in Texts, SETSL(v, s) PROVE Shut'
  BY <1>3, SETSLIs DEF Unassigned, Assigned
<1>4. ASSUME NEW v \in Vars, NEW w \in Vars, SETSV(v, w) PROVE Shut'
  BY <1>4, SETSVIs DEF Unassigned, Assigned
<1>5. ASSUME NEW v \in Vars, NEW s \in Decimals, SETSN(v, s) PROVE Shut'
  BY <1>5, SETSNIs DEF Unassigned, Assigned
<1>6. ASSUME NEW v \in Vars, NEW s \in Answers, ASKSTR(v, s) PROVE Shut'
  BY <1>6, ASKSTRIs DEF Unassigned, Assigned
<1>7. CASE DOERAS
  BY <1>7, DOERASIs
<1>8. CASE UNCHANGED arenaVars
  BY <1>8 DEF arenaVars, Shut, HasBody, Descriptor
<1> QED BY <1>1, <1>2, <1>3, <1>4, <1>5, <1>6, <1>7, <1>8 DEF ArenaNext

-----------------------------------------------------------------------------
(* The text.  A stretch of it is read by its lengths from start to start:  *)
(* S has the starts, and the end.                                          *)

NextBy(mm, x) == x + Txt(mm, x + 1)

\* A line from x to n, which nothing of S lies inside of.
LineTo(mm, x, n, S) ==
  /\ n \in S /\ x + 3 <= n /\ Txt(mm, n - 1) = NL
  /\ \A y \in x + 1 .. n - 2 : Txt(mm, y) # NL
  /\ \A y \in S : y <= x \/ y >= n

\* What a line carries, and that it is a line there was.
Carries(mm, x) == [j \in 1 .. Txt(mm, x + 1) - 3 |-> Txt(mm, x + 1 + j)]
AsWas(m2, y, mm, x) == Txt(m2, y) = Txt(mm, x) /\ Carries(m2, y) = Carries(mm, x)

Full(mm, a, b) == \A x \in a .. b - 1 : Txt(mm, x) \in Nat \ {0}
Lined(mm, b, S) == \A x \in S \ {b} : LineTo(mm, x, NextBy(mm, x), S)
Ascends(mm, b, S) == \A x, y \in S \ {b} : x < y => Txt(mm, x) < Txt(mm, y)
Before(mm, b, S, c, T) == \A x \in S \ {b}, y \in T \ {c} : Txt(mm, x) < Txt(mm, y)

Stretch(mm, a, b, S) ==
  /\ a \in Nat /\ b \in Nat /\ S \subseteq a .. b /\ a \in S /\ b \in S
  /\ Full(mm, a, b) /\ Lined(mm, b, S) /\ Ascends(mm, b, S)

(* A line in a stretch lies within it.                                     *)
LEMMA LineIn ==
  ASSUME NEW mm, NEW a, NEW b, NEW S, Stretch(mm, a, b, S), NEW x \in S, x # b
  PROVE  /\ x \in Nat /\ a <= x /\ x + 3 <= b /\ Txt(mm, x + 1) \in Nat /\ NextBy(mm, x) \in Nat
         /\ NextBy(mm, x) \in S /\ x + 3 <= NextBy(mm, x) /\ NextBy(mm, x) <= b
         /\ LineTo(mm, x, NextBy(mm, x), S)
<1>1. LineTo(mm, x, NextBy(mm, x), S) /\ a \in Nat /\ b \in Nat /\ S \subseteq a .. b /\ b \in S
  BY DEF Stretch, Lined
<1>2. NextBy(mm, x) \in S /\ x + 3 <= NextBy(mm, x) /\ NextBy(mm, x) <= b
  BY <1>1 DEF LineTo
<1>5. x \in a .. b /\ NextBy(mm, x) \in a .. b
  BY <1>1, <1>2
<1>3. x \in Nat /\ a <= x /\ NextBy(mm, x) \in Nat /\ x + 3 <= b
  <2> DEFINE n == NextBy(mm, x)
  <2>1. n \in a .. b /\ x + 3 <= n
    BY <1>2, <1>5
  <2> HIDE DEF n
  <2>2. x \in Nat /\ a <= x /\ n \in Nat /\ x + 3 <= b
    BY <1>1, <1>5, <2>1
  <2> QED BY <2>2 DEF n
<1>4. Txt(mm, x + 1) \in Nat
  <2>1. x + 1 \in a .. b - 1
    BY <1>1, <1>3
  <2> QED BY <2>1 DEF Stretch, Full
<1> QED BY <1>1, <1>2, <1>3, <1>4

(* A stretch falls into two at any start.                                  *)
LEMMA Splits ==
  ASSUME NEW mm, NEW a, NEW b, NEW S, Stretch(mm, a, b, S), NEW p \in S
  PROVE  /\ Stretch(mm, a, p, S \cap (a .. p)) /\ Stretch(mm, p, b, S \cap (p .. b))
         /\ Before(mm, p, S \cap (a .. p), b, S \cap (p .. b))
<1> DEFINE L == S \cap (a .. p)
           R == S \cap (p .. b)
<1>1. /\ a \in Nat /\ b \in Nat /\ S \subseteq a .. b /\ a \in S /\ b \in S /\ p \in Nat /\ a <= p /\ p <= b
      /\ Full(mm, a, b) /\ Ascends(mm, b, S)
  BY DEF Stretch
<1>2. L \subseteq a .. p /\ a \in L /\ p \in L /\ R \subseteq p .. b /\ p \in R /\ b \in R
  BY <1>1
<1>3. Full(mm, a, p) /\ Full(mm, p, b)
  BY <1>1 DEF Full
<1>4. ASSUME NEW x \in L, x # p PROVE LineTo(mm, x, NextBy(mm, x), L)
  <2>1. x \in S /\ x # b /\ x < p
    BY <1>1, <1>4
  <2>2. LineTo(mm, x, NextBy(mm, x), S) /\ x + 3 <= NextBy(mm, x) /\ NextBy(mm, x) \in Nat /\ a <= x
    BY <2>1, LineIn
  <2>3. NextBy(mm, x) <= p
    BY <1>1, <2>1, <2>2 DEF LineTo
  <2>4. NextBy(mm, x) \in L
    BY <1>1, <2>1, <2>2, <2>3 DEF LineTo
  <2> QED BY <2>2, <2>4 DEF LineTo
<1>5. ASSUME NEW x \in R, x # b PROVE LineTo(mm, x, NextBy(mm, x), R)
  <2>1. x \in S /\ x >= p
    BY <1>1
  <2>2. LineTo(mm, x, NextBy(mm, x), S) /\ x + 3 <= NextBy(mm, x) /\ NextBy(mm, x) \in Nat
        /\ NextBy(mm, x) <= b
    BY <1>5, <2>1, LineIn
  <2>3. NextBy(mm, x) \in R
    BY <1>1, <2>1, <2>2 DEF LineTo
  <2> QED BY <2>2, <2>3 DEF LineTo
<1>6. (\A x \in L \ {p} : x \in S \ {b} /\ x < p) /\ \A x \in R \ {b} : x \in S \ {b} /\ p <= x
  BY <1>1
<1>7. Ascends(mm, p, L) /\ Ascends(mm, b, R) /\ Before(mm, p, L, b, R)
  <2>1. \A x \in L \ {p}, y \in R \ {b} : x < y
    BY <1>1, <1>6
  <2> QED BY <1>1, <1>6, <2>1 DEF Ascends, Before
<1> QED BY <1>1, <1>2, <1>3, <1>4, <1>5, <1>7 DEF Stretch, Lined

(* Two stretches that meet are one, when the lines of the first come       *)
(* before those of the second.                                             *)
LEMMA Joins ==
  ASSUME NEW mm, NEW a, NEW p, NEW b, NEW S, NEW T, Stretch(mm, a, p, S), Stretch(mm, p, b, T),
         Before(mm, p, S, b, T)
  PROVE  Stretch(mm, a, b, S \cup T)
<1>1. /\ a \in Nat /\ b \in Nat /\ p \in Nat /\ S \subseteq a .. p /\ T \subseteq p .. b
      /\ a \in S /\ p \in S /\ p \in T /\ b \in T
      /\ Full(mm, a, p) /\ Full(mm, p, b) /\ Ascends(mm, p, S) /\ Ascends(mm, b, T)
  BY DEF Stretch
<1>2. a <= p /\ p <= b /\ S \cup T \subseteq a .. b
  BY <1>1
<1>3. Full(mm, a, b)
  <2>1. ASSUME NEW x \in a .. b - 1 PROVE Txt(mm, x) \in Nat \ {0}
    <3>1. x \in a .. p - 1 \/ x \in p .. b - 1
      BY <1>1, <1>2
    <3> QED BY <1>1, <3>1 DEF Full
  <2> QED BY <2>1 DEF Full
<1>4. ASSUME NEW x \in S \cup T, x # b PROVE LineTo(mm, x, NextBy(mm, x), S \cup T)
  <2>1. CASE x \in S /\ x # p
    <3>1. LineTo(mm, x, NextBy(mm, x), S) /\ NextBy(mm, x) <= p /\ NextBy(mm, x) \in Nat
      BY <2>1, LineIn
    <3>2. \A y \in T : y >= NextBy(mm, x)
      BY <1>1, <3>1
    <3> QED BY <3>1, <3>2 DEF LineTo
  <2>2. CASE x \in T
    <3>1. LineTo(mm, x, NextBy(mm, x), T)
      BY <1>4, <2>2, LineIn
    <3>2. \A y \in S : y <= x
      BY <1>1, <2>2
    <3> QED BY <3>1, <3>2 DEF LineTo
  <2> QED BY <1>1, <2>1, <2>2
<1>5. Ascends(mm, b, S \cup T)
  <2>1. ASSUME NEW x \in S \cup T, NEW y \in S \cup T, x # b, y # b, x < y PROVE Txt(mm, x) < Txt(mm, y)
    <3>1. CASE x \in S /\ x # p /\ y \in T
      BY <2>1, <3>1 DEF Before
    <3>2. CASE x \in S /\ x # p /\ y \notin T
      <4>1. y # p
        BY <1>1, <3>2
      <4> QED BY <1>1, <2>1, <3>2, <4>1 DEF Ascends
    <3>3. CASE ~(x \in S /\ x # p)
      <4>1. x \in T /\ p <= x
        BY <1>1, <3>3
      <4>2. y \in T
        BY <1>1, <2>1, <4>1
      <4> QED BY <1>1, <2>1, <4>1, <4>2 DEF Ascends
    <3> QED BY <3>1, <3>2, <3>3
  <2> QED BY <2>1 DEF Ascends
<1> QED BY <1>1, <1>2, <1>3, <1>4, <1>5 DEF Stretch, Lined

\* The words of a stretch moved by d, up or down.
Moves(mm, a, b, S, d, m2, c, e, T) ==
  /\ Stretch(mm, a, b, S) /\ d \in Int /\ a + d >= 0 /\ c = a + d /\ e = b + d
  /\ \A x \in a .. b - 1 : Txt(m2, x + d) = Txt(mm, x)
  /\ T = {x + d : x \in S}

(* A stretch moved is a stretch of the same numbers.                       *)
LEMMA Shifted ==
  ASSUME NEW mm, NEW a, NEW b, NEW S, NEW d, NEW m2, NEW c, NEW e, NEW T,
         Moves(mm, a, b, S, d, m2, c, e, T)
  PROVE  /\ Stretch(m2, c, e, T)
         /\ \A x \in S \ {b} : x + d \in T \ {e}
         /\ \A y \in T \ {e} : y - d \in S \ {b} /\ Txt(m2, y) = Txt(mm, y - d) /\ AsWas(m2, y, mm, y - d)
<1> USE DEF Moves
<1>1. /\ a \in Nat /\ b \in Nat /\ S \subseteq a .. b /\ a \in S /\ b \in S
      /\ Full(mm, a, b) /\ Ascends(mm, b, S)
  BY DEF Stretch
<1>2. c \in Nat /\ e \in Nat /\ a <= b
  BY <1>1
<1>3. T \subseteq c .. e /\ c \in T /\ e \in T
  BY <1>1, <1>2
<1>4. Full(m2, c, e)
  <2>1. ASSUME NEW y \in c .. e - 1 PROVE Txt(m2, y) \in Nat \ {0}
    <3>1. PICK x : x = y - d
      OBVIOUS
    <3>2. x \in a .. b - 1 /\ y = x + d
      BY <1>1, <1>2, <3>1
    <3> QED BY <1>1, <3>2 DEF Full
  <2> QED BY <2>1 DEF Full
<1>5. \A y \in T \ {e} : y - d \in S \ {b} /\ y - d \in a .. b - 1
  BY <1>1
<1>6. \A y \in T \ {e} : Txt(m2, y) = Txt(mm, y - d)
  <2>1. ASSUME NEW y \in T \ {e} PROVE Txt(m2, y) = Txt(mm, y - d)
    <3>1. PICK x \in S : x = y - d /\ y = x + d
      BY <1>1
    <3>2. x \in a .. b - 1
      BY <1>5, <3>1
    <3> QED BY <3>1, <3>2
  <2> QED BY <2>1
<1>7. ASSUME NEW y \in T, y # e PROVE LineTo(m2, y, NextBy(m2, y), T)
  <2>1. PICK x \in S : y = x + d /\ x # b
    BY <1>7
  <2>2. /\ x \in Nat /\ a <= x /\ x + 3 <= b /\ Txt(mm, x + 1) \in Nat
        /\ NextBy(mm, x) \in S /\ x + 3 <= NextBy(mm, x) /\ NextBy(mm, x) <= b
        /\ LineTo(mm, x, NextBy(mm, x), S) /\ NextBy(mm, x) \in Nat
    BY <2>1, LineIn
  <2>3. PICK n \in S : n = NextBy(mm, x)
    BY <2>2
  <2>4. Txt(m2, y + 1) = Txt(mm, x + 1)
    <3>1. x + 1 \in a .. b - 1 /\ y + 1 = (x + 1) + d
      BY <1>1, <2>1, <2>2
    <3> QED BY <3>1
  <2>5. NextBy(m2, y) = n + d /\ n = x + Txt(mm, x + 1) /\ n \in Nat
    <3>1. n = x + Txt(mm, x + 1) /\ NextBy(m2, y) = y + Txt(mm, x + 1)
      BY <2>3, <2>4 DEF NextBy
    <3> QED BY <2>1, <2>2, <2>3, <3>1
  <2>6. n + d \in T /\ y + 3 <= n + d
    BY <2>1, <2>2, <2>3, <2>5
  <2>7. Txt(m2, n + d - 1) = NL
    <3>1. n - 1 \in a .. b - 1 /\ n + d - 1 = (n - 1) + d
      BY <1>1, <2>2, <2>3, <2>5
    <3>2. Txt(mm, n - 1) = NL
      BY <2>2, <2>3 DEF LineTo
    <3> QED BY <3>1, <3>2
  <2>8. ASSUME NEW z \in y + 1 .. n + d - 2 PROVE Txt(m2, z) # NL
    <3>1. PICK w : w = z - d
      OBVIOUS
    <3>2. w \in x + 1 .. n - 2 /\ w \in a .. b - 1 /\ z = w + d
      BY <1>1, <2>1, <2>2, <2>3, <2>5, <3>1
    <3>3. Txt(mm, w) # NL
      BY <2>2, <2>3, <3>2 DEF LineTo
    <3> QED BY <3>2, <3>3
  <2>9. ASSUME NEW z \in T PROVE z <= y \/ z >= n + d
    <3>1. PICK w \in S : z = w + d
      OBVIOUS
    <3>2. w <= x \/ w >= n
      BY <2>2, <2>3 DEF LineTo
    <3> QED BY <1>1, <2>1, <2>5, <3>1, <3>2
  <2> QED BY <2>5, <2>6, <2>7, <2>8, <2>9 DEF LineTo
<1>8. Ascends(m2, e, T)
  <2>1. ASSUME NEW y \in T \ {e}, NEW z \in T \ {e}, y < z PROVE Txt(m2, y) < Txt(m2, z)
    <3>1. PICK x \in S \ {b} : y = x + d
      OBVIOUS
    <3>2. PICK w \in S \ {b} : z = w + d
      OBVIOUS
    <3>5. x \in a .. b - 1 /\ w \in a .. b - 1
      <4>1. \A u \in S \ {b} : u \in a .. b - 1
        BY <1>1
      <4> QED BY <4>1
    <3>3. x < w /\ x \in a .. b - 1 /\ w \in a .. b - 1
      BY <1>1, <2>1, <3>1, <3>2, <3>5
    <3>4. Txt(m2, y) = Txt(mm, x) /\ Txt(m2, z) = Txt(mm, w)
      BY <3>1, <3>2, <3>3
    <3> QED BY <1>1, <3>3, <3>4 DEF Ascends
  <2> QED BY <2>1 DEF Ascends
<1>9. Stretch(m2, c, e, T)
  BY <1>2, <1>3, <1>4, <1>7, <1>8 DEF Stretch, Lined
<1>10. \A x \in S \ {b} : x + d \in T \ {e}
  BY <1>1
<1>11. ASSUME NEW y \in T, y # e PROVE AsWas(m2, y, mm, y - d)
  <2>1. PICK x \in S : y = x + d /\ x # b /\ x = y - d
    BY <1>1, <1>11
  <2>2. /\ x \in Nat /\ a <= x /\ x + 3 <= b /\ Txt(mm, x + 1) \in Nat /\ NextBy(mm, x) <= b
    BY <2>1, LineIn
  <2>3. PICK l \in Nat : l = Txt(mm, x + 1)
    BY <2>2
  <2>4. x + l <= b
    BY <2>2, <2>3 DEF NextBy
  <2>5. Txt(m2, y + 1) = l
    <3>1. x + 1 \in a .. b - 1 /\ y + 1 = (x + 1) + d
      BY <1>1, <2>1, <2>2
    <3> QED BY <2>3, <3>1
  <2>6. ASSUME NEW j \in 1 .. l - 3 PROVE Txt(m2, y + 1 + j) = Txt(mm, x + 1 + j)
    <3>1. PICK z : z = x + 1 + j
      OBVIOUS
    <3>2. z \in a .. b - 1 /\ y + 1 + j = z + d
      BY <1>1, <2>1, <2>2, <2>4, <3>1
    <3> QED BY <3>1, <3>2
  <2>7. Carries(m2, y) = Carries(mm, x)
    BY <2>3, <2>5, <2>6 DEF Carries
  <2>8. Txt(m2, y) = Txt(mm, x)
    BY <1>6, <1>11, <2>1
  <2> QED BY <2>1, <2>7, <2>8 DEF AsWas
<1> QED BY <1>5, <1>6, <1>9, <1>10, <1>11

\* The same words in the same place.
LEMMA Stays ==
  ASSUME NEW mm, NEW a, NEW b, NEW S, Stretch(mm, a, b, S),
         NEW m2, \A x \in a .. b - 1 : Txt(m2, x) = Txt(mm, x)
  PROVE  Stretch(m2, a, b, S) /\ \A x \in S \ {b} : Txt(m2, x) = Txt(mm, x) /\ AsWas(m2, x, mm, x)
<1>1. /\ a \in Nat /\ b \in Nat /\ S \subseteq a .. b
  BY DEF Stretch
<1>2. \A x \in S : x + 0 = x
  BY <1>1
<1>3. S = {x + 0 : x \in S}
  BY <1>2
<1>4. a + 0 >= 0 /\ 0 \in Int /\ a + 0 = a /\ b + 0 = b
  BY <1>1
<1>5. \A x \in a .. b - 1 : Txt(m2, x + 0) = Txt(mm, x)
  BY <1>1
<1>8. Moves(mm, a, b, S, 0, m2, a, b, S)
  BY <1>1, <1>3, <1>4, <1>5 DEF Moves
<1>6. Stretch(m2, a, b, S)
  BY <1>8, Shifted
<1>7. \A x \in S \ {b} : x \in a .. b - 1
  BY <1>1
<1>9. ASSUME NEW x \in S \ {b} PROVE AsWas(m2, x, mm, x)
  <2>1. x - 0 = x
    BY <1>7
  <2>2. AsWas(m2, x, mm, x - 0)
    BY <1>8, Shifted
  <2> QED BY <2>1, <2>2
<1> QED BY <1>5, <1>6, <1>7, <1>9 DEF AsWas

(* The numbers of a stretch's lines, compared with one.                    *)
AllBelow(mm, b, S, k) == \A x \in S \ {b} : Txt(mm, x) < k
AllAbove(mm, b, S, k) == \A x \in S \ {b} : k < Txt(mm, x)

\* A line at p, of a length that is not taken for a newline.
Spelled(m2, p, k, body, ws) ==
  /\ k \in Nat \ {0} /\ body \in Seq(Nat \ {0, NL}) /\ Len(body) + 3 # NL /\ ws = Line(k, body)
  /\ p \in Nat /\ \A j \in 1 .. Len(ws) : Txt(m2, p + j - 1) = ws[j]

(* A line written is a stretch by itself.                                  *)
LEMMA OneLine ==
  ASSUME NEW k, NEW body, NEW ws, NEW p, NEW m2, Spelled(m2, p, k, body, ws)
  PROVE  /\ ws \in Seq(Nat \ {0}) /\ Len(ws) = Len(body) + 3 /\ Txt(m2, p) = k /\ Carries(m2, p) = body
         /\ Stretch(m2, p, p + Len(ws), {p, p + Len(ws)})
<1> USE DEF Spelled
<1>1. PICK n \in Nat : n = Len(body)
  OBVIOUS
<1>2. <<k, n + 3>> \in Seq(Nat \ {0}) /\ <<NL>> \in Seq(Nat \ {0}) /\ body \in Seq(Nat \ {0})
  BY <1>1 DEF NL
<1>3. /\ ws \in Seq(Nat \ {0}) /\ Len(ws) = n + 3 /\ ws[1] = k /\ ws[2] = n + 3 /\ ws[n + 3] = NL
      /\ \A j \in 3 .. n + 2 : ws[j] = body[j - 2]
  <2>1. ws = <<k, n + 3>> \o body \o <<NL>>
    BY <1>1 DEF Line
  <2>2. PICK u : u = <<k, n + 3>> \o body
    OBVIOUS
  <2>3. /\ u \in Seq(Nat \ {0}) /\ Len(u) = n + 2 /\ u[1] = k /\ u[2] = n + 3
        /\ \A j \in 3 .. n + 2 : u[j] = body[j - 2]
    BY <1>1, <1>2, <2>2
  <2>4. ws = u \o <<NL>>
    BY <2>1, <2>2
  <2>5. ws \in Seq(Nat \ {0}) /\ Len(ws) = n + 3
    BY <1>2, <2>3, <2>4
  <2>6. \A j \in 1 .. n + 2 : ws[j] = u[j]
    BY <1>2, <2>3, <2>4
  <2>7. ws[n + 3] = NL
    BY <1>2, <2>3, <2>4
  <2> QED BY <2>3, <2>5, <2>6, <2>7
<1>4. PICK e : e = p + Len(ws)
  OBVIOUS
<1>5. e \in Nat /\ e = p + n + 3 /\ p # e
  BY <1>3, <1>4
<1>6. ASSUME NEW x \in p .. e - 1 PROVE x - p + 1 \in 1 .. Len(ws) /\ Txt(m2, x) = ws[x - p + 1]
  <2>1. x - p + 1 \in 1 .. Len(ws) /\ p + (x - p + 1) - 1 = x
    BY <1>3, <1>5
  <2> QED BY <2>1
<1>7. Full(m2, p, e)
  BY <1>3, <1>6 DEF Full
<1>8. Txt(m2, p) = k /\ Txt(m2, p + 1) = n + 3 /\ NextBy(m2, p) = e
  <2>1. p \in p .. e - 1 /\ p - p + 1 = 1 /\ p + 1 \in p .. e - 1 /\ (p + 1) - p + 1 = 2
    BY <1>5
  <2>2. Txt(m2, p) = k /\ Txt(m2, p + 1) = n + 3
    BY <1>3, <1>6, <2>1
  <2> QED BY <1>5, <2>2 DEF NextBy
<1>9. Txt(m2, e - 1) = NL
  <2>1. e - 1 \in p .. e - 1 /\ (e - 1) - p + 1 = n + 3
    BY <1>5
  <2> QED BY <1>3, <1>6, <2>1
<1>10. ASSUME NEW y \in p + 1 .. e - 2 PROVE Txt(m2, y) # NL
  <2>1. y \in p .. e - 1
    BY <1>5
  <2>2. Txt(m2, y) = ws[y - p + 1]
    BY <1>6, <2>1
  <2>3. CASE y = p + 1
    BY <1>1, <1>8, <2>3
  <2>4. CASE y # p + 1
    <3>1. y - p + 1 \in 3 .. n + 2 /\ y - p + 1 - 2 \in 1 .. n
      BY <1>5, <2>4
    <3>2. ws[y - p + 1] = body[y - p + 1 - 2]
      BY <1>3, <3>1
    <3>3. body[y - p + 1 - 2] # NL
      BY <1>1, <3>1
    <3> QED BY <2>2, <3>2, <3>3
  <2> QED BY <2>3, <2>4
<1> DEFINE S == {p, e}
<1>11. LineTo(m2, p, e, S)
  BY <1>5, <1>9, <1>10 DEF LineTo
<1>12. Lined(m2, e, S) /\ Ascends(m2, e, S)
  BY <1>5, <1>8, <1>11 DEF Lined, Ascends
<1>13. S \subseteq p .. e /\ p \in S /\ e \in S
  BY <1>5
<1>14. Stretch(m2, p, e, S)
  BY <1>5, <1>7, <1>12, <1>13 DEF Stretch
<1>15. ASSUME NEW j \in 1 .. n PROVE Txt(m2, p + 1 + j) = body[j]
  <2>1. PICK x : x = p + 1 + j
    OBVIOUS
  <2>2. x \in p .. e - 1 /\ x - p + 1 = j + 2 /\ j + 2 \in 3 .. n + 2 /\ (j + 2) - 2 = j
    BY <1>5, <2>1
  <2>3. ws[j + 2] = body[(j + 2) - 2]
    BY <1>3, <2>2
  <2> QED BY <1>6, <2>1, <2>2, <2>3
<1>16. Carries(m2, p) = body
  <2>1. n + 3 - 3 = n /\ body = [j \in 1 .. n |-> body[j]]
    BY <1>1
  <2> QED BY <1>8, <1>15, <2>1 DEF Carries
<1> QED BY <1>1, <1>3, <1>4, <1>8, <1>14, <1>16

\* The whole text, up to its zero.
TextOf(mm, t, S) == Stretch(mm, 0, t, S) /\ TXTB + t < Top /\ Txt(mm, t) = 0

(* The zero found first is the text's (focal.s TLEN).                      *)
LEMMA TlenEnds ==
  ASSUME NEW mm \in [Arena -> Nat], NEW t, NEW S, TextOf(mm, t, S)
  PROVE  TLEN(mm) = t
<1>1. t \in Nat /\ TXTB + t < Top /\ mm[TXTB + t] = 0 /\ Full(mm, 0, t)
  BY DEF TextOf, Stretch, Txt
<1>2. TLEN(mm) \in 0 .. t /\ Txt(mm, TLEN(mm)) = 0
  BY <1>1, TlenIs DEF Txt
<1>3. ASSUME TLEN(mm) # t PROVE FALSE
  <2>1. TLEN(mm) \in 0 .. t - 1
    BY <1>1, <1>2, <1>3
  <2> QED BY <1>1, <1>2, <2>1 DEF Full
<1> QED BY <1>3

(* A line ends by newline where it ends by length (focal.s TNUM, LINEXT).  *)
LEMMA TnextEnds ==
  ASSUME NEW mm, NEW t, NEW S, TextOf(mm, t, S), NEW x \in S, x # t
  PROVE  TNEXT(mm, x) = NextBy(mm, x)
<1> USE Constants
<1> DEFINE Q == {y \in x + 1 .. Top - TXTB : TXTB + y = Top \/ Txt(mm, y) \in {0, NL}}
<1>1. t \in Nat /\ TXTB + t < Top /\ Full(mm, 0, t) /\ Stretch(mm, 0, t, S)
  BY DEF TextOf, Stretch
<1>2. PICK n : n = NextBy(mm, x)
  OBVIOUS
<1>3. x \in Nat /\ n \in Nat /\ x + 3 <= n /\ n <= t /\ LineTo(mm, x, n, S)
  BY <1>1, <1>2, LineIn
<1>4. n - 1 \in Q /\ Q \subseteq Nat
  BY <1>1, <1>3 DEF LineTo
<1>5. ASSUME NEW y \in Q PROVE n - 1 <= y
  <2>1. y \in x + 1 .. Top - TXTB /\ (TXTB + y = Top \/ Txt(mm, y) \in {0, NL})
    OBVIOUS
  <2> HIDE DEF Q
  <2>2. ASSUME y < n - 1 PROVE FALSE
    <3>1. y \in x + 1 .. n - 2 /\ y \in 0 .. t - 1 /\ TXTB + y # Top
      BY <1>1, <1>3, <2>1, <2>2
    <3>2. Txt(mm, y) # NL /\ Txt(mm, y) # 0
      BY <1>1, <1>3, <3>1 DEF LineTo, Full
    <3> QED BY <2>1, <3>1, <3>2
  <2> QED BY <1>3, <2>1, <2>2
<1>6. PICK stop : stop = Least(Q)
  OBVIOUS
<1>7. stop = n - 1
  <2>1. stop \in Q /\ stop <= n - 1
    <3> HIDE DEF Q
    <3> QED BY <1>4, <1>6, LeastIs
  <2>2. n - 1 <= stop /\ stop \in Nat
    BY <1>4, <1>5, <2>1
  <2> QED BY <1>3, <2>1, <2>2
<1>8. TNEXT(mm, x) = IF TXTB + stop # Top /\ Txt(mm, stop) = NL THEN stop + 1 ELSE stop
  BY <1>6, Zenon DEF TNEXT
<1>9. TXTB + stop # Top /\ Txt(mm, stop) = NL /\ stop + 1 = n
  BY <1>1, <1>3, <1>7 DEF LineTo
<1> QED BY <1>2, <1>8, <1>9

\* Where a line with number k belongs: those before p are lower, the one there is not.
Belongs(mm, t, S, k, p) ==
  p \in S /\ (\A y \in S : y < p => Txt(mm, y) < k) /\ (p # t => k <= Txt(mm, p))

Due(mm, S, k, x) == x \in S /\ \A y \in S : y < x => Txt(mm, y) < k
DueFrom(mm, t, S, k, f, a) == \A x \in a .. t : Due(mm, S, k, x) => Belongs(mm, t, S, k, f[x])

(* The line is looked for in order, and found where it belongs (focal.s    *)
(* LFIND, LIGE).                                                           *)
LEMMA FindsPlace ==
  ASSUME NEW mm \in [Arena -> Nat], NEW t, NEW S, TextOf(mm, t, S), NEW k \in Nat
  PROVE  \E p : /\ Belongs(mm, t, S, k, p)
                /\ LFIND(mm, t, k) = [pos |-> p, match |-> p # t /\ Txt(mm, p) = k]
<1>1. t \in Nat /\ TXTB + t < Top /\ mm[TXTB + t] = 0 /\ S \subseteq 0 .. t /\ 0 \in S /\ t \in S
      /\ Stretch(mm, 0, t, S) /\ Full(mm, 0, t)
  BY DEF TextOf, Stretch, Txt
<1>2. PICK f : /\ IsWalk(f, t, StopsAt(mm, t, k), Hops(mm, t))
               /\ LFIND(mm, t, k) = [pos |-> f[0], match |-> f[0] # t /\ Txt(mm, f[0]) = k]
  BY <1>1, FindWalks
<1>3. ASSUME NEW x \in 0 .. t
      PROVE  f[x] = IF x = t \/ Txt(mm, x) >= k THEN x ELSE f[TNEXT(mm, x)]
  <2>1. f[x] = IF x \in StopsAt(mm, t, k) THEN x ELSE f[Hops(mm, t)[x]]
    BY <1>2 DEF IsWalk
  <2>2. x \in StopsAt(mm, t, k) <=> x = t \/ Txt(mm, x) >= k
    BY DEF StopsAt, LaterOrEqual
  <2>3. x # t => Hops(mm, t)[x] = TNEXT(mm, x)
    BY DEF Hops
  <2> QED BY <2>1, <2>2, <2>3
<1> DEFINE D == {d \in 0 .. t : DueFrom(mm, t, S, k, f, t - d)}
<1>4. 0 \in D
  <2>1. \A x \in t - 0 .. t : x = t
    BY <1>1
  <2>2. f[t] = t
    BY <1>1, <1>3
  <2>3. DueFrom(mm, t, S, k, f, t - 0)
    BY <2>1, <2>2 DEF DueFrom, Due, Belongs
  <2> QED BY <1>1, <2>3
<1>5. ASSUME NEW d \in 0 .. t - 1, d \in D PROVE d + 1 \in D
  <2>1. DueFrom(mm, t, S, k, f, t - d)
    BY <1>5
  <2>2. ASSUME NEW x \in t - (d + 1) .. t, Due(mm, S, k, x) PROVE Belongs(mm, t, S, k, f[x])
    <3>1. x \in 0 .. t /\ x \in S /\ (\A y \in S : y < x => Txt(mm, y) < k) /\ t - d <= x + 1
      BY <1>1, <2>2 DEF Due
    <3>2. CASE x = t \/ Txt(mm, x) >= k
      <4>1. f[x] = x
        BY <1>3, <3>1, <3>2
      <4>2. x # t => Txt(mm, x) \in Nat
        BY <1>1, <3>1 DEF Full
      <4> QED BY <3>1, <3>2, <4>1, <4>2 DEF Belongs
    <3>3. CASE ~(x = t \/ Txt(mm, x) >= k)
      <4>1. PICK n : n = NextBy(mm, x)
        OBVIOUS
      <4>2. f[x] = f[n] /\ Txt(mm, x) \in Nat
        <5>1. TNEXT(mm, x) = n
          BY <3>1, <3>3, <4>1, TnextEnds
        <5>2. x \in 0 .. t - 1
          BY <1>1, <3>1, <3>3
        <5> QED BY <1>1, <1>3, <3>1, <3>3, <5>1, <5>2 DEF Full
      <4>3. n \in S /\ x + 3 <= n /\ n <= t /\ LineTo(mm, x, n, S) /\ n \in Nat /\ x \in Nat
        BY <1>1, <3>1, <3>3, <4>1, LineIn
      <4>4. \A y \in S : y < n => Txt(mm, y) < k
        <5> SUFFICES ASSUME NEW y \in S, y < n PROVE Txt(mm, y) < k
          OBVIOUS
        <5>1. y <= x
          BY <1>1, <4>3 DEF LineTo
        <5>2. y \in Nat
          BY <1>1
        <5> QED BY <3>1, <3>3, <4>2, <4>3, <5>1, <5>2
      <4>5. n \in t - d .. t
        BY <1>1, <3>1, <4>3
      <4>6. Belongs(mm, t, S, k, f[n])
        BY <2>1, <4>3, <4>4, <4>5 DEF DueFrom, Due
      <4> QED BY <4>2, <4>6
    <3> QED BY <3>2, <3>3
  <2>3. DueFrom(mm, t, S, k, f, t - (d + 1))
    BY <2>2 DEF DueFrom
  <2>4. d + 1 \in 0 .. t
    BY <1>1
  <2> QED BY <2>3, <2>4
<1>6. t \in D
  <2> HIDE DEF D
  <2>1. 0 .. t \subseteq D
    BY <1>1, <1>4, <1>5, UpTo
  <2> QED BY <1>1, <2>1
<1>7. Belongs(mm, t, S, k, f[0])
  <2>1. DueFrom(mm, t, S, k, f, t - t) /\ t - t = 0
    BY <1>1, <1>6
  <2>2. Due(mm, S, k, 0) /\ 0 \in 0 .. t
    BY <1>1 DEF Due
  <2> QED BY <2>1, <2>2 DEF DueFrom
<1> QED BY <1>2, <1>7

\* The text parted at p, lower numbers before and higher ones after.
Parted(mm, u, p, k, L, R) ==
  /\ Stretch(mm, 0, p, L) /\ Stretch(mm, p, u, R) /\ AllBelow(mm, p, L, k) /\ AllAbove(mm, u, R, k)
  /\ TXTB + u < Top /\ Txt(mm, u) = 0

\* P's lines are Q's, or all of them but the one with the number.
Alike(mm, Q, m2, P) ==
  /\ \A y \in P : \E x \in Q : AsWas(m2, y, mm, x)
  /\ \A x \in Q : \E y \in P : AsWas(m2, y, mm, x)
Keeps(mm, Q, k, m2, P) ==
  /\ \A y \in P : \E x \in Q : Txt(mm, x) # k /\ AsWas(m2, y, mm, x)
  /\ \A x \in Q : Txt(mm, x) # k => \E y \in P : AsWas(m2, y, mm, x)

\* The line with the number is q, and the others are Q's.
Gains(mm, Q, k, body, m2, P) ==
  \E q \in P : Txt(m2, q) = k /\ Carries(m2, q) = body /\ Keeps(mm, Q, k, m2, P \ {q})

\* The starts of a parted text.
Starts(L, p, R, u) == (L \ {p}) \cup (R \ {u})

\* A text of just those lines, and one of those and the line at p.
TextWith(mm, u, Q) == \E S : TextOf(mm, u, S) /\ S \ {u} = Q
TextAnd(m2, v, p, k, body, mm, Q) ==
  \E S : /\ TextOf(m2, v, S) /\ p \in S \ {v} /\ Txt(m2, p) = k /\ Carries(m2, p) = body
         /\ Alike(mm, Q, m2, (S \ {v}) \ {p})

\* A text parted that keeps Q's lines.
Without(mm, Q, m1, u, p, k, L, R) == Parted(m1, u, p, k, L, R) /\ Keeps(mm, Q, k, m1, Starts(L, p, R, u))

(* The line with the number cut out, the rest of the text moved down over  *)
(* it (focal.s TDEL).                                                      *)
LEMMA CutLine ==
  ASSUME NEW mm \in [Arena -> Nat], NEW t, NEW S, TextOf(mm, t, S), NEW k \in Nat, NEW p,
         Belongs(mm, t, S, k, p), p # t, Txt(mm, p) = k
  PROVE  \E m1 \in [Arena -> Nat], u \in Nat :
           /\ TDEL(mm, t, p) = [mem |-> m1, tend |-> u]
           /\ \E L, R : Without(mm, S \ {t}, m1, u, p, k, L, R)
<1> USE Constants
<1>1. /\ t \in Nat /\ TXTB + t < Top /\ mm[TXTB + t] = 0 /\ S \subseteq 0 .. t /\ t \in S /\ p \in S
      /\ Stretch(mm, 0, t, S) /\ Full(mm, 0, t) /\ Ascends(mm, t, S)
      /\ \A y \in S : y < p => Txt(mm, y) < k
  BY DEF TextOf, Stretch, Txt, Belongs
<1>2. PICK n : n = NextBy(mm, p)
  OBVIOUS
<1>3. p \in Nat /\ n \in Nat /\ p + 3 <= n /\ n <= t /\ n \in S /\ TNEXT(mm, p) = n
  BY <1>1, <1>2, LineIn, TnextEnds
<1>4. PICK gap \in Nat : gap = n - p /\ gap = TNEXT(mm, p) - p
  BY <1>3
<1>5. PICK u \in Nat : u = t - gap
  BY <1>1, <1>3, <1>4
<1> DEFINE m1 == [x \in Arena |-> IF x \in TXTB + p .. TXTB + t - gap THEN mm[x + gap] ELSE mm[x]]
<1>6. TDEL(mm, t, p) = [mem |-> m1, tend |-> u]
  BY <1>4, <1>5, Zenon DEF TDEL
<1>7. m1 \in [Arena -> Nat]
  <2>1. \A x \in TXTB + p .. TXTB + t - gap : x + gap \in Arena
    BY <1>1, <1>3, <1>4 DEF Arena
  <2> QED BY <2>1
<1>8. ASSUME NEW x \in 0 .. p - 1 PROVE Txt(m1, x) = Txt(mm, x)
  <2>1. TXTB + x \in Arena /\ TXTB + x \notin TXTB + p .. TXTB + t - gap
    BY <1>1, <1>3, <1>4 DEF Arena
  <2> QED BY <2>1 DEF Txt
<1>9. ASSUME NEW x \in n .. t PROVE Txt(m1, x - gap) = Txt(mm, x)
  <2>1. PICK a : a = TXTB + (x - gap)
    OBVIOUS
  <2>2. a \in Arena /\ a \in TXTB + p .. TXTB + t - gap /\ a + gap = TXTB + x
    BY <1>1, <1>3, <1>4, <2>1 DEF Arena
  <2>3. m1[a] = mm[a + gap]
    BY <2>2
  <2> QED BY <2>1, <2>2, <2>3 DEF Txt
<1> HIDE DEF m1
<1> DEFINE L == S \cap (0 .. p)
           R0 == S \cap (n .. t)
           R == {x + (0 - gap) : x \in R0}
<1>10. Stretch(mm, 0, p, L) /\ Stretch(mm, n, t, R0)
  BY <1>1, <1>3, Splits
<1>11. Stretch(m1, 0, p, L) /\ \A x \in L \ {p} : Txt(m1, x) = Txt(mm, x) /\ AsWas(m1, x, mm, x)
  BY <1>8, <1>10, Stays
<1>12. AllBelow(m1, p, L, k)
  <2>1. \A x \in L \ {p} : x \in S /\ x < p
    BY <1>1, <1>3
  <2> QED BY <1>1, <1>11, <2>1 DEF AllBelow
<1>13. /\ Stretch(m1, p, u, R)
       /\ \A y \in R \ {u} : /\ y - (0 - gap) \in R0 \ {t} /\ Txt(m1, y) = Txt(mm, y - (0 - gap))
                             /\ AsWas(m1, y, mm, y - (0 - gap))
       /\ \A x \in R0 \ {t} : x + (0 - gap) \in R \ {u}
  <2>1. 0 - gap \in Int /\ n + (0 - gap) >= 0 /\ p = n + (0 - gap) /\ u = t + (0 - gap)
    BY <1>1, <1>3, <1>4, <1>5
  <2>2. \A x \in n .. t - 1 : Txt(m1, x + (0 - gap)) = Txt(mm, x)
    <3> SUFFICES ASSUME NEW x \in n .. t - 1 PROVE Txt(m1, x + (0 - gap)) = Txt(mm, x)
      OBVIOUS
    <3>1. x \in n .. t /\ x + (0 - gap) = x - gap
      BY <1>1, <1>3
    <3> QED BY <1>9, <3>1
  <2>3. PICK d : d = 0 - gap
    OBVIOUS
  <2>4. PICK T : T = R
    OBVIOUS
  <2>5. T = {x + d : x \in R0}
    BY <2>3, <2>4
  <2> HIDE DEF R, R0
  <2>6. d \in Int /\ n + d >= 0 /\ p = n + d /\ u = t + d /\ \A x \in n .. t - 1 : Txt(m1, x + d) = Txt(mm, x)
    BY <2>1, <2>2, <2>3
  <2>8. Moves(mm, n, t, R0, d, m1, p, u, T)
    BY <1>10, <2>5, <2>6 DEF Moves
  <2>7. /\ Stretch(m1, p, u, T)
        /\ \A y \in T \ {u} : /\ y - d \in R0 \ {t} /\ Txt(m1, y) = Txt(mm, y - d)
                              /\ AsWas(m1, y, mm, y - d)
        /\ \A x \in R0 \ {t} : x + d \in T \ {u}
    BY <2>8, Shifted
  <2> QED BY <2>3, <2>4, <2>7
<1>14. AllAbove(m1, u, R, k)
  <2> SUFFICES ASSUME NEW y \in R \ {u} PROVE k < Txt(m1, y)
    BY DEF AllAbove
  <2>1. PICK x : x = y - (0 - gap)
    OBVIOUS
  <2>2. x \in R0 \ {t} /\ Txt(m1, y) = Txt(mm, x)
    BY <1>13, <2>1
  <2>3. x \in S /\ x # t /\ p < x
    BY <1>1, <1>3, <2>2
  <2> QED BY <1>1, <2>2, <2>3 DEF Ascends
<1>15. TXTB + u < Top /\ Txt(m1, u) = 0
  <2>1. t \in n .. t /\ u = t - gap
    BY <1>1, <1>3, <1>5
  <2>2. Txt(m1, u) = 0
    BY <1>1, <1>9, <2>1 DEF Txt
  <2> QED BY <1>1, <1>4, <1>5, <2>2
<1>16. Parted(m1, u, p, k, L, R)
  BY <1>11, <1>12, <1>13, <1>14, <1>15 DEF Parted
<1>17. ASSUME NEW x \in S \ {t} PROVE (x < p \/ x = p \/ n <= x) /\ x \in Nat /\ x < t
  <2>1. LineTo(mm, p, n, S) /\ x \in 0 .. t
    BY <1>1, <1>2, LineIn
  <2>2. x <= p \/ x >= n
    BY <2>1 DEF LineTo
  <2> QED BY <1>1, <1>3, <2>1, <2>2
<1>18. ASSUME NEW x \in S \ {t}, x # p PROVE Txt(mm, x) # k
  <2>1. x \in 0 .. t - 1 /\ p \in 0 .. t - 1 /\ (x < p \/ p < x)
    BY <1>1, <1>3, <1>17, <1>18
  <2>2. Txt(mm, x) < Txt(mm, p) \/ Txt(mm, p) < Txt(mm, x)
    BY <1>1, <1>18, <2>1 DEF Ascends
  <2>3. Txt(mm, x) \in Nat
    BY <1>1, <2>1 DEF Full
  <2> QED BY <2>2, <2>3
<1>19. Keeps(mm, S \ {t}, k, m1, Starts(L, p, R, u))
  <2>1. ASSUME NEW y \in Starts(L, p, R, u)
        PROVE  \E x \in S \ {t} : Txt(mm, x) # k /\ AsWas(m1, y, mm, x)
    <3>1. CASE y \in L \ {p}
      <4>1. y \in S \ {t}
        BY <1>1, <1>3, <3>1
      <4> QED BY <1>11, <1>18, <3>1, <4>1
    <3>2. CASE y \in R \ {u}
      <4>1. PICK x : x = y - (0 - gap)
        OBVIOUS
      <4>2. x \in R0 \ {t} /\ AsWas(m1, y, mm, x)
        BY <1>13, <3>2, <4>1
      <4>3. x \in S \ {t} /\ x # p
        BY <1>3, <4>2
      <4> QED BY <1>18, <4>2, <4>3
    <3> QED BY <3>1, <3>2 DEF Starts
  <2>2. ASSUME NEW x \in S \ {t}, Txt(mm, x) # k
        PROVE  \E y \in Starts(L, p, R, u) : AsWas(m1, y, mm, x)
    <3>1. x < p \/ n <= x
      BY <1>17, <2>2
    <3>2. CASE x < p
      <4>1. x \in L \ {p}
        BY <1>1, <1>3, <1>17, <3>2
      <4> QED BY <1>11, <4>1 DEF Starts
    <3>3. CASE n <= x
      <4>1. x \in R0 \ {t}
        BY <1>1, <1>3, <1>17, <3>3
      <4>2. PICK y : y = x + (0 - gap)
        OBVIOUS
      <4>3. y \in R \ {u} /\ y - (0 - gap) = x
        <5>1. x \in Nat
          BY <1>17
        <5> QED BY <1>13, <4>1, <4>2, <5>1
      <4>4. AsWas(m1, y, mm, x)
        BY <1>13, <4>3
      <4> QED BY <4>3, <4>4 DEF Starts
    <3> QED BY <3>1, <3>2, <3>3
  <2> QED BY <2>1, <2>2 DEF Keeps
<1>20. Without(mm, S \ {t}, m1, u, p, k, L, R)
  BY <1>16, <1>19 DEF Without
<1> HIDE DEF L, R
<1> QED BY <1>6, <1>7, <1>20

(* No line with the number: the text parts where it would stand.           *)
LEMMA CutNothing ==
  ASSUME NEW mm \in [Arena -> Nat], NEW t, NEW S, TextOf(mm, t, S), NEW k \in Nat, NEW p,
         Belongs(mm, t, S, k, p), p = t \/ Txt(mm, p) # k
  PROVE  \E L, R : Without(mm, S \ {t}, mm, t, p, k, L, R)
<1>1. /\ t \in Nat /\ TXTB + t < Top /\ Txt(mm, t) = 0 /\ S \subseteq 0 .. t /\ t \in S /\ p \in S
      /\ Stretch(mm, 0, t, S) /\ Full(mm, 0, t) /\ Ascends(mm, t, S)
      /\ (\A y \in S : y < p => Txt(mm, y) < k) /\ (p # t => k <= Txt(mm, p))
  BY DEF TextOf, Stretch, Belongs
<1> DEFINE L == S \cap (0 .. p)
           R == S \cap (p .. t)
<1>2. Stretch(mm, 0, p, L) /\ Stretch(mm, p, t, R) /\ p \in Nat
  BY <1>1, Splits
<1>3. AllBelow(mm, p, L, k)
  <2>1. \A x \in L \ {p} : x \in S /\ x < p
    BY <1>1
  <2> QED BY <1>1, <2>1 DEF AllBelow
<1>4. AllAbove(mm, t, R, k)
  <2> SUFFICES ASSUME NEW y \in R \ {t} PROVE k < Txt(mm, y)
    BY DEF AllAbove
  <2>1. y \in S /\ y # t /\ p <= y /\ y \in 0 .. t - 1 /\ p # t /\ p \in 0 .. t - 1
    BY <1>1, <1>2
  <2>2. Txt(mm, y) \in Nat /\ Txt(mm, p) \in Nat
    BY <1>1, <2>1 DEF Full
  <2>3. k < Txt(mm, p)
    BY <1>1, <2>1, <2>2
  <2>4. CASE y = p
    BY <2>3, <2>4
  <2>5. CASE y # p
    <3>1. p < y
      BY <1>1, <2>1, <2>5
    <3>2. Txt(mm, p) < Txt(mm, y)
      BY <1>1, <2>1, <3>1 DEF Ascends
    <3> QED BY <2>2, <2>3, <3>2
  <2> QED BY <2>4, <2>5
<1>5. Parted(mm, t, p, k, L, R)
  BY <1>1, <1>2, <1>3, <1>4 DEF Parted
<1>6. Starts(L, p, R, t) = S \ {t}
  <2>1. ASSUME NEW x \in S \ {t} PROVE x \in Starts(L, p, R, t)
    <3>1. x \in 0 .. t /\ p \in 0 .. t /\ (x < p \/ p <= x)
      BY <1>1
    <3> QED BY <3>1 DEF Starts
  <2>2. ASSUME NEW x \in Starts(L, p, R, t) PROVE x \in S \ {t}
    <3>1. p \in 0 .. t /\ ((x \in S /\ x \in 0 .. p /\ x # p) \/ (x \in S /\ x # t))
      BY <1>1 DEF Starts
    <3> QED BY <1>1, <3>1
  <2> QED BY <2>1, <2>2
<1>7. ASSUME NEW x \in S \ {t} PROVE Txt(mm, x) # k
  <2>1. x \in L \ {p} \/ x \in R \ {t}
    BY <1>6 DEF Starts
  <2>2. Txt(mm, x) \in Nat
    <3>1. x \in 0 .. t - 1
      BY <1>1
    <3> QED BY <1>1, <3>1 DEF Full
  <2>3. Txt(mm, x) < k \/ k < Txt(mm, x)
    BY <1>3, <1>4, <2>1 DEF AllBelow, AllAbove
  <2> QED BY <2>2, <2>3
<1>8. Keeps(mm, S \ {t}, k, mm, Starts(L, p, R, t))
  BY <1>6, <1>7 DEF Keeps, AsWas
<1>9. Without(mm, S \ {t}, mm, t, p, k, L, R)
  BY <1>5, <1>8 DEF Without
<1> HIDE DEF L, R
<1> QED BY <1>9

(* A parted text is a text: a line deleted leaves one.                     *)
LEMMA Closed ==
  ASSUME NEW mm, NEW u, NEW p, NEW k \in Nat, NEW L, NEW R, Parted(mm, u, p, k, L, R)
  PROVE  TextWith(mm, u, Starts(L, p, R, u))
<1>1. /\ Stretch(mm, 0, p, L) /\ Stretch(mm, p, u, R) /\ AllBelow(mm, p, L, k) /\ AllAbove(mm, u, R, k)
      /\ Full(mm, 0, p) /\ Full(mm, p, u) /\ L \subseteq 0 .. p /\ R \subseteq p .. u
      /\ p \in Nat /\ u \in Nat
  BY DEF Parted, Stretch
<1>2. Before(mm, p, L, u, R)
  <2> SUFFICES ASSUME NEW x \in L \ {p}, NEW y \in R \ {u} PROVE Txt(mm, x) < Txt(mm, y)
    BY DEF Before
  <2>1. x \in 0 .. p - 1 /\ y \in p .. u - 1
    BY <1>1
  <2>2. Txt(mm, x) \in Nat /\ Txt(mm, y) \in Nat
    BY <1>1, <2>1 DEF Full
  <2> QED BY <1>1, <2>2 DEF AllBelow, AllAbove
<1>3. Stretch(mm, 0, u, L \cup R)
  BY <1>1, <1>2, Joins
<1>4. (L \cup R) \ {u} = Starts(L, p, R, u)
  <2>1. p \in R /\ u \in R /\ p <= u
    BY <1>1 DEF Stretch
  <2>2. ASSUME NEW x \in L, x # p PROVE x # u
    BY <1>1, <2>1, <2>2
  <2>3. p # u => p \in R \ {u}
    BY <2>1
  <2>4. u \in L => u = p
    BY <1>1, <2>1
  <2> QED BY <2>1, <2>2, <2>3, <2>4 DEF Starts
<1>5. PICK P : P = L \cup R
  OBVIOUS
<1>6. TextOf(mm, u, P)
  BY <1>3, <1>5 DEF TextOf, Parted
<1> QED BY <1>4, <1>5, <1>6 DEF TextWith

\* A hole of w words made at p and ws written into it.
Inserted(mm, u, p, ws, w, hole, m2) ==
  /\ mm \in [Arena -> Nat] /\ u \in Nat /\ p \in 0 .. u /\ ws \in Seq(Nat) /\ w \in Nat /\ w = Len(ws)
  /\ TXTB + u + w < Top /\ hole = TINS(mm, u, p, w) /\ m2 = Written(hole.mem, TXTB + p, ws)

(* The hole made and the line written: the words before, in and after it   *)
(* (focal.s TINS, STORE).                                                  *)
LEMMA PutWords ==
  ASSUME NEW mm, NEW u, NEW p, NEW ws, NEW w, NEW hole, NEW m2, Inserted(mm, u, p, ws, w, hole, m2)
  PROVE  /\ \A x \in 0 .. p - 1 : Txt(m2, x) = Txt(mm, x)
         /\ \A j \in 1 .. w : Txt(m2, p + j - 1) = ws[j]
         /\ \A x \in p .. u : Txt(m2, x + w) = Txt(mm, x)
<1>0. /\ mm \in [Arena -> Nat] /\ u \in Nat /\ p \in 0 .. u /\ ws \in Seq(Nat) /\ w \in Nat /\ w = Len(ws)
      /\ TXTB + u + w < Top /\ hole = TINS(mm, u, p, w) /\ m2 = Written(hole.mem, TXTB + p, ws)
  BY DEF Inserted
<1> DEFINE lo == TXTB + p + w
           hi == TXTB + u + w
           m1 == [x \in Arena |-> IF x \in lo .. hi THEN mm[x - w] ELSE mm[x]]
<1>1. TINS(mm, u, p, w) = [mem |-> m1, tend |-> u + w]
  BY Zenon DEF TINS
<1>2. hole.mem = m1
  <2> HIDE DEF m1
  <2> QED BY <1>0, <1>1
<1>3. \A x \in lo .. hi : x - w \in Arena
  BY <1>0, Constants DEF Arena
<1>4. m1 \in [Arena -> Nat] /\ \A x \in Arena : m1[x] = IF x \in lo .. hi THEN mm[x - w] ELSE mm[x]
  BY <1>0, <1>3
<1>5. PICK q \in Nat : q = TXTB + p
  BY <1>0, Constants
<1>6. m2 = Written(m1, q, ws)
  BY <1>0, <1>2, <1>5
<1> HIDE DEF m1
<1>7. ASSUME NEW x \in 0 .. p - 1 PROVE Txt(m2, x) = Txt(mm, x)
  <2>1. PICK a : a = TXTB + x
    OBVIOUS
  <2>2. a \in Arena /\ a \notin lo .. hi /\ a \notin q .. q + Len(ws) - 1
    BY <1>0, <1>5, <2>1, Constants DEF Arena
  <2>3. m2[a] = m1[a]
    <3>1. m1 \in [Arena -> Nat] /\ q \in Nat /\ ws \in Seq(Nat)
      BY <1>0, <1>4, <1>5
    <3>2. Written(m1, q, ws)[a] = m1[a]
      BY <2>2, <3>1, Unwritten
    <3> QED BY <1>6, <3>2, Zenon
  <2> QED BY <1>4, <2>1, <2>2, <2>3 DEF Txt
<1>8. ASSUME NEW j \in 1 .. w PROVE Txt(m2, p + j - 1) = ws[j]
  <2>1. PICK a : a = TXTB + (p + j - 1)
    OBVIOUS
  <2>2. a \in Arena /\ a \in q .. q + Len(ws) - 1 /\ a - q + 1 = j
    BY <1>0, <1>5, <2>1, Constants DEF Arena
  <2>3. Written(m1, q, ws)[a] = ws[a - q + 1]
    <3>1. m1 \in [Arena -> Nat] /\ q \in Nat /\ ws \in Seq(Nat)
      BY <1>0, <1>4, <1>5
    <3> QED BY <2>2, <3>1, WrittenAt
  <2> QED BY <1>6, <2>1, <2>2, <2>3 DEF Txt
<1>9. ASSUME NEW x \in p .. u PROVE Txt(m2, x + w) = Txt(mm, x)
  <2>1. PICK a : a = TXTB + (x + w)
    OBVIOUS
  <2>2. a \in Arena /\ a \in lo .. hi /\ a \notin q .. q + Len(ws) - 1 /\ a - w = TXTB + x
    BY <1>0, <1>5, <2>1, Constants DEF Arena
  <2>3. m2[a] = m1[a]
    <3>1. m1 \in [Arena -> Nat] /\ q \in Nat /\ ws \in Seq(Nat)
      BY <1>0, <1>4, <1>5
    <3>2. Written(m1, q, ws)[a] = m1[a]
      BY <2>2, <3>1, Unwritten
    <3> QED BY <1>6, <3>2, Zenon
  <2>4. m1[a] = mm[a - w]
    BY <1>4, <2>2
  <2> QED BY <2>1, <2>2, <2>3, <2>4 DEF Txt
<1> QED BY <1>7, <1>8, <1>9

(* A line put between lower and higher numbers leaves a text.              *)
LEMMA PutLine ==
  ASSUME NEW mm \in [Arena -> Nat], NEW u, NEW p, NEW k \in Nat \ {0}, NEW L, NEW R, Parted(mm, u, p, k, L, R),
         NEW body \in Seq(Nat \ {0, NL}), Len(body) + 3 # NL, NEW ws, ws = Line(k, body),
         NEW w, w = Len(ws), TXTB + u + w < Top,
         NEW hole, hole = TINS(mm, u, p, w), NEW m2, m2 = Written(hole.mem, TXTB + p, ws)
  PROVE  TextAnd(m2, u + w, p, k, body, mm, Starts(L, p, R, u))
<1> USE Constants
<1>1. /\ Stretch(mm, 0, p, L) /\ Stretch(mm, p, u, R) /\ AllBelow(mm, p, L, k) /\ AllAbove(mm, u, R, k)
      /\ Full(mm, 0, p) /\ L \subseteq 0 .. p /\ R \subseteq p .. u /\ p \in Nat /\ u \in Nat /\ p \in R /\ u \in R
      /\ TXTB + u < Top /\ Txt(mm, u) = 0
  BY DEF Parted, Stretch
<1>2. ws \in Seq(Nat) /\ w \in Nat /\ w = Len(body) + 3 /\ Len(body) \in Nat
  <2>1. k \in Nat /\ body \in Seq(Nat) /\ Len(body) + 3 \in Nat /\ NL \in Nat /\ Len(body) \in Nat
    BY DEF NL
  <2>2. <<k, Len(body) + 3>> \in Seq(Nat) /\ <<NL>> \in Seq(Nat)
    BY <2>1
  <2>3. PICK a : a = <<k, Len(body) + 3>> \o body
    OBVIOUS
  <2>4. a \in Seq(Nat) /\ Len(a) = Len(body) + 2
    BY <2>1, <2>2, <2>3
  <2>5. ws = a \o <<NL>>
    BY <2>3 DEF Line
  <2> QED BY <2>1, <2>2, <2>4, <2>5
<1>3. p \in 0 .. u /\ p <= u
  BY <1>1
<1>4. /\ \A x \in 0 .. p - 1 : Txt(m2, x) = Txt(mm, x)
      /\ \A j \in 1 .. w : Txt(m2, p + j - 1) = ws[j]
      /\ \A x \in p .. u : Txt(m2, x + w) = Txt(mm, x)
  <2>1. Inserted(mm, u, p, ws, w, hole, m2)
    BY <1>1, <1>2, <1>3 DEF Inserted
  <2> QED BY <2>1, PutWords
<1>5. Stretch(m2, 0, p, L) /\ \A x \in L \ {p} : Txt(m2, x) = Txt(mm, x) /\ AsWas(m2, x, mm, x)
  BY <1>1, <1>4, Stays
<1>6. PICK q \in Nat : q = p + w
  BY <1>1, <1>2
<1>7. Txt(m2, p) = k /\ Carries(m2, p) = body /\ Stretch(m2, p, q, {p, q})
  <2>1. \A j \in 1 .. Len(ws) : Txt(m2, p + j - 1) = ws[j]
    BY <1>4
  <2>2. Spelled(m2, p, k, body, ws)
    BY <1>1, <2>1 DEF Spelled
  <2>3. Txt(m2, p) = k /\ Carries(m2, p) = body /\ Stretch(m2, p, p + Len(ws), {p, p + Len(ws)})
    BY <2>2, OneLine
  <2> QED BY <1>6, <2>3
<1>8. PICK v \in Nat : v = u + w
  BY <1>1, <1>2
<1>9. PICK T : T = {x + w : x \in R}
  OBVIOUS
<1>10. /\ Stretch(m2, q, v, T)
       /\ \A y \in T \ {v} : y - w \in R \ {u} /\ Txt(m2, y) = Txt(mm, y - w) /\ AsWas(m2, y, mm, y - w)
       /\ \A x \in R \ {u} : x + w \in T \ {v}
  <2>1. \A x \in p .. u - 1 : Txt(m2, x + w) = Txt(mm, x)
    <3>1. \A x \in p .. u - 1 : x \in p .. u
      BY <1>1
    <3> QED BY <1>4, <3>1
  <2>2. w \in Int /\ p + w >= 0
    BY <1>1, <1>2
  <2>3. Moves(mm, p, u, R, w, m2, q, v, T)
    BY <1>1, <1>6, <1>8, <1>9, <2>1, <2>2 DEF Moves
  <2> QED BY <2>3, Shifted
<1>11. Before(m2, p, L, q, {p, q})
  BY <1>1, <1>5, <1>7 DEF Before, AllBelow
<1>12. Stretch(m2, 0, q, L \cup {p, q})
  BY <1>5, <1>7, <1>11, Joins
<1>13. Before(m2, q, L \cup {p, q}, v, T)
  <2> SUFFICES ASSUME NEW x \in (L \cup {p, q}) \ {q}, NEW y \in T \ {v} PROVE Txt(m2, x) < Txt(m2, y)
    BY DEF Before
  <2>1. PICK z : z = y - w
    OBVIOUS
  <2>2. z \in R \ {u} /\ Txt(m2, y) = Txt(mm, z)
    BY <1>10, <2>1
  <2>3. k < Txt(m2, y) /\ Txt(m2, y) \in Nat
    <3>1. z \in p .. u - 1
      BY <1>1, <2>2
    <3>2. Txt(mm, z) \in Nat
      BY <1>1, <3>1 DEF Stretch, Full
    <3> QED BY <1>1, <2>2, <3>2 DEF AllAbove
  <2>4. CASE x = p
    BY <1>7, <2>3, <2>4
  <2>5. CASE x # p
    <3>1. x \in L \ {p} /\ x \in 0 .. p - 1
      BY <1>1, <2>5
    <3>2. Txt(m2, x) < k /\ Txt(m2, x) \in Nat
      BY <1>1, <1>5, <3>1 DEF AllBelow, Full
    <3> QED BY <2>3, <3>2
  <2> QED BY <2>4, <2>5
<1>14. Stretch(m2, 0, v, (L \cup {p, q}) \cup T)
  BY <1>10, <1>12, <1>13, Joins
<1>15. TXTB + v < Top /\ Txt(m2, v) = 0
  <2>1. u \in p .. u
    BY <1>1
  <2> QED BY <1>1, <1>2, <1>4, <1>8, <2>1
<1>16. PICK S : S = (L \cup {p, q}) \cup T
  OBVIOUS
<1>17. TextOf(m2, u + w, S)
  BY <1>8, <1>14, <1>15, <1>16 DEF TextOf
<1>18. (S \ {v}) \ {p} = (L \ {p}) \cup (T \ {v}) /\ p \in S \ {v}
  <2>1. q <= v /\ p < q /\ \A y \in T : y \in q .. v
    BY <1>1, <1>2, <1>6, <1>8, <1>10 DEF Stretch
  <2>2. p \notin T /\ p # v
    BY <1>1, <1>8, <2>1
  <2>3. ASSUME NEW x \in L, x # p PROVE x # v
    BY <1>1, <1>8, <2>1, <2>3
  <2>4. q \in T
    BY <1>10 DEF Stretch
  <2> QED BY <1>16, <2>2, <2>3, <2>4
<1>19. Alike(mm, Starts(L, p, R, u), m2, (S \ {v}) \ {p})
  <2>1. ASSUME NEW y \in (S \ {v}) \ {p} PROVE \E x \in Starts(L, p, R, u) : AsWas(m2, y, mm, x)
    <3>1. CASE y \in L \ {p}
      BY <1>5, <3>1 DEF Starts
    <3>2. CASE y \in T \ {v}
      BY <1>10, <3>2 DEF Starts
    <3> QED BY <1>18, <3>1, <3>2
  <2>2. ASSUME NEW x \in Starts(L, p, R, u) PROVE \E y \in (S \ {v}) \ {p} : AsWas(m2, y, mm, x)
    <3>1. CASE x \in L \ {p}
      BY <1>5, <1>18, <3>1
    <3>2. CASE x \in R \ {u}
      <4>1. PICK y : y = x + w
        OBVIOUS
      <4>2. y \in T \ {v} /\ y - w = x
        <5>1. x \in Nat
          BY <1>1, <3>2
        <5> QED BY <1>2, <1>10, <3>2, <4>1, <5>1
      <4> QED BY <1>10, <1>18, <4>2
    <3> QED BY <3>1, <3>2 DEF Starts
  <2> QED BY <2>1, <2>2 DEF Alike
<1> QED BY <1>7, <1>8, <1>17, <1>18, <1>19 DEF TextAnd

\* Filed lines are not ten words long: such a length reads as a newline.
PlainLines == \A body \in Bodies : Len(body) + 3 # NL

\* The text is in order.
Neat == spoilt = "no" => \E S : TextOf(mem, tend, S)

\* From one text in order to the next: the line filed, or the one with its number gone.
Files(mm, t, k, body, m2, u) ==
  \E S, P : TextOf(mm, t, S) /\ TextOf(m2, u, P) /\ Gains(mm, S \ {t}, k, body, m2, P \ {u})
Drops(mm, t, k, m2, u) ==
  \E S, P : TextOf(mm, t, S) /\ TextOf(m2, u, P) /\ Keeps(mm, S \ {t}, k, m2, P \ {u})

(* The lines kept are kept again.                                          *)
LEMMA KeepsOn ==
  ASSUME NEW mm, NEW Q, NEW k, NEW m1, NEW P, Keeps(mm, Q, k, m1, P), NEW m2, NEW V, Alike(m1, P, m2, V)
  PROVE  Keeps(mm, Q, k, m2, V)
<1>1. ASSUME NEW y \in V PROVE \E x \in Q : Txt(mm, x) # k /\ AsWas(m2, y, mm, x)
  <2>1. PICK z \in P : AsWas(m2, y, m1, z)
    BY DEF Alike
  <2>2. PICK x \in Q : Txt(mm, x) # k /\ AsWas(m1, z, mm, x)
    BY DEF Keeps
  <2> QED BY <2>1, <2>2 DEF AsWas
<1>2. ASSUME NEW x \in Q, Txt(mm, x) # k PROVE \E y \in V : AsWas(m2, y, mm, x)
  <2>1. PICK z \in P : AsWas(m1, z, mm, x)
    BY <1>2 DEF Keeps
  <2>2. PICK y \in V : AsWas(m2, y, m1, z)
    BY DEF Alike
  <2> QED BY <2>1, <2>2 DEF AsWas
<1> QED BY <1>1, <1>2 DEF Keeps

(* A line filed, replaced, refused or deleted leaves the text in order     *)
(* (focal.s STORE).                                                        *)
LEMMA STOREKeeps ==
  ASSUME PlainLines, Tidy, Neat, NEW k \in Keys, NEW body \in Bodies, STORE(k, body), spoilt' = "no"
  PROVE  \/ ~Bare(body) /\ Files(mem, tend, k, body, mem', tend')
         \/ /\ Drops(mem, tend, k, mem', tend')
            /\ Bare(body) \/ TXTB + tend' + Len(Line(k, body)) > heap
<1> USE Constants
<1>1. /\ spoilt = "no" /\ heap \in TXTB .. Top /\ mem \in [Arena -> Nat] /\ tend \in Nat
      /\ k \in Nat \ {0} /\ body \in Seq(Nat \ {0, NL}) /\ Len(body) + 3 # NL
  BY ArenaAssumption DEF STORE, Tidy, ArenaTypeOK, PlainLines, SPC
<1>2. PICK S : TextOf(mem, tend, S)
  BY <1>1 DEF Neat
<1>3. TLEN(mem) = tend
  BY <1>1, <1>2, TlenEnds
<1>4. PICK p : /\ Belongs(mem, tend, S, k, p)
               /\ LFIND(mem, tend, k) = [pos |-> p, match |-> p # tend /\ Txt(mem, p) = k]
  BY <1>1, <1>2, FindsPlace
<1>5. PICK found : found = LFIND(mem, tend, k)
  OBVIOUS
<1>6. found.pos = p /\ (found.match <=> p # tend /\ Txt(mem, p) = k)
  <2>1. found = [pos |-> p, match |-> p # tend /\ Txt(mem, p) = k]
    BY <1>4, <1>5
  <2> QED BY <2>1, Zenon
<1>7. PICK rest : rest = IF found.match THEN TDEL(mem, tend, found.pos) ELSE [mem |-> mem, tend |-> tend]
  OBVIOUS
<1>8. PICK m1 \in [Arena -> Nat], t \in Nat :
        rest = [mem |-> m1, tend |-> t] /\ \E L, R : Without(mem, S \ {tend}, m1, t, p, k, L, R)
  <2>1. CASE found.match
    <3>1. rest = TDEL(mem, tend, p) /\ p # tend /\ Txt(mem, p) = k
      BY <1>6, <1>7, <2>1
    <3>2. \E m \in [Arena -> Nat], u \in Nat :
            /\ TDEL(mem, tend, p) = [mem |-> m, tend |-> u]
            /\ \E L, R : Without(mem, S \ {tend}, m, u, p, k, L, R)
      BY <1>1, <1>2, <1>4, <3>1, CutLine
    <3> QED BY <3>1, <3>2
  <2>2. CASE ~found.match
    <3>1. rest = [mem |-> mem, tend |-> tend] /\ (p = tend \/ Txt(mem, p) # k)
      BY <1>6, <1>7, <2>2
    <3>2. \E L, R : Without(mem, S \ {tend}, mem, tend, p, k, L, R)
      BY <1>1, <1>2, <1>4, <3>1, CutNothing
    <3> QED BY <1>1, <3>1, <3>2
  <2> QED BY <2>1, <2>2
<1>9. PICK L, R : Without(mem, S \ {tend}, m1, t, p, k, L, R)
  BY <1>8
<1>17. Parted(m1, t, p, k, L, R) /\ Keeps(mem, S \ {tend}, k, m1, Starts(L, p, R, t))
  BY <1>9 DEF Without
<1>10. rest.mem = m1 /\ rest.tend = t
  BY <1>8
<1>11. PICK line : line = Line(k, body)
  OBVIOUS
<1>12. PICK w : w = Len(line)
  OBVIOUS
<1>13. PICK hole : hole = TINS(m1, t, p, w)
  OBVIOUS
<1>14. /\ IF Bare(body) \/ ~Fits(t, w)
          THEN mem' = m1 /\ tend' = t
          ELSE mem' = Written(hole.mem, TXTB + p, line) /\ tend' = hole.tend
       /\ spoilt' = Meeting(tend', heap)
  BY <1>3, <1>5, <1>6, <1>7, <1>10, <1>11, <1>12, <1>13, Zenon DEF STORE
<1>18. w \in Nat
  <2>1. <<k, Len(body) + 3>> \in Seq(Nat) /\ body \in Seq(Nat) /\ <<NL>> \in Seq(Nat)
    BY <1>1 DEF NL
  <2>2. line \in Seq(Nat)
    BY <1>11, <2>1 DEF Line
  <2> QED BY <1>12, <2>2
<1>15. CASE Bare(body) \/ ~Fits(t, w)
  <2>1. PICK P : TextOf(m1, t, P) /\ P \ {t} = Starts(L, p, R, t)
    <3>1. k \in Nat /\ Parted(m1, t, p, k, L, R)
      BY <1>1, <1>17
    <3> QED BY <3>1, Closed DEF TextWith
  <2>5. Keeps(mem, S \ {tend}, k, m1, P \ {t})
    BY <1>17, <2>1, Zenon
  <2>2. Drops(mem, tend, k, m1, t)
    BY <1>2, <2>1, <2>5, Zenon DEF Drops
  <2>3. ~Fits(t, w) => TXTB + t + w > heap
    BY <1>1, <1>18 DEF Fits
  <2> QED BY <1>11, <1>12, <1>14, <1>15, <2>2, <2>3
<1>16. CASE ~(Bare(body) \/ ~Fits(t, w))
  <2>1. PICK m2 : m2 = Written(hole.mem, TXTB + p, line)
    OBVIOUS
  <2>2. hole.tend = t + w
    BY <1>13, Zenon DEF TINS
  <2>3. mem' = m2 /\ tend' = t + w
    BY <1>14, <1>16, <2>1, <2>2
  <2>5. TXTB + t + w < Top
    <3>1. heap - (TXTB + t + w) >= 0
      BY <1>16 DEF Fits
    <3>2. TXTB + (t + w) # heap
      BY <1>14, <2>3 DEF Meeting
    <3> QED BY <1>1, <1>18, <3>1, <3>2
  <2>6. TextAnd(m2, t + w, p, k, body, m1, Starts(L, p, R, t))
    <3>1. k \in Nat \ {0} /\ Parted(m1, t, p, k, L, R)
      BY <1>1, <1>17
    <3>2. body \in Seq(Nat \ {0, NL}) /\ Len(body) + 3 # NL
      BY <1>1
    <3> QED BY <1>11, <1>12, <1>13, <2>1, <2>5, <3>1, <3>2, PutLine
  <2>7. PICK P : /\ TextOf(m2, t + w, P) /\ p \in P \ {t + w} /\ Txt(m2, p) = k /\ Carries(m2, p) = body
                 /\ Alike(m1, Starts(L, p, R, t), m2, (P \ {t + w}) \ {p})
    BY <2>6 DEF TextAnd
  <2>8. Keeps(mem, S \ {tend}, k, m2, (P \ {t + w}) \ {p})
    BY <1>17, <2>7, KeepsOn
  <2>9. Files(mem, tend, k, body, m2, t + w)
    BY <1>2, <2>7, <2>8 DEF Files, Gains
  <2> QED BY <1>16, <2>3, <2>9
<1> QED BY <1>15, <1>16

\* A command that touches no word of the text.
LEMMA TextStays ==
  ASSUME Neat, spoilt = "no", Kept, spoilt' = "no"
  PROVE  \E S : TextOf(mem, tend, S) /\ TextOf(mem', tend', S) /\ Alike(mem, S \ {tend}, mem', S \ {tend'})
<1> USE Constants
<1>1. PICK S : TextOf(mem, tend, S)
  BY DEF Neat
<1>2. Stretch(mem, 0, tend, S) /\ tend \in Nat /\ TXTB + tend < Top /\ Txt(mem, tend) = 0 /\ tend' = tend
  BY <1>1 DEF TextOf, Stretch, Kept
<1>3. ASSUME NEW x \in 0 .. tend PROVE Txt(mem', x) = Txt(mem, x)
  <2>1. TXTB + x \in Arena /\ TXTB + x <= TXTB + tend
    BY <1>2 DEF Arena
  <2> QED BY <2>1 DEF Kept, Txt
<1>4. PICK m2 : m2 = mem'
  OBVIOUS
<1>5. \A x \in 0 .. tend - 1 : Txt(m2, x) = Txt(mem, x)
  BY <1>2, <1>3, <1>4
<1>6. Stretch(m2, 0, tend, S) /\ \A x \in S \ {tend} : AsWas(m2, x, mem, x)
  BY <1>2, <1>5, Stays
<1>7. Txt(m2, tend) = 0
  BY <1>2, <1>3, <1>4
<1>8. Alike(mem, S \ {tend}, m2, S \ {tend})
  BY <1>6 DEF Alike
<1>9. TextOf(m2, tend, S)
  BY <1>2, <1>6, <1>7 DEF TextOf
<1> QED BY <1>1, <1>2, <1>4, <1>8, <1>9

(* The empty text is in order.                                             *)
LEMMA NeatFirst ==
  ASSUME ArenaInit
  PROVE  Neat
<1> USE Constants
<1>1. mem = [x \in Arena |-> 0] /\ tend = 0
  BY DEF ArenaInit
<1>2. TXTB + tend < Top /\ Txt(mem, tend) = 0
  BY <1>1 DEF Arena, Txt
<1>3. PICK S : S = {0}
  OBVIOUS
<1>4. Stretch(mem, 0, tend, S)
  BY <1>1, <1>3 DEF Stretch, Full, Lined, Ascends
<1> QED BY <1>2, <1>4 DEF Neat, TextOf

(* Every command leaves the text in order.                                 *)
LEMMA NeatSteps ==
  ASSUME PlainLines, Tidy, Neat, [ArenaNext]_arenaVars
  PROVE  Neat'
<1> SUFFICES ASSUME spoilt' = "no" PROVE \E S : TextOf(mem', tend', S)
  BY DEF Neat, TextOf, Stretch, Full, Lined, LineTo, NextBy, Ascends, Txt
<1>1. ASSUME NEW k \in Keys, NEW body \in Bodies, STORE(k, body) PROVE \E S : TextOf(mem', tend', S)
  BY <1>1, STOREKeeps DEF Files, Drops
<1>2. ASSUME Kept, spoilt = "no" PROVE \E S : TextOf(mem', tend', S)
  BY <1>2, TextStays
<1>3. ASSUME NEW v \in Vars, DECLAR(v) PROVE Kept /\ spoilt = "no"
  BY <1>3, DECLARIs DEF DECLAR
<1>4. ASSUME NEW v \in Vars, NEW s \in Texts, SETSL(v, s) PROVE Kept /\ spoilt = "no"
  BY <1>4, SETSLIs DEF SETSL
<1>5. ASSUME NEW v \in Vars, NEW w \in Vars, SETSV(v, w) PROVE Kept /\ spoilt = "no"
  BY <1>5, SETSVIs DEF SETSV
<1>6. ASSUME NEW v \in Vars, NEW s \in Decimals, SETSN(v, s) PROVE Kept /\ spoilt = "no"
  BY <1>6, SETSNIs DEF SETSN
<1>7. ASSUME NEW v \in Vars, NEW s \in Answers, ASKSTR(v, s) PROVE Kept /\ spoilt = "no"
  BY <1>7, ASKSTRIs DEF ASKSTR
<1>8. ASSUME DOERAS PROVE Kept /\ spoilt = "no"
  BY <1>8, DOERASIs DEF DOERAS
<1>9. ASSUME UNCHANGED arenaVars PROVE Kept /\ spoilt = "no"
  BY <1>9 DEF arenaVars, Kept
<1> QED BY <1>1, <1>2, <1>3, <1>4, <1>5, <1>6, <1>7, <1>8, <1>9 DEF ArenaNext

-----------------------------------------------------------------------------
(* The lines as the length of each leads to the next.                      *)

\* A walk over 0 .. end that gathers where it was: none in Q, and from W on by G.
Gathered(f, x, Q, W, G) == IF x \in Q THEN {} ELSE {x} \cup (IF x \in W THEN f[G[x]] ELSE {})
Gathers(f, end, Q, W, G) == f = [x \in 0 .. end |-> Gathered(f, x, Q, W, G)]
GathersFrom(f, a, end, Q, W, G) == \A x \in a .. end : f[x] = Gathered(f, x, Q, W, G)

(* There is such a walk if it only goes up.                                *)
LEMMA WalkGathers ==
  ASSUME NEW end \in Nat, NEW Q, end \in Q, NEW W, NEW G,
         \A x \in 0 .. end : x \in W => G[x] \in 0 .. end /\ G[x] > x
  PROVE  \E f : Gathers(f, end, Q, W, G)
<1> DEFINE Some(a) == \E f \in [0 .. end -> SUBSET (0 .. end)] : GathersFrom(f, a, end, Q, W, G)
           S == {d \in 0 .. end : Some(end - d)}
<1>1. 0 \in S
  <2> DEFINE f == [x \in 0 .. end |-> {}]
  <2>1. f \in [0 .. end -> SUBSET (0 .. end)] /\ end - 0 = end /\ f[end] = {}
    OBVIOUS
  <2>2. \A x \in end .. end : x = end
    OBVIOUS
  <2> HIDE DEF f
  <2>3. GathersFrom(f, end, end, Q, W, G)
    BY <2>1, <2>2 DEF GathersFrom, Gathered
  <2>4. Some(end)
    BY <2>1, <2>3
  <2> HIDE DEF Some
  <2> QED BY <2>1, <2>4
<1>2. ASSUME NEW d \in 0 .. end - 1, d \in S PROVE d + 1 \in S
  <2>1. PICK f \in [0 .. end -> SUBSET (0 .. end)] : GathersFrom(f, end - d, end, Q, W, G)
    BY <1>2
  <2>2. PICK y \in 0 .. end : y = end - (d + 1)
    OBVIOUS
  <2>3. PICK z : z = Gathered(f, y, Q, W, G)
    OBVIOUS
  <2>4. z \in SUBSET (0 .. end)
    BY <2>3 DEF Gathered
  <2>5. PICK g \in [0 .. end -> SUBSET (0 .. end)] : g = [f EXCEPT ![y] = z]
    BY <2>4
  <2>6. ASSUME NEW x \in y .. end PROVE g[x] = Gathered(g, x, Q, W, G)
    <3>1. x \in 0 .. end /\ x >= y /\ (x # y => x \in end - d .. end)
      BY <2>2
    <3>2. x \in W => G[x] \in 0 .. end /\ G[x] # y
      BY <3>1
    <3>3. x \in W => g[G[x]] = f[G[x]]
      BY <2>5, <3>2
    <3>4. Gathered(g, x, Q, W, G) = Gathered(f, x, Q, W, G)
      BY <3>3 DEF Gathered
    <3>5. CASE x = y
      BY <2>3, <2>5, <3>4, <3>5
    <3>6. CASE x # y
      BY <2>1, <2>5, <3>1, <3>4, <3>6 DEF GathersFrom
    <3> QED BY <3>5, <3>6
  <2>7. GathersFrom(g, y, end, Q, W, G)
    BY <2>6 DEF GathersFrom
  <2>8. Some(end - (d + 1)) /\ d + 1 \in 0 .. end
    BY <2>2, <2>7
  <2> HIDE DEF Some
  <2> QED BY <2>8
<1>3. end \in S
  <2> HIDE DEF S
  <2>1. 0 .. end \subseteq S
    BY <1>1, <1>2, UpTo
  <2> QED BY <2>1
<1>4. PICK f \in [0 .. end -> SUBSET (0 .. end)] : GathersFrom(f, end - end, end, Q, W, G)
  BY <1>3
<1>5. \A x \in 0 .. end : f[x] = Gathered(f, x, Q, W, G)
  BY <1>4, end - end = 0 DEF GathersFrom
<1>6. [x \in 0 .. end |-> f[x]] = [x \in 0 .. end |-> Gathered(f, x, Q, W, G)]
  BY <1>5, Zenon
<1> QED BY <1>6 DEF Gathers

\* The words the walk does not start a line at, those whose length leads on, and where to.
NoLine(mm) == {x \in 0 .. Top - TXTB : TXTB + x >= Top - 1 \/ Txt(mm, x) = 0}
LeadsOn(mm) == {x \in 0 .. Top - TXTB : Txt(mm, x + 1) \in 1 .. Top - TXTB - x - 1}
Onward(mm) == [x \in 0 .. Top - TXTB |-> x + Txt(mm, x + 1)]

\* Heads, and the program it leads to, of any words.
HeadsOf(mm) ==
  LET from[x \in 0 .. Top - TXTB] ==
        IF TXTB + x >= Top - 1 \/ Txt(mm, x) = 0 THEN {}
        ELSE {x} \cup (IF Txt(mm, x + 1) \in 1 .. Top - TXTB - x - 1
                       THEN from[x + Txt(mm, x + 1)] ELSE {})
  IN  from[0]

(* What Heads is, as such a walk.                                          *)
LEMMA HeadsWalk ==
  ASSUME NEW mm
  PROVE  \E f : Gathers(f, Top - TXTB, NoLine(mm), LeadsOn(mm), Onward(mm)) /\ HeadsOf(mm) = f[0]
<1> USE Constants
<1> DEFINE ok(f) == f = [x \in 0 .. Top - TXTB |->
             IF TXTB + x >= Top - 1 \/ Txt(mm, x) = 0 THEN {}
             ELSE {x} \cup (IF Txt(mm, x + 1) \in 1 .. Top - TXTB - x - 1
                            THEN f[x + Txt(mm, x + 1)] ELSE {})]
           end == Top - TXTB
           Q == NoLine(mm)
           W == LeadsOn(mm)
           G == Onward(mm)
<1>1. \A x \in 0 .. end : x \in W => G[x] \in 0 .. end /\ G[x] > x
  <2> SUFFICES ASSUME NEW x \in 0 .. end, x \in W PROVE G[x] \in 0 .. end /\ G[x] > x
    OBVIOUS
  <2>1. PICK l : l = Txt(mm, x + 1)
    OBVIOUS
  <2>2. l \in 1 .. end - x - 1 /\ G[x] = x + l
    BY <2>1 DEF LeadsOn, Onward
  <2> QED BY <2>2
<1>2. end \in Nat /\ end \in Q
  BY DEF NoLine
<1>3. \A f : ok(f) <=> Gathers(f, end, Q, W, G)
  <2> SUFFICES ASSUME NEW f PROVE ok(f) <=> Gathers(f, end, Q, W, G)
    OBVIOUS
  <2>1. \A x \in 0 .. end :
          (IF TXTB + x >= Top - 1 \/ Txt(mm, x) = 0 THEN {}
           ELSE {x} \cup (IF Txt(mm, x + 1) \in 1 .. Top - TXTB - x - 1
                          THEN f[x + Txt(mm, x + 1)] ELSE {})) = Gathered(f, x, Q, W, G)
    BY DEF NoLine, LeadsOn, Onward, Gathered
  <2> QED BY <2>1 DEF Gathers
<1>4. \E f : Gathers(f, end, Q, W, G)
  <2> HIDE DEF Q, W, G, end
  <2> QED BY <1>1, <1>2, WalkGathers
<1>5. ok(CHOOSE f : ok(f))
  <2> HIDE DEF ok
  <2> QED BY <1>3, <1>4
<1>6. PICK f : f = CHOOSE g : ok(g)
  OBVIOUS
<1>7. Gathers(f, end, Q, W, G)
  <2> HIDE DEF ok
  <2> QED BY <1>3, <1>5, <1>6
<1>8. HeadsOf(mm) = f[0]
  BY <1>6, Zenon DEF HeadsOf
<1> QED BY <1>7, <1>8

\* The lines of S from x on.
LinesFrom(t, S, x) == {y \in S : x <= y /\ y < t}

(* The lines are the starts of the text in order.                          *)
LEMMA HeadsAre ==
  ASSUME NEW mm, NEW t, NEW S, TextOf(mm, t, S)
  PROVE  HeadsOf(mm) = S \ {t}
<1> USE Constants
<1>1. /\ t \in Nat /\ TXTB + t < Top /\ Txt(mm, t) = 0 /\ S \subseteq 0 .. t /\ 0 \in S /\ t \in S
      /\ Stretch(mm, 0, t, S) /\ Full(mm, 0, t)
  BY DEF TextOf, Stretch
<1>2. PICK f : Gathers(f, Top - TXTB, NoLine(mm), LeadsOn(mm), Onward(mm)) /\ HeadsOf(mm) = f[0]
  BY HeadsWalk
<1>3. \A x \in 0 .. Top - TXTB : f[x] = Gathered(f, x, NoLine(mm), LeadsOn(mm), Onward(mm))
  BY <1>2 DEF Gathers
<1>4. f[t] = {}
  <2>1. t \in NoLine(mm) /\ t \in 0 .. Top - TXTB
    BY <1>1 DEF NoLine
  <2> QED BY <1>3, <2>1 DEF Gathered
<1>5. ASSUME NEW x \in S, x # t PROVE f[x] = {x} \cup f[NextBy(mm, x)]
  <2>1. PICK l : l = Txt(mm, x + 1)
    OBVIOUS
  <2>2. PICK n : n = NextBy(mm, x)
    OBVIOUS
  <2>3. x \in Nat /\ l \in Nat /\ n \in Nat /\ n = x + l /\ x + 3 <= n /\ n <= t
    BY <1>1, <1>5, <2>1, <2>2, LineIn DEF NextBy
  <2>4. x \in 0 .. Top - TXTB /\ x \in 0 .. t - 1 /\ l \in 1 .. Top - TXTB - x - 1 /\ TXTB + x < Top - 1
    BY <1>1, <2>3
  <2>5. x \notin NoLine(mm)
    <3>1. Txt(mm, x) # 0
      BY <1>1, <2>4 DEF Full
    <3> QED BY <2>4, <3>1 DEF NoLine
  <2>6. x \in LeadsOn(mm) /\ Onward(mm)[x] = n
    BY <2>1, <2>3, <2>4 DEF LeadsOn, Onward
  <2> QED BY <1>3, <2>2, <2>4, <2>5, <2>6 DEF Gathered
<1>11. LinesFrom(t, S, t) = {}
  <2>1. \A y \in S : ~(t <= y /\ y < t)
    BY <1>1
  <2> QED BY <2>1 DEF LinesFrom
<1> DEFINE Right(a) == \A x \in S : x >= a => f[x] = LinesFrom(t, S, x)
           D == {d \in 0 .. t : Right(t - d)}
<1>6. 0 \in D
  <2>1. \A x \in S : x >= t - 0 => x = t
    BY <1>1
  <2>2. LinesFrom(t, S, t) = {}
    BY <1>11
  <2>3. Right(t - 0)
    BY <1>4, <2>1, <2>2
  <2> HIDE DEF Right
  <2> QED BY <1>1, <2>3
<1>7. ASSUME NEW d \in 0 .. t - 1, d \in D PROVE d + 1 \in D
  <2>1. Right(t - d)
    BY <1>7
  <2>2. ASSUME NEW x \in S, x >= t - (d + 1) PROVE f[x] = LinesFrom(t, S, x)
    <3>1. CASE x = t
      <4> QED BY <1>4, <1>11, <3>1
    <3>2. CASE x # t
      <4>1. PICK n : n = NextBy(mm, x)
        OBVIOUS
      <4>2. x \in Nat /\ n \in S /\ n \in Nat /\ x + 3 <= n /\ n <= t /\ LineTo(mm, x, n, S)
        BY <1>1, <3>2, <4>1, LineIn
      <4>3. n >= t - d
        BY <1>1, <2>2, <4>2
      <4>4. f[x] = {x} \cup LinesFrom(t, S, n)
        BY <1>5, <2>1, <3>2, <4>1, <4>2, <4>3
      <4>5. \A y \in S : x <= y /\ y < t <=> y = x \/ (n <= y /\ y < t)
        <5> SUFFICES ASSUME NEW y \in S PROVE x <= y /\ y < t <=> y = x \/ (n <= y /\ y < t)
          OBVIOUS
        <5>1. (y <= x \/ y >= n) /\ y \in Nat
          BY <1>1, <4>2 DEF LineTo
        <5> QED BY <1>1, <4>2, <5>1
      <4> QED BY <4>4, <4>5 DEF LinesFrom
    <3> QED BY <3>1, <3>2
  <2>3. Right(t - (d + 1)) /\ d + 1 \in 0 .. t
    BY <1>1, <2>2
  <2> HIDE DEF Right
  <2> QED BY <2>3
<1>8. t \in D
  <2> HIDE DEF D
  <2>1. 0 .. t \subseteq D
    BY <1>1, <1>6, <1>7, UpTo
  <2> QED BY <1>1, <2>1
<1>9. f[0] = LinesFrom(t, S, 0)
  <2>1. Right(t - t) /\ t - t = 0
    BY <1>1, <1>8
  <2> QED BY <1>1, <2>1
<1>10. LinesFrom(t, S, 0) = S \ {t}
  <2>1. \A y \in S : 0 <= y /\ y < t <=> y # t
    BY <1>1
  <2> QED BY <2>1 DEF LinesFrom
<1> QED BY <1>2, <1>9, <1>10

(* A text in order is walked alike by newline and by length, upwards.      *)
LEMMA OrderedThen ==
  ASSUME Neat
  PROVE  Ordered
<1> SUFFICES ASSUME spoilt = "no" PROVE Ordered
  BY DEF Ordered
<1>1. PICK S : TextOf(mem, tend, S)
  BY DEF Neat
<1>2. Heads = S \ {tend}
  BY <1>1, HeadsAre DEF Heads, HeadsOf
<1>3. Txt(mem, tend) = 0 /\ Stretch(mem, 0, tend, S) /\ S \subseteq 0 .. tend /\ tend \in Nat
      /\ Ascends(mem, tend, S)
  BY <1>1 DEF TextOf, Stretch
<1>4. ASSUME NEW x \in Heads
      PROVE  /\ TNEXT(mem, x) = NextBy(mem, x)
             /\ NextBy(mem, x) # tend => NextBy(mem, x) \in Heads /\ Txt(mem, NextBy(mem, x)) > Txt(mem, x)
  <2>1. x \in S /\ x # tend
    BY <1>2
  <2>2. TNEXT(mem, x) = NextBy(mem, x)
    BY <1>1, <2>1, TnextEnds
  <2>3. PICK n : n = NextBy(mem, x)
    OBVIOUS
  <2>4. n \in S /\ x + 3 <= n /\ x \in Nat /\ n \in Nat
    BY <1>3, <2>1, <2>3, LineIn
  <2>5. ASSUME n # tend PROVE n \in Heads /\ Txt(mem, n) > Txt(mem, x)
    <3>1. x < n /\ n \in S \ {tend} /\ x \in S \ {tend}
      BY <2>1, <2>4, <2>5
    <3>2. Txt(mem, x) < Txt(mem, n)
      BY <1>3, <3>1 DEF Ascends
    <3> QED BY <1>2, <3>1, <3>2
  <2> QED BY <2>2, <2>3, <2>5
<1> QED BY <1>3, <1>4, Zenon DEF Ordered, NextBy

-----------------------------------------------------------------------------
(* What the arena holds for its user, before a command and after it.       *)

TextBody(mm, x) ==
  [j \in 1 .. Least({Txt(mm, x + 1) - 3, Top - TXTB - x - 2}) |-> Txt(mm, x + 1 + j)]

\* The program in any words, and in these.
ProgramOf(mm) ==
  [k \in {Txt(mm, x) : x \in HeadsOf(mm)} |-> TextBody(mm, CHOOSE x \in HeadsOf(mm) : Txt(mm, x) = k)]
Program == [k \in {Txt(mem, x) : x \in Heads} |-> BodyAt(CHOOSE x \in Heads : Txt(mem, x) = k)]

LEMMA ProgramIs == Program = ProgramOf(mem) /\ Program' = ProgramOf(mem')
<1>1. Heads = HeadsOf(mem) /\ Heads' = HeadsOf(mem')
  BY DEF Heads, HeadsOf
<1>2. ASSUME NEW x PROVE BodyAt(x) = TextBody(mem, x) /\ BodyAt(x)' = TextBody(mem', x)
  BY DEF BodyAt, TextBody, Txt
<1>3. Program = ProgramOf(mem)
  BY <1>1, <1>2 DEF Program, ProgramOf
<1>4. Program' = ProgramOf(mem')
  BY <1>1, <1>2 DEF Program, ProgramOf, BodyAt, TextBody, Txt
<1> QED BY <1>3, <1>4

\* F has the lines of Q, by number.
Lists(mm, Q, F) ==
  /\ F = [k \in DOMAIN F |-> F[k]]
  /\ \A x \in Q : Txt(mm, x) \in DOMAIN F /\ F[Txt(mm, x)] = Carries(mm, x)
  /\ \A k \in DOMAIN F : \E x \in Q : Txt(mm, x) = k

(* A line of a text in order ends before the arena does.                   *)
LEMMA TextBodyIs ==
  ASSUME NEW mm, NEW t, NEW S, TextOf(mm, t, S), NEW x \in S, x # t
  PROVE  TextBody(mm, x) = Carries(mm, x)
<1>1. Stretch(mm, 0, t, S) /\ TXTB + t < Top /\ t \in Nat
  BY DEF TextOf, Stretch
<1>2. PICK l \in Nat : l = Txt(mm, x + 1)
  BY <1>1, LineIn
<1>3. x \in Nat /\ 3 <= l /\ x + l <= t
  BY <1>1, <1>2, LineIn DEF NextBy
<1>4. PICK a : a = l - 3
  OBVIOUS
<1>5. PICK b : b = Top - TXTB - x - 2
  OBVIOUS
<1>6. a \in Nat /\ b \in Nat /\ a <= b
  BY <1>1, <1>3, <1>4, <1>5, Constants
<1>7. PICK P : P = {a, b}
  OBVIOUS
<1>8. P \in SUBSET Nat /\ P # {} /\ (\A y \in P : y = a \/ y = b) /\ a \in P
  BY <1>6, <1>7
<1>9. Least(P) \in P /\ Least(P) <= a
  BY <1>8, LeastIs
<1>10. Least(P) = a
  <2>1. Least(P) = a \/ Least(P) = b
    BY <1>8, <1>9
  <2>2. ASSUME Least(P) = b PROVE b = a
    <3>1. b <= a
      BY <1>9, <2>2
    <3> QED BY <1>6, <3>1
  <2> QED BY <2>1, <2>2
<1> QED BY <1>2, <1>4, <1>5, <1>7, <1>10 DEF TextBody, Carries

(* The program is the lines of the text in order.                          *)
LEMMA ProgramLists ==
  ASSUME NEW mm, NEW t, NEW S, TextOf(mm, t, S)
  PROVE  Lists(mm, S \ {t}, ProgramOf(mm))
<1>1. PICK Q : Q = S \ {t}
  OBVIOUS
<1>2. HeadsOf(mm) = Q
  BY <1>1, HeadsAre
<1>3. S \subseteq 0 .. t /\ t \in Nat /\ Full(mm, 0, t) /\ Ascends(mm, t, S)
  BY DEF TextOf, Stretch
<1>4. \A x \in Q : x \in 0 .. t - 1 /\ Txt(mm, x) \in Nat
  BY <1>1, <1>3 DEF Full
<1>5. ASSUME NEW x \in Q, NEW y \in Q, Txt(mm, x) = Txt(mm, y) PROVE x = y
  <2>1. ~(Txt(mm, x) < Txt(mm, y)) /\ ~(Txt(mm, y) < Txt(mm, x))
    BY <1>4, <1>5
  <2>2. ~(x < y) /\ ~(y < x)
    BY <1>1, <1>3, <2>1 DEF Ascends
  <2> QED BY <1>4, <2>2
<1>6. PICK F : F = ProgramOf(mm)
  OBVIOUS
<1>7. F = [k \in {Txt(mm, x) : x \in Q} |-> TextBody(mm, CHOOSE x \in Q : Txt(mm, x) = k)]
  BY <1>2, <1>6 DEF ProgramOf
<1>8. DOMAIN F = {Txt(mm, x) : x \in Q} /\ F = [k \in DOMAIN F |-> F[k]]
  BY <1>7
<1>9. ASSUME NEW x \in Q PROVE Txt(mm, x) \in DOMAIN F /\ F[Txt(mm, x)] = Carries(mm, x)
  <2>1. PICK k : k = Txt(mm, x)
    OBVIOUS
  <2>2. PICK y : y = CHOOSE z \in Q : Txt(mm, z) = k
    OBVIOUS
  <2>3. y \in Q /\ Txt(mm, y) = k
    BY <2>1, <2>2
  <2>4. y = x
    BY <1>5, <2>1, <2>3
  <2>5. k \in DOMAIN F /\ F[k] = TextBody(mm, y)
    BY <1>7, <1>8, <2>1, <2>2
  <2>6. TextBody(mm, x) = Carries(mm, x)
    BY <1>1, TextBodyIs
  <2> QED BY <2>1, <2>4, <2>5, <2>6
<1> QED BY <1>1, <1>6, <1>8, <1>9 DEF Lists

\* A line more, and a line less.
Added(F, k, body) == [j \in DOMAIN F \cup {k} |-> IF j = k THEN body ELSE F[j]]
Removed(F, k) == [j \in DOMAIN F \ {k} |-> F[j]]

(* What a line gone, a line filed and nothing done leave listed.           *)
LEMMA ListsDrop ==
  ASSUME NEW mm, NEW Q, NEW F, Lists(mm, Q, F), NEW k, NEW m2, NEW P, Keeps(mm, Q, k, m2, P),
         NEW G, Lists(m2, P, G)
  PROVE  G = Removed(F, k)
<1>1. ASSUME NEW j \in DOMAIN G PROVE j \in DOMAIN F \ {k} /\ G[j] = F[j]
  <2>1. PICK y \in P : Txt(m2, y) = j
    BY DEF Lists
  <2>2. PICK x \in Q : Txt(mm, x) # k /\ AsWas(m2, y, mm, x)
    BY DEF Keeps
  <2> QED BY <2>1, <2>2 DEF Lists, AsWas
<1>2. ASSUME NEW j \in DOMAIN F \ {k} PROVE j \in DOMAIN G
  <2>1. PICK x \in Q : Txt(mm, x) = j
    BY DEF Lists
  <2>2. PICK y \in P : AsWas(m2, y, mm, x)
    BY <2>1 DEF Keeps
  <2> QED BY <2>1, <2>2 DEF Lists, AsWas
<1>3. DOMAIN G = DOMAIN F \ {k}
  BY <1>1, <1>2
<1>4. G = [j \in DOMAIN G |-> G[j]]
  BY DEF Lists
<1> QED BY <1>1, <1>3, <1>4 DEF Removed

LEMMA ListsFile ==
  ASSUME NEW mm, NEW Q, NEW F, Lists(mm, Q, F), NEW k, NEW body, NEW m2, NEW P,
         Gains(mm, Q, k, body, m2, P), NEW G, Lists(m2, P, G)
  PROVE  G = Added(F, k, body)
<1>1. PICK q \in P : Txt(m2, q) = k /\ Carries(m2, q) = body /\ Keeps(mm, Q, k, m2, P \ {q})
  BY DEF Gains
<1>2. k \in DOMAIN G /\ G[k] = body
  BY <1>1 DEF Lists
<1>3. ASSUME NEW j \in DOMAIN G, j # k PROVE j \in DOMAIN F /\ G[j] = F[j]
  <2>1. PICK y \in P : Txt(m2, y) = j
    BY DEF Lists
  <2>2. PICK x \in Q : Txt(mm, x) # k /\ AsWas(m2, y, mm, x)
    BY <1>1, <1>3, <2>1 DEF Keeps
  <2> QED BY <2>1, <2>2 DEF Lists, AsWas
<1>4. ASSUME NEW j \in DOMAIN F, j # k PROVE j \in DOMAIN G
  <2>1. PICK x \in Q : Txt(mm, x) = j
    BY DEF Lists
  <2>2. PICK y \in P : AsWas(m2, y, mm, x)
    BY <1>1, <1>4, <2>1 DEF Keeps
  <2> QED BY <2>1, <2>2 DEF Lists, AsWas
<1>5. DOMAIN G = DOMAIN F \cup {k}
  BY <1>2, <1>3, <1>4
<1>6. G = [j \in DOMAIN G |-> G[j]]
  BY DEF Lists
<1>7. \A j \in DOMAIN G : G[j] = IF j = k THEN body ELSE F[j]
  BY <1>2, <1>3
<1> QED BY <1>5, <1>6, <1>7 DEF Added

LEMMA ListsSame ==
  ASSUME NEW mm, NEW Q, NEW F, Lists(mm, Q, F), NEW m2, NEW P, Alike(mm, Q, m2, P),
         NEW G, Lists(m2, P, G)
  PROVE  G = F
<1>1. ASSUME NEW j \in DOMAIN G PROVE j \in DOMAIN F /\ G[j] = F[j]
  <2>1. PICK y \in P : Txt(m2, y) = j
    BY DEF Lists
  <2>2. PICK x \in Q : AsWas(m2, y, mm, x)
    BY DEF Alike
  <2> QED BY <2>1, <2>2 DEF Lists, AsWas
<1>2. ASSUME NEW j \in DOMAIN F PROVE j \in DOMAIN G
  <2>1. PICK x \in Q : Txt(mm, x) = j
    BY DEF Lists
  <2>2. PICK y \in P : AsWas(m2, y, mm, x)
    BY DEF Alike
  <2> QED BY <2>1, <2>2 DEF Lists, AsWas
<1>3. DOMAIN G = DOMAIN F
  BY <1>1, <1>2
<1>4. G = [j \in DOMAIN G |-> G[j]] /\ F = [j \in DOMAIN F |-> F[j]]
  BY DEF Lists
<1> QED BY <1>1, <1>3, <1>4

\* As the refinement has them.
LEMMA HeldIs ==
  /\ \A v, s : Held!Assign(v, s) <=> Strings' = [Strings EXCEPT ![v] = s] /\ Program' = Program
  /\ \A v, w : Held!Copy(v, w) <=> Strings' = [Strings EXCEPT ![v] = Strings[w]] /\ Program' = Program
  /\ Held!Forget <=> Strings' = [v \in Vars |-> << >>] /\ Program' = Program
  /\ \A k, body : Held!File(k, body) <=> Program' = Added(Program, k, body) /\ Strings' = Strings
  /\ \A k : Held!Drop(k) <=> Program' = Removed(Program, k) /\ Strings' = Strings
  /\ (UNCHANGED Held!workspace) <=> Program' = Program /\ Strings' = Strings
  /\ Held!WorkInit <=> Program = << >> /\ Strings = [v \in Vars |-> << >>]
<1>1. \A v, s : Held!Assign(v, s) <=> Strings' = [Strings EXCEPT ![v] = s] /\ Program' = Program
  BY DEF Held!Assign, Strings, Program
<1>2. \A v, w : Held!Copy(v, w) <=> Strings' = [Strings EXCEPT ![v] = Strings[w]] /\ Program' = Program
  BY <1>1 DEF Held!Copy, Strings
<1>3. Held!Forget <=> Strings' = [v \in Vars |-> << >>] /\ Program' = Program
  BY DEF Held!Forget, Strings, Program
<1>4. \A k, body : Held!File(k, body) <=> Program' = Added(Program, k, body) /\ Strings' = Strings
  BY DEF Held!File, Strings, Program, Added
<1>5. \A k : Held!Drop(k) <=> Program' = Removed(Program, k) /\ Strings' = Strings
  BY DEF Held!Drop, Strings, Program, Removed
<1>6. (UNCHANGED Held!workspace) <=> Program' = Program /\ Strings' = Strings
  BY DEF Held!workspace, Strings, Program
<1>7. Held!WorkInit <=> Program = << >> /\ Strings = [v \in Vars |-> << >>]
  BY DEF Held!WorkInit, Strings, Program
<1> QED BY <1>1, <1>2, <1>3, <1>4, <1>5, <1>6, <1>7

(* A command on the heap leaves the program as it was.                     *)
LEMMA ProgramStays ==
  ASSUME Neat, spoilt = "no", Kept, spoilt' = "no"
  PROVE  Program' = Program
<1>1. PICK S : TextOf(mem, tend, S) /\ TextOf(mem', tend', S) /\ Alike(mem, S \ {tend}, mem', S \ {tend'})
  BY TextStays
<1>2. Lists(mem, S \ {tend}, ProgramOf(mem)) /\ Lists(mem', S \ {tend'}, ProgramOf(mem'))
  BY <1>1, ProgramLists
<1>3. ProgramOf(mem') = ProgramOf(mem)
  BY <1>1, <1>2, ListsSame
<1> QED BY <1>3, ProgramIs

(* A line typed in is filed, or is refused and the one with its number is  *)
(* gone.                                                                   *)
LEMMA ProgramStored ==
  ASSUME PlainLines, Tidy, Neat, NEW k \in Keys, NEW body \in Bodies, STORE(k, body), spoilt' = "no"
  PROVE  \/ ~Bare(body) /\ Program' = Added(Program, k, body)
         \/ /\ Program' = Removed(Program, k)
            /\ Bare(body) \/ TXTB + tend' + Len(Line(k, body)) > heap
<1> DEFINE P0 == ProgramOf(mem)
           P1 == ProgramOf(mem')
<1>1. \/ ~Bare(body) /\ Files(mem, tend, k, body, mem', tend')
      \/ /\ Drops(mem, tend, k, mem', tend')
         /\ Bare(body) \/ TXTB + tend' + Len(Line(k, body)) > heap
  BY STOREKeeps
<1>2. ASSUME Files(mem, tend, k, body, mem', tend')
      PROVE  P1 = Added(P0, k, body)
  <2>1. PICK S, T : TextOf(mem, tend, S) /\ TextOf(mem', tend', T)
                    /\ Gains(mem, S \ {tend}, k, body, mem', T \ {tend'})
    BY <1>2 DEF Files
  <2>2. PICK Q : Q = S \ {tend}
    OBVIOUS
  <2>3. PICK P : P = T \ {tend'}
    OBVIOUS
  <2>4. Lists(mem, Q, P0) /\ Lists(mem', P, P1)
    BY <2>1, <2>2, <2>3, ProgramLists
  <2>5. Gains(mem, Q, k, body, mem', P)
    BY <2>1, <2>2, <2>3
  <2> HIDE DEF P0, P1
  <2> QED BY <2>4, <2>5, ListsFile
<1>3. ASSUME Drops(mem, tend, k, mem', tend')
      PROVE  P1 = Removed(P0, k)
  <2>1. PICK S, T : TextOf(mem, tend, S) /\ TextOf(mem', tend', T)
                    /\ Keeps(mem, S \ {tend}, k, mem', T \ {tend'})
    BY <1>3 DEF Drops
  <2>2. PICK Q : Q = S \ {tend}
    OBVIOUS
  <2>3. PICK P : P = T \ {tend'}
    OBVIOUS
  <2>4. Lists(mem, Q, P0) /\ Lists(mem', P, P1)
    BY <2>1, <2>2, <2>3, ProgramLists
  <2>5. Keeps(mem, Q, k, mem', P)
    BY <2>1, <2>2, <2>3
  <2> HIDE DEF P0, P1
  <2> QED BY <2>4, <2>5, ListsDrop
<1>4. Program = P0 /\ Program' = P1
  BY ProgramIs
<1> HIDE DEF P0, P1
<1> QED BY <1>1, <1>2, <1>3, <1>4

(* No program and no string at the start.                                  *)
LEMMA HeldFirst ==
  ASSUME ArenaInit
  PROVE  Held!WorkInit
<1>1. mem = [x \in Arena |-> 0] /\ tend = 0
  BY DEF ArenaInit
<1>2. TXTB + tend < Top /\ Txt(mem, tend) = 0 /\ tend = 0
  BY <1>1, Constants DEF Arena, Txt
<1>3. PICK S : S = {0}
  OBVIOUS
<1>4. TextOf(mem, tend, S)
  BY <1>1, <1>2, <1>3 DEF TextOf, Stretch, Full, Lined, Ascends
<1>5. HeadsOf(mem) = {}
  BY <1>2, <1>3, <1>4, HeadsAre
<1>6. ProgramOf(mem) = << >>
  BY <1>5 DEF ProgramOf
<1> QED BY <1>6, ProgramIs, Initially, HeldIs

(* What each command does to what the arena holds.                         *)
LEMMA FaithfulSteps ==
  ASSUME PlainLines, Tidy, Neat, Shut
  PROVE  Faithfully
<1> SUFFICES ASSUME spoilt' = "no"
             PROVE  /\ \A k \in Keys, body \in Bodies :
                         STORE(k, body) =>
                           \/ ~Bare(body) /\ Held!File(k, body)
                           \/ /\ Held!Drop(k)
                              /\ Bare(body) \/ TXTB + tend' + Len(Line(k, body)) > heap
                    /\ \A v \in Vars : DECLAR(v) => UNCHANGED Held!workspace
                    /\ \A v \in Vars, s \in Texts :
                         SETSL(v, s) => Held!Assign(v, s) \/ UNCHANGED Held!workspace
                    /\ \A v, w \in Vars :
                         SETSV(v, w) => Held!Copy(v, w) \/ UNCHANGED Held!workspace
                    /\ \A v \in Vars, s \in Decimals :
                         SETSN(v, s) => Held!Assign(v, s) \/ UNCHANGED Held!workspace
                    /\ \A v \in Vars, s \in Answers :
                         ASKSTR(v, s) => Held!Assign(v, Cut(s, slm1)) \/ UNCHANGED Held!workspace
                    /\ DOERAS => Held!Forget
  BY DEF Faithfully
<1>1. ASSUME NEW k \in Keys, NEW body \in Bodies, STORE(k, body)
      PROVE  \/ ~Bare(body) /\ Held!File(k, body)
             \/ /\ Held!Drop(k)
                /\ Bare(body) \/ TXTB + tend' + Len(Line(k, body)) > heap
  <2>1. Strings' = Strings
    BY <1>1, STOREIs DEF Unassigned
  <2>2. \/ ~Bare(body) /\ Program' = Added(Program, k, body)
        \/ /\ Program' = Removed(Program, k)
           /\ Bare(body) \/ TXTB + tend' + Len(Line(k, body)) > heap
    BY <1>1, ProgramStored
  <2>3. ASSUME Program' = Added(Program, k, body)
        PROVE  Held!File(k, body)
    BY <2>1, <2>3, HeldIs
  <2>4. ASSUME Program' = Removed(Program, k) PROVE Held!Drop(k)
    BY <2>1, <2>4, HeldIs
  <2> QED BY <2>2, <2>3, <2>4
<1>2. ASSUME NEW v \in Vars, DECLAR(v) PROVE UNCHANGED Held!workspace
  <2>1. Kept /\ spoilt = "no" /\ Strings' = Strings
    BY <1>2, DECLARIs DEF DECLAR, Unassigned
  <2>2. Program' = Program
    BY <2>1, ProgramStays
  <2> QED BY <2>1, <2>2, HeldIs
<1>3. ASSUME NEW v \in Vars, NEW s \in Texts, SETSL(v, s)
      PROVE  Held!Assign(v, s) \/ UNCHANGED Held!workspace
  <2>1. Kept /\ spoilt = "no" /\ (Strings' = [Strings EXCEPT ![v] = s] \/ Strings' = Strings)
    BY <1>3, SETSLIs DEF SETSL, Assigned, Unassigned
  <2>2. Program' = Program
    BY <2>1, ProgramStays
  <2> QED BY <2>1, <2>2, HeldIs
<1>4. ASSUME NEW v \in Vars, NEW w \in Vars, SETSV(v, w)
      PROVE  Held!Copy(v, w) \/ UNCHANGED Held!workspace
  <2>1. Kept /\ spoilt = "no" /\ (Strings' = [Strings EXCEPT ![v] = Strings[w]] \/ Strings' = Strings)
    BY <1>4, SETSVIs DEF SETSV, Assigned, Unassigned
  <2>2. Program' = Program
    BY <2>1, ProgramStays
  <2> QED BY <2>1, <2>2, HeldIs
<1>5. ASSUME NEW v \in Vars, NEW s \in Decimals, SETSN(v, s)
      PROVE  Held!Assign(v, s) \/ UNCHANGED Held!workspace
  <2>1. Kept /\ spoilt = "no" /\ (Strings' = [Strings EXCEPT ![v] = s] \/ Strings' = Strings)
    BY <1>5, SETSNIs DEF SETSN, Assigned, Unassigned
  <2>2. Program' = Program
    BY <2>1, ProgramStays
  <2> QED BY <2>1, <2>2, HeldIs
<1>6. ASSUME NEW v \in Vars, NEW s \in Answers, ASKSTR(v, s)
      PROVE  Held!Assign(v, Cut(s, slm1)) \/ UNCHANGED Held!workspace
  <2>1. Kept /\ spoilt = "no" /\ (Strings' = [Strings EXCEPT ![v] = Cut(s, slm1)] \/ Strings' = Strings)
    BY <1>6, ASKSTRIs DEF ASKSTR, Assigned, Unassigned
  <2>2. Program' = Program
    BY <2>1, ProgramStays
  <2> QED BY <2>1, <2>2, HeldIs
<1>7. ASSUME DOERAS PROVE Held!Forget
  <2>1. Kept /\ spoilt = "no" /\ Strings' = [v \in Vars |-> << >>]
    BY <1>7, DOERASIs DEF DOERAS
  <2>2. Program' = Program
    BY <2>1, ProgramStays
  <2> QED BY <2>1, <2>2, HeldIs
<1> QED BY <1>1, <1>2, <1>3, <1>4, <1>5, <1>6, <1>7

-----------------------------------------------------------------------------
(* The theorems.                                                           *)

(* Whatever is filed, declared, assigned, copied, answered and erased, in  *)
(* an arena of any size with any bodies, every pointer leads into the      *)
(* arena, and every word holds a number (focal.s, the storage commands).   *)
THEOREM ArenaTyped == ArenaSpec => []ArenaTypeOK
<1>1. Tidy => ArenaTypeOK
  BY DEF Tidy
<1> QED BY <1>1, Initially, TidySteps, PTL DEF ArenaSpec

(* The words from HEAP up are exactly the blocks, the bodies of the names  *)
(* and the free bodies, each word with one owner, and the text ends below  *)
(* them, as long as text and heap have not met, no free body was left by   *)
(* an ERASE and no answer ran over its body (focal.s HCARVE, SALLOC,       *)
(* SFREE, SGROW, STORE).                                                   *)
THEOREM HeapAccounted == ArenaSpec => []Accounted
BY Initially, TidySteps, AccountedFor, PTL DEF ArenaSpec

(* However many lines of whatever lengths, but ten, are filed, replaced,   *)
(* deleted and refused, and whatever the heap does beside them, the walk   *)
(* by newline that files a line and the walk by length that runs it find   *)
(* the same lines, and their numbers ascend (focal.s TNUM, LINEXT, LIGE,   *)
(* STORE).  A line of ten words carries a newline for its length.          *)
THEOREM LinesOrdered ==
  ASSUME PlainLines
  PROVE  ArenaSpec => []Ordered
<1>1. ArenaInit => Tidy /\ Neat
  BY Initially, NeatFirst
<1>2. Tidy /\ Neat /\ [ArenaNext]_arenaVars => (Tidy /\ Neat)'
  <2> SUFFICES ASSUME Tidy, Neat, [ArenaNext]_arenaVars PROVE Tidy' /\ Neat'
    BY Zenon
  <2> QED BY TidySteps, NeatSteps
<1>3. Tidy /\ Neat => Ordered
  BY OrderedThen
<1> QED BY <1>1, <1>2, <1>3, PTL DEF ArenaSpec

(* Every string ends within its body, whatever lines there are, as long as *)
(* text and heap have not met, no free body was left by an ERASE and no    *)
(* answer ran over its body: what prints, copies or measures it stops      *)
(* there (focal.s SPRINT, SCOPY, SLENF).                                   *)
THEOREM StringsEnd == ArenaSpec => []Shut
<1>1. ArenaInit => Tidy /\ Shut
  BY Initially
<1>2. Tidy /\ Shut /\ [ArenaNext]_arenaVars => (Tidy /\ Shut)'
  <2> SUFFICES ASSUME Tidy, Shut, [ArenaNext]_arenaVars PROVE Tidy' /\ Shut'
    BY Zenon
  <2> QED BY TidySteps, ShutSteps
<1> QED BY <1>1, <1>2, PTL DEF ArenaSpec

(* For every arena and all that is typed in, filed, assigned, asked and    *)
(* erased, each command does to the program and to the strings what the    *)
(* abstract workspace says and nothing else, or is refused for lack of     *)
(* room, as long as text and heap have not met, no free body was left by   *)
(* an ERASE and no answer ran over its body (focal.s STORE, DOSET, SGROW,  *)
(* ASKSTR, ERASE).                                                         *)
THEOREM ArenaImplementsWorkspace ==
  ASSUME PlainLines
  PROVE  ArenaSpec => ImplementsWorkspace
<1>1. ArenaInit => Held!WorkInit
  BY HeldFirst
<1>2. ArenaInit => Tidy /\ Neat /\ Shut
  BY Initially, NeatFirst
<1>3. Tidy /\ Neat /\ Shut /\ [ArenaNext]_arenaVars => (Tidy /\ Neat /\ Shut)'
  <2> SUFFICES ASSUME Tidy, Neat, Shut, [ArenaNext]_arenaVars PROVE Tidy' /\ Neat' /\ Shut'
    BY Zenon
  <2> QED BY TidySteps, NeatSteps, ShutSteps
<1>4. Tidy /\ Neat /\ Shut /\ [ArenaNext]_arenaVars => [Faithfully]_arenaVars
  <2> SUFFICES ASSUME Tidy, Neat, Shut, [ArenaNext]_arenaVars PROVE Faithfully
    BY Zenon
  <2> QED BY FaithfulSteps
<1> QED BY <1>1, <1>2, <1>3, <1>4, PTL DEF ArenaSpec, ImplementsWorkspace
=============================================================================
