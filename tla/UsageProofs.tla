------------------------------ MODULE UsageProofs ------------------------------
(***************************************************************************)
(* The usage log's ring buffers: that a sample is in one place, in the     *)
(* slot its window has, and that a query no transaction crosses takes each *)
(* sample of its window once; proved for any three tiers, any changes of   *)
(* their geometry, any recorders, samples and times.                       *)
(***************************************************************************)
EXTENDS UsageMetrics, Integers, TLAPS

-----------------------------------------------------------------------------
(* Arithmetic: floors, slots and windows.                                  *)

LEMMA Quotient ==
  ASSUME NEW a \in Nat, NEW s \in Nat \ {0}
  PROVE  /\ a \div s \in Nat /\ a % s \in 0 .. s - 1
         /\ s * (a \div s) <= a /\ a < s * (a \div s) + s
         /\ a % s = a - s * (a \div s)
  OBVIOUS

LEMMA Products ==
  ASSUME NEW a \in Int, NEW b \in Int, NEW s \in Nat, a <= b
  PROVE  s * a <= s * b
  OBVIOUS

\* Two numbers that differ and have the same slot are a whole round apart.
LEMMA SlotsApart ==
  ASSUME NEW a \in Nat, NEW b \in Nat, NEW n \in Nat \ {0}, a < b, a % n = b % n
  PROVE  a + n <= b
<1> DEFINE qa == a \div n
           qb == b \div n
<1>1. /\ qa \in Nat /\ qb \in Nat /\ a - n * qa = b - n * qb
  BY Quotient
<1>2. qa < qb
  <2>1. ASSUME qb <= qa PROVE FALSE
    <3>1. n * qb <= n * qa
      BY <1>1, <2>1, Products
    <3>2. n * qa \in Nat /\ n * qb \in Nat
      BY <1>1
    <3> QED BY <1>1, <3>1, <3>2
  <2> QED BY <1>1, <2>1
<1>3. n * (qa + 1) <= n * qb /\ n * (qa + 1) = n * qa + n
  BY <1>1, <1>2, Products
<1>4. n * qa \in Nat /\ n * qb \in Nat
  BY <1>1
<1> HIDE DEF qa, qb
<1> QED BY <1>1, <1>3, <1>4

LEMMA Floors ==
  ASSUME NEW s \in Nat \ {0}
  PROVE  /\ \A a \in Nat : /\ FloorToStep(a, s) \in Nat /\ FloorToStep(a, s) <= a
                           /\ FloorToStep(a, s) % s = 0
         /\ \A a, b \in Nat : a <= b => FloorToStep(a, s) <= FloorToStep(b, s)
  BY DEF FloorToStep

\* So the windows of one slot are a whole ring apart: `slot_for' never gives two windows of a ring one slot.
LEMMA RingApart ==
  ASSUME NEW tier \in Shapes, NEW b \in Nat, NEW c \in Nat, b < c,
         b % tier.step = 0, c % tier.step = 0, SlotFor(b, tier) = SlotFor(c, tier)
  PROVE  b + Span(tier) <= c
<1> DEFINE s == tier.step
           n == tier.slots
           p == b \div s
           q == c \div s
<1>1. s \in Nat \ {0} /\ n \in Nat \ {0}
  BY DEF Shapes
<1>2. /\ p \in Nat /\ q \in Nat /\ b = s * p /\ c = s * q
  <2>1. /\ p \in Nat /\ b % s = b - s * p
        /\ q \in Nat /\ c % s = c - s * q
    BY <1>1, Quotient
  <2> HIDE DEF p, q
  <2> QED BY <1>1, <2>1
<1>3. p % n = q % n
  BY DEF SlotFor
<1>4. p < q
  <2>1. ASSUME q <= p PROVE FALSE
    BY <1>1, <1>2, <2>1, Products
  <2> QED BY <1>2, <2>1
<1>5. p + n <= q
  <2> HIDE DEF p, q, s, n
  <2> QED BY <1>1, <1>2, <1>3, <1>4, SlotsApart
<1>6. Span(tier) = s * n
  BY DEF Span
<1> HIDE DEF p, q, s, n
<1>7. s * (p + n) <= s * q
  BY <1>1, <1>2, <1>5, Products
<1>8. s * (p + n) = s * p + s * n /\ s * n \in Nat /\ s * p \in Nat
  BY <1>1, <1>2
<1> QED BY <1>2, <1>6, <1>7, <1>8

\* The window of a time, tier by tier, and that later times have no earlier window.
LEMMA WindowsOfTime ==
  ASSUME NEW T \in [1 .. 3 -> Shapes]
  PROVE  /\ \A t \in Nat, i \in 1 .. 3 : WindowOf(T, t, i) \in Nat
         /\ \A t \in Nat : WindowOf(T, t, 1) = FloorToStep(t, T[1].step)
         /\ \A t \in Nat, i \in 2 .. 3 : WindowOf(T, t, i) = FloorToStep(WindowOf(T, t, i - 1), T[i].step)
         /\ \A t, u \in Nat, i \in 1 .. 3 : t <= u => WindowOf(T, t, i) <= WindowOf(T, u, i)
<1> DEFINE F(i, t) == FloorToStep(t, T[i].step)
<1>1. \A i \in 1 .. 3 : T[i].step \in Nat \ {0}
  BY DEF Shapes
<1>2. /\ \A i \in 1 .. 3, t \in Nat : F(i, t) \in Nat
      /\ \A i \in 1 .. 3, t, u \in Nat : t <= u => F(i, t) <= F(i, u)
  BY <1>1, Floors
<1>3. \A t : /\ WindowOf(T, t, 1) = F(1, t) /\ WindowOf(T, t, 2) = F(2, F(1, t))
             /\ WindowOf(T, t, 3) = F(3, F(2, F(1, t)))
  BY DEF WindowOf
<1> HIDE DEF F
<1>2a. /\ \A t \in Nat : F(1, t) \in Nat /\ F(2, t) \in Nat /\ F(3, t) \in Nat
      /\ \A t, u \in Nat : t <= u => F(1, t) <= F(1, u) /\ F(2, t) <= F(2, u) /\ F(3, t) <= F(3, u)
  <2>1. 1 \in 1 .. 3 /\ 2 \in 1 .. 3 /\ 3 \in 1 .. 3
    OBVIOUS
  <2> QED BY <1>2, <2>1, Zenon
<1>4. \A t \in Nat : /\ WindowOf(T, t, 1) \in Nat /\ WindowOf(T, t, 2) \in Nat /\ WindowOf(T, t, 3) \in Nat
                     /\ WindowOf(T, t, 2) = F(2, WindowOf(T, t, 1))
                     /\ WindowOf(T, t, 3) = F(3, WindowOf(T, t, 2))
  <2> TAKE t \in Nat
  <2>1. F(1, t) \in Nat /\ F(2, F(1, t)) \in Nat
    BY <1>2a
  <2>2. F(3, F(2, F(1, t))) \in Nat
    BY <1>2a, <2>1
  <2> QED BY <1>3, <2>1, <2>2
<1>5. \A t, u \in Nat : t <= u =>
         WindowOf(T, t, 1) <= WindowOf(T, u, 1) /\ WindowOf(T, t, 2) <= WindowOf(T, u, 2)
           /\ WindowOf(T, t, 3) <= WindowOf(T, u, 3)
  <2> TAKE t \in Nat, u \in Nat
  <2>1. ASSUME t <= u PROVE /\ F(1, t) <= F(1, u) /\ F(2, F(1, t)) <= F(2, F(1, u))
                            /\ F(3, F(2, F(1, t))) <= F(3, F(2, F(1, u)))
    <3>1. F(1, t) \in Nat /\ F(1, u) \in Nat /\ F(1, t) <= F(1, u)
      BY <1>2a, <2>1
    <3>2. F(2, F(1, t)) \in Nat /\ F(2, F(1, u)) \in Nat /\ F(2, F(1, t)) <= F(2, F(1, u))
      BY <1>2a, <3>1
    <3> QED BY <1>2a, <3>1, <3>2
  <2> QED BY <1>3, <2>1
<1>6. \A i \in 1 .. 3 : i = 1 \/ i = 2 \/ i = 3
  OBVIOUS
<1>7. \A i \in 2 .. 3 : (i = 2 /\ i - 1 = 1) \/ (i = 3 /\ i - 1 = 2)
  OBVIOUS
<1>8. \A t \in Nat, i \in 2 .. 3 : WindowOf(T, t, i) = F(i, WindowOf(T, t, i - 1))
  BY <1>4, <1>7
<1>9. \A t \in Nat, i \in 1 .. 3 : WindowOf(T, t, i) \in Nat
  BY <1>4, <1>6
<1>10. \A t, u \in Nat, i \in 1 .. 3 : t <= u => WindowOf(T, t, i) <= WindowOf(T, u, i)
  BY <1>5, <1>6
<1> QED BY <1>3, <1>8, <1>9, <1>10 DEF F

-----------------------------------------------------------------------------
(* One tier: its types, and what a transaction writes into it.             *)

Rows == [bucket : Nat, agg : [ids : SUBSET Nat, last : Nat]]
TierRings(tier) == [row : [Slots(tier) -> Rows \cup {NoRow}], cursor : Slots(tier) \cup {NoRow}]

\* In what follows R is a ring, T its geometry, tm the times of the samples, fg the forgotten.
RingTypes(R, T) == DOMAIN R = 1 .. 3 /\ \A i \in 1 .. 3 : R[i] \in TierRings(T[i])

HasOpen(R, i) == R[i].cursor # NoRow
Stored(R, i) == {s \in DOMAIN R[i].row : R[i].row[s] # NoRow}
Row(R, i, s) == R[i].row[s]
Open(R, i) == R[i].row[R[i].cursor]

\* The cursor "always points at a real, just-written row".
CursorsPoint(R) ==
  \A i \in 1 .. 3 : IF HasOpen(R, i) THEN R[i].cursor \in Stored(R, i) ELSE Stored(R, i) = {}

RowsFit(R, T) ==
  \A i \in 1 .. 3 : \A s \in Stored(R, i) :
    Row(R, i, s).bucket % T[i].step = 0 /\ SlotFor(Row(R, i, s).bucket, T[i]) = s

OpenIsNewest(R) ==
  \A i \in 1 .. 3 : \A s \in Stored(R, i) : Row(R, i, s).bucket <= Open(R, i).bucket

LEMMA Typed ==
  ASSUME NEW T \in [1 .. 3 -> Shapes], NEW R, RingTypes(R, T), CursorsPoint(R), NEW i \in 1 .. 3
  PROVE  /\ R[i] \in TierRings(T[i])
         /\ Stored(R, i) \subseteq Slots(T[i]) /\ NoRow \notin Slots(T[i])
         /\ \A s \in Stored(R, i) : Row(R, i, s) \in Rows
         /\ HasOpen(R, i) => /\ R[i].cursor \in Stored(R, i)
                             /\ Open(R, i) = Row(R, i, R[i].cursor)
                             /\ Open(R, i) \in Rows
                             /\ OpenAt(R, i) = Open(R, i)
         /\ ~HasOpen(R, i) => Stored(R, i) = {}
<1>1. R[i] \in TierRings(T[i])
  BY DEF RingTypes
<1>2. NoRow \notin Slots(T[i])
  BY NoRowIsNone DEF Slots, Shapes
<1>3. R[i].row \in [Slots(T[i]) -> Rows \cup {NoRow}]
  BY <1>1 DEF TierRings
<1>4. \A s \in Stored(R, i) : s \in Slots(T[i]) /\ Row(R, i, s) \in Rows
  BY <1>3 DEF Stored, Row
<1>5. HasOpen(R, i) => R[i].cursor \in Stored(R, i) /\ OpenAt(R, i) = Open(R, i)
  BY <1>3 DEF CursorsPoint, Stored, OpenAt, RowAt, CursorOf, Open
<1> QED BY <1>1, <1>2, <1>4, <1>5 DEF CursorsPoint, Row, Open

\* What comes to a tier is a row on its step: the sample, or the window the finer tier closed.
LEMMA ArrivesInStep ==
  ASSUME NEW T \in [1 .. 3 -> Shapes], NEW R, RingTypes(R, T), CursorsPoint(R), RowsFit(R, T),
         NEW first \in Rows, first.bucket % T[1].step = 0,
         NEW i \in 1 .. 3, Reached(R, T, i, first)
  PROVE  LET c == Incoming(R, T, i, first)
         IN  /\ c \in Rows /\ c.bucket % T[i].step = 0
             /\ i = 1 => c = first
             /\ i # 1 => /\ i - 1 \in 1 .. 3 /\ Reached(R, T, i - 1, first)
                         /\ HasOpen(R, i - 1)
                         /\ Open(R, i - 1).bucket < Incoming(R, T, i - 1, first).bucket
                         /\ c.bucket = FloorToStep(Open(R, i - 1).bucket, T[i].step)
                         /\ c.bucket <= Open(R, i - 1).bucket
                         /\ c.agg = Open(R, i - 1).agg
<1> DEFINE c == Incoming(R, T, i, first)
<1>1. CASE i = 1
  BY <1>1 DEF Incoming
<1>2. CASE i # 1
  <2>1. i - 1 \in 1 .. 3 /\ i - 1 \in 1 .. i - 1 /\ \A j \in 1 .. (i - 1) - 1 : j \in 1 .. i - 1
    BY <1>2
  <2>2. Closes(R, T, i - 1, first) /\ Reached(R, T, i - 1, first)
    BY <2>1 DEF Reached
  <2>3. HasOpen(R, i - 1) /\ OpenAt(R, i - 1).bucket < Incoming(R, T, i - 1, first).bucket
    BY <2>2 DEF Closes, CursorOf, HasOpen
  <2>4. Open(R, i - 1) \in Rows /\ OpenAt(R, i - 1) = Open(R, i - 1)
    BY <2>1, <2>3, Typed
  <2>5. c = RowOf(FloorToStep(Open(R, i - 1).bucket, T[i].step), Open(R, i - 1).agg)
    BY <1>2, <2>4 DEF Incoming
  <2>6. T[i].step \in Nat \ {0} /\ Open(R, i - 1).bucket \in Nat /\ Open(R, i - 1).agg \in [ids : SUBSET Nat, last : Nat]
    BY <2>4 DEF Shapes, Rows
  <2>7. LET b == FloorToStep(Open(R, i - 1).bucket, T[i].step)
        IN b \in Nat /\ b % T[i].step = 0 /\ b <= Open(R, i - 1).bucket
    BY <2>6, Floors
  <2>8. /\ c.bucket = FloorToStep(Open(R, i - 1).bucket, T[i].step) /\ c.agg = Open(R, i - 1).agg
        /\ c \in Rows
    BY <2>5, <2>6, <2>7 DEF RowOf, Rows
  <2> QED BY <1>2, <2>1, <2>2, <2>3, <2>4, <2>7, <2>8
<1> QED BY <1>1, <1>2

\* What `record' makes of each tier: nothing, a new window, or a row merged into the open one.
LEMMA TierAfter ==
  ASSUME NEW T \in [1 .. 3 -> Shapes], NEW R, RingTypes(R, T), CursorsPoint(R), RowsFit(R, T),
         NEW first \in Rows, first.bucket % T[1].step = 0,
         NEW i \in 1 .. 3
  PROVE  LET S == ApplyRow(R, T, first)
             c == Incoming(R, T, i, first)
         IN  /\ DOMAIN S = 1 .. 3 /\ S[i] \in TierRings(T[i])
             /\ ~Reached(R, T, i, first) => S[i] = R[i]
             /\ Reached(R, T, i, first) /\ Opens(R, T, i, first) =>
                  LET slot == SlotFor(c.bucket, T[i])
                  IN  /\ S[i].cursor = slot /\ HasOpen(S, i)
                      /\ Stored(S, i) = Stored(R, i) \cup {slot}
                      /\ Row(S, i, slot) = c /\ Open(S, i) = c
                      /\ \A s \in Stored(R, i) \ {slot} : Row(S, i, s) = Row(R, i, s)
                      /\ HasOpen(R, i) => Open(R, i).bucket < c.bucket
             /\ Reached(R, T, i, first) /\ ~Opens(R, T, i, first) =>
                  LET slot == R[i].cursor
                  IN  /\ HasOpen(R, i) /\ S[i].cursor = slot /\ HasOpen(S, i)
                      /\ Stored(S, i) = Stored(R, i)
                      /\ Open(S, i) = Row(S, i, slot)
                      /\ Row(S, i, slot) = RowOf(Open(R, i).bucket,
                            MergedWith(Open(R, i).agg, c.agg, Open(R, i).bucket = c.bucket))
                      /\ \A s \in Stored(R, i) \ {slot} : Row(S, i, s) = Row(R, i, s)
                      /\ c.bucket <= Open(R, i).bucket
<1> DEFINE S == ApplyRow(R, T, first)
           c == Incoming(R, T, i, first)
<1>1. DOMAIN S = 1 .. 3 /\ DOMAIN R = 1 .. 3
  BY DEF ApplyRow, RingTypes
<1>2. /\ R[i] \in [row : [Slots(T[i]) -> Rows \cup {NoRow}], cursor : Slots(T[i]) \cup {NoRow}]
      /\ NoRow \notin Slots(T[i])
  BY Typed DEF TierRings
<1>3. CASE ~Reached(R, T, i, first)
  <2>1. S[i] = R[i]
    BY <1>1, <1>3 DEF ApplyRow
  <2> QED BY <1>1, <1>3, <2>1, Typed
<1>4. CASE Reached(R, T, i, first) /\ Opens(R, T, i, first)
  <2> DEFINE slot == SlotFor(c.bucket, T[i])
  <2>1. c \in Rows /\ c # NoRow
    BY <1>4, ArrivesInStep, NoRowIsNone DEF Rows
  <2>2. slot \in Slots(T[i])
    <3>1. T[i].step \in Nat \ {0} /\ T[i].slots \in Nat \ {0} /\ c.bucket \in Nat
      BY <2>1 DEF Shapes, Rows
    <3>2. c.bucket \div T[i].step \in Nat
      BY <3>1, Quotient
    <3> QED BY <3>1, <3>2, Quotient DEF SlotFor, Slots
  <2>3. S[i] = NewWindow(R[i], T[i], c)
    BY <1>1, <1>4 DEF ApplyRow
  <2> HIDE DEF c, S
  <2>4. S[i] = [R[i] EXCEPT !.row = [R[i].row EXCEPT ![slot] = c], !.cursor = slot]
    BY <1>2, <2>3 DEF NewWindow, WithCursor, WriteSlot
  <2> HIDE DEF slot
  <2>5. /\ S[i].cursor = slot /\ S[i].row = [R[i].row EXCEPT ![slot] = c]
        /\ S[i] \in [row : [Slots(T[i]) -> Rows \cup {NoRow}], cursor : Slots(T[i]) \cup {NoRow}]
    BY <1>2, <2>1, <2>2, <2>4
  <2>6. HasOpen(S, i) /\ Row(S, i, slot) = c /\ Open(S, i) = c
    BY <1>2, <2>2, <2>5 DEF HasOpen, Row, Open
  <2>7. Stored(S, i) = Stored(R, i) \cup {slot}
    BY <1>2, <2>1, <2>2, <2>5 DEF Stored
  <2>8. \A s \in Stored(R, i) \ {slot} : Row(S, i, s) = Row(R, i, s)
    BY <1>2, <2>5 DEF Stored, Row
  <2>9. HasOpen(R, i) => Open(R, i).bucket < c.bucket
    BY <1>4, Typed DEF Opens, Closes, CursorOf, HasOpen, c
  <2> QED BY <1>1, <1>4, <2>5, <2>6, <2>7, <2>8, <2>9 DEF TierRings, c, S, slot
<1>5. CASE Reached(R, T, i, first) /\ ~Opens(R, T, i, first)
  <2> DEFINE slot == R[i].cursor
             new == RowOf(Open(R, i).bucket, MergedWith(Open(R, i).agg, c.agg, Open(R, i).bucket = c.bucket))
  <2>1. c \in Rows
    BY <1>5, ArrivesInStep
  <2>2. HasOpen(R, i) /\ ~(OpenAt(R, i).bucket < c.bucket)
    BY <1>5 DEF Opens, Closes, CursorOf, HasOpen
  <2>3. slot \in Stored(R, i) /\ Open(R, i) \in Rows /\ OpenAt(R, i) = Open(R, i) /\ slot \in Slots(T[i])
    BY <2>2, Typed
  <2>4. c.bucket <= Open(R, i).bucket
    BY <2>1, <2>2, <2>3 DEF Rows
  <2>5. new \in Rows /\ new # NoRow
    <3> HIDE DEF c
    <3>1. new \in Rows
      BY <2>1, <2>3 DEF RowOf, MergedWith, Rows
    <3> QED BY <3>1, NoRowIsNone DEF Rows
  <2>6. S[i] = MergeInto(R[i], c)
    BY <1>1, <1>5 DEF ApplyRow
  <2>7. S[i] = [R[i] EXCEPT !.row = [R[i].row EXCEPT ![slot] = new]]
    BY <1>2, <2>6 DEF MergeInto, WriteSlot, Open
  <2> HIDE DEF new, c, S
  <2>8. /\ S[i].cursor = slot /\ S[i].row = [R[i].row EXCEPT ![slot] = new]
        /\ S[i] \in [row : [Slots(T[i]) -> Rows \cup {NoRow}], cursor : Slots(T[i]) \cup {NoRow}]
    BY <1>2, <2>3, <2>5, <2>7
  <2>9. HasOpen(S, i) /\ Row(S, i, slot) = new /\ Open(S, i) = new
    BY <1>2, <2>2, <2>3, <2>8 DEF HasOpen, Row, Open
  <2>10. Stored(S, i) = Stored(R, i)
    BY <1>2, <2>3, <2>5, <2>8 DEF Stored
  <2>11. \A s \in Stored(R, i) \ {slot} : Row(S, i, s) = Row(R, i, s)
    BY <1>2, <2>8 DEF Stored, Row
  <2> QED BY <1>1, <1>5, <2>2, <2>4, <2>8, <2>9, <2>10, <2>11 DEF TierRings, c, S, new
<1> QED BY <1>3, <1>4, <1>5

-----------------------------------------------------------------------------
(* The invariant of a ring, and what comes to each of its tiers.           *)

LastIsIn(R, n) ==
  \A i \in 1 .. 3 : \A s \in Stored(R, i) :
    Row(R, i, s).agg.last \in Row(R, i, s).agg.ids /\ Row(R, i, s).agg.ids \subseteq 1 .. n

\* Samples move on in the order they came: through a tier's windows, and from tier to tier.
OldestFirst(R) ==
  \A j \in 1 .. 3 : \A s \in Stored(R, j) : \A x \in Row(R, j, s).agg.ids :
    /\ \A q \in Stored(R, j) : Row(R, j, s).bucket < Row(R, j, q).bucket =>
         \A y \in Row(R, j, q).agg.ids : x < y
    /\ \A i \in 1 .. 3 : i < j /\ HasOpen(R, i) => \A y \in Open(R, i).agg.ids : x < y

\* A late sample may be in a newer window than its own, never in an older one.
NeverEarly(R, T, tm, fg) ==
  \A i \in 1 .. 3 : \A s \in Stored(R, i) : \A id \in Row(R, i, s).agg.ids \ fg :
    WindowOf(T, tm[id], i) <= Row(R, i, s).bucket

\* The `last' of a window is of that window, and every finer tier has gone on since.
LastIsExact(R, T, tm, fg) ==
  \A i \in 1 .. 3 : \A s \in Stored(R, i) : Row(R, i, s).agg.last \notin fg =>
    /\ Row(R, i, s).bucket = WindowOf(T, tm[Row(R, i, s).agg.last], i)
    /\ \A j \in 1 .. 3 : j < i => HasOpen(R, j) /\ Row(R, i, s).bucket < Open(R, j).bucket

LastIsNew(R, tm, fg) ==
  \A i \in 1 .. 3 : \A s \in Stored(R, i) : Row(R, i, s).agg.last \notin fg =>
    \A id \in Row(R, i, s).agg.ids : tm[id] <= tm[Row(R, i, s).agg.last] + Skew

\* No window is much newer than a sample that is in it or may still come to it.
NeverFarAhead(R, tm) ==
  \A j \in 1 .. 3 : \A s \in Stored(R, j) :
    /\ \A id \in Row(R, j, s).agg.ids : Row(R, j, s).bucket <= tm[id] + Skew
    /\ \A i \in 1 .. 3 : i < j /\ HasOpen(R, i) =>
         \A id \in Open(R, i).agg.ids : Row(R, j, s).bucket <= tm[id] + Skew

NoneAfter(R, t) == \A i \in 1 .. 3 : \A s \in Stored(R, i) : Row(R, i, s).bucket <= t

\* What FoldedOnce says of the coarsest tier holds of every tier.
RingPassed(R, T, i, t) == HasOpen(R, i) /\ WindowOf(T, t, i) + Span(T[i]) <= Open(R, i).bucket

Kept(R, T, tm, fg) ==
  \A p \in 1 .. 3 : \A id \in DOMAIN tm \ fg :
    \/ \E s \in Stored(R, p) : id \in Row(R, p, s).agg.ids
    \/ \E j \in 1 .. 3 : j < p /\ HasOpen(R, j) /\ id \in Open(R, j).agg.ids
    \/ RingPassed(R, T, p, tm[id])

RingInv(R, T, tm, fg) ==
  /\ RingTypes(R, T) /\ CursorsPoint(R) /\ RowsFit(R, T) /\ OpenIsNewest(R)
  /\ LastIsIn(R, Len(tm)) /\ OldestFirst(R) /\ NeverEarly(R, T, tm, fg) /\ LastIsExact(R, T, tm, fg)
  /\ LastIsNew(R, tm, fg) /\ NeverFarAhead(R, tm) /\ Kept(R, T, tm, fg)

\* A sample is recorded at most the skew after its time, so none is much older than one
\* that was recorded before it.
InTime(tm) == \A x, y \in DOMAIN tm : x < y => tm[x] <= tm[y] + Skew

ForgottenFirst(tm, fg) == fg \subseteq DOMAIN tm /\ \A x \in fg, y \in DOMAIN tm \ fg : x < y

\* A sample of time `at' may come to the ring R.
MayCome(R, T, tm, fg, at) ==
  /\ T \in [1 .. 3 -> Shapes] /\ tm \in Seq(Nat) /\ at \in Nat
  /\ RingInv(R, T, tm, fg)
  /\ \A x \in DOMAIN tm : tm[x] <= at + Skew
  /\ NoneAfter(R, at + Skew)
  /\ InTime(tm) /\ ForgottenFirst(tm, fg)

First(T, tm, at) == RowOf(FloorToStep(at, T[1].step), Single(Len(tm) + 1))
After(R, T, tm, at) == ApplyRow(R, T, First(T, tm, at))
Arriving(R, T, tm, at, i) == Incoming(R, T, i, First(T, tm, at))
Reaches(R, T, tm, at, i) == Reached(R, T, i, First(T, tm, at))

LEMMA FirstRow ==
  ASSUME NEW T \in [1 .. 3 -> Shapes], NEW tm \in Seq(Nat), NEW at \in Nat
  PROVE  /\ First(T, tm, at) \in Rows
         /\ First(T, tm, at).bucket = FloorToStep(at, T[1].step)
         /\ First(T, tm, at).bucket = WindowOf(T, at, 1)
         /\ First(T, tm, at).bucket <= at
         /\ First(T, tm, at).bucket % T[1].step = 0
         /\ First(T, tm, at).agg = [ids |-> {Len(tm) + 1}, last |-> Len(tm) + 1]
<1>1. T[1].step \in Nat \ {0} /\ Len(tm) \in Nat
  BY DEF Shapes
<1>2. LET b == FloorToStep(at, T[1].step) IN b \in Nat /\ b <= at /\ b % T[1].step = 0
  BY <1>1, Floors
<1>3. WindowOf(T, at, 1) = FloorToStep(at, T[1].step)
  BY WindowsOfTime
<1> QED BY <1>1, <1>2, <1>3 DEF First, RowOf, Single, Rows

LEMMA Appended ==
  ASSUME NEW tm \in Seq(Nat), NEW at \in Nat
  PROVE  /\ Append(tm, at) \in Seq(Nat) /\ Len(Append(tm, at)) = Len(tm) + 1 /\ Len(tm) \in Nat
         /\ DOMAIN tm = 1 .. Len(tm) /\ DOMAIN Append(tm, at) = 1 .. Len(tm) + 1
         /\ \A x \in 1 .. Len(tm) : Append(tm, at)[x] = tm[x] /\ tm[x] \in Nat
         /\ Append(tm, at)[Len(tm) + 1] = at
         /\ \A x \in 1 .. Len(tm) + 1 : Append(tm, at)[x] \in Nat
  OBVIOUS

\* What comes to a tier a sample reaches.
LEMMA Arrivals ==
  ASSUME NEW R, NEW T, NEW tm, NEW fg, NEW at, MayCome(R, T, tm, fg, at),
         NEW i \in 1 .. 3, Reaches(R, T, tm, at, i)
  PROVE  LET c == Arriving(R, T, tm, at, i)
             tn == Append(tm, at)
         IN  /\ c \in Rows /\ c.bucket % T[i].step = 0
             /\ c.agg.last \in c.agg.ids /\ c.agg.ids \subseteq 1 .. Len(tm) + 1
             /\ \A j \in 1 .. 3 : i <= j => \A s \in Stored(R, j) : \A x \in Row(R, j, s).agg.ids :
                  \A y \in c.agg.ids : x < y
             /\ \A id \in c.agg.ids \ fg : WindowOf(T, tn[id], i) <= c.bucket
             /\ c.agg.last \notin fg => /\ c.bucket = WindowOf(T, tn[c.agg.last], i)
                                        /\ \A id \in c.agg.ids : tn[id] <= tn[c.agg.last] + Skew
             /\ \A id \in c.agg.ids : c.bucket <= tn[id] + Skew
             /\ \A j \in 1 .. 3 : i <= j => \A s \in Stored(R, j) : \A id \in c.agg.ids :
                  Row(R, j, s).bucket <= tn[id] + Skew
             /\ c.bucket <= at + Skew
<1> DEFINE c == Arriving(R, T, tm, at, i)
           tn == Append(tm, at)
           n == Len(tm)
<1>1. /\ T \in [1 .. 3 -> Shapes] /\ tm \in Seq(Nat) /\ at \in Nat /\ RingInv(R, T, tm, fg)
      /\ \A x \in DOMAIN tm : tm[x] <= at + Skew
      /\ NoneAfter(R, at + Skew) /\ fg \subseteq DOMAIN tm
  BY DEF MayCome, ForgottenFirst
<1>2. /\ RingTypes(R, T) /\ CursorsPoint(R) /\ RowsFit(R, T) /\ OpenIsNewest(R)
      /\ LastIsIn(R, n) /\ OldestFirst(R) /\ NeverEarly(R, T, tm, fg) /\ LastIsExact(R, T, tm, fg)
      /\ LastIsNew(R, tm, fg) /\ NeverFarAhead(R, tm)
  BY <1>1 DEF RingInv
<1>3. /\ tn \in Seq(Nat) /\ n \in Nat /\ DOMAIN tm = 1 .. n
      /\ \A x \in 1 .. n : tn[x] = tm[x] /\ tm[x] \in Nat
      /\ tn[n + 1] = at
  BY <1>1, Appended
<1>4. Skew \in Nat
  BY TimesAreNaturals
<1> DEFINE f == First(T, tm, at)
<1>5. /\ f \in Rows /\ f.bucket = WindowOf(T, at, 1) /\ f.bucket <= at /\ f.bucket % T[1].step = 0
      /\ f.agg = [ids |-> {n + 1}, last |-> n + 1]
  BY <1>1, FirstRow
<1>6. /\ c \in Rows /\ c.bucket % T[i].step = 0
      /\ i = 1 => c = f
      /\ i # 1 => /\ i - 1 \in 1 .. 3 /\ HasOpen(R, i - 1)
                  /\ c.bucket = FloorToStep(Open(R, i - 1).bucket, T[i].step)
                  /\ c.bucket <= Open(R, i - 1).bucket
                  /\ c.agg = Open(R, i - 1).agg
  BY <1>1, <1>2, <1>5, ArrivesInStep DEF Arriving, Reaches
<1> HIDE DEF c, tn, f, n
<1>7. CASE i = 1
  <2>1. c.agg.ids = {n + 1} /\ c.agg.last = n + 1 /\ c.bucket = WindowOf(T, at, 1) /\ c.bucket <= at /\ c.bucket \in Nat
    BY <1>5, <1>6, <1>7 DEF Rows
  <2>2. \A j \in 1 .. 3 : \A s \in Stored(R, j) : \A x \in Row(R, j, s).agg.ids : x \in 1 .. n
    BY <1>2 DEF LastIsIn
  <2>3. \A j \in 1 .. 3 : \A s \in Stored(R, j) : Row(R, j, s).bucket <= at + Skew
    BY <1>1 DEF NoneAfter
  <2>4. \A x \in 1 .. n : x < n + 1
    BY <1>3
  <2>5. /\ c.bucket <= at + Skew /\ at <= at + Skew
    BY <1>1, <1>4, <2>1
  <2>6. WindowOf(T, at, 1) <= WindowOf(T, at, 1)
    BY <2>1
  <2>7. n + 1 \in 1 .. n + 1
    BY <1>3
  <2> QED BY <1>3, <1>6, <1>7, <2>1, <2>2, <2>3, <2>4, <2>5, <2>6, <2>7 DEF tn, n, c
<1>8. CASE i # 1
  <2> DEFINE h == i - 1
             o == Open(R, h)
             k == R[h].cursor
  <2>1. /\ h \in 1 .. 3 /\ HasOpen(R, h) /\ c.bucket = FloorToStep(o.bucket, T[i].step)
        /\ c.bucket <= o.bucket /\ c.agg = o.agg
    BY <1>6, <1>8
  <2>2. /\ k \in Stored(R, h) /\ o = Row(R, h, k) /\ o \in Rows
    BY <1>1, <1>2, <2>1, Typed
  <2>3. h < i /\ \A j \in 1 .. 3 : i <= j => h < j
    BY <2>1
  <2>4. o.agg.last \in o.agg.ids /\ o.agg.ids \subseteq 1 .. n
    BY <1>2, <2>1, <2>2 DEF LastIsIn
  <2>5. \A j \in 1 .. 3 : i <= j => \A s \in Stored(R, j) : \A x \in Row(R, j, s).agg.ids :
          \A y \in o.agg.ids : x < y
    BY <1>2, <2>1, <2>3 DEF OldestFirst
  <2>6. \A id \in o.agg.ids \ fg : WindowOf(T, tm[id], i) <= c.bucket
    <3> TAKE id \in o.agg.ids \ fg
    <3>1. WindowOf(T, tm[id], h) <= o.bucket
      BY <1>2, <2>1, <2>2 DEF NeverEarly
    <3>2. tm[id] \in Nat /\ i \in 2 .. 3 /\ o.bucket \in Nat
      BY <1>3, <1>8, <2>2, <2>4 DEF Rows
    <3>3. /\ WindowOf(T, tm[id], h) \in Nat
          /\ WindowOf(T, tm[id], i) = FloorToStep(WindowOf(T, tm[id], h), T[i].step)
      BY <1>1, <2>1, <3>2, WindowsOfTime
    <3>4. T[i].step \in Nat \ {0}
      BY <1>1 DEF Shapes
    <3>5. FloorToStep(WindowOf(T, tm[id], h), T[i].step) <= FloorToStep(o.bucket, T[i].step)
      BY <3>1, <3>2, <3>3, <3>4, Floors
    <3> QED BY <2>1, <3>3, <3>5
  <2>7. o.agg.last \notin fg => /\ c.bucket = WindowOf(T, tm[o.agg.last], i)
                                /\ \A id \in o.agg.ids : tm[id] <= tm[o.agg.last] + Skew
    <3> SUFFICES ASSUME o.agg.last \notin fg
                 PROVE  /\ c.bucket = WindowOf(T, tm[o.agg.last], i)
                        /\ \A id \in o.agg.ids : tm[id] <= tm[o.agg.last] + Skew
      OBVIOUS
    <3>1. o.bucket = WindowOf(T, tm[o.agg.last], h)
      BY <1>2, <2>1, <2>2 DEF LastIsExact
    <3>2. tm[o.agg.last] \in Nat /\ i \in 2 .. 3
      BY <1>3, <1>8, <2>4
    <3>3. WindowOf(T, tm[o.agg.last], i) = FloorToStep(WindowOf(T, tm[o.agg.last], h), T[i].step)
      BY <1>1, <3>2, WindowsOfTime
    <3>4. \A id \in o.agg.ids : tm[id] <= tm[o.agg.last] + Skew
      BY <1>2, <2>1, <2>2 DEF LastIsNew
    <3> QED BY <2>1, <3>1, <3>3, <3>4
  <2>8. \A id \in o.agg.ids : c.bucket <= tm[id] + Skew
    <3> TAKE id \in o.agg.ids
    <3>1. o.bucket <= tm[id] + Skew
      BY <1>2, <2>1, <2>2 DEF NeverFarAhead
    <3>2. tm[id] \in Nat /\ o.bucket \in Nat /\ c.bucket \in Nat
      BY <1>3, <1>6, <2>2, <2>4 DEF Rows
    <3> QED BY <1>4, <2>1, <3>1, <3>2
  <2>9. \A j \in 1 .. 3 : i <= j => \A s \in Stored(R, j) : \A id \in o.agg.ids :
          Row(R, j, s).bucket <= tm[id] + Skew
    BY <1>2, <2>1, <2>3 DEF NeverFarAhead
  <2>10. c.bucket <= at + Skew
    <3>1. o.bucket <= at + Skew
      BY <1>1, <2>1, <2>2 DEF NoneAfter
    <3>2. o.bucket \in Nat /\ c.bucket \in Nat
      BY <1>6, <2>2 DEF Rows
    <3> QED BY <1>1, <1>4, <2>1, <3>1, <3>2
  <2>11. \A id \in o.agg.ids : id \in 1 .. n + 1 /\ tn[id] = tm[id]
    BY <1>3, <2>4
  <2> HIDE DEF o, h, k
  <2> QED BY <1>6, <2>1, <2>4, <2>5, <2>6, <2>7, <2>8, <2>9, <2>10, <2>11 DEF tn, n, c
<1> QED BY <1>7, <1>8

-----------------------------------------------------------------------------
(* What a sample leaves of the rows.                                       *)

\* What becomes of the rows of a tier: a row stays, or it is the one of the open window.
LEMMA RowsAfter ==
  ASSUME NEW R, NEW T, NEW tm, NEW fg, NEW at, MayCome(R, T, tm, fg, at), NEW i \in 1 .. 3
  PROVE  LET S == After(R, T, tm, at)
             c == Arriving(R, T, tm, at, i)
             w == S[i].cursor
         IN  /\ DOMAIN S = 1 .. 3 /\ S[i] \in TierRings(T[i])
             /\ ~Reaches(R, T, tm, at, i) => S[i] = R[i]
             /\ Reaches(R, T, tm, at, i) =>
                  /\ HasOpen(S, i) /\ w \in Stored(S, i) /\ Open(S, i) = Row(S, i, w)
                  /\ Stored(R, i) \subseteq Stored(S, i)
                  /\ \A s \in Stored(S, i) \ {w} : s \in Stored(R, i) /\ Row(S, i, s) = Row(R, i, s)
                  /\ \/ /\ Row(S, i, w) = c /\ w = SlotFor(c.bucket, T[i])
                        /\ HasOpen(R, i) => Open(R, i).bucket < c.bucket
                     \/ /\ HasOpen(R, i) /\ w = R[i].cursor /\ c.bucket <= Open(R, i).bucket
                        /\ Row(S, i, w).bucket = Open(R, i).bucket
                        /\ Row(S, i, w).agg.ids = Open(R, i).agg.ids \cup c.agg.ids
                        /\ Row(S, i, w).agg.last =
                             IF Open(R, i).bucket = c.bucket THEN c.agg.last ELSE Open(R, i).agg.last
<1> DEFINE f == First(T, tm, at)
           S == After(R, T, tm, at)
           c == Arriving(R, T, tm, at, i)
<1>1. /\ T \in [1 .. 3 -> Shapes] /\ tm \in Seq(Nat) /\ at \in Nat
      /\ RingTypes(R, T) /\ CursorsPoint(R) /\ RowsFit(R, T)
  BY DEF MayCome, RingInv
<1>2. f \in Rows /\ f.bucket % T[1].step = 0
  BY <1>1, FirstRow
<1>3. /\ S = ApplyRow(R, T, f) /\ c = Incoming(R, T, i, f)
      /\ Reaches(R, T, tm, at, i) = Reached(R, T, i, f)
  BY DEF After, Arriving, Reaches
<1> HIDE DEF f
<1>4. DOMAIN S = 1 .. 3 /\ S[i] \in TierRings(T[i]) /\ (~Reached(R, T, i, f) => S[i] = R[i])
  BY <1>1, <1>2, <1>3, TierAfter
<1>5. CASE Reached(R, T, i, f) /\ Opens(R, T, i, f)
  <2> DEFINE w == SlotFor(c.bucket, T[i])
  <2>1. /\ S[i].cursor = w /\ HasOpen(S, i) /\ Stored(S, i) = Stored(R, i) \cup {w}
        /\ Row(S, i, w) = c /\ Open(S, i) = c
        /\ \A s \in Stored(R, i) \ {w} : Row(S, i, s) = Row(R, i, s)
        /\ HasOpen(R, i) => Open(R, i).bucket < c.bucket
    BY <1>1, <1>2, <1>3, <1>5, TierAfter
  <2> HIDE DEF w, c, S
  <2> QED BY <1>3, <1>4, <1>5, <2>1 DEF w, c, S
<1>6. CASE Reached(R, T, i, f) /\ ~Opens(R, T, i, f)
  <2> DEFINE w == R[i].cursor
  <2>1. /\ HasOpen(R, i) /\ S[i].cursor = w /\ HasOpen(S, i) /\ Stored(S, i) = Stored(R, i)
        /\ Open(S, i) = Row(S, i, w)
        /\ Row(S, i, w) = RowOf(Open(R, i).bucket,
                            MergedWith(Open(R, i).agg, c.agg, Open(R, i).bucket = c.bucket))
        /\ \A s \in Stored(R, i) \ {w} : Row(S, i, s) = Row(R, i, s)
        /\ c.bucket <= Open(R, i).bucket
    BY <1>1, <1>2, <1>3, <1>6, TierAfter
  <2>2. w \in Stored(R, i)
    BY <1>1, <2>1 DEF CursorsPoint
  <2> HIDE DEF w, c, S
  <2>3. /\ Row(S, i, w).bucket = Open(R, i).bucket
        /\ Row(S, i, w).agg.ids = Open(R, i).agg.ids \cup c.agg.ids
        /\ Row(S, i, w).agg.last =
             IF Open(R, i).bucket = c.bucket THEN c.agg.last ELSE Open(R, i).agg.last
    BY <2>1 DEF RowOf, MergedWith
  <2> QED BY <1>3, <1>4, <1>6, <2>1, <2>2, <2>3 DEF w, c, S
<1> HIDE DEF S, c
<1> QED BY <1>3, <1>4, <1>5, <1>6 DEF S, c

\* The finer tiers of one that is reached have all closed their windows.
LEMMA FinerClosed ==
  ASSUME NEW R, NEW T, NEW tm, NEW fg, NEW at, MayCome(R, T, tm, fg, at),
         NEW i \in 1 .. 3, NEW j \in 1 .. 3, j < i, Reaches(R, T, tm, at, i)
  PROVE  /\ Reaches(R, T, tm, at, j) /\ HasOpen(R, j)
         /\ Open(R, j).bucket < Arriving(R, T, tm, at, j).bucket
         /\ Open(After(R, T, tm, at), j) = Arriving(R, T, tm, at, j)
<1> DEFINE f == First(T, tm, at)
<1>1. /\ T \in [1 .. 3 -> Shapes] /\ RingTypes(R, T) /\ CursorsPoint(R)
  BY DEF MayCome, RingInv
<1>2. Reached(R, T, i, f) /\ j \in 1 .. i - 1 /\ \A k \in 1 .. j - 1 : k \in 1 .. i - 1
  BY DEF Reaches
<1>3. Reached(R, T, j, f) /\ Closes(R, T, j, f)
  BY <1>2 DEF Reached
<1>4. HasOpen(R, j) /\ OpenAt(R, j).bucket < Incoming(R, T, j, f).bucket
  BY <1>3 DEF Closes, HasOpen, CursorOf
<1>5. OpenAt(R, j) = Open(R, j) /\ Open(R, j) \in Rows
  BY <1>1, <1>4, Typed
<1>6. Reaches(R, T, tm, at, j) /\ Open(R, j).bucket < Arriving(R, T, tm, at, j).bucket
  BY <1>3, <1>4, <1>5 DEF Reaches, Arriving
<1>7. Arriving(R, T, tm, at, j) \in Rows
  BY <1>6, Arrivals
<1>8. ~(Arriving(R, T, tm, at, j).bucket <= Open(R, j).bucket)
  BY <1>5, <1>6, <1>7 DEF Rows
<1> QED BY <1>4, <1>6, <1>8, RowsAfter

\* The windows that are open only move forward.
LEMMA OpensGrow ==
  ASSUME NEW R, NEW T, NEW tm, NEW fg, NEW at, MayCome(R, T, tm, fg, at),
         NEW i \in 1 .. 3, HasOpen(R, i)
  PROVE  LET S == After(R, T, tm, at)
         IN  HasOpen(S, i) /\ Open(R, i).bucket <= Open(S, i).bucket
<1>1. T \in [1 .. 3 -> Shapes] /\ RingTypes(R, T) /\ CursorsPoint(R)
  BY DEF MayCome, RingInv
<1>2. Open(R, i) \in Rows /\ Open(R, i).bucket \in Nat
  BY <1>1, Typed DEF Rows
<1>3. CASE ~Reaches(R, T, tm, at, i)
  <2>1. After(R, T, tm, at)[i] = R[i]
    BY <1>3, RowsAfter
  <2> QED BY <1>2, <2>1 DEF HasOpen, Open
<1>4. CASE Reaches(R, T, tm, at, i)
  <2>1. Arriving(R, T, tm, at, i).bucket \in Nat
    BY <1>4, Arrivals DEF Rows
  <2> QED BY <1>2, <1>4, <2>1, RowsAfter
<1> QED BY <1>3, <1>4

\* Shapes, slots, cursors and the newest row, after a sample.
LEMMA AfterIsTyped ==
  ASSUME NEW R, NEW T, NEW tm, NEW fg, NEW at, MayCome(R, T, tm, fg, at)
  PROVE  LET S == After(R, T, tm, at)
         IN  /\ RingTypes(S, T) /\ CursorsPoint(S) /\ RowsFit(S, T) /\ OpenIsNewest(S)
             /\ LastIsIn(S, Len(tm) + 1) /\ NoneAfter(S, at + Skew)
<1> DEFINE S == After(R, T, tm, at)
           n == Len(tm)
<1>1. /\ T \in [1 .. 3 -> Shapes] /\ RingTypes(R, T) /\ CursorsPoint(R) /\ RowsFit(R, T)
      /\ OpenIsNewest(R) /\ LastIsIn(R, n) /\ NoneAfter(R, at + Skew) /\ at \in Nat /\ tm \in Seq(Nat)
  BY DEF MayCome, RingInv
<1>2. n \in Nat /\ Skew \in Nat
  BY <1>1, TimesAreNaturals
<1>3. RingTypes(S, T)
  <2>1. \A i \in 1 .. 3 : DOMAIN S = 1 .. 3 /\ S[i] \in TierRings(T[i])
    BY RowsAfter
  <2> QED BY <2>1 DEF RingTypes
<1> DEFINE Good(i, s, r) ==
             /\ r.bucket % T[i].step = 0 /\ SlotFor(r.bucket, T[i]) = s
             /\ r.agg.last \in r.agg.ids /\ r.agg.ids \subseteq 1 .. n + 1
             /\ r.bucket <= at + Skew
<1>4. ASSUME NEW i \in 1 .. 3
      PROVE  /\ IF HasOpen(S, i) THEN S[i].cursor \in Stored(S, i) ELSE Stored(S, i) = {}
             /\ \A s \in Stored(S, i) : Good(i, s, Row(S, i, s)) /\ Row(S, i, s).bucket <= Open(S, i).bucket
  <2>1. /\ IF HasOpen(R, i) THEN R[i].cursor \in Stored(R, i) ELSE Stored(R, i) = {}
        /\ \A s \in Stored(R, i) : Good(i, s, Row(R, i, s)) /\ Row(R, i, s).bucket <= Open(R, i).bucket
    <3>1. IF HasOpen(R, i) THEN R[i].cursor \in Stored(R, i) ELSE Stored(R, i) = {}
      BY <1>1 DEF CursorsPoint
    <3>2. \A s \in Stored(R, i) : Row(R, i, s).bucket <= Open(R, i).bucket
      BY <1>1 DEF OpenIsNewest
    <3>3. \A s \in Stored(R, i) : /\ Row(R, i, s).bucket % T[i].step = 0
                                  /\ SlotFor(Row(R, i, s).bucket, T[i]) = s
                                  /\ Row(R, i, s).bucket <= at + Skew
      BY <1>1 DEF RowsFit, NoneAfter
    <3>4. \A s \in Stored(R, i) : /\ Row(R, i, s).agg.last \in Row(R, i, s).agg.ids
                                  /\ Row(R, i, s).agg.ids \subseteq 1 .. n + 1
      <4>1. 1 .. n \subseteq 1 .. n + 1
        BY <1>2
      <4> QED BY <1>1, <4>1 DEF LastIsIn
    <3> QED BY <3>1, <3>2, <3>3, <3>4
  <2>2. CASE ~Reaches(R, T, tm, at, i)
    <3>1. S[i] = R[i]
      BY <2>2, RowsAfter
    <3> HIDE DEF Good, S
    <3> QED BY <2>1, <3>1 DEF HasOpen, Stored, Row, Open
  <2>3. CASE Reaches(R, T, tm, at, i)
    <3> DEFINE c == Arriving(R, T, tm, at, i)
               w == S[i].cursor
    <3>1. /\ c \in Rows /\ c.bucket % T[i].step = 0
          /\ c.agg.last \in c.agg.ids /\ c.agg.ids \subseteq 1 .. n + 1 /\ c.bucket <= at + Skew
      BY <2>3, Arrivals
    <3>2. /\ HasOpen(S, i) /\ w \in Stored(S, i) /\ Open(S, i) = Row(S, i, w)
          /\ \A s \in Stored(S, i) \ {w} : s \in Stored(R, i) /\ Row(S, i, s) = Row(R, i, s)
      BY <2>3, RowsAfter
    <3>3. \/ /\ Row(S, i, w) = c /\ w = SlotFor(c.bucket, T[i])
             /\ HasOpen(R, i) => Open(R, i).bucket < c.bucket
          \/ /\ HasOpen(R, i) /\ w = R[i].cursor /\ c.bucket <= Open(R, i).bucket
             /\ Row(S, i, w).bucket = Open(R, i).bucket
             /\ Row(S, i, w).agg.ids = Open(R, i).agg.ids \cup c.agg.ids
             /\ Row(S, i, w).agg.last =
                  IF Open(R, i).bucket = c.bucket THEN c.agg.last ELSE Open(R, i).agg.last
      BY <2>3, RowsAfter
    <3>4. HasOpen(R, i) => /\ R[i].cursor \in Stored(R, i) /\ Open(R, i) = Row(R, i, R[i].cursor)
                           /\ Open(R, i).bucket \in Nat
      BY <1>1, Typed DEF Rows
    <3>5. \A s \in Stored(R, i) : HasOpen(R, i) /\ Row(R, i, s).bucket \in Nat
      BY <1>1, <2>1, Typed DEF Rows
    <3>6. c.bucket \in Nat
      BY <3>1 DEF Rows
    <3> HIDE DEF S, c, w
    <3>7. Good(i, w, Row(S, i, w))
      BY <2>1, <3>1, <3>3, <3>4
    <3>8. Row(S, i, w).bucket \in Nat /\ (HasOpen(R, i) => Open(R, i).bucket <= Row(S, i, w).bucket)
      BY <3>3, <3>4, <3>6
    <3>9. \A s \in Stored(S, i) \ {w} : Good(i, s, Row(S, i, s)) /\ Row(S, i, s).bucket <= Row(S, i, w).bucket
      <4> HIDE DEF Good
      <4> QED BY <2>1, <3>2, <3>4, <3>5, <3>8
    <3> HIDE DEF Good
    <3> QED BY <3>2, <3>7, <3>8, <3>9 DEF w
  <2> QED BY <2>2, <2>3
<1>5. CursorsPoint(S)
  BY <1>4 DEF CursorsPoint
<1>6. RowsFit(S, T) /\ OpenIsNewest(S) /\ LastIsIn(S, n + 1) /\ NoneAfter(S, at + Skew)
  BY <1>4 DEF RowsFit, OpenIsNewest, LastIsIn, NoneAfter
<1> QED BY <1>3, <1>5, <1>6

-----------------------------------------------------------------------------
(* The order of samples is kept.                                           *)

\* A sample of a row after was in a row of that tier before, or has just come to it.
LEMMA SamplesAfter ==
  ASSUME NEW R, NEW T, NEW tm, NEW fg, NEW at, MayCome(R, T, tm, fg, at), NEW j \in 1 .. 3,
         NEW s \in Stored(After(R, T, tm, at), j), NEW x \in Row(After(R, T, tm, at), j, s).agg.ids
  PROVE  LET S == After(R, T, tm, at)
         IN  \/ s \in Stored(R, j) /\ x \in Row(R, j, s).agg.ids /\ Row(S, j, s).bucket = Row(R, j, s).bucket
             \/ /\ Reaches(R, T, tm, at, j) /\ x \in Arriving(R, T, tm, at, j).agg.ids
                /\ s = S[j].cursor
<1> DEFINE S == After(R, T, tm, at)
<1>1. /\ T \in [1 .. 3 -> Shapes] /\ RingTypes(R, T) /\ CursorsPoint(R)
  BY DEF MayCome, RingInv
<1>2. HasOpen(R, j) => R[j].cursor \in Stored(R, j) /\ Open(R, j) = Row(R, j, R[j].cursor)
  BY <1>1, Typed
<1>3. CASE ~Reaches(R, T, tm, at, j)
  <2>1. S[j] = R[j]
    BY <1>3, RowsAfter
  <2> QED BY <2>1 DEF Stored, Row
<1>4. CASE Reaches(R, T, tm, at, j)
  BY <1>2, <1>4, RowsAfter
<1> QED BY <1>3, <1>4

\* Samples still move on in the order they came.
LEMMA OldestStayFirst ==
  ASSUME NEW R, NEW T, NEW tm, NEW fg, NEW at, MayCome(R, T, tm, fg, at)
  PROVE  OldestFirst(After(R, T, tm, at))
<1> DEFINE S == After(R, T, tm, at)
           C(i) == Arriving(R, T, tm, at, i)
           To(i) == Reaches(R, T, tm, at, i)
<1>1. /\ T \in [1 .. 3 -> Shapes] /\ RingTypes(R, T) /\ CursorsPoint(R) /\ OldestFirst(R)
      /\ OpenIsNewest(R)
  BY DEF MayCome, RingInv
<1>2. /\ RingTypes(S, T) /\ CursorsPoint(S) /\ OpenIsNewest(S)
  BY AfterIsTyped
<1>3. \A i \in 1 .. 3 : /\ HasOpen(R, i) => R[i].cursor \in Stored(R, i) /\ Open(R, i) = Row(R, i, R[i].cursor)
                        /\ HasOpen(S, i) => S[i].cursor \in Stored(S, i) /\ Open(S, i) = Row(S, i, S[i].cursor)
  BY <1>1, <1>2, Typed
<1>4. \A i \in 1 .. 3 : To(i) =>
        \A j \in 1 .. 3 : i <= j => \A s \in Stored(R, j) : \A x \in Row(R, j, s).agg.ids :
          \A y \in C(i).agg.ids : x < y
  BY Arrivals
<1>5. SUFFICES ASSUME NEW j \in 1 .. 3, NEW s \in Stored(S, j), NEW x \in Row(S, j, s).agg.ids
               PROVE  /\ \A q \in Stored(S, j) : Row(S, j, s).bucket < Row(S, j, q).bucket =>
                           \A y \in Row(S, j, q).agg.ids : x < y
                      /\ \A i \in 1 .. 3 : i < j /\ HasOpen(S, i) => \A y \in Open(S, i).agg.ids : x < y
  BY DEF OldestFirst
<1>6. \A q \in Stored(S, j) : Row(S, j, q) \in Rows
  BY <1>1, <1>2, Typed
<1>7. \A q \in Stored(S, j) : Row(S, j, q).bucket \in Nat
  BY <1>6 DEF Rows
<1>8. \/ s \in Stored(R, j) /\ x \in Row(R, j, s).agg.ids /\ Row(S, j, s).bucket = Row(R, j, s).bucket
      \/ To(j) /\ x \in C(j).agg.ids /\ s = S[j].cursor
  BY SamplesAfter
<1>9. ASSUME NEW q \in Stored(S, j), Row(S, j, s).bucket < Row(S, j, q).bucket,
             NEW y \in Row(S, j, q).agg.ids
      PROVE  x < y
  <2>1. \/ q \in Stored(R, j) /\ y \in Row(R, j, q).agg.ids /\ Row(S, j, q).bucket = Row(R, j, q).bucket
        \/ To(j) /\ y \in C(j).agg.ids /\ q = S[j].cursor
    BY <1>9, SamplesAfter
  <2>2. CASE To(j) /\ x \in C(j).agg.ids /\ s = S[j].cursor
    <3>1. Row(S, j, q).bucket <= Row(S, j, s).bucket
      <4>1. HasOpen(S, j)
        BY <2>2, RowsAfter
      <4>2. Open(S, j) = Row(S, j, s)
        BY <1>3, <2>2, <4>1
      <4> QED BY <1>2, <4>2 DEF OpenIsNewest
    <3> QED BY <1>7, <1>9, <3>1
  <2>3. CASE s \in Stored(R, j) /\ x \in Row(R, j, s).agg.ids /\ Row(S, j, s).bucket = Row(R, j, s).bucket
    <3>1. CASE To(j) /\ y \in C(j).agg.ids
      BY <1>4, <2>3, <3>1
    <3>2. CASE q \in Stored(R, j) /\ y \in Row(R, j, q).agg.ids /\ Row(S, j, q).bucket = Row(R, j, q).bucket
      BY <1>1, <1>9, <2>3, <3>2 DEF OldestFirst
    <3> QED BY <2>1, <3>1, <3>2
  <2> QED BY <1>8, <2>2, <2>3
<1>10. ASSUME NEW i \in 1 .. 3, i < j, HasOpen(S, i), NEW y \in Open(S, i).agg.ids
       PROVE  x < y
  <2>1. \/ /\ R[i].cursor \in Stored(R, i) /\ HasOpen(R, i) /\ y \in Open(R, i).agg.ids
           /\ ~(To(i) /\ Open(S, i) = C(i))
        \/ To(i) /\ y \in C(i).agg.ids
    <3>1. CASE ~To(i)
      <4>1. S[i] = R[i]
        BY <3>1, RowsAfter
      <4> QED BY <1>3, <1>10, <3>1, <4>1 DEF HasOpen, Open
    <3>2. CASE To(i)
      BY <1>3, <1>10, <3>2, RowsAfter
    <3> QED BY <3>1, <3>2
  <2>2. CASE To(j) /\ x \in C(j).agg.ids
    <3>1. To(i) /\ Open(S, i) = C(i)
      BY <1>10, <2>2, FinerClosed
    <3>2. y \in C(i).agg.ids
      BY <1>10, <3>1
    <3>3. /\ j # 1 /\ j - 1 \in 1 .. 3 /\ j - 1 < j /\ i <= j - 1
      BY <1>10
    <3>4. HasOpen(R, j - 1) /\ C(j).agg = Open(R, j - 1).agg
      <4> DEFINE f == First(T, tm, at)
      <4>1. f \in Rows /\ f.bucket % T[1].step = 0
        BY <1>1, FirstRow DEF MayCome
      <4> HIDE DEF f
      <4>2. Reached(R, T, j, f) /\ RowsFit(R, T)
        BY <2>2 DEF Reaches, f, MayCome, RingInv
      <4> QED BY <1>1, <3>3, <4>1, <4>2, ArrivesInStep DEF Arriving, f
    <3>5. R[j - 1].cursor \in Stored(R, j - 1) /\ x \in Row(R, j - 1, R[j - 1].cursor).agg.ids
      BY <1>3, <2>2, <3>3, <3>4
    <3> HIDE DEF C, To
    <3> QED BY <1>4, <3>1, <3>2, <3>3, <3>5
  <2>3. CASE s \in Stored(R, j) /\ x \in Row(R, j, s).agg.ids
    <3>1. CASE To(i) /\ y \in C(i).agg.ids
      BY <1>4, <1>10, <2>3, <3>1
    <3>2. CASE HasOpen(R, i) /\ y \in Open(R, i).agg.ids
      BY <1>1, <1>10, <2>3, <3>2 DEF OldestFirst
    <3> QED BY <2>1, <3>1, <3>2
  <2> QED BY <1>8, <2>2, <2>3
<1> QED BY <1>9, <1>10

\* The time of a sample does not change.
LEMMA TimesAfter ==
  ASSUME NEW R, NEW T, NEW tm, NEW fg, NEW at, MayCome(R, T, tm, fg, at),
         NEW i \in 1 .. 3, NEW s \in Stored(R, i)
  PROVE  /\ \A id \in Row(R, i, s).agg.ids : Append(tm, at)[id] = tm[id] /\ tm[id] \in Nat /\ id \in 1 .. Len(tm)
         /\ Row(R, i, s).agg.last \in Row(R, i, s).agg.ids
  BY Appended DEF MayCome, RingInv, LastIsIn

\* No sample comes to a window before its own.
LEMMA StillNeverEarly ==
  ASSUME NEW R, NEW T, NEW tm, NEW fg, NEW at, MayCome(R, T, tm, fg, at)
  PROVE  NeverEarly(After(R, T, tm, at), T, Append(tm, at), fg)
<1> DEFINE S == After(R, T, tm, at)
           tn == Append(tm, at)
<1>1. T \in [1 .. 3 -> Shapes] /\ RingTypes(R, T) /\ CursorsPoint(R) /\ NeverEarly(R, T, tm, fg)
  BY DEF MayCome, RingInv
<1>2. SUFFICES ASSUME NEW i \in 1 .. 3, NEW s \in Stored(S, i), NEW id \in Row(S, i, s).agg.ids \ fg
               PROVE  WindowOf(T, tn[id], i) <= Row(S, i, s).bucket
  BY DEF NeverEarly
<1>3. CASE s \in Stored(R, i) /\ id \in Row(R, i, s).agg.ids /\ Row(S, i, s).bucket = Row(R, i, s).bucket
  <2>1. WindowOf(T, tm[id], i) <= Row(R, i, s).bucket
    BY <1>1, <1>3 DEF NeverEarly
  <2>2. tn[id] = tm[id]
    BY <1>3, TimesAfter
  <2> QED BY <1>3, <2>1, <2>2
<1>4. CASE Reaches(R, T, tm, at, i) /\ id \in Arriving(R, T, tm, at, i).agg.ids /\ s = S[i].cursor
  <2> DEFINE c == Arriving(R, T, tm, at, i)
  <2>1. c \in Rows /\ WindowOf(T, tn[id], i) <= c.bucket /\ tn[id] \in Nat
    <3>1. c \in Rows /\ WindowOf(T, tn[id], i) <= c.bucket /\ c.agg.ids \subseteq 1 .. Len(tm) + 1
      BY <1>4, Arrivals
    <3>2. tm \in Seq(Nat) /\ at \in Nat
      BY DEF MayCome
    <3> QED BY <1>4, <3>1, <3>2, Appended
  <2>2. c.bucket <= Row(S, i, s).bucket
    <3>1. HasOpen(R, i) => Open(R, i).bucket \in Nat
      BY <1>1, Typed DEF Rows
    <3>2. c.bucket \in Nat
      BY <2>1 DEF Rows
    <3> HIDE DEF c
    <3>3. \/ Row(S, i, s) = c
          \/ HasOpen(R, i) /\ c.bucket <= Open(R, i).bucket /\ Row(S, i, s).bucket = Open(R, i).bucket
      BY <1>4, RowsAfter DEF c
    <3> QED BY <3>1, <3>2, <3>3
  <2>3. WindowOf(T, tn[id], i) \in Nat /\ c.bucket \in Nat /\ Row(S, i, s).bucket \in Nat
    <3>1. RingTypes(S, T) /\ CursorsPoint(S)
      BY AfterIsTyped
    <3>2. Row(S, i, s).bucket \in Nat
      BY <1>1, <3>1, Typed DEF Rows
    <3> QED BY <1>1, <2>1, <3>2, WindowsOfTime DEF Rows
  <2> HIDE DEF c, tn, S
  <2> QED BY <2>1, <2>2, <2>3
<1>5. \/ s \in Stored(R, i) /\ id \in Row(R, i, s).agg.ids /\ Row(S, i, s).bucket = Row(R, i, s).bucket
      \/ Reaches(R, T, tm, at, i) /\ id \in Arriving(R, T, tm, at, i).agg.ids /\ s = S[i].cursor
  <2>1. id \in Row(S, i, s).agg.ids
    OBVIOUS
  <2> QED BY <2>1, SamplesAfter
<1> QED BY <1>3, <1>4, <1>5

-----------------------------------------------------------------------------
(* So is what a window's `last' says.                                      *)

\* The `last' of a row after: it is as before, or came with what has just come.
LEMMA LastAfter ==
  ASSUME NEW R, NEW T, NEW tm, NEW fg, NEW at, MayCome(R, T, tm, fg, at), NEW i \in 1 .. 3,
         NEW s \in Stored(After(R, T, tm, at), i)
  PROVE  LET S == After(R, T, tm, at)
             r == Row(S, i, s)
             c == Arriving(R, T, tm, at, i)
         IN  \/ s \in Stored(R, i) /\ r = Row(R, i, s)
             \/ /\ Reaches(R, T, tm, at, i) /\ s \in Stored(R, i)
                /\ r.bucket = Row(R, i, s).bucket /\ r.agg.last = Row(R, i, s).agg.last
                /\ r.agg.ids = Row(R, i, s).agg.ids \cup c.agg.ids /\ c.bucket < r.bucket
             \/ /\ Reaches(R, T, tm, at, i)
                /\ r.bucket = c.bucket /\ r.agg.last = c.agg.last
                /\ \/ r.agg.ids = c.agg.ids
                   \/ \E q \in Stored(R, i) : r.agg.ids = Row(R, i, q).agg.ids \cup c.agg.ids
<1> DEFINE S == After(R, T, tm, at)
           c == Arriving(R, T, tm, at, i)
           o == Open(R, i)
<1>1. /\ T \in [1 .. 3 -> Shapes] /\ RingTypes(R, T) /\ CursorsPoint(R)
  BY DEF MayCome, RingInv
<1>2. HasOpen(R, i) => /\ R[i].cursor \in Stored(R, i) /\ o = Row(R, i, R[i].cursor)
                       /\ o.bucket \in Nat
  BY <1>1, Typed DEF Rows
<1>3. CASE ~Reaches(R, T, tm, at, i)
  <2>1. S[i] = R[i]
    BY <1>3, RowsAfter
  <2> QED BY <2>1 DEF Stored, Row
<1>4. CASE Reaches(R, T, tm, at, i) /\ s # S[i].cursor
  BY <1>4, RowsAfter
<1>5. CASE Reaches(R, T, tm, at, i) /\ s = S[i].cursor
  <2>1. c.bucket \in Nat
    BY <1>5, Arrivals DEF Rows
  <2>2. \/ Row(S, i, s) = c
        \/ /\ HasOpen(R, i) /\ s = R[i].cursor /\ c.bucket <= o.bucket
           /\ Row(S, i, s).bucket = o.bucket
           /\ Row(S, i, s).agg.ids = o.agg.ids \cup c.agg.ids
           /\ Row(S, i, s).agg.last = IF o.bucket = c.bucket THEN c.agg.last ELSE o.agg.last
    BY <1>5, RowsAfter
  <2> HIDE DEF c, o, S
  <2>3. CASE Row(S, i, s) = c
    BY <1>5, <2>3 DEF c, S
  <2>4. CASE /\ HasOpen(R, i) /\ s = R[i].cursor /\ c.bucket <= o.bucket
             /\ Row(S, i, s).bucket = o.bucket
             /\ Row(S, i, s).agg.ids = o.agg.ids \cup c.agg.ids
             /\ Row(S, i, s).agg.last = IF o.bucket = c.bucket THEN c.agg.last ELSE o.agg.last
    <3>1. s \in Stored(R, i) /\ o = Row(R, i, s) /\ o.bucket \in Nat
      BY <1>2, <2>4
    <3>2. CASE o.bucket = c.bucket
      BY <1>5, <2>4, <3>1, <3>2 DEF c, S
    <3>3. CASE o.bucket # c.bucket
      <4>1. c.bucket < o.bucket
        BY <2>1, <2>4, <3>1, <3>3
      <4> QED BY <1>5, <2>4, <3>1, <3>3, <4>1 DEF c, S
    <3> QED BY <3>2, <3>3
  <2> QED BY <2>2, <2>3, <2>4
<1> QED BY <1>3, <1>4, <1>5

\* The `last' of a window is of that window, and the finer tiers are past it.
LEMMA LastStaysExact ==
  ASSUME NEW R, NEW T, NEW tm, NEW fg, NEW at, MayCome(R, T, tm, fg, at)
  PROVE  LastIsExact(After(R, T, tm, at), T, Append(tm, at), fg)
<1> DEFINE S == After(R, T, tm, at)
           tn == Append(tm, at)
<1>1. T \in [1 .. 3 -> Shapes] /\ RingTypes(R, T) /\ CursorsPoint(R) /\ LastIsExact(R, T, tm, fg)
  BY DEF MayCome, RingInv
<1>2. RingTypes(S, T) /\ CursorsPoint(S)
  BY AfterIsTyped
<1>3. SUFFICES ASSUME NEW i \in 1 .. 3, NEW s \in Stored(S, i), Row(S, i, s).agg.last \notin fg
               PROVE  /\ Row(S, i, s).bucket = WindowOf(T, tn[Row(S, i, s).agg.last], i)
                      /\ \A j \in 1 .. 3 : j < i => HasOpen(S, j) /\ Row(S, i, s).bucket < Open(S, j).bucket
  BY DEF LastIsExact
<1> DEFINE r == Row(S, i, s)
           c == Arriving(R, T, tm, at, i)
<1>4. \A j \in 1 .. 3 : HasOpen(S, j) => Open(S, j).bucket \in Nat
  BY <1>1, <1>2, Typed DEF Rows
<1>5. r.bucket \in Nat
  BY <1>1, <1>2, Typed DEF Rows
<1>6. \A j \in 1 .. 3 : HasOpen(R, j) => /\ HasOpen(S, j) /\ Open(R, j).bucket <= Open(S, j).bucket
                                         /\ Open(R, j).bucket \in Nat
  BY <1>1, OpensGrow, Typed DEF Rows
<1>7. CASE s \in Stored(R, i) /\ r.bucket = Row(R, i, s).bucket /\ r.agg.last = Row(R, i, s).agg.last
  <2>1. /\ Row(R, i, s).bucket = WindowOf(T, tm[r.agg.last], i)
        /\ \A j \in 1 .. 3 : j < i => HasOpen(R, j) /\ Row(R, i, s).bucket < Open(R, j).bucket
    BY <1>1, <1>3, <1>7 DEF LastIsExact
  <2>2. tn[r.agg.last] = tm[r.agg.last]
    BY <1>7, TimesAfter
  <2> HIDE DEF S, tn, r
  <2>3. ASSUME NEW j \in 1 .. 3, j < i PROVE HasOpen(S, j) /\ r.bucket < Open(S, j).bucket
    BY <1>4, <1>5, <1>6, <1>7, <2>1, <2>3
  <2> QED BY <1>7, <2>1, <2>2, <2>3 DEF S, tn, r
<1>8. CASE Reaches(R, T, tm, at, i) /\ r.bucket = c.bucket /\ r.agg.last = c.agg.last
  <2>1. c.bucket = WindowOf(T, tn[c.agg.last], i)
    BY <1>3, <1>8, Arrivals
  <2>2. ASSUME NEW j \in 1 .. 3, j < i PROVE HasOpen(S, j) /\ c.bucket < Open(S, j).bucket
    <3> DEFINE h == i - 1
    <3>1. h \in 1 .. 3 /\ i # 1 /\ j <= h /\ h < i
      BY <2>2
    <3>2. HasOpen(R, h) /\ c.bucket <= Open(R, h).bucket /\ c.agg = Open(R, h).agg
      <4> DEFINE f == First(T, tm, at)
      <4>1. f \in Rows /\ f.bucket % T[1].step = 0
        BY <1>1, FirstRow DEF MayCome
      <4> HIDE DEF f
      <4>2. Reached(R, T, i, f) /\ RowsFit(R, T)
        BY <1>8 DEF Reaches, f, MayCome, RingInv
      <4> QED BY <1>1, <3>1, <4>1, <4>2, ArrivesInStep DEF Arriving, f
    <3>3. R[h].cursor \in Stored(R, h) /\ Open(R, h) = Row(R, h, R[h].cursor)
      BY <1>1, <3>1, <3>2, Typed
    <3>4. CASE j = h
      <4>1. /\ Open(R, h).bucket < Arriving(R, T, tm, at, h).bucket
            /\ Open(S, h) = Arriving(R, T, tm, at, h)
        BY <1>8, <3>1, FinerClosed
      <4>2. HasOpen(S, h) /\ Open(S, h).bucket \in Nat /\ Open(R, h).bucket \in Nat
        BY <1>4, <1>6, <3>1, <3>2
      <4> HIDE DEF S, c, h
      <4> QED BY <1>5, <1>8, <3>2, <3>4, <4>1, <4>2
    <3>5. CASE j # h
      <4>1. j < h /\ Open(R, h).agg.last \notin fg
        BY <1>3, <1>8, <3>1, <3>2, <3>5
      <4>2. HasOpen(R, j) /\ Open(R, h).bucket < Open(R, j).bucket
        BY <1>1, <3>1, <3>3, <4>1 DEF LastIsExact
      <4>3. HasOpen(S, j) /\ Open(R, j).bucket <= Open(S, j).bucket /\ Open(S, j).bucket \in Nat
            /\ Open(R, j).bucket \in Nat /\ Open(R, h).bucket \in Nat
        BY <1>4, <1>6, <3>1, <3>2, <4>2
      <4> HIDE DEF S, c, h
      <4> QED BY <1>5, <1>8, <3>2, <4>2, <4>3
    <3> QED BY <3>4, <3>5
  <2> QED BY <1>8, <2>1, <2>2
<1>9. \/ s \in Stored(R, i) /\ r.bucket = Row(R, i, s).bucket /\ r.agg.last = Row(R, i, s).agg.last
      \/ Reaches(R, T, tm, at, i) /\ r.bucket = c.bucket /\ r.agg.last = c.agg.last
  BY LastAfter
<1> QED BY <1>7, <1>8, <1>9

\* The times of samples stay in order, but for the skew.
LEMMA InTimeAfter ==
  ASSUME NEW R, NEW T, NEW tm, NEW fg, NEW at, MayCome(R, T, tm, fg, at)
  PROVE  InTime(Append(tm, at))
<1>1. tm \in Seq(Nat) /\ at \in Nat /\ InTime(tm) /\ \A x \in DOMAIN tm : tm[x] <= at + Skew
  BY DEF MayCome
<1>2. /\ DOMAIN Append(tm, at) = 1 .. Len(tm) + 1 /\ DOMAIN tm = 1 .. Len(tm) /\ Len(tm) \in Nat
      /\ \A x \in 1 .. Len(tm) : Append(tm, at)[x] = tm[x]
      /\ Append(tm, at)[Len(tm) + 1] = at
  BY <1>1, Appended
<1>3. SUFFICES ASSUME NEW x \in 1 .. Len(tm) + 1, NEW y \in 1 .. Len(tm) + 1, x < y
               PROVE  Append(tm, at)[x] <= Append(tm, at)[y] + Skew
  BY <1>2 DEF InTime
<1>4. x \in 1 .. Len(tm) /\ (y \in 1 .. Len(tm) \/ y = Len(tm) + 1)
  BY <1>2, <1>3
<1> QED BY <1>1, <1>2, <1>3, <1>4 DEF InTime

\* Nothing in a window is newer than its `last', but for the skew.
LEMMA LastStaysNew ==
  ASSUME NEW R, NEW T, NEW tm, NEW fg, NEW at, MayCome(R, T, tm, fg, at)
  PROVE  LastIsNew(After(R, T, tm, at), Append(tm, at), fg)
<1> DEFINE S == After(R, T, tm, at)
           tn == Append(tm, at)
           n == Len(tm)
<1>1. /\ T \in [1 .. 3 -> Shapes] /\ RingTypes(R, T) /\ CursorsPoint(R)
      /\ LastIsExact(R, T, tm, fg) /\ LastIsNew(R, tm, fg) /\ LastIsIn(R, n)
      /\ tm \in Seq(Nat) /\ at \in Nat
      /\ ForgottenFirst(tm, fg)
  BY DEF MayCome, RingInv
<1>2. /\ \A x \in 1 .. n + 1 : tn[x] \in Nat
      /\ \A x \in 1 .. n : tn[x] = tm[x] /\ x \in DOMAIN tm
      /\ n \in Nat /\ Skew \in Nat
  BY <1>1, Appended, TimesAreNaturals
<1>3. SUFFICES ASSUME NEW i \in 1 .. 3, NEW s \in Stored(S, i), Row(S, i, s).agg.last \notin fg,
                      NEW id \in Row(S, i, s).agg.ids
               PROVE  tn[id] <= tn[Row(S, i, s).agg.last] + Skew
  BY DEF LastIsNew
<1> DEFINE r == Row(S, i, s)
           c == Arriving(R, T, tm, at, i)
           l == r.agg.last
<1>4. LastIsIn(S, n + 1)
  BY AfterIsTyped
<1>5. l \in 1 .. n + 1 /\ id \in 1 .. n + 1
  BY <1>4 DEF LastIsIn
<1>6. CASE s \in Stored(R, i) /\ r = Row(R, i, s)
  <2>1. tm[id] <= tm[l] + Skew
    BY <1>1, <1>3, <1>6 DEF LastIsNew
  <2>2. tn[id] = tm[id] /\ tn[l] = tm[l]
    BY <1>6, TimesAfter
  <2> QED BY <2>1, <2>2
<1>7. CASE /\ Reaches(R, T, tm, at, i) /\ s \in Stored(R, i)
           /\ r.bucket = Row(R, i, s).bucket /\ r.agg.last = Row(R, i, s).agg.last
           /\ r.agg.ids = Row(R, i, s).agg.ids \cup c.agg.ids /\ c.bucket < r.bucket
  <2>1. tn[l] = tm[l]
    BY <1>7, TimesAfter
  <2>2. CASE id \in Row(R, i, s).agg.ids
    <3>1. tm[id] <= tm[l] + Skew
      BY <1>1, <1>3, <1>7, <2>2 DEF LastIsNew
    <3>2. tn[id] = tm[id]
      BY <1>7, <2>2, TimesAfter
    <3> QED BY <2>1, <3>1, <3>2
  <2>3. CASE id \in c.agg.ids /\ id \notin fg
    <3>1. WindowOf(T, tn[id], i) <= c.bucket /\ c.bucket \in Nat
      BY <1>7, <2>3, Arrivals DEF Rows
    <3>2. Row(R, i, s).bucket = WindowOf(T, tm[l], i)
      BY <1>1, <1>3, <1>7 DEF LastIsExact
    <3>3. tn[id] \in Nat /\ tn[l] \in Nat
      BY <1>2, <1>5
    <3>4. WindowOf(T, tn[id], i) \in Nat /\ WindowOf(T, tn[l], i) \in Nat
          /\ (tn[l] <= tn[id] => WindowOf(T, tn[l], i) <= WindowOf(T, tn[id], i))
      BY <1>1, <3>3, WindowsOfTime
    <3>5. WindowOf(T, tn[id], i) < WindowOf(T, tn[l], i)
      <4> HIDE DEF tn, c, r, l
      <4> QED BY <1>7, <2>1, <3>1, <3>2, <3>4
    <3>6. tn[id] <= tn[l] + Skew
      <4> HIDE DEF tn, c, r, l
      <4> QED BY <1>2, <3>3, <3>4, <3>5
    <3> QED BY <3>6
  <2>4. CASE id \in c.agg.ids /\ id \in fg
    <3>1. l < id /\ l \in Row(R, i, s).agg.ids
      <4>1. l \in Row(R, i, s).agg.ids
        BY <1>7, TimesAfter
      <4> QED BY <1>7, <2>4, <4>1, Arrivals
    <3>2. l \in 1 .. n /\ l \in DOMAIN tm \ fg
      BY <1>1, <1>2, <1>3, <1>7, <3>1 DEF LastIsIn
    <3>3. id < l /\ id \in 1 .. n + 1
      BY <1>1, <1>5, <2>4, <3>2 DEF ForgottenFirst
    <3> QED BY <1>2, <3>1, <3>2, <3>3
  <2> QED BY <1>7, <2>2, <2>3, <2>4
<1>8. CASE /\ Reaches(R, T, tm, at, i) /\ r.bucket = c.bucket /\ r.agg.last = c.agg.last
           /\ \/ r.agg.ids = c.agg.ids
              \/ \E q \in Stored(R, i) : r.agg.ids = Row(R, i, q).agg.ids \cup c.agg.ids
  <2>1. CASE id \in c.agg.ids
    BY <1>3, <1>8, <2>1, Arrivals
  <2>2. CASE \E q \in Stored(R, i) : id \in Row(R, i, q).agg.ids
    <3>1. id < l
      BY <1>8, <2>2, Arrivals
    <3>2. InTime(tn)
      BY <1>1, InTimeAfter
    <3> QED BY <1>1, <1>5, <3>1, <3>2, Appended DEF InTime
  <2> QED BY <1>8, <2>1, <2>2
<1>9. \/ s \in Stored(R, i) /\ r = Row(R, i, s)
      \/ /\ Reaches(R, T, tm, at, i) /\ s \in Stored(R, i)
         /\ r.bucket = Row(R, i, s).bucket /\ r.agg.last = Row(R, i, s).agg.last
         /\ r.agg.ids = Row(R, i, s).agg.ids \cup c.agg.ids /\ c.bucket < r.bucket
      \/ /\ Reaches(R, T, tm, at, i)
         /\ r.bucket = c.bucket /\ r.agg.last = c.agg.last
         /\ \/ r.agg.ids = c.agg.ids
            \/ \E q \in Stored(R, i) : r.agg.ids = Row(R, i, q).agg.ids \cup c.agg.ids
  BY LastAfter
<1> QED BY <1>6, <1>7, <1>8, <1>9

-----------------------------------------------------------------------------
(* And no sample gets lost.                                                *)

\* The window that closed in the tier before is what comes to the next one.
LEMMA FromFiner ==
  ASSUME NEW R, NEW T, NEW tm, NEW fg, NEW at, MayCome(R, T, tm, fg, at),
         NEW j \in 1 .. 3, j # 1, Reaches(R, T, tm, at, j)
  PROVE  LET c == Arriving(R, T, tm, at, j)
         IN  /\ j - 1 \in 1 .. 3 /\ j - 1 < j
             /\ HasOpen(R, j - 1) /\ R[j - 1].cursor \in Stored(R, j - 1)
             /\ Open(R, j - 1) = Row(R, j - 1, R[j - 1].cursor)
             /\ c.agg = Open(R, j - 1).agg /\ c.bucket <= Open(R, j - 1).bucket
             /\ c.bucket \in Nat /\ Open(R, j - 1).bucket \in Nat
<1> DEFINE f == First(T, tm, at)
<1>1. /\ T \in [1 .. 3 -> Shapes] /\ RingTypes(R, T) /\ CursorsPoint(R) /\ RowsFit(R, T)
      /\ f \in Rows /\ f.bucket % T[1].step = 0
  BY FirstRow DEF MayCome, RingInv
<1> HIDE DEF f
<1>2. j - 1 \in 1 .. 3 /\ j - 1 < j
  OBVIOUS
<1>3. Reached(R, T, j, f)
  BY DEF Reaches, f
<1>4. /\ HasOpen(R, j - 1) /\ Arriving(R, T, tm, at, j).bucket <= Open(R, j - 1).bucket
      /\ Arriving(R, T, tm, at, j).agg = Open(R, j - 1).agg
      /\ Arriving(R, T, tm, at, j) \in Rows
  BY <1>1, <1>3, ArrivesInStep DEF Arriving, f
<1>5. /\ R[j - 1].cursor \in Stored(R, j - 1) /\ Open(R, j - 1) = Row(R, j - 1, R[j - 1].cursor)
      /\ Open(R, j - 1) \in Rows
  BY <1>1, <1>2, <1>4, Typed
<1> QED BY <1>2, <1>4, <1>5 DEF Rows

LEMMA NextIsReached ==
  ASSUME NEW R, NEW T, NEW tm, NEW fg, NEW at, MayCome(R, T, tm, fg, at),
         NEW j \in 1 .. 3, NEW p \in 1 .. 3, j < p,
         Reaches(R, T, tm, at, j), HasOpen(R, j), Open(R, j).bucket < Arriving(R, T, tm, at, j).bucket
  PROVE  j + 1 \in 1 .. 3 /\ Reaches(R, T, tm, at, j + 1)
<1> DEFINE f == First(T, tm, at)
<1>1. j + 1 \in 1 .. 3 /\ 1 .. (j + 1) - 1 = (1 .. j - 1) \cup {j}
  OBVIOUS
<1>2. OpenAt(R, j) = Open(R, j)
  BY Typed DEF MayCome, RingInv
<1>3. Closes(R, T, j, f)
  BY <1>2 DEF Closes, CursorOf, HasOpen, Arriving
<1> HIDE DEF f
<1>4. \A k \in 1 .. j - 1 : Closes(R, T, k, f)
  BY DEF Reaches, Reached, f
<1>5. \A k \in 1 .. (j + 1) - 1 : Closes(R, T, k, f)
  BY <1>1, <1>3, <1>4
<1> QED BY <1>1, <1>5 DEF Reaches, Reached, f

\* The row of the open window of a tier that is reached has all that came.
LEMMA ComesIn ==
  ASSUME NEW R, NEW T, NEW tm, NEW fg, NEW at, MayCome(R, T, tm, fg, at),
         NEW i \in 1 .. 3, Reaches(R, T, tm, at, i)
  PROVE  LET S == After(R, T, tm, at)
         IN  /\ HasOpen(S, i) /\ S[i].cursor \in Stored(S, i) /\ Open(S, i) = Row(S, i, S[i].cursor)
             /\ Arriving(R, T, tm, at, i).agg.ids \subseteq Open(S, i).agg.ids
  BY RowsAfter

\* No window is newer than the samples that came to it, or that wait to, by more than the skew.
LEMMA NeverFarAheadAfter ==
  ASSUME NEW R, NEW T, NEW tm, NEW fg, NEW at, MayCome(R, T, tm, fg, at)
  PROVE  NeverFarAhead(After(R, T, tm, at), Append(tm, at))
<1> DEFINE S == After(R, T, tm, at)
           tn == Append(tm, at)
           C(i) == Arriving(R, T, tm, at, i)
           To(i) == Reaches(R, T, tm, at, i)
<1>1. /\ T \in [1 .. 3 -> Shapes] /\ RingTypes(R, T) /\ CursorsPoint(R) /\ NeverFarAhead(R, tm)
      /\ tm \in Seq(Nat) /\ at \in Nat
  BY DEF MayCome, RingInv
<1>2. RingTypes(S, T) /\ CursorsPoint(S) /\ LastIsIn(S, Len(tm) + 1)
  BY AfterIsTyped
<1>3. \A i \in 1 .. 3 : HasOpen(R, i) => R[i].cursor \in Stored(R, i) /\ Open(R, i) = Row(R, i, R[i].cursor)
  BY <1>1, Typed
<1>4. \A i \in 1 .. 3 : HasOpen(S, i) => S[i].cursor \in Stored(S, i) /\ Open(S, i) = Row(S, i, S[i].cursor)
  BY <1>1, <1>2, Typed
<1>5. /\ \A x \in 1 .. Len(tm) + 1 : tn[x] \in Nat
      /\ Skew \in Nat
  BY <1>1, Appended, TimesAreNaturals
<1>6. ASSUME NEW j \in 1 .. 3, NEW s \in Stored(S, j)
      PROVE  \/ s \in Stored(R, j) /\ Row(S, j, s).bucket = Row(R, j, s).bucket
             \/ To(j) /\ s = S[j].cursor /\ Row(S, j, s).bucket = C(j).bucket
  BY LastAfter, RowsAfter
<1>7. ASSUME NEW j \in 1 .. 3, NEW s \in Stored(S, j), NEW id \in Row(S, j, s).agg.ids
      PROVE  Row(S, j, s).bucket <= tn[id] + Skew
  <2>1. CASE s \in Stored(R, j) /\ id \in Row(R, j, s).agg.ids /\ Row(S, j, s).bucket = Row(R, j, s).bucket
    BY <1>1, <2>1, TimesAfter DEF NeverFarAhead
  <2>2. CASE To(j) /\ id \in C(j).agg.ids
    <3>1. C(j).bucket <= tn[id] + Skew
      BY <2>2, Arrivals
    <3>2. s \in Stored(R, j) => Row(R, j, s).bucket <= tn[id] + Skew
      BY <2>2, Arrivals
    <3> QED BY <1>6, <3>1, <3>2
  <2> QED BY <2>1, <2>2, SamplesAfter
<1>8. ASSUME NEW j \in 1 .. 3, NEW s \in Stored(S, j), NEW i \in 1 .. 3, i < j, HasOpen(S, i),
             NEW id \in Open(S, i).agg.ids
      PROVE  Row(S, j, s).bucket <= tn[id] + Skew
  <2>1. \/ HasOpen(R, i) /\ id \in Open(R, i).agg.ids
        \/ To(i) /\ id \in C(i).agg.ids
    <3>1. CASE ~To(i)
      <4>1. S[i] = R[i]
        BY <3>1, RowsAfter
      <4> QED BY <1>8, <4>1 DEF HasOpen, Open
    <3>2. CASE To(i)
      BY <1>8, <3>2, RowsAfter
    <3> QED BY <3>1, <3>2
  <2>2. CASE s \in Stored(R, j) /\ Row(S, j, s).bucket = Row(R, j, s).bucket
    <3>1. CASE HasOpen(R, i) /\ id \in Open(R, i).agg.ids
      <4>1. Row(R, j, s).bucket <= tm[id] + Skew
        BY <1>1, <1>8, <2>2, <3>1 DEF NeverFarAhead
      <4>2. tn[id] = tm[id]
        BY <1>3, <3>1, TimesAfter
      <4> QED BY <2>2, <4>1, <4>2
    <3>2. CASE To(i) /\ id \in C(i).agg.ids
      BY <1>8, <2>2, <3>2, Arrivals
    <3> QED BY <2>1, <3>1, <3>2
  <2>3. CASE To(j) /\ Row(S, j, s).bucket = C(j).bucket
    <3>1. To(i) /\ Open(S, i) = C(i)
      BY <1>8, <2>3, FinerClosed
    <3> DEFINE h == j - 1
    <3>2. /\ h \in 1 .. 3 /\ i <= h /\ R[h].cursor \in Stored(R, h) /\ C(j).bucket <= Row(R, h, R[h].cursor).bucket
          /\ C(j).bucket \in Nat /\ Row(R, h, R[h].cursor).bucket \in Nat
      <4>1. j # 1 /\ i <= h
        BY <1>8
      <4> QED BY <2>3, <4>1, FromFiner
    <3>3. Row(R, h, R[h].cursor).bucket <= tn[id] + Skew
      <4>1. id \in C(i).agg.ids
        BY <1>8, <3>1
      <4> HIDE DEF h
      <4>2. \A q \in Stored(R, h) : \A x \in Arriving(R, T, tm, at, i).agg.ids :
              Row(R, h, q).bucket <= Append(tm, at)[x] + Skew
        BY <3>1, <3>2, Arrivals
      <4> QED BY <3>2, <4>1, <4>2
    <3>4. id \in 1 .. Len(tm) + 1
      BY <1>2, <1>4, <1>8 DEF LastIsIn
    <3>5. tn[id] \in Nat
      BY <1>5, <3>4
    <3> HIDE DEF h, S, tn, C
    <3> QED BY <1>5, <2>3, <3>2, <3>3, <3>5
  <2> QED BY <1>6, <2>2, <2>3
<1> QED BY <1>7, <1>8 DEF NeverFarAhead

LEMMA SpanIsNat ==
  ASSUME NEW tier \in Shapes
  PROVE  Span(tier) \in Nat
<1>1. tier.step \in Nat /\ tier.slots \in Nat
  BY DEF Shapes
<1>2. \A a, b \in Nat : a * b \in Nat
  OBVIOUS
<1> QED BY <1>1, <1>2 DEF Span

\* A sample not in a tier waits in a finer one, or the ring has come round to its slot.
LEMMA KeptAfter ==
  ASSUME NEW R, NEW T, NEW tm, NEW fg, NEW at, MayCome(R, T, tm, fg, at)
  PROVE  Kept(After(R, T, tm, at), T, Append(tm, at), fg)
<1> DEFINE S == After(R, T, tm, at)
           tn == Append(tm, at)
           n == Len(tm)
           C(i) == Arriving(R, T, tm, at, i)
           To(i) == Reaches(R, T, tm, at, i)
           Held(p, id) == \/ \E s \in Stored(S, p) : id \in Row(S, p, s).agg.ids
                          \/ \E j \in 1 .. 3 : j < p /\ HasOpen(S, j) /\ id \in Open(S, j).agg.ids
                          \/ RingPassed(S, T, p, tn[id])
<1>1. /\ T \in [1 .. 3 -> Shapes] /\ RingTypes(R, T) /\ CursorsPoint(R) /\ RowsFit(R, T)
      /\ OpenIsNewest(R) /\ Kept(R, T, tm, fg) /\ NeverEarly(R, T, tm, fg)
      /\ tm \in Seq(Nat) /\ at \in Nat
  BY DEF MayCome, RingInv
<1>2. RingTypes(S, T) /\ CursorsPoint(S)
  BY AfterIsTyped
<1>3. /\ DOMAIN tm = 1 .. n /\ DOMAIN tn = 1 .. n + 1 /\ n \in Nat
      /\ \A x \in 1 .. n : tn[x] = tm[x] /\ tm[x] \in Nat
  BY <1>1, Appended
<1>4. \A i \in 1 .. 3 : HasOpen(R, i) => R[i].cursor \in Stored(R, i) /\ Open(R, i) = Row(R, i, R[i].cursor)
                                         /\ Open(R, i).bucket \in Nat
  BY <1>1, Typed DEF Rows
<1>5. ASSUME NEW p \in 1 .. 3, NEW i \in 1 .. 3, i <= p, To(i), NEW id \in C(i).agg.ids
      PROVE  Held(p, id)
  <2>1. /\ HasOpen(S, i) /\ S[i].cursor \in Stored(S, i) /\ Open(S, i) = Row(S, i, S[i].cursor)
        /\ id \in Open(S, i).agg.ids
    BY <1>5, ComesIn
  <2>2. i = p \/ i < p
    BY <1>5
  <2> QED BY <2>1, <2>2
<1>6. ASSUME NEW p \in 1 .. 3 PROVE Held(p, n + 1)
  <2>1. To(1) /\ C(1).agg.ids = {n + 1}
    <3>1. To(1)
      BY DEF Reaches, Reached
    <3>2. C(1) = First(T, tm, at)
      BY DEF Arriving, Incoming
    <3>3. First(T, tm, at).agg = [ids |-> {n + 1}, last |-> n + 1]
      BY <1>1, FirstRow
    <3> QED BY <3>1, <3>2, <3>3
  <2> QED BY <1>5, <2>1
<1>7. ASSUME NEW p \in 1 .. 3, NEW id \in 1 .. n, id \notin fg, NEW s \in Stored(R, p),
             id \in Row(R, p, s).agg.ids
      PROVE  Held(p, id)
  <2>1. CASE ~To(p)
    <3>1. S[p] = R[p]
      BY <2>1, RowsAfter
    <3> QED BY <1>7, <3>1 DEF Stored, Row
  <2>2. CASE To(p) /\ s # S[p].cursor
    BY <1>7, <2>2, RowsAfter
  <2>3. CASE To(p) /\ s = S[p].cursor
    <3>1. /\ HasOpen(S, p) /\ s \in Stored(S, p) /\ Open(S, p) = Row(S, p, s)
      BY <2>3, RowsAfter
    <3>2. CASE HasOpen(R, p) /\ s = R[p].cursor /\ Row(S, p, s).agg.ids = Open(R, p).agg.ids \cup C(p).agg.ids
      BY <1>4, <1>7, <3>1, <3>2
    <3>3. CASE /\ Row(S, p, s) = C(p) /\ s = SlotFor(C(p).bucket, T[p])
               /\ HasOpen(R, p) => Open(R, p).bucket < C(p).bucket
      <4> DEFINE b == Row(R, p, s).bucket
                 d == C(p).bucket
      <4>1. b \in Nat /\ b % T[p].step = 0 /\ SlotFor(b, T[p]) = s /\ HasOpen(R, p)
        BY <1>1, Typed DEF Rows, RowsFit
      <4>2. d \in Nat /\ d % T[p].step = 0 /\ SlotFor(d, T[p]) = s
        BY <2>3, <3>3, Arrivals DEF Rows
      <4>3. b <= Open(R, p).bucket
        BY <1>1 DEF OpenIsNewest
      <4>4. b < d
        BY <1>4, <3>3, <4>1, <4>2, <4>3
      <4>5. b + Span(T[p]) <= d
        <5>1. T[p] \in Shapes
          BY <1>1
        <5> HIDE DEF b, d
        <5> QED BY <4>1, <4>2, <4>4, <5>1, RingApart
      <4>6. WindowOf(T, tm[id], p) <= b
        BY <1>1, <1>7 DEF NeverEarly
      <4>7. WindowOf(T, tm[id], p) \in Nat /\ Span(T[p]) \in Nat
        BY <1>1, <1>3, <1>7, WindowsOfTime, SpanIsNat
      <4>8. WindowOf(T, tm[id], p) + Span(T[p]) <= d
        <5> HIDE DEF b, d
        <5> QED BY <4>1, <4>2, <4>5, <4>6, <4>7
      <4>9. tn[id] = tm[id] /\ Open(S, p).bucket = d
        BY <1>3, <1>7, <3>1, <3>3
      <4> QED BY <3>1, <4>8, <4>9 DEF RingPassed
    <3> QED BY <2>3, <3>2, <3>3, RowsAfter
  <2> QED BY <2>1, <2>2, <2>3
<1>8. ASSUME NEW p \in 1 .. 3, NEW id \in 1 .. n, NEW j \in 1 .. 3, j < p, HasOpen(R, j),
             id \in Open(R, j).agg.ids
      PROVE  Held(p, id)
  <2>1. CASE ~To(j)
    <3>1. S[j] = R[j]
      BY <2>1, RowsAfter
    <3> QED BY <1>8, <3>1 DEF HasOpen, Open
  <2>2. CASE To(j) /\ Open(R, j).bucket < C(j).bucket
    <3>1. j + 1 \in 1 .. 3 /\ To(j + 1) /\ j + 1 <= p /\ j + 1 # 1 /\ (j + 1) - 1 = j
      BY <1>8, <2>2, NextIsReached
    <3>2. C(j + 1).agg = Open(R, j).agg
      BY <3>1, FromFiner
    <3> HIDE DEF Held, C, To
    <3> QED BY <1>5, <1>8, <3>1, <3>2
  <2>3. CASE To(j) /\ ~(Open(R, j).bucket < C(j).bucket)
    <3>1. HasOpen(S, j) /\ id \in Open(S, j).agg.ids
      BY <1>8, <2>3, RowsAfter
    <3> QED BY <1>8, <3>1
  <2> QED BY <2>1, <2>2, <2>3
<1>9. ASSUME NEW p \in 1 .. 3, NEW id \in 1 .. n, RingPassed(R, T, p, tm[id])
      PROVE  Held(p, id)
  <2>1. HasOpen(R, p) /\ WindowOf(T, tm[id], p) + Span(T[p]) <= Open(R, p).bucket
    BY <1>9 DEF RingPassed
  <2>2. HasOpen(S, p) /\ Open(R, p).bucket <= Open(S, p).bucket
    BY <2>1, OpensGrow
  <2>3. /\ WindowOf(T, tm[id], p) \in Nat /\ Span(T[p]) \in Nat
        /\ Open(R, p).bucket \in Nat /\ Open(S, p).bucket \in Nat
    <3>1. WindowOf(T, tm[id], p) \in Nat /\ Span(T[p]) \in Nat
      BY <1>1, <1>3, WindowsOfTime, SpanIsNat
    <3>2. Open(S, p) \in Rows
      BY <1>1, <1>2, <2>2, Typed
    <3> QED BY <1>4, <2>1, <3>1, <3>2 DEF Rows
  <2>4. tn[id] = tm[id]
    BY <1>3
  <2>5. WindowOf(T, tm[id], p) + Span(T[p]) <= Open(S, p).bucket
    <3> HIDE DEF S
    <3> QED BY <2>1, <2>2, <2>3
  <2> QED BY <2>2, <2>4, <2>5 DEF RingPassed
<1>10. ASSUME NEW p \in 1 .. 3, NEW id \in 1 .. n, id \notin fg PROVE Held(p, id)
  <2>1. \/ \E s \in Stored(R, p) : id \in Row(R, p, s).agg.ids
        \/ \E j \in 1 .. 3 : j < p /\ HasOpen(R, j) /\ id \in Open(R, j).agg.ids
        \/ RingPassed(R, T, p, tm[id])
    BY <1>1, <1>3, <1>10 DEF Kept
  <2> HIDE DEF Held
  <2> QED BY <1>7, <1>8, <1>9, <1>10, <2>1
<1>11. \A id \in DOMAIN tn : id \in 1 .. n \/ id = n + 1
  BY <1>3
<1>12. \A p \in 1 .. 3 : \A id \in DOMAIN tn \ fg : Held(p, id)
  <2> HIDE DEF Held
  <2> QED BY <1>6, <1>10, <1>11
<1> QED BY <1>12 DEF Kept

\* A sample that is recorded keeps the whole invariant of the ring.
LEMMA RingInvAfter ==
  ASSUME NEW R, NEW T, NEW tm, NEW fg, NEW at, MayCome(R, T, tm, fg, at)
  PROVE  RingInv(After(R, T, tm, at), T, Append(tm, at), fg)
<1>1. Len(Append(tm, at)) = Len(tm) + 1
  BY Appended DEF MayCome
<1> QED BY <1>1, AfterIsTyped, OldestStayFirst, StillNeverEarly, LastStaysExact, LastStaysNew,
           NeverFarAheadAfter, KeptAfter DEF RingInv

-----------------------------------------------------------------------------
(* What a query has summed up, one tier after the other.                   *)

\* The rows a query has taken: those of the tier it picked that are inside the window, and
\* the open ones of the finer tiers before k.
Taken(R, p, k, cutoff, i, s) ==
  s \in Stored(R, i) /\ cutoff <= Row(R, i, s).bucket /\ (i = p \/ (i < k /\ s = R[i].cursor))

Sums(R, p, k, cutoff, acc) ==
  /\ acc.twice = {}
  /\ \A id \in acc.ids : \E i \in 1 .. 3 : \E s \in Stored(R, i) :
       Taken(R, p, k, cutoff, i, s) /\ id \in Row(R, i, s).agg.ids
  /\ \A i \in 1 .. 3 : \A s \in Stored(R, i) :
       Taken(R, p, k, cutoff, i, s) =>
         /\ Row(R, i, s).agg.ids \subseteq acc.ids
         /\ acc.lastAt # {} /\ \A a \in acc.lastAt : Row(R, i, s).bucket <= a
  /\ \A l \in acc.last : \E i \in 1 .. 3 : \E s \in Stored(R, i) :
       /\ Taken(R, p, k, cutoff, i, s)
       /\ Row(R, i, s).agg.last = l /\ acc.lastAt = {Row(R, i, s).bucket}
  /\ acc.lastAt # {} => \E i \in 1 .. 3 : \E s \in Stored(R, i) :
       Taken(R, p, k, cutoff, i, s) /\ acc.lastAt = {Row(R, i, s).bucket}

\* The first read of a query, of all the rows of the tier it picked (`query_rollup').
LEMMA SumOfTier ==
  ASSUME NEW T \in [1 .. 3 -> Shapes], NEW R, RingTypes(R, T), CursorsPoint(R), RowsFit(R, T),
         OpenIsNewest(R), OldestFirst(R),
         NEW p \in 1 .. 3, NEW cutoff \in Nat
  PROVE  Sums(R, p, 1, cutoff, SummedUp(RowsSince(R[p], cutoff)))
<1> DEFINE rows == RowsSince(R[p], cutoff)
           acc == SummedUp(rows)
           newest == {r \in rows : \A q \in rows : q.bucket <= r.bucket}
<1>1. \A s \in Stored(R, p) : Row(R, p, s) \in Rows /\ Row(R, p, s).bucket \in Nat
  BY Typed DEF Rows
<1>2. rows = {Row(R, p, s) : s \in {x \in Stored(R, p) : cutoff <= Row(R, p, x).bucket}}
  BY <1>1 DEF RowsSince, Stored, Row
<1>3. \A i \in 1 .. 3 : \A s \in Stored(R, i) :
         Taken(R, p, 1, cutoff, i, s) <=> i = p /\ cutoff <= Row(R, p, s).bucket
  BY DEF Taken
<1>4. /\ acc.ids = UNION {r.agg.ids : r \in rows}
      /\ acc.twice = {id \in UNION {r.agg.ids : r \in rows} :
                        \E r, q \in rows : r # q /\ id \in r.agg.ids \cap q.agg.ids}
      /\ acc.lastAt = {r.bucket : r \in newest} /\ acc.last = {r.agg.last : r \in newest}
  BY DEF SummedUp
<1> HIDE DEF rows, acc
<1>5. \A s, q \in Stored(R, p) : Row(R, p, s).bucket = Row(R, p, q).bucket => s = q
  BY DEF RowsFit
<1>6. ASSUME NEW s \in Stored(R, p), NEW q \in Stored(R, p), Row(R, p, s) # Row(R, p, q),
             NEW id \in Row(R, p, s).agg.ids, id \in Row(R, p, q).agg.ids
      PROVE  FALSE
  <2>1. Row(R, p, s).bucket < Row(R, p, q).bucket \/ Row(R, p, q).bucket < Row(R, p, s).bucket
    BY <1>1, <1>5, <1>6
  <2>2. id < id /\ id \in Nat
    BY <1>1, <1>6, <2>1 DEF OldestFirst, Rows
  <2> QED BY <2>2
<1>7. acc.twice = {}
  BY <1>2, <1>4, <1>6
<1>8. \A r \in rows : HasOpen(R, p) /\ Open(R, p) \in rows /\ r.bucket <= Open(R, p).bucket
  <2> TAKE r \in rows
  <2>1. PICK s \in Stored(R, p) : r = Row(R, p, s) /\ cutoff <= Row(R, p, s).bucket
    BY <1>2
  <2>2. HasOpen(R, p) /\ R[p].cursor \in Stored(R, p) /\ Open(R, p) = Row(R, p, R[p].cursor)
    BY Typed
  <2>3. r.bucket <= Open(R, p).bucket
    BY <2>1 DEF OpenIsNewest
  <2>4. cutoff <= Open(R, p).bucket
    BY <1>1, <2>1, <2>2, <2>3
  <2> QED BY <1>2, <2>2, <2>3, <2>4
<1>9. \A r \in rows : r.bucket \in Nat /\ Open(R, p).bucket \in Nat
  BY <1>1, <1>2, <1>8
<1>10. newest = {r \in rows : r.bucket = Open(R, p).bucket}
  BY <1>8, <1>9
<1>11. rows # {} => acc.lastAt = {Open(R, p).bucket}
  <2>1. SUFFICES ASSUME rows # {} PROVE acc.lastAt = {Open(R, p).bucket}
    OBVIOUS
  <2>2. Open(R, p) \in rows
    BY <1>8, <2>1
  <2> HIDE DEF newest
  <2> QED BY <1>4, <1>10, <2>2
<1>12. rows = {} => acc.lastAt = {}
  BY <1>4
<1>13. ASSUME NEW r \in rows
       PROVE \E s \in Stored(R, p) : r = Row(R, p, s) /\ Taken(R, p, 1, cutoff, p, s)
  BY <1>2, <1>3
<1>14. ASSUME NEW id \in acc.ids
       PROVE \E i \in 1 .. 3 : \E s \in Stored(R, i) :
               Taken(R, p, 1, cutoff, i, s) /\ id \in Row(R, i, s).agg.ids
  BY <1>4, <1>13
<1>15. ASSUME NEW i \in 1 .. 3, NEW s \in Stored(R, i), Taken(R, p, 1, cutoff, i, s)
       PROVE  /\ Row(R, i, s).agg.ids \subseteq acc.ids
              /\ acc.lastAt # {} /\ \A a \in acc.lastAt : Row(R, i, s).bucket <= a
  <2>1. i = p /\ Row(R, p, s) \in rows
    BY <1>2, <1>3, <1>15
  <2> HIDE DEF newest
  <2> QED BY <1>4, <1>8, <1>11, <2>1
<1>16. ASSUME NEW l \in acc.last
       PROVE  \E i \in 1 .. 3 : \E s \in Stored(R, i) :
                /\ Taken(R, p, 1, cutoff, i, s)
                /\ Row(R, i, s).agg.last = l /\ acc.lastAt = {Row(R, i, s).bucket}
  <2>1. PICK r \in newest : l = r.agg.last
    BY <1>4
  <2>2. r \in rows /\ r.bucket = Open(R, p).bucket
    BY <1>10
  <2>3. PICK s \in Stored(R, p) : r = Row(R, p, s) /\ Taken(R, p, 1, cutoff, p, s)
    BY <1>13, <2>2
  <2> QED BY <1>11, <2>1, <2>2, <2>3
<1>17. ASSUME acc.lastAt # {}
       PROVE  \E i \in 1 .. 3 : \E s \in Stored(R, i) :
                Taken(R, p, 1, cutoff, i, s) /\ acc.lastAt = {Row(R, i, s).bucket}
  <2>1. rows # {} /\ Open(R, p) \in rows
    BY <1>8, <1>12, <1>17
  <2> QED BY <1>11, <1>13, <2>1
<1> QED BY <1>7, <1>14, <1>15, <1>16, <1>17 DEF Sums, acc, rows

\* A finer tier that has no open window inside the query's.
LEMMA NothingToTake ==
  ASSUME NEW R, NEW p \in 1 .. 3, NEW k \in 1 .. 3, k < p, NEW cutoff, NEW acc,
         Sums(R, p, k, cutoff, acc), ~Taken(R, p, k + 1, cutoff, k, R[k].cursor)
  PROVE  Sums(R, p, k + 1, cutoff, acc)
<1>1. \A i \in 1 .. 3 : \A s \in Stored(R, i) :
        Taken(R, p, k + 1, cutoff, i, s) <=> Taken(R, p, k, cutoff, i, s)
  <2> TAKE i \in 1 .. 3
  <2> TAKE s \in Stored(R, i)
  <2>1. i < k + 1 <=> i < k \/ i = k
    OBVIOUS
  <2> QED BY <2>1 DEF Taken
<1> QED BY <1>1 DEF Sums

\* Or one that has.
LEMMA OneMoreTaken ==
  ASSUME NEW T \in [1 .. 3 -> Shapes], NEW R, RingTypes(R, T), CursorsPoint(R), OldestFirst(R),
         NEW p \in 1 .. 3, NEW k \in 1 .. 3, k < p, NEW cutoff, NEW acc,
         Sums(R, p, k, cutoff, acc), HasOpen(R, k), cutoff <= Open(R, k).bucket
  PROVE  Sums(R, p, k + 1, cutoff, Absorb(acc, Open(R, k)))
<1> DEFINE o == Open(R, k)
           w == R[k].cursor
           new == Absorb(acc, o)
           newer == \A a \in acc.lastAt : o.bucket > a
<1>1. /\ w \in Stored(R, k) /\ o = Row(R, k, w)
      /\ \A i \in 1 .. 3 : \A s \in Stored(R, i) : Row(R, i, s) \in Rows /\ Row(R, i, s).bucket \in Nat
  BY Typed DEF Rows
<1>2. \A i \in 1 .. 3 : \A s \in Stored(R, i) :
        Taken(R, p, k + 1, cutoff, i, s) <=> Taken(R, p, k, cutoff, i, s) \/ (i = k /\ s = w)
  <2> TAKE i \in 1 .. 3
  <2> TAKE s \in Stored(R, i)
  <2>1. i < k + 1 <=> i < k \/ i = k
    OBVIOUS
  <2>2. cutoff <= Row(R, k, w).bucket
    BY <1>1
  <2> QED BY <1>1, <2>1, <2>2 DEF Taken
<1>3. /\ new.ids = acc.ids \cup o.agg.ids /\ new.twice = acc.twice \cup (acc.ids \cap o.agg.ids)
      /\ new.lastAt = (IF newer THEN {o.bucket} ELSE acc.lastAt)
      /\ new.last = (IF newer THEN {o.agg.last} ELSE acc.last)
  BY DEF Absorb
<1>4. Taken(R, p, k + 1, cutoff, k, w)
  BY <1>1, <1>2
<1>5. acc.ids \cap o.agg.ids = {}
  <2> SUFFICES ASSUME NEW id \in acc.ids, id \in o.agg.ids PROVE FALSE
    OBVIOUS
  <2>1. PICK i \in 1 .. 3 : \E s \in Stored(R, i) :
          Taken(R, p, k, cutoff, i, s) /\ id \in Row(R, i, s).agg.ids
    BY DEF Sums
  <2>2. PICK s \in Stored(R, i) : Taken(R, p, k, cutoff, i, s) /\ id \in Row(R, i, s).agg.ids
    BY <2>1
  <2>3. k < i \/ (i < k /\ s = R[i].cursor)
    BY <2>2 DEF Taken
  <2>4. id \in Nat
    BY <1>1, <2>2 DEF Rows
  <2>5. CASE k < i
    <3>1. id < id
      BY <1>1, <2>2, <2>5 DEF OldestFirst
    <3> QED BY <2>4, <3>1
  <2>6. CASE i < k /\ s = R[i].cursor
    <3>1. HasOpen(R, i) /\ Open(R, i) = Row(R, i, s)
      BY <2>6, Typed
    <3>2. id < id
      BY <1>1, <2>2, <2>6, <3>1 DEF OldestFirst
    <3> QED BY <2>4, <3>2
  <2> QED BY <2>3, <2>5, <2>6
<1>6. new.twice = {}
  BY <1>3, <1>5 DEF Sums
<1> HIDE DEF new, o, w
<1>7. ASSUME NEW id \in new.ids
      PROVE  \E i \in 1 .. 3 : \E s \in Stored(R, i) :
               Taken(R, p, k + 1, cutoff, i, s) /\ id \in Row(R, i, s).agg.ids
  <2>1. CASE id \in o.agg.ids
    BY <1>1, <1>4, <2>1
  <2>2. CASE id \in acc.ids
    BY <1>2, <2>2 DEF Sums
  <2> QED BY <1>3, <2>1, <2>2
<1>8. newer \/ (acc.lastAt # {} /\ o.bucket \in Nat
                 /\ \E i \in 1 .. 3 : \E s \in Stored(R, i) :
                      /\ Taken(R, p, k, cutoff, i, s) /\ acc.lastAt = {Row(R, i, s).bucket}
                      /\ o.bucket <= Row(R, i, s).bucket)
  <2>1. CASE newer
    BY <2>1
  <2>2. CASE ~newer
    <3>1. PICK a \in acc.lastAt : ~(o.bucket > a)
      BY <2>2
    <3>2. PICK i \in 1 .. 3 : \E s \in Stored(R, i) :
            Taken(R, p, k, cutoff, i, s) /\ acc.lastAt = {Row(R, i, s).bucket}
      BY <3>1 DEF Sums
    <3>3. PICK s \in Stored(R, i) : Taken(R, p, k, cutoff, i, s) /\ acc.lastAt = {Row(R, i, s).bucket}
      BY <3>2
    <3>4. a = Row(R, i, s).bucket /\ a \in Nat /\ o.bucket \in Nat
      BY <1>1, <3>1, <3>3
    <3> QED BY <3>1, <3>3, <3>4
  <2> QED BY <2>1, <2>2
<1>9. ASSUME NEW i \in 1 .. 3, NEW s \in Stored(R, i), Taken(R, p, k + 1, cutoff, i, s)
      PROVE  /\ Row(R, i, s).agg.ids \subseteq new.ids
             /\ new.lastAt # {} /\ \A a \in new.lastAt : Row(R, i, s).bucket <= a
  <2>1. CASE i = k /\ s = w
    <3>1. Row(R, i, s) = o /\ o.bucket \in Nat
      BY <1>1, <2>1
    <3>2. CASE newer
      BY <1>3, <3>1, <3>2
    <3>3. CASE ~newer
      BY <1>3, <1>8, <3>1, <3>3
    <3> QED BY <3>2, <3>3
  <2>2. CASE Taken(R, p, k, cutoff, i, s)
    <3>1. /\ Row(R, i, s).agg.ids \subseteq acc.ids
          /\ acc.lastAt # {} /\ \A a \in acc.lastAt : Row(R, i, s).bucket <= a
      BY <2>2 DEF Sums
    <3>2. CASE newer
      <4>1. PICK a \in acc.lastAt : Row(R, i, s).bucket <= a /\ o.bucket > a
        BY <3>1, <3>2
      <4>2. \E j \in 1 .. 3 : \E q \in Stored(R, j) : acc.lastAt = {Row(R, j, q).bucket}
        BY <3>1 DEF Sums
      <4>3. a \in Nat /\ o.bucket \in Nat /\ Row(R, i, s).bucket \in Nat
        BY <1>1, <4>1, <4>2
      <4> HIDE DEF newer
      <4> QED BY <1>3, <3>1, <3>2, <4>1, <4>3
    <3>3. CASE ~newer
      BY <1>3, <3>1, <3>3
    <3> QED BY <3>2, <3>3
  <2> QED BY <1>2, <1>9, <2>1, <2>2
<1>10. ASSUME NEW l \in new.last
       PROVE  \E i \in 1 .. 3 : \E s \in Stored(R, i) :
                /\ Taken(R, p, k + 1, cutoff, i, s)
                /\ Row(R, i, s).agg.last = l /\ new.lastAt = {Row(R, i, s).bucket}
  <2>1. CASE newer
    BY <1>1, <1>3, <1>4, <2>1
  <2>2. CASE ~newer
    BY <1>2, <1>3, <2>2 DEF Sums
  <2> QED BY <2>1, <2>2
<1>11. ASSUME new.lastAt # {}
       PROVE  \E i \in 1 .. 3 : \E s \in Stored(R, i) :
                Taken(R, p, k + 1, cutoff, i, s) /\ new.lastAt = {Row(R, i, s).bucket}
  <2>1. CASE newer
    BY <1>1, <1>3, <1>4, <2>1
  <2>2. CASE ~newer
    BY <1>2, <1>3, <1>11, <2>2 DEF Sums
  <2> QED BY <2>1, <2>2
<1> HIDE DEF newer
<1> QED BY <1>6, <1>7, <1>9, <1>10, <1>11 DEF Sums, new, o

-----------------------------------------------------------------------------
(* The system: the locks, the operator's changes and the query.            *)

\* No window is newer than the clock.
LEMMA NoneAfterNow ==
  ASSUME NEW R, NEW T, NEW tm, NEW fg, NEW at, MayCome(R, T, tm, fg, at),
         NEW t \in Nat, at <= t, NoneAfter(R, t)
  PROVE  NoneAfter(After(R, T, tm, at), t)
<1> DEFINE S == After(R, T, tm, at)
<1>1. SUFFICES ASSUME NEW i \in 1 .. 3, NEW s \in Stored(S, i) PROVE Row(S, i, s).bucket <= t
  BY DEF NoneAfter
<1>2. /\ T \in [1 .. 3 -> Shapes] /\ tm \in Seq(Nat) /\ at \in Nat
      /\ RingTypes(R, T) /\ CursorsPoint(R)
  BY DEF MayCome, RingInv
<1>3. \A j \in 1 .. 3 : HasOpen(R, j) => Open(R, j).bucket <= t
  BY <1>2, Typed DEF NoneAfter
<1>4. Reaches(R, T, tm, at, i) => Arriving(R, T, tm, at, i).bucket <= t
  <2>1. CASE i = 1
    <3>1. Arriving(R, T, tm, at, i) = First(T, tm, at)
      BY <2>1 DEF Arriving, Incoming
    <3>2. First(T, tm, at).bucket <= at /\ First(T, tm, at).bucket \in Nat
      BY <1>2, FirstRow DEF Rows
    <3> QED BY <1>2, <3>1, <3>2
  <2>2. CASE i # 1
    <3>1. Reaches(R, T, tm, at, i) =>
            LET c == Arriving(R, T, tm, at, i)
            IN /\ i - 1 \in 1 .. 3 /\ HasOpen(R, i - 1) /\ c.bucket <= Open(R, i - 1).bucket
               /\ c.bucket \in Nat /\ Open(R, i - 1).bucket \in Nat
      BY <2>2, FromFiner
    <3> QED BY <1>3, <3>1
  <2> QED BY <2>1, <2>2
<1> HIDE DEF S
<1>5. CASE ~Reaches(R, T, tm, at, i)
  <2>1. S[i] = R[i]
    BY <1>5, RowsAfter DEF S
  <2> QED BY <1>1, <2>1 DEF NoneAfter, Stored, Row
<1>6. CASE Reaches(R, T, tm, at, i)
  <2>1. CASE s # S[i].cursor
    <3>1. s \in Stored(R, i) /\ Row(S, i, s) = Row(R, i, s)
      BY <1>1, <1>6, <2>1, RowsAfter DEF S
    <3> QED BY <3>1 DEF NoneAfter
  <2>2. CASE s = S[i].cursor
    <3>1. \/ Row(S, i, s) = Arriving(R, T, tm, at, i)
          \/ HasOpen(R, i) /\ Row(S, i, s).bucket = Open(R, i).bucket
      BY <1>6, <2>2, RowsAfter DEF S
    <3> QED BY <1>3, <1>4, <1>6, <3>1
  <2> QED BY <2>1, <2>2
<1> QED BY <1>5, <1>6

\* A change of the geometry empties one tier.
LEMMA EmptiedTier ==
  ASSUME NEW T \in [1 .. 3 -> Shapes], NEW R, NEW tm \in Seq(Nat), NEW fg, RingInv(R, T, tm, fg),
         NEW g \in 1 .. 3, NEW shape \in Shapes
  PROVE  LET U == [T EXCEPT ![g] = shape]
             S == [R EXCEPT ![g] = EmptyTier(shape)]
         IN  /\ U \in [1 .. 3 -> Shapes] /\ RingInv(S, U, tm, DOMAIN tm)
             /\ \A t : NoneAfter(R, t) => NoneAfter(S, t)
<1> DEFINE U == [T EXCEPT ![g] = shape]
           S == [R EXCEPT ![g] = EmptyTier(shape)]
<1>1. /\ RingTypes(R, T) /\ CursorsPoint(R) /\ RowsFit(R, T) /\ OpenIsNewest(R)
      /\ LastIsIn(R, Len(tm)) /\ OldestFirst(R) /\ NeverFarAhead(R, tm)
  BY DEF RingInv
<1>2. /\ U \in [1 .. 3 -> Shapes] /\ DOMAIN S = 1 .. 3 /\ U[g] = shape /\ S[g] = EmptyTier(shape)
      /\ \A i \in 1 .. 3 : i # g => U[i] = T[i] /\ S[i] = R[i]
  BY <1>1 DEF RingTypes
<1> HIDE DEF U, S
<1>3. /\ EmptyTier(shape).row = [s \in Slots(shape) |-> NoRow] /\ EmptyTier(shape).cursor = NoRow
      /\ EmptyTier(shape) \in TierRings(shape)
  BY DEF EmptyTier, TierRings
<1>4. ~HasOpen(S, g) /\ Stored(S, g) = {} /\ S[g] \in TierRings(U[g])
  BY <1>2, <1>3 DEF HasOpen, Stored
<1>5. \A i \in 1 .. 3 : i # g =>
        /\ HasOpen(S, i) = HasOpen(R, i) /\ Stored(S, i) = Stored(R, i) /\ Open(S, i) = Open(R, i)
        /\ \A s \in Stored(R, i) : Row(S, i, s) = Row(R, i, s)
  BY <1>2 DEF HasOpen, Stored, Open, Row
<1>6. RingTypes(S, U)
  BY <1>1, <1>2, <1>4 DEF RingTypes
<1>7. CursorsPoint(S) /\ RowsFit(S, U) /\ OpenIsNewest(S)
  <2>1. CursorsPoint(S)
    BY <1>1, <1>2, <1>4, <1>5 DEF CursorsPoint
  <2>2. RowsFit(S, U)
    BY <1>1, <1>2, <1>4, <1>5 DEF RowsFit
  <2>3. OpenIsNewest(S)
    BY <1>1, <1>2, <1>4, <1>5 DEF OpenIsNewest
  <2> QED BY <2>1, <2>2, <2>3
<1>8. LastIsIn(S, Len(tm))
  BY <1>1, <1>4, <1>5 DEF LastIsIn
<1>9. OldestFirst(S)
  <2>1. SUFFICES ASSUME NEW j \in 1 .. 3, NEW s \in Stored(S, j), NEW x \in Row(S, j, s).agg.ids
                 PROVE  /\ \A q \in Stored(S, j) : Row(S, j, s).bucket < Row(S, j, q).bucket =>
                             \A y \in Row(S, j, q).agg.ids : x < y
                        /\ \A i \in 1 .. 3 : i < j /\ HasOpen(S, i) => \A y \in Open(S, i).agg.ids : x < y
    BY DEF OldestFirst
  <2>2. j # g /\ s \in Stored(R, j) /\ x \in Row(R, j, s).agg.ids
    BY <1>4, <1>5, <2>1
  <2> QED BY <1>1, <1>4, <1>5, <2>2 DEF OldestFirst
<1>10. NeverFarAhead(S, tm)
  <2>1. SUFFICES ASSUME NEW j \in 1 .. 3, NEW s \in Stored(S, j)
                 PROVE  /\ \A id \in Row(S, j, s).agg.ids : Row(S, j, s).bucket <= tm[id] + Skew
                        /\ \A i \in 1 .. 3 : i < j /\ HasOpen(S, i) =>
                             \A id \in Open(S, i).agg.ids : Row(S, j, s).bucket <= tm[id] + Skew
    BY DEF NeverFarAhead
  <2>2. j # g /\ s \in Stored(R, j)
    BY <1>4, <1>5, <2>1
  <2> QED BY <1>1, <1>4, <1>5, <2>2 DEF NeverFarAhead
<1>11. DOMAIN tm = 1 .. Len(tm)
  OBVIOUS
<1>12. NeverEarly(S, U, tm, DOMAIN tm)
  BY <1>8, <1>11 DEF NeverEarly, LastIsIn
<1>13. LastIsExact(S, U, tm, DOMAIN tm) /\ LastIsNew(S, tm, DOMAIN tm)
  BY <1>8, <1>11 DEF LastIsExact, LastIsNew, LastIsIn
<1>14. Kept(S, U, tm, DOMAIN tm)
  BY DEF Kept
<1>15. \A t : NoneAfter(R, t) => NoneAfter(S, t)
  BY <1>4, <1>5 DEF NoneAfter
<1>16. RingInv(S, U, tm, DOMAIN tm)
  BY <1>6, <1>7, <1>8, <1>9, <1>10, <1>12, <1>13, <1>14 DEF RingInv
<1> QED BY <1>2, <1>15, <1>16 DEF U, S

-----------------------------------------------------------------------------

UsageTypes ==
  tiers \in [1 .. 3 -> Shapes] /\ time \in Seq(Nat) /\ now \in Nat /\ DOMAIN tx = Recorders

TimesPass ==
  /\ InTime(time) /\ ForgottenFirst(time, forgotten)
  /\ NoneAfter(ring, now) /\ \A x \in DOMAIN time : time[x] <= now

\* The locks: one transaction at a time, in the geometry it read, and nothing comes before it.
OneRecorder ==
  \A r \in Recorders : tx[r].on =>
    /\ tx[r].tiers = tiers /\ tx[r].at \in Nat /\ tx[r].at <= now
    /\ NoneAfter(ring, tx[r].at + Skew) /\ \A x \in DOMAIN time : time[x] <= tx[r].at + Skew
    /\ \A q \in Recorders : tx[q].on => q = r

QueryFields == {"on", "window", "cutoff", "tier", "next", "cursor", "quiet", "acc"}

\* How far a query that nothing crossed has come.
QueryIsSound ==
  query.on =>
    /\ QueryFields \subseteq DOMAIN query
    /\ query.quiet =>
         /\ query.tier \in 1 .. 3 /\ query.next \in 1 .. query.tier
         /\ query.cutoff \in Nat /\ query.window \in Nat
         /\ NoneAfter(ring, query.cutoff + query.window)
         /\ Sums(ring, query.tier, query.next, query.cutoff, query.acc)
         /\ \/ query.cursor = NoRow
            \/ /\ query.next < query.tier /\ HasOpen(ring, query.next)
               /\ query.cursor = [slot |-> ring[query.next].cursor, bucket |-> Open(ring, query.next).bucket]
               /\ query.cutoff <= Open(ring, query.next).bucket

UsageInv ==
  /\ UsageTypes /\ RingInv(ring, tiers, time, forgotten) /\ TimesPass
  /\ OneRecorder /\ QueryIsSound

LEMMA ThreeTiersLong ==
  ASSUME NEW T \in [1 .. 3 -> Shapes]
  PROVE  DOMAIN T = 1 .. 3 /\ Len(T) = 3
  OBVIOUS

LEMMA UsageStarts == UsageInit => UsageInv
<1> SUFFICES ASSUME UsageInit PROVE UsageInv
  OBVIOUS
<1>1. /\ tiers = Tiers /\ ring = [i \in DOMAIN Tiers |-> EmptyTier(Tiers[i])] /\ time = <<>>
      /\ now = 0 /\ tx = [r \in Recorders |-> NoTx] /\ query = NoQuery /\ forgotten = {}
  BY DEF UsageInit
<1>2. Tiers \in [1 .. 3 -> Shapes] /\ DOMAIN ring = 1 .. 3 /\ \A i \in 1 .. 3 : ring[i] = EmptyTier(Tiers[i])
  BY <1>1, ThreeTiers
<1>3. \A i \in 1 .. 3 : ring[i] \in TierRings(Tiers[i]) /\ ~HasOpen(ring, i) /\ Stored(ring, i) = {}
  BY <1>2 DEF EmptyTier, TierRings, HasOpen, Stored
<1>4. UsageTypes
  BY <1>1, <1>2 DEF UsageTypes
<1>5. DOMAIN time = {} /\ Len(time) = 0
  BY <1>1
<1>6. RingTypes(ring, tiers)
  BY <1>1, <1>2, <1>3 DEF RingTypes
<1>7. /\ CursorsPoint(ring) /\ RowsFit(ring, tiers) /\ OpenIsNewest(ring) /\ LastIsIn(ring, Len(time))
      /\ OldestFirst(ring) /\ NeverEarly(ring, tiers, time, forgotten)
      /\ LastIsExact(ring, tiers, time, forgotten) /\ LastIsNew(ring, time, forgotten)
      /\ NeverFarAhead(ring, time) /\ NoneAfter(ring, now)
  BY <1>3 DEF CursorsPoint, RowsFit, OpenIsNewest, LastIsIn, OldestFirst, NeverEarly, LastIsExact,
              LastIsNew, NeverFarAhead, NoneAfter
<1>8. Kept(ring, tiers, time, forgotten)
  BY <1>5 DEF Kept
<1>9. TimesPass
  BY <1>1, <1>5, <1>7 DEF TimesPass, InTime, ForgottenFirst
<1>10. OneRecorder /\ QueryIsSound
  BY <1>1 DEF OneRecorder, QueryIsSound, NoTx, NoQuery
<1> QED BY <1>4, <1>6, <1>7, <1>8, <1>9, <1>10 DEF UsageInv, RingInv

\* `record' takes the locks and reads the geometry.
LEMMA RecordStarts ==
  ASSUME UsageInv, NEW r \in Recorders, NEW at \in {t \in 0 .. now : t + Skew >= now}, NEW k,
         BeginRecord(r, at, k)
  PROVE  UsageInv'
<1>1. /\ UNCHANGED <<tiers, ring, kind, time, now, query, resets, forgotten>>
      /\ tx' = [tx EXCEPT ![r] = [on |-> TRUE, at |-> at, kind |-> k, tiers |-> tiers]]
      /\ \A q \in Recorders : ~tx[q].on
  BY DEF BeginRecord, Locked
<1>2. UsageTypes /\ TimesPass /\ now \in Nat /\ DOMAIN tx = Recorders /\ time \in Seq(Nat)
  BY DEF UsageInv, UsageTypes
<1>3. at \in Nat /\ at <= now /\ now <= at + Skew /\ Skew \in Nat
  BY <1>2, TimesAreNaturals
<1>4. NoneAfter(ring, at + Skew)
  <2>1. \A i \in 1 .. 3 : \A s \in Stored(ring, i) : Row(ring, i, s).bucket <= now /\ Row(ring, i, s).bucket \in Nat
    BY <1>2, Typed DEF TimesPass, NoneAfter, UsageInv, RingInv, Rows, UsageTypes
  <2> QED BY <1>2, <1>3, <2>1 DEF NoneAfter
<1>5. \A x \in DOMAIN time : time[x] <= at + Skew
  <2>1. \A x \in DOMAIN time : time[x] \in Nat /\ time[x] <= now
    BY <1>2 DEF TimesPass
  <2> QED BY <1>2, <1>3, <2>1
<1>6. /\ DOMAIN tx' = Recorders
      /\ tx'[r].on /\ tx'[r].at = at /\ tx'[r].tiers = tiers
      /\ \A q \in Recorders : q # r => ~tx'[q].on
  BY <1>1, <1>2
<1>7. OneRecorder'
  BY <1>1, <1>3, <1>4, <1>5, <1>6 DEF OneRecorder
<1>8. UsageTypes' /\ TimesPass' /\ QueryIsSound' /\ RingInv(ring, tiers, time, forgotten)'
  BY <1>1, <1>2, <1>6 DEF UsageInv, UsageTypes, TimesPass, QueryIsSound
<1> QED BY <1>7, <1>8 DEF UsageInv

\* `record' commits.
LEMMA RecordCommits ==
  ASSUME UsageInv, NEW r \in Recorders, CommitRecord(r)
  PROVE  UsageInv'
<1> DEFINE at == tx[r].at
           S == After(ring, tiers, time, at)
<1>1. UsageTypes /\ RingInv(ring, tiers, time, forgotten) /\ TimesPass /\ OneRecorder /\ QueryIsSound
  BY DEF UsageInv
<1>2. /\ tx[r].on /\ tiers' = tiers /\ now' = now /\ forgotten' = forgotten
      /\ ring' = Applied(tx[r].tiers, tx[r].at, Single(Len(time) + 1))
      /\ time' = Append(time, tx[r].at) /\ tx' = [tx EXCEPT ![r] = NoTx]
      /\ query' = IF query.on THEN [query EXCEPT !.quiet = FALSE] ELSE query
  BY DEF CommitRecord
<1>3. /\ tx[r].tiers = tiers /\ at \in Nat /\ at <= now /\ NoneAfter(ring, at + Skew)
      /\ \A x \in DOMAIN time : time[x] <= at + Skew
      /\ \A q \in Recorders : tx[q].on => q = r
  BY <1>1, <1>2 DEF OneRecorder
<1>4. MayCome(ring, tiers, time, forgotten, at)
  BY <1>1, <1>3 DEF MayCome, UsageTypes, TimesPass
<1>5. ring' = S
  BY <1>2, <1>3 DEF After, Applied, First
<1>6. now \in Nat /\ time \in Seq(Nat) /\ DOMAIN tx = Recorders
  BY <1>1 DEF UsageTypes
<1> HIDE DEF S, at
<1>7. RingInv(ring, tiers, time, forgotten)'
  BY <1>2, <1>4, <1>5, RingInvAfter DEF S, at
<1>8. NoneAfter(ring', now)
  BY <1>1, <1>3, <1>4, <1>5, <1>6, NoneAfterNow DEF TimesPass, S
<1>9. InTime(time')
  BY <1>2, <1>4, InTimeAfter DEF at
<1>10. /\ time' \in Seq(Nat) /\ DOMAIN time = 1 .. Len(time) /\ DOMAIN time' = 1 .. Len(time) + 1
       /\ Len(time) \in Nat
       /\ \A x \in 1 .. Len(time) : time'[x] = time[x]
       /\ time'[Len(time) + 1] = at
  BY <1>2, <1>3, <1>6, Appended DEF at
<1>11. ForgottenFirst(time', forgotten)
  <2>1. forgotten \subseteq 1 .. Len(time) /\ \A x \in forgotten, y \in (1 .. Len(time)) \ forgotten : x < y
    BY <1>1, <1>10 DEF TimesPass, ForgottenFirst
  <2>2. \A x \in 1 .. Len(time) : x < Len(time) + 1
    BY <1>10
  <2>3. 1 .. Len(time) + 1 = (1 .. Len(time)) \cup {Len(time) + 1}
    BY <1>10
  <2> QED BY <1>10, <2>1, <2>2, <2>3 DEF ForgottenFirst
<1>12. \A x \in DOMAIN time' : time'[x] <= now
  <2>1. \A x \in 1 .. Len(time) : time[x] <= now
    BY <1>1, <1>10 DEF TimesPass
  <2>2. \A x \in 1 .. Len(time) + 1 : x \in 1 .. Len(time) \/ x = Len(time) + 1
    BY <1>10
  <2> QED BY <1>3, <1>10, <2>1, <2>2
<1>13. \A q \in Recorders : ~tx'[q].on
  <2>1. \A q \in Recorders : tx'[q] = IF q = r THEN NoTx ELSE tx[q]
    BY <1>2, <1>6
  <2> QED BY <1>3, <2>1 DEF NoTx
<1>14. OneRecorder'
  BY <1>13 DEF OneRecorder
<1>15. QueryIsSound'
  <2>1. CASE query.on
    <3>1. "quiet" \in DOMAIN query /\ QueryFields \subseteq DOMAIN query
      BY <1>1, <2>1 DEF QueryIsSound, QueryFields
    <3>2. query'.quiet = FALSE /\ DOMAIN query' = DOMAIN query
      BY <1>2, <2>1, <3>1
    <3> QED BY <3>1, <3>2 DEF QueryIsSound
  <2>2. CASE ~query.on
    BY <1>2, <2>2 DEF QueryIsSound
  <2> QED BY <2>1, <2>2
<1>16. UsageTypes'
  BY <1>1, <1>2, <1>6, <1>10 DEF UsageTypes
<1>17. TimesPass'
  BY <1>2, <1>8, <1>9, <1>11, <1>12 DEF TimesPass
<1> QED BY <1>7, <1>14, <1>15, <1>16, <1>17 DEF UsageInv

\* `set_tier_config' changes a tier and deletes its rows.
LEMMA GeometryChanges ==
  ASSUME UsageInv, NEW g \in Geometries, SetTierConfig(g)
  PROVE  UsageInv'
<1> DEFINE shape == [step |-> g.step, slots |-> g.slots]
<1>1. /\ UsageTypes /\ RingInv(ring, tiers, time, forgotten) /\ TimesPass /\ OneRecorder /\ QueryIsSound
      /\ tiers \in [1 .. 3 -> Shapes] /\ time \in Seq(Nat)
  BY DEF UsageInv, UsageTypes
<1>2. /\ tiers' = [tiers EXCEPT ![g.tier] = shape] /\ now' = now /\ time' = time /\ tx' = tx
      /\ ring' = [ring EXCEPT ![g.tier] = EmptyTier(tiers'[g.tier])]
      /\ forgotten' = DOMAIN time
      /\ query' = IF query.on THEN [query EXCEPT !.quiet = FALSE] ELSE query
      /\ \A q \in Recorders : ~tx[q].on
  BY DEF SetTierConfig, MayReset, Locked
<1>3. g.tier \in 1 .. 3 /\ shape \in Shapes
  BY GeometriesAreChecked DEF Shapes
<1> HIDE DEF shape
<1>4. tiers'[g.tier] = shape
  BY <1>1, <1>2, <1>3
<1>5. /\ tiers' \in [1 .. 3 -> Shapes] /\ RingInv(ring', tiers', time, forgotten')
      /\ NoneAfter(ring, now) => NoneAfter(ring', now)
  BY <1>1, <1>2, <1>3, <1>4, EmptiedTier
<1>6. UsageTypes' /\ OneRecorder'
  BY <1>1, <1>2, <1>5 DEF UsageTypes, OneRecorder
<1>7. TimesPass'
  BY <1>1, <1>2, <1>5 DEF TimesPass, ForgottenFirst
<1>8. QueryIsSound'
  <2>1. CASE query.on
    <3>1. "quiet" \in DOMAIN query /\ QueryFields \subseteq DOMAIN query
      BY <1>1, <2>1 DEF QueryIsSound, QueryFields
    <3>2. query'.quiet = FALSE /\ DOMAIN query' = DOMAIN query
      BY <1>2, <2>1, <3>1
    <3> QED BY <3>1, <3>2 DEF QueryIsSound
  <2>2. CASE ~query.on
    BY <1>2, <2>2 DEF QueryIsSound
  <2> QED BY <2>1, <2>2
<1> QED BY <1>2, <1>5, <1>6, <1>7, <1>8 DEF UsageInv

\* `pick_tier' picks one of the three.
LEMMA TierPicked ==
  ASSUME NEW T \in [1 .. 3 -> Shapes], NEW window \in Nat
  PROVE  PickTier(T, window) \in 1 .. 3
<1> DEFINE wide == {i \in DOMAIN T : Span(T[i]) >= window}
<1>1. DOMAIN T = 1 .. 3 /\ Len(T) = 3 /\ wide \subseteq 1 .. 3
  BY ThreeTiersLong
<1> HIDE DEF wide
<1>2. wide # {} => \E i \in wide : \A j \in wide : i <= j
  <2>1. SUFFICES ASSUME wide # {} PROVE \E i \in wide : \A j \in wide : i <= j
    OBVIOUS
  <2>2. \A j \in wide : j = 1 \/ j = 2 \/ j = 3
    BY <1>1
  <2>3. CASE 1 \in wide
    BY <2>2, <2>3
  <2>4. CASE 1 \notin wide /\ 2 \in wide
    BY <2>2, <2>4
  <2>5. CASE 1 \notin wide /\ 2 \notin wide
    BY <2>1, <2>2, <2>5
  <2> QED BY <2>3, <2>4, <2>5
<1>3. PickTier(T, window) = IF wide = {} THEN 3 ELSE CHOOSE i \in wide : \A j \in wide : i <= j
  BY <1>1 DEF PickTier, wide
<1>4. CASE wide = {}
  BY <1>3, <1>4
<1>5. CASE wide # {}
  <2>1. (CHOOSE i \in wide : \A j \in wide : i <= j) \in wide
    BY <1>2, <1>5, Zenon
  <2> QED BY <1>1, <1>3, <1>5, <2>1
<1> QED BY <1>4, <1>5

\* `query' picks its tier and reads all of that tier's rows.
LEMMA QueryStarts ==
  ASSUME UsageInv, NEW window \in Windows, StartQuery(window)
  PROVE  UsageInv'
<1> DEFINE cutoff == IF window > now THEN 0 ELSE now - window
           p == PickTier(tiers, window)
<1>1. /\ UsageTypes /\ RingInv(ring, tiers, time, forgotten) /\ TimesPass /\ OneRecorder
      /\ tiers \in [1 .. 3 -> Shapes] /\ now \in Nat /\ NoneAfter(ring, now)
  BY DEF UsageInv, UsageTypes, TimesPass
<1>2. /\ UNCHANGED <<tiers, ring, kind, time, now, tx, resets, forgotten>>
      /\ query' = [on |-> TRUE, window |-> window, cutoff |-> cutoff, tier |-> p,
                   next |-> 1, cursor |-> NoRow, quiet |-> TRUE,
                   acc |-> SummedUp(RowsSince(ring[p], cutoff))]
  BY DEF StartQuery
<1>3. window \in Nat
  BY TimesAreNaturals
<1>4. cutoff \in Nat /\ now <= cutoff + window
  BY <1>1, <1>3
<1>5. p \in 1 .. 3 /\ 1 \in 1 .. p
  <2>1. p \in 1 .. 3
    BY <1>1, <1>3, TierPicked
  <2> HIDE DEF p
  <2> QED BY <2>1
<1> HIDE DEF cutoff, p
<1>6. NoneAfter(ring, cutoff + window)
  <2>1. \A i \in 1 .. 3 : \A s \in Stored(ring, i) : Row(ring, i, s).bucket <= now /\ Row(ring, i, s).bucket \in Nat
    BY <1>1, Typed DEF NoneAfter, RingInv, Rows
  <2> QED BY <1>1, <1>3, <1>4, <2>1 DEF NoneAfter
<1>7. Sums(ring, p, 1, cutoff, SummedUp(RowsSince(ring[p], cutoff)))
  BY <1>1, <1>4, <1>5, SumOfTier DEF RingInv
<1>8. QueryIsSound'
  BY <1>2, <1>3, <1>4, <1>5, <1>6, <1>7 DEF QueryIsSound, QueryFields
<1>9. UsageTypes' /\ RingInv(ring, tiers, time, forgotten)' /\ TimesPass' /\ OneRecorder'
  BY <1>1, <1>2 DEF UsageTypes, TimesPass, OneRecorder
<1> QED BY <1>8, <1>9 DEF UsageInv

\* The cursor of a finer tier is read, and the bucket it points to.
LEMMA CursorIsRead ==
  ASSUME UsageInv, ReadCursor
  PROVE  UsageInv'
<1> DEFINE k == query.next
           p == query.tier
<1>1. /\ UsageTypes /\ RingInv(ring, tiers, time, forgotten) /\ TimesPass /\ OneRecorder /\ QueryIsSound
      /\ tiers \in [1 .. 3 -> Shapes]
  BY DEF UsageInv, UsageTypes
<1>2. /\ query.on /\ query.next \in 1 .. query.tier - 1 /\ query.cursor = NoRow
      /\ UNCHANGED <<tiers, ring, kind, time, now, tx, resets, forgotten>>
      /\ IF ring[k].cursor # NoRow /\ OpenAt(ring, k).bucket >= query.cutoff
         THEN query' = [query EXCEPT !.cursor = [slot |-> ring[k].cursor, bucket |-> OpenAt(ring, k).bucket]]
         ELSE query' = [query EXCEPT !.next = @ + 1]
  BY DEF ReadCursor, Finer, CursorOf
<1>3. QueryFields \subseteq DOMAIN query
  BY <1>1, <1>2 DEF QueryIsSound
<1>4. UsageTypes' /\ RingInv(ring, tiers, time, forgotten)' /\ TimesPass' /\ OneRecorder'
  BY <1>1, <1>2 DEF UsageTypes, TimesPass, OneRecorder
<1>5. DOMAIN query' = DOMAIN query /\ query'.on = query.on /\ query'.quiet = query.quiet
      /\ query'.tier = query.tier /\ query'.cutoff = query.cutoff /\ query'.window = query.window
      /\ query'.acc = query.acc
  BY <1>2, <1>3 DEF QueryFields
<1>6. ASSUME query.quiet
      PROVE  /\ p \in 1 .. 3 /\ k \in 1 .. 3 /\ k < p /\ k + 1 \in 1 .. p
             /\ query.cutoff \in Nat /\ query.window \in Nat
             /\ NoneAfter(ring, query.cutoff + query.window)
             /\ Sums(ring, p, k, query.cutoff, query.acc)
  <2>1. query.tier \in 1 .. 3 /\ query.next \in 1 .. query.tier - 1
    BY <1>1, <1>2, <1>6 DEF QueryIsSound
  <2>2. k \in 1 .. 3 /\ k < p /\ k + 1 \in 1 .. p
    BY <2>1
  <2> QED BY <1>1, <1>2, <1>6, <2>1, <2>2 DEF QueryIsSound
<1>7. ASSUME query.quiet, ring[k].cursor # NoRow, OpenAt(ring, k).bucket >= query.cutoff
      PROVE  QueryIsSound'
  <2>1. query'.next = k /\ query'.cursor = [slot |-> ring[k].cursor, bucket |-> OpenAt(ring, k).bucket]
    BY <1>2, <1>3, <1>7 DEF QueryFields
  <2>2. HasOpen(ring, k) /\ OpenAt(ring, k) = Open(ring, k) /\ Open(ring, k).bucket \in Nat
    BY <1>1, <1>6, <1>7, Typed DEF HasOpen, RingInv, Rows
  <2>3. query.cutoff <= Open(ring, k).bucket /\ k \in 1 .. p
    BY <1>6, <1>7, <2>2
  <2> HIDE DEF k, p
  <2> QED BY <1>2, <1>3, <1>5, <1>6, <1>7, <2>1, <2>2, <2>3 DEF QueryIsSound, p
<1>8. ASSUME query.quiet, ~(ring[k].cursor # NoRow /\ OpenAt(ring, k).bucket >= query.cutoff)
      PROVE  QueryIsSound'
  <2>1. query'.next = k + 1 /\ query'.cursor = NoRow
    BY <1>2, <1>3, <1>8 DEF QueryFields
  <2> HIDE DEF k, p
  <2>2. ~Taken(ring, p, k + 1, query.cutoff, k, ring[k].cursor)
    <3>1. CASE ring[k].cursor = NoRow
      <4>1. Stored(ring, k) = {}
        BY <1>1, <1>6, <1>8, <3>1, Typed DEF HasOpen, RingInv
      <4> QED BY <4>1 DEF Taken
    <3>2. CASE ring[k].cursor # NoRow
      <4>1. /\ OpenAt(ring, k) = Row(ring, k, ring[k].cursor)
            /\ OpenAt(ring, k).bucket \in Nat
        BY <1>1, <1>6, <1>8, <3>2, Typed DEF HasOpen, RingInv, Rows
      <4> QED BY <1>6, <1>8, <3>2, <4>1 DEF Taken
    <3> QED BY <3>1, <3>2
  <2>3. Sums(ring, p, k + 1, query.cutoff, query.acc)
    BY <1>6, <1>8, <2>2, NothingToTake
  <2> QED BY <1>2, <1>3, <1>5, <1>6, <1>8, <2>1, <2>3 DEF QueryIsSound, p
<1>9. ~query.quiet => QueryIsSound'
  BY <1>3, <1>5 DEF QueryIsSound
<1> QED BY <1>4, <1>7, <1>8, <1>9 DEF UsageInv

\* The row it pointed to is read; when nothing was recorded in between, it is still the open one.
LEMMA SlotIsRead ==
  ASSUME UsageInv, ReadSlot
  PROVE  UsageInv'
<1> DEFINE k == query.next
           p == query.tier
           row == RowAt(ring, k, query.cursor.slot)
<1>1. /\ UsageTypes /\ RingInv(ring, tiers, time, forgotten) /\ TimesPass /\ OneRecorder /\ QueryIsSound
      /\ tiers \in [1 .. 3 -> Shapes]
  BY DEF UsageInv, UsageTypes
<1>2. /\ query.on /\ query.cursor # NoRow
      /\ UNCHANGED <<tiers, ring, kind, time, now, tx, resets, forgotten>>
      /\ query' = [query EXCEPT
                     !.next = @ + 1, !.cursor = NoRow,
                     !.acc = IF row = NoRow THEN @
                             ELSE Absorb(@, [row EXCEPT !.bucket = query.cursor.bucket])]
  BY DEF ReadSlot
<1>3. QueryFields \subseteq DOMAIN query
  BY <1>1, <1>2 DEF QueryIsSound
<1>4. UsageTypes' /\ RingInv(ring, tiers, time, forgotten)' /\ TimesPass' /\ OneRecorder'
  BY <1>1, <1>2 DEF UsageTypes, TimesPass, OneRecorder
<1> HIDE DEF row
<1>5. /\ DOMAIN query' = DOMAIN query /\ query'.on = query.on /\ query'.quiet = query.quiet
      /\ query'.tier = query.tier /\ query'.cutoff = query.cutoff /\ query'.window = query.window
      /\ query'.next = query.next + 1 /\ query'.cursor = NoRow
      /\ query'.acc = IF row = NoRow THEN query.acc
                      ELSE Absorb(query.acc, [row EXCEPT !.bucket = query.cursor.bucket])
  BY <1>2, <1>3 DEF QueryFields
<1>6. ASSUME query.quiet
      PROVE  QueryIsSound'
  <2>1. /\ p \in 1 .. 3 /\ k \in 1 .. p /\ k < p
        /\ query.cutoff \in Nat /\ query.window \in Nat
        /\ NoneAfter(ring, query.cutoff + query.window)
        /\ Sums(ring, p, k, query.cutoff, query.acc)
        /\ HasOpen(ring, k) /\ query.cutoff <= Open(ring, k).bucket
        /\ query.cursor = [slot |-> ring[k].cursor, bucket |-> Open(ring, k).bucket]
    BY <1>1, <1>2, <1>6 DEF QueryIsSound
  <2>2. k \in 1 .. 3 /\ k + 1 \in 1 .. p
    BY <2>1
  <2>3. query.cursor.slot = ring[k].cursor /\ query.cursor.bucket = Open(ring, k).bucket
    BY <2>1
  <2> HIDE DEF k, p
  <2>4. row = Open(ring, k) /\ row \in Rows
    <3>1. OpenAt(ring, k) = Open(ring, k) /\ Open(ring, k) \in Rows
      BY <1>1, <2>1, <2>2, Typed DEF RingInv
    <3> QED BY <2>3, <3>1 DEF OpenAt, CursorOf, row
  <2>5. row # NoRow /\ [row EXCEPT !.bucket = query.cursor.bucket] = row
    <3>1. row # NoRow
      BY <2>4, NoRowIsNone DEF Rows
    <3>2. query.cursor.bucket = row.bucket
      BY <2>3, <2>4
    <3> QED BY <2>4, <3>1, <3>2 DEF Rows
  <2>6. Sums(ring, p, k + 1, query.cutoff, Absorb(query.acc, row))
    BY <1>1, <2>1, <2>2, <2>4, OneMoreTaken DEF RingInv
  <2> QED BY <1>2, <1>3, <1>5, <2>1, <2>2, <2>5, <2>6 DEF QueryIsSound, k, p
<1>7. ~query.quiet => QueryIsSound'
  BY <1>3, <1>5 DEF QueryIsSound
<1> QED BY <1>4, <1>6, <1>7 DEF UsageInv

LEMMA UsageSteps == UsageInv /\ [UsageNext]_usageVars => UsageInv'
<1> SUFFICES ASSUME UsageInv, [UsageNext]_usageVars PROVE UsageInv'
  OBVIOUS
<1>1. UsageTypes /\ RingInv(ring, tiers, time, forgotten) /\ TimesPass /\ OneRecorder /\ QueryIsSound
  BY DEF UsageInv
<1>2. ASSUME UNCHANGED <<tiers, ring, kind, time, now, tx, resets, forgotten>>,
             query' = query \/ query' = NoQuery
      PROVE  UsageInv'
  <2>1. UsageTypes' /\ RingInv(ring, tiers, time, forgotten)' /\ TimesPass' /\ OneRecorder'
    BY <1>1, <1>2 DEF UsageTypes, TimesPass, OneRecorder
  <2>2. QueryIsSound'
    BY <1>1, <1>2 DEF QueryIsSound, NoQuery
  <2> QED BY <2>1, <2>2 DEF UsageInv
<1>3. ASSUME Tick PROVE UsageInv'
  <2>1. /\ now' = now + 1 /\ now \in Nat
        /\ UNCHANGED <<tiers, ring, kind, time, tx, query, resets, forgotten>>
    BY <1>1, <1>3 DEF Tick, UsageTypes
  <2>2. \A i \in 1 .. 3 : \A s \in Stored(ring, i) : Row(ring, i, s).bucket <= now /\ Row(ring, i, s).bucket \in Nat
    BY <1>1, Typed DEF TimesPass, NoneAfter, RingInv, Rows, UsageTypes
  <2>3. NoneAfter(ring, now + 1)
    BY <2>1, <2>2 DEF NoneAfter
  <2>4. \A x \in DOMAIN time : time[x] <= now /\ time[x] \in Nat
    BY <1>1 DEF TimesPass, UsageTypes
  <2>5. \A x \in DOMAIN time : time[x] <= now + 1
    BY <2>1, <2>4
  <2>6. TimesPass'
    BY <1>1, <2>1, <2>3, <2>5 DEF TimesPass
  <2>7. OneRecorder'
    <3>1. \A r \in Recorders : tx[r].on => tx[r].at \in Nat /\ tx[r].at <= now
      BY <1>1 DEF OneRecorder
    <3>2. \A r \in Recorders : tx[r].on => tx[r].at <= now + 1
      BY <2>1, <3>1
    <3> QED BY <1>1, <2>1, <3>2 DEF OneRecorder
  <2>8. UsageTypes' /\ RingInv(ring, tiers, time, forgotten)' /\ QueryIsSound'
    BY <1>1, <2>1 DEF UsageTypes, QueryIsSound
  <2> QED BY <2>6, <2>7, <2>8 DEF UsageInv
<1>4. ASSUME NEW r \in Recorders, RollBack(r) PROVE UsageInv'
  <2>1. /\ tx' = [tx EXCEPT ![r] = NoTx] /\ DOMAIN tx = Recorders
        /\ UNCHANGED <<tiers, ring, kind, time, now, query, resets, forgotten>>
    BY <1>1, <1>4 DEF RollBack, UsageTypes
  <2>2. \A q \in Recorders : tx'[q].on => q # r /\ tx'[q] = tx[q]
    BY <2>1 DEF NoTx
  <2>3. OneRecorder'
    BY <1>1, <2>1, <2>2 DEF OneRecorder
  <2>4. UsageTypes' /\ RingInv(ring, tiers, time, forgotten)' /\ TimesPass' /\ QueryIsSound'
    BY <1>1, <2>1 DEF UsageTypes, TimesPass, QueryIsSound
  <2> QED BY <2>3, <2>4 DEF UsageInv
<1>5. ASSUME EndQuery PROVE UsageInv'
  BY <1>2, <1>5 DEF EndQuery
<1>6. ASSUME UNCHANGED usageVars PROVE UsageInv'
  BY <1>2, <1>6 DEF usageVars
<1> QED BY <1>3, <1>4, <1>5, <1>6, RecordStarts, RecordCommits, GeometryChanges, QueryStarts,
           CursorIsRead, SlotIsRead DEF UsageNext, Report

\* The invariant holds of every state of `record', `set_tier_config' and `query'.
THEOREM UsageIsSound == UsageSpec => []UsageInv
  BY UsageStarts, UsageSteps, PTL DEF UsageSpec

-----------------------------------------------------------------------------
(* The theorems.                                                           *)

(* usage.rs keeps every row in the slot `slot_for' gives its bucket in the     *)
(* geometry of now, also after `set_tier_config': the locks keep a transaction *)
(* from writing with the geometry of before.                                   *)
THEOREM UsageRowsFit == UsageSpec => []RowsFitTheGeometry
<1>1. UsageInv => RowsFitTheGeometry
  <2>1. SUFFICES ASSUME UsageInv, NEW i \in DOMAIN tiers
                 PROVE  /\ DOMAIN ring[i].row = Slots(tiers[i])
                        /\ \A s \in DOMAIN ring[i].row : ring[i].row[s] # NoRow =>
                             /\ ring[i].row[s].bucket % tiers[i].step = 0
                             /\ SlotFor(ring[i].row[s].bucket, tiers[i]) = s
    BY DEF RowsFitTheGeometry
  <2>2. i \in 1 .. 3 /\ ring[i] \in TierRings(tiers[i]) /\ RowsFit(ring, tiers)
    BY <2>1 DEF UsageInv, UsageTypes, RingInv, RingTypes
  <2> QED BY <2>2 DEF TierRings, RowsFit, Stored, Row
<1> QED BY <1>1, UsageIsSound, PTL

\* Two rows of a tier that have a sample in common are one.
LEMMA OneRow ==
  ASSUME NEW T \in [1 .. 3 -> Shapes], NEW R, NEW tm, NEW fg, RingInv(R, T, tm, fg),
         NEW i \in 1 .. 3, NEW s \in Stored(R, i), NEW q \in Stored(R, i), s # q,
         NEW x \in Row(R, i, s).agg.ids, NEW y \in Row(R, i, q).agg.ids
  PROVE  /\ Row(R, i, s).bucket < Row(R, i, q).bucket => x < y
         /\ Row(R, i, q).bucket < Row(R, i, s).bucket => y < x
         /\ Row(R, i, s).bucket < Row(R, i, q).bucket \/ Row(R, i, q).bucket < Row(R, i, s).bucket
         /\ x \in Nat /\ y \in Nat /\ x # y
<1>1. RingTypes(R, T) /\ CursorsPoint(R) /\ RowsFit(R, T) /\ OldestFirst(R)
  BY DEF RingInv
<1>2. Row(R, i, s) \in Rows /\ Row(R, i, q) \in Rows
  BY <1>1, Typed
<1>3. Row(R, i, s).bucket # Row(R, i, q).bucket
  BY <1>1 DEF RowsFit
<1>4. /\ Row(R, i, s).bucket < Row(R, i, q).bucket => x < y
      /\ Row(R, i, q).bucket < Row(R, i, s).bucket => y < x
  BY <1>1 DEF OldestFirst
<1>5. /\ Row(R, i, s).bucket \in Nat /\ Row(R, i, q).bucket \in Nat /\ x \in Nat /\ y \in Nat
  BY <1>2 DEF Rows
<1>6. Row(R, i, s).bucket < Row(R, i, q).bucket \/ Row(R, i, q).bucket < Row(R, i, s).bucket
  BY <1>3, <1>5
<1> QED BY <1>4, <1>5, <1>6

(* "never dropped, never double-counted": `record' folds a window into the     *)
(* next tier once, when it closes.  A sample is in one place; it is in none    *)
(* only after a reset, or when the coarsest ring has come round to its slot.   *)
THEOREM EachFoldedOnce == UsageSpec => []FoldedOnce
<1> DEFINE Is(p, i, s) == /\ p = <<i, s>> /\ i \in 1 .. 3 /\ s \in Stored(ring, i)
                          /\ i = 3 \/ (HasOpen(ring, i) /\ s = ring[i].cursor)
<1>1. UsageInv => FoldedOnce
  <2>1. SUFFICES ASSUME UsageInv, NEW id \in DOMAIN time
                 PROVE  /\ \A p, q \in Places : In(id, p) /\ In(id, q) => p = q
                        /\ \/ id \in forgotten \/ Overwritten(3, time[id])
                           \/ \E p \in Places : In(id, p)
    <3>1. UsageInv => Coarsest = 3
      BY ThreeTiersLong DEF UsageInv, UsageTypes, Coarsest
    <3> QED BY <2>1, <3>1 DEF FoldedOnce, Recorded
  <2>2. /\ RingInv(ring, tiers, time, forgotten) /\ tiers \in [1 .. 3 -> Shapes] /\ Coarsest = 3
        /\ RingTypes(ring, tiers) /\ CursorsPoint(ring) /\ OldestFirst(ring)
        /\ Kept(ring, tiers, time, forgotten)
    BY <2>1, ThreeTiersLong DEF UsageInv, UsageTypes, RingInv, Coarsest
  <2>3. Places = {<<i, ring[i].cursor>> : i \in {x \in 1 .. 2 : HasOpen(ring, x)}}
                   \cup {<<3, s>> : s \in Stored(ring, 3)}
    BY <2>2 DEF Places, HasOpen, Stored
  <2>4. \A i \in 1 .. 3 : HasOpen(ring, i) => /\ ring[i].cursor \in Stored(ring, i)
                                              /\ Open(ring, i) = Row(ring, i, ring[i].cursor)
                                              /\ OpenAt(ring, i) = Open(ring, i)
    BY <2>2, Typed
  <2>5. ASSUME NEW p \in Places, In(id, p)
        PROVE  \E i \in 1 .. 3 : \E s \in Stored(ring, i) :
                 Is(p, i, s) /\ id \in Row(ring, i, s).agg.ids
    <3>1. CASE \E i \in 1 .. 2 : HasOpen(ring, i) /\ p = <<i, ring[i].cursor>>
      <4>1. PICK i \in 1 .. 2 : HasOpen(ring, i) /\ p = <<i, ring[i].cursor>>
        BY <3>1
      <4>2. i \in 1 .. 3 /\ ring[i].cursor \in Stored(ring, i)
        BY <2>4, <4>1
      <4> QED BY <2>5, <4>1, <4>2 DEF In, Row
    <3>2. CASE \E s \in Stored(ring, 3) : p = <<3, s>>
      <4>1. PICK s \in Stored(ring, 3) : p = <<3, s>>
        BY <3>2
      <4> QED BY <2>5, <4>1 DEF In, Row
    <3> QED BY <2>3, <2>5, <3>1, <3>2
  <2>6. ASSUME NEW i \in 1 .. 3, NEW j \in 1 .. 3, i < j,
               NEW s \in Stored(ring, i), NEW q \in Stored(ring, j), HasOpen(ring, i), s = ring[i].cursor,
               id \in Row(ring, i, s).agg.ids, id \in Row(ring, j, q).agg.ids
        PROVE  FALSE
    <3>1. id \in Open(ring, i).agg.ids
      BY <2>4, <2>6
    <3>2. id < id
      BY <2>2, <2>6, <3>1 DEF OldestFirst
    <3>3. id \in Nat
      BY <2>1 DEF UsageInv, UsageTypes
    <3> QED BY <3>2, <3>3
  <2>7. ASSUME NEW p \in Places, NEW q \in Places, In(id, p), In(id, q)
        PROVE  p = q
    <3>1. PICK i \in 1 .. 3 : \E s \in Stored(ring, i) : Is(p, i, s) /\ id \in Row(ring, i, s).agg.ids
      BY <2>5, <2>7
    <3>2. PICK s \in Stored(ring, i) : Is(p, i, s) /\ id \in Row(ring, i, s).agg.ids
      BY <3>1
    <3>3. PICK j \in 1 .. 3 : \E w \in Stored(ring, j) : Is(q, j, w) /\ id \in Row(ring, j, w).agg.ids
      BY <2>5, <2>7
    <3>4. PICK w \in Stored(ring, j) : Is(q, j, w) /\ id \in Row(ring, j, w).agg.ids
      BY <3>3
    <3>5. CASE i = j
      <4>1. s = w
        BY <2>2, <3>2, <3>4, <3>5, OneRow
      <4> QED BY <3>2, <3>4, <3>5, <4>1
    <3>6. CASE i < j
      <4>1. i # 3
        BY <3>6
      <4> QED BY <2>6, <3>2, <3>4, <3>6, <4>1
    <3>7. CASE j < i
      <4>1. j # 3
        BY <3>7
      <4> QED BY <2>6, <3>2, <3>4, <3>7, <4>1
    <3> QED BY <3>5, <3>6, <3>7
  <2>8. \/ id \in forgotten \/ Overwritten(3, time[id])
        \/ \E p \in Places : In(id, p)
    <3>1. CASE \E s \in Stored(ring, 3) : id \in Row(ring, 3, s).agg.ids
      <4>1. PICK s \in Stored(ring, 3) : id \in Row(ring, 3, s).agg.ids
        BY <3>1
      <4>2. <<3, s>> \in Places /\ In(id, <<3, s>>)
        BY <2>3, <4>1 DEF In, Row
      <4> QED BY <4>2
    <3>2. CASE \E j \in 1 .. 3 : j < 3 /\ HasOpen(ring, j) /\ id \in Open(ring, j).agg.ids
      <4>1. PICK j \in 1 .. 3 : j < 3 /\ HasOpen(ring, j) /\ id \in Open(ring, j).agg.ids
        BY <3>2
      <4>2. j \in 1 .. 2
        BY <4>1
      <4>3. <<j, ring[j].cursor>> \in Places /\ In(id, <<j, ring[j].cursor>>)
        BY <2>3, <4>1, <4>2 DEF In, Open
      <4> QED BY <4>3
    <3>3. CASE RingPassed(ring, tiers, 3, time[id])
      BY <2>4, <3>3 DEF RingPassed, HasOpen, Overwritten
    <3> QED BY <2>1, <2>2, <3>1, <3>2, <3>3 DEF Kept
  <2> QED BY <2>7, <2>8
<1> QED BY <1>1, UsageIsSound, PTL

(* What `query' sums up when no transaction commits between its reads: each    *)
(* sample of the window once, none that is older, and the newest `last'.       *)
THEOREM QuietQueriesTakeAll == UsageSpec => []QuietQueriesAreExact
<1>1. UsageInv => QuietQueriesAreExact
  <2> DEFINE p == query.tier
             cutoff == query.cutoff
             acc == query.acc
             window == query.window
  <2>1. SUFFICES ASSUME UsageInv, Finished, query.quiet
                 PROVE  /\ acc.twice = {}
                        /\ \A id \in acc.ids : time[id] + Skew >= cutoff
                        /\ Span(tiers[p]) >= window =>
                             \A id \in DOMAIN time \ forgotten :
                               WindowOf(tiers, time[id], p) > cutoff => id \in acc.ids
                        /\ \A l \in acc.last \ forgotten, id \in acc.ids : time[id] <= time[l] + Skew
    BY DEF QuietQueriesAreExact, Recorded
  <2>2. /\ tiers \in [1 .. 3 -> Shapes] /\ RingInv(ring, tiers, time, forgotten)
        /\ InTime(time) /\ time \in Seq(Nat) /\ Skew \in Nat
    BY <2>1, TimesAreNaturals DEF UsageInv, UsageTypes, TimesPass
  <2>3. /\ RingTypes(ring, tiers) /\ CursorsPoint(ring) /\ LastIsIn(ring, Len(time)) /\ OldestFirst(ring)
        /\ NeverEarly(ring, tiers, time, forgotten) /\ LastIsExact(ring, tiers, time, forgotten)
        /\ LastIsNew(ring, time, forgotten) /\ NeverFarAhead(ring, time)
        /\ Kept(ring, tiers, time, forgotten)
    BY <2>2 DEF RingInv
  <2>4. /\ p \in 1 .. 3 /\ cutoff \in Nat /\ window \in Nat /\ NoneAfter(ring, cutoff + window)
        /\ query.next = p
        /\ Sums(ring, p, query.next, cutoff, acc)
    <3>1. /\ query.on /\ query.next \notin 1 .. query.tier - 1
      BY <2>1 DEF Finished, Finer
    <3>2. /\ query.tier \in 1 .. 3 /\ query.next \in 1 .. query.tier
          /\ cutoff \in Nat /\ window \in Nat /\ NoneAfter(ring, cutoff + window)
          /\ Sums(ring, p, query.next, cutoff, acc)
      BY <2>1, <3>1 DEF UsageInv, QueryIsSound
    <3>3. query.next = query.tier
      BY <3>1, <3>2
    <3> QED BY <3>2, <3>3
  <2> HIDE DEF p, cutoff, acc, window
  <2>5. Sums(ring, p, p, cutoff, acc)
    BY <2>4
  <2>6. \A i \in 1 .. 3 : \A s \in Stored(ring, i) :
          /\ Row(ring, i, s).bucket \in Nat /\ s \in Stored(ring, i)
          /\ \A id \in Row(ring, i, s).agg.ids : id \in DOMAIN time /\ time[id] \in Nat
          /\ Row(ring, i, s).agg.last \in Row(ring, i, s).agg.ids
    BY <2>2, <2>3, Typed DEF Rows, LastIsIn
  <2>7. \A i \in 1 .. 3 : HasOpen(ring, i) => /\ ring[i].cursor \in Stored(ring, i)
                                              /\ Open(ring, i) = Row(ring, i, ring[i].cursor)
    BY <2>2, <2>3, Typed
  <2>8. ASSUME NEW id \in acc.ids
        PROVE  \E i \in 1 .. 3 : \E s \in Stored(ring, i) :
                 Taken(ring, p, p, cutoff, i, s) /\ id \in Row(ring, i, s).agg.ids
    BY <2>5, <2>8 DEF Sums
  <2>9. ASSUME NEW id \in acc.ids
        PROVE  time[id] + Skew >= cutoff
    <3>1. PICK i \in 1 .. 3 : \E s \in Stored(ring, i) :
            Taken(ring, p, p, cutoff, i, s) /\ id \in Row(ring, i, s).agg.ids
      BY <2>8
    <3>2. PICK s \in Stored(ring, i) : Taken(ring, p, p, cutoff, i, s) /\ id \in Row(ring, i, s).agg.ids
      BY <3>1
    <3>3. cutoff <= Row(ring, i, s).bucket /\ Row(ring, i, s).bucket <= time[id] + Skew
      BY <2>3, <3>2 DEF Taken, NeverFarAhead
    <3> QED BY <2>2, <2>4, <2>6, <3>2, <3>3
  <2>10. ASSUME Span(tiers[p]) >= window, NEW id \in DOMAIN time \ forgotten,
                WindowOf(tiers, time[id], p) > cutoff
         PROVE  id \in acc.ids
    <3> DEFINE W(i) == WindowOf(tiers, time[id], i)
    <3>1. time[id] \in Nat
      BY <2>2
    <3>2. \A i \in 1 .. 3 : W(i) \in Nat
      BY <2>2, <3>1, WindowsOfTime
    <3>3. \A j \in 1 .. 3 : j < p => W(p) <= W(j)
      <4>1. \A i \in 2 .. 3 : W(i) <= W(i - 1)
        <5> TAKE i \in 2 .. 3
        <5>1. W(i) = FloorToStep(W(i - 1), tiers[i].step)
          BY <2>2, <3>1, WindowsOfTime
        <5>2. i \in 1 .. 3 /\ i - 1 \in 1 .. 3
          OBVIOUS
        <5>3. tiers[i].step \in Nat \ {0} /\ W(i - 1) \in Nat
          BY <2>2, <3>2, <5>2 DEF Shapes
        <5> HIDE DEF W
        <5> QED BY <5>1, <5>3, Floors
      <4>2. W(2) <= W(1) /\ W(3) <= W(2) /\ W(1) \in Nat /\ W(2) \in Nat /\ W(3) \in Nat
        <5>1. 2 \in 2 .. 3 /\ 3 \in 2 .. 3 /\ 2 - 1 = 1 /\ 3 - 1 = 2
          OBVIOUS
        <5> HIDE DEF W
        <5> QED BY <3>2, <4>1, <5>1
      <4> HIDE DEF W
      <4> TAKE j \in 1 .. 3
      <4>3. j = 1 \/ j = 2 \/ j = 3
        OBVIOUS
      <4>4. p = 1 \/ p = 2 \/ p = 3
        BY <2>4
      <4> QED BY <4>2, <4>3, <4>4
    <3> HIDE DEF W
    <3>4. W(p) > cutoff
      BY <2>10 DEF W
    <3>5. \/ \E s \in Stored(ring, p) : id \in Row(ring, p, s).agg.ids
          \/ \E j \in 1 .. 3 : j < p /\ HasOpen(ring, j) /\ id \in Open(ring, j).agg.ids
          \/ RingPassed(ring, tiers, p, time[id])
      BY <2>3, <2>4, <2>10 DEF Kept
    <3>6. CASE \E s \in Stored(ring, p) : id \in Row(ring, p, s).agg.ids
      <4>1. PICK s \in Stored(ring, p) : id \in Row(ring, p, s).agg.ids
        BY <3>6
      <4>2. W(p) <= Row(ring, p, s).bucket
        BY <2>3, <2>4, <2>10, <4>1 DEF NeverEarly, W
      <4>3. cutoff <= Row(ring, p, s).bucket
        BY <2>4, <2>6, <3>2, <3>4, <4>2
      <4>4. Taken(ring, p, p, cutoff, p, s)
        BY <4>1, <4>3 DEF Taken
      <4> QED BY <2>4, <2>5, <4>1, <4>4 DEF Sums
    <3>7. CASE \E j \in 1 .. 3 : j < p /\ HasOpen(ring, j) /\ id \in Open(ring, j).agg.ids
      <4>1. PICK j \in 1 .. 3 : j < p /\ HasOpen(ring, j) /\ id \in Open(ring, j).agg.ids
        BY <3>7
      <4>2. /\ ring[j].cursor \in Stored(ring, j) /\ Open(ring, j) = Row(ring, j, ring[j].cursor)
        BY <2>7, <4>1
      <4>3. W(j) <= Row(ring, j, ring[j].cursor).bucket
        BY <2>3, <2>10, <4>1, <4>2 DEF NeverEarly, W
      <4>4. cutoff <= Row(ring, j, ring[j].cursor).bucket
        BY <2>4, <2>6, <3>2, <3>3, <3>4, <4>1, <4>2, <4>3
      <4>5. Taken(ring, p, p, cutoff, j, ring[j].cursor)
        BY <4>1, <4>2, <4>4 DEF Taken
      <4> QED BY <2>5, <4>1, <4>2, <4>5 DEF Sums
    <3>8. CASE RingPassed(ring, tiers, p, time[id])
      <4>1. HasOpen(ring, p) /\ W(p) + Span(tiers[p]) <= Open(ring, p).bucket
        BY <3>8 DEF RingPassed, W
      <4>2. Open(ring, p).bucket <= cutoff + window /\ Open(ring, p).bucket \in Nat
        BY <2>4, <2>6, <2>7, <4>1 DEF NoneAfter
      <4>3. Span(tiers[p]) \in Nat
        BY <2>2, <2>4, SpanIsNat
      <4> QED BY <2>4, <2>10, <3>2, <3>4, <4>1, <4>2, <4>3
    <3> QED BY <3>5, <3>6, <3>7, <3>8
  <2>11. ASSUME NEW l \in acc.last \ forgotten, NEW id \in acc.ids
         PROVE  time[id] <= time[l] + Skew
    <3>1. PICK i \in 1 .. 3 : \E s \in Stored(ring, i) :
            /\ Taken(ring, p, p, cutoff, i, s)
            /\ Row(ring, i, s).agg.last = l /\ acc.lastAt = {Row(ring, i, s).bucket}
      BY <2>5, <2>11 DEF Sums
    <3>2. PICK s \in Stored(ring, i) :
            /\ Taken(ring, p, p, cutoff, i, s)
            /\ Row(ring, i, s).agg.last = l /\ acc.lastAt = {Row(ring, i, s).bucket}
      BY <3>1
    <3>3. PICK j \in 1 .. 3 : \E q \in Stored(ring, j) :
            Taken(ring, p, p, cutoff, j, q) /\ id \in Row(ring, j, q).agg.ids
      BY <2>8, <2>11
    <3>4. PICK q \in Stored(ring, j) : Taken(ring, p, p, cutoff, j, q) /\ id \in Row(ring, j, q).agg.ids
      BY <3>3
    <3>5. Row(ring, j, q).bucket <= Row(ring, i, s).bucket
      BY <2>5, <3>2, <3>4 DEF Sums
    <3>6. /\ l \in Row(ring, i, s).agg.ids /\ l \in DOMAIN time /\ id \in DOMAIN time
          /\ time[l] \in Nat /\ time[id] \in Nat /\ l \in Nat /\ id \in Nat
          /\ Row(ring, i, s).bucket \in Nat /\ Row(ring, j, q).bucket \in Nat
      <4>1. l \in Row(ring, i, s).agg.ids
        BY <2>6, <3>2
      <4>2. l \in DOMAIN time /\ id \in DOMAIN time
        BY <2>6, <3>4, <4>1
      <4>3. l \in Nat /\ id \in Nat
        BY <2>2, <4>2
      <4> QED BY <2>6, <3>4, <4>1, <4>2, <4>3
    <3>7. CASE id < l
      BY <2>2, <3>6, <3>7 DEF InTime
    <3>8. CASE id = l
      BY <2>2, <3>6, <3>8
    <3>9. CASE i = j /\ s = q
      BY <2>3, <2>11, <3>2, <3>4, <3>9 DEF LastIsNew
    <3>10. CASE i = j /\ s # q
      <4>1. /\ q \in Stored(ring, i) /\ id \in Row(ring, i, q).agg.ids
            /\ ~(Row(ring, i, s).bucket < Row(ring, i, q).bucket)
        BY <3>4, <3>5, <3>6, <3>10
      <4>2. id < l
        BY <2>2, <3>6, <3>10, <4>1, OneRow
      <4> QED BY <3>7, <4>2
    <3>11. CASE i < j
      <4>1. i # p
        BY <2>4, <3>4, <3>11 DEF Taken
      <4>2. s = ring[i].cursor /\ HasOpen(ring, i)
        <5>1. s = ring[i].cursor
          BY <3>2, <4>1 DEF Taken
        <5>2. HasOpen(ring, i)
          BY <2>2, <2>3, <3>2, Typed
        <5> QED BY <5>1, <5>2
      <4>3. l \in Open(ring, i).agg.ids
        BY <2>7, <3>6, <4>2
      <4>4. id < l
        BY <2>3, <3>4, <3>11, <4>2, <4>3 DEF OldestFirst
      <4> QED BY <3>7, <4>4
    <3>12. CASE j < i
      <4>1. j # p
        BY <2>4, <3>2, <3>12 DEF Taken
      <4>2. q = ring[j].cursor
        BY <3>4, <4>1 DEF Taken
      <4>3. HasOpen(ring, j) /\ Row(ring, i, s).bucket < Open(ring, j).bucket
        BY <2>3, <2>11, <3>2, <3>12 DEF LastIsExact
      <4>4. Open(ring, j) = Row(ring, j, q)
        BY <2>7, <4>2, <4>3
      <4> QED BY <3>5, <3>6, <4>3, <4>4
    <3> QED BY <3>9, <3>10, <3>11, <3>12
  <2>12. acc.twice = {}
    BY <2>5 DEF Sums
  <2> QED BY <2>9, <2>10, <2>11, <2>12
<1> QED BY <1>1, UsageIsSound, PTL
=============================================================================
