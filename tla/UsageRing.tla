------------------------------ MODULE UsageRing ------------------------------
(* The ring buffers of one usage metric: tiers of coarser and coarser steps,   *)
(* each a fixed number of slots and a cursor on the window that is open.  A    *)
(* window is folded into the next tier when a later sample closes it.  An      *)
(* aggregate (n, sum, min, max) is the set of samples it was made from.        *)
EXTENDS Naturals, Sequences, FiniteSets

CONSTANT NoRow

Slots(tier) == 0 .. tier.slots - 1
Span(tier) == tier.step * tier.slots

FloorToStep(t, step) == (t \div step) * step
SlotFor(bucket, tier) == (bucket \div tier.step) % tier.slots

\* fault: the incoming aggregate replaces what is there
MergedWith_Replaced(agg, incoming, newer) == incoming

(* `last' survives by age, not by order of arrival. *)
MergedWith(agg, incoming, newer) ==
  [ids |-> agg.ids \cup incoming.ids, last |-> IF newer THEN incoming.last ELSE agg.last]

EmptyTier(tier) == [row |-> [s \in Slots(tier) |-> NoRow], cursor |-> NoRow]

(* The statements of a transaction; the hub's (control_plane/usage.rs) and     *)
(* the client's (wkp-core usage/store.rs) differ in nothing but the tenant.    *)
RowAt(ring, i, slot) == IF slot \in DOMAIN ring[i].row THEN ring[i].row[slot] ELSE NoRow
CursorOf(ring, i) == ring[i].cursor
OpenAt(ring, i) == RowAt(ring, i, CursorOf(ring, i))
RowOf(bucket, agg) == [bucket |-> bucket, agg |-> agg]

(* What is written into one tier.                                              *)
WriteSlot(tierRing, slot, row) == [tierRing EXCEPT !.row[slot] = row]
WithCursor(tierRing, slot) == [tierRing EXCEPT !.cursor = slot]

NewWindow(tierRing, tier, row) ==
  LET slot == SlotFor(row.bucket, tier)
  IN  WithCursor(WriteSlot(tierRing, slot, row), slot)

\* The window that is open takes what is not newer than it is.
MergeInto(tierRing, row) ==
  LET open == tierRing.row[tierRing.cursor]
  IN  WriteSlot(tierRing, tierRing.cursor,
                RowOf(open.bucket, MergedWith(open.agg, row.agg, open.bucket = row.bucket)))

(* A row applied to the finest tier, and to each tier after it for as long as  *)
(* a window closes: what comes to a tier is the window that closed in the      *)
(* finer one, as it was before the transaction.                                *)
Incoming(ring, tiers, i, row) ==
  IF i = 1 THEN row
  ELSE RowOf(FloorToStep(OpenAt(ring, i - 1).bucket, tiers[i].step), OpenAt(ring, i - 1).agg)

Closes(ring, tiers, i, row) ==
  /\ CursorOf(ring, i) # NoRow
  /\ OpenAt(ring, i).bucket < Incoming(ring, tiers, i, row).bucket

Reached(ring, tiers, i, row) == \A j \in 1 .. i - 1 : Closes(ring, tiers, j, row)

Opens(ring, tiers, i, row) == CursorOf(ring, i) = NoRow \/ Closes(ring, tiers, i, row)

ApplyRow(ring, tiers, row) ==
  [i \in DOMAIN ring |->
     IF ~Reached(ring, tiers, i, row) THEN ring[i]
     ELSE IF Opens(ring, tiers, i, row)
          THEN NewWindow(ring[i], tiers[i], Incoming(ring, tiers, i, row))
          ELSE MergeInto(ring[i], Incoming(ring, tiers, i, row))]

\* The window a time comes to in each of the three tiers, when nothing is late.
WindowOf(tiers, t, i) ==
  LET first == FloorToStep(t, tiers[1].step)
      second == FloorToStep(first, tiers[2].step)
  IN  IF i = 1 THEN first ELSE IF i = 2 THEN second ELSE FloorToStep(second, tiers[3].step)

(* The finest tier that spans the window, or the coarsest. *)
PickTier(tiers, window) ==
  LET wide == {i \in DOMAIN tiers : Span(tiers[i]) >= window}
  IN  IF wide = {} THEN Len(tiers) ELSE CHOOSE i \in wide : \A j \in wide : i <= j

\* fault: no look at the window
RowsSince_All(tier, cutoff) ==
  {tier.row[s] : s \in {x \in DOMAIN tier.row : tier.row[x] # NoRow}}
RowsSince(tier, cutoff) ==
  {tier.row[s] : s \in {x \in DOMAIN tier.row : tier.row[x] # NoRow /\ tier.row[x].bucket >= cutoff}}

(* What a query has summed up: the rows it took, and the newest of them.       *)
SummedUp(rows) ==
  LET newest == {r \in rows : \A q \in rows : q.bucket <= r.bucket}
  IN  [ids |-> UNION {r.agg.ids : r \in rows},
       twice |-> {id \in UNION {r.agg.ids : r \in rows} :
                    \E r, q \in rows : r # q /\ id \in r.agg.ids \cap q.agg.ids},
       lastAt |-> {r.bucket : r \in newest}, last |-> {r.agg.last : r \in newest}]

\* One more row: its `last' only if it is newer than all there were.
Absorb(acc, row) ==
  LET newer == \A at \in acc.lastAt : row.bucket > at
  IN  [ids |-> acc.ids \cup row.agg.ids,
       twice |-> acc.twice \cup (acc.ids \cap row.agg.ids),
       lastAt |-> IF newer THEN {row.bucket} ELSE acc.lastAt,
       last |-> IF newer THEN {row.agg.last} ELSE acc.last]

=============================================================================
