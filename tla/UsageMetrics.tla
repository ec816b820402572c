----------------------------- MODULE UsageMetrics -----------------------------
(* The hub's usage log: transactions that record samples of one metric, the    *)
(* operator who changes the geometry of a tier, and a query that reads the     *)
(* tables one after the other outside any transaction.                         *)
EXTENDS UsageRing

CONSTANTS Tiers,          \* <<[step, slots], ...>>, finest first
          Geometries,     \* what an operator may set: [tier, step, slots]
          Recorders, Windows, Kinds,
          Skew,           \* how late a sample may be recorded
          MaxTime, MaxSamples, MaxResets

\* `load_tier_config' reads three tiers and no other; `set_tier_config' takes any step
\* and any number of slots from 1 on, so no step has to divide the next one.
Shapes == [step : Nat \ {0}, slots : Nat \ {0}]
ASSUME ThreeTiers == Tiers \in [1 .. 3 -> Shapes]
ASSUME GeometriesAreChecked ==
  \A g \in Geometries : g.tier \in 1 .. 3 /\ g.step \in Nat \ {0} /\ g.slots \in Nat \ {0}
ASSUME TimesAreNaturals == Skew \in Nat /\ Windows \subseteq Nat
ASSUME NoRowIsNone == NoRow \notin Nat /\ NoRow \notin [bucket : Nat, agg : [ids : SUBSET Nat, last : Nat]]

VARIABLES tiers, ring,
          kind,           \* of the metric, in the catalog; NoRow before its first sample
          time,           \* of the samples, in the order of their commits
          now, tx,        \* the open transaction of each recorder
          query, resets,
          forgotten       \* the samples recorded before the last reset

usageVars == <<tiers, ring, kind, time, now, tx, query, resets, forgotten>>

NoTx == [on |-> FALSE]
NoQuery == [on |-> FALSE]

UsageInit ==
  /\ tiers = Tiers
  /\ ring = [i \in DOMAIN Tiers |-> EmptyTier(Tiers[i])]
  /\ kind = NoRow /\ time = <<>>
  /\ now = 0 /\ resets = 0
  /\ tx = [r \in Recorders |-> NoTx]
  /\ query = NoQuery
  /\ forgotten = {}

Tick ==
  /\ now < MaxTime
  /\ now' = now + 1
  /\ UNCHANGED <<tiers, ring, kind, time, tx, query, resets, forgotten>>

(* The shared lock on the geometry and the exclusive one on the metric, then   *)
(* the geometry the rest of the transaction works with.                        *)
Locked == \E r \in Recorders : tx[r].on
BeginRecord(r, at, k) ==
  /\ ~Locked
  /\ Len(time) < MaxSamples
  /\ tx' = [tx EXCEPT ![r] = [on |-> TRUE, at |-> at, kind |-> k, tiers |-> tiers]]
  /\ UNCHANGED <<tiers, ring, kind, time, now, query, resets, forgotten>>

Applied(geometry, at, agg) ==
  ApplyRow(ring, geometry, RowOf(FloorToStep(at, geometry[1].step), agg))

(* A metric has the kind of its first sample.                                  *)
MayRecord(k) == kind \in {NoRow, k}

Single(id) == [ids |-> {id}, last |-> id]

CommitRecord(r) ==
  LET id == Len(time) + 1
  IN  /\ tx[r].on /\ MayRecord(tx[r].kind)
      /\ kind' = tx[r].kind
      /\ ring' = Applied(tx[r].tiers, tx[r].at, Single(id))
      /\ time' = Append(time, tx[r].at)
      /\ tx' = [tx EXCEPT ![r] = NoTx]
      /\ query' = IF query.on THEN [query EXCEPT !.quiet = FALSE] ELSE query
      /\ UNCHANGED <<tiers, now, resets, forgotten>>

(* A sample of another kind, or any failure.                                   *)
RollBack(r) ==
  /\ tx[r].on
  /\ tx' = [tx EXCEPT ![r] = NoTx]
  /\ UNCHANGED <<tiers, ring, kind, time, now, query, resets, forgotten>>

\* fault: the geometry changes without its lock
MayReset_Unlocked == TRUE
MayReset == ~Locked

SetTierConfig(g) ==
  /\ MayReset
  /\ resets < MaxResets
  /\ resets' = resets + 1
  /\ tiers' = [tiers EXCEPT ![g.tier] = [step |-> g.step, slots |-> g.slots]]
  /\ ring' = [ring EXCEPT ![g.tier] = EmptyTier(tiers'[g.tier])]
  /\ forgotten' = DOMAIN time
  /\ query' = IF query.on THEN [query EXCEPT !.quiet = FALSE] ELSE query
  /\ UNCHANGED <<kind, time, now, tx>>

Listed == kind # NoRow

\* All the rows of the picked tier first.
StartQuery(window) ==
  LET cutoff == IF window > now THEN 0 ELSE now - window
      p == PickTier(tiers, window)
  IN  /\ ~query.on
      /\ query' = [on |-> TRUE, window |-> window, cutoff |-> cutoff, tier |-> p,
                   next |-> 1, cursor |-> NoRow, quiet |-> TRUE,
                   acc |-> SummedUp(RowsSince(ring[p], cutoff))]
      /\ UNCHANGED <<tiers, ring, kind, time, now, tx, resets, forgotten>>

(* `wkp usage' and `wkp-hub usage': each metric of the catalog, one after the  *)
(* other.                                                                      *)
Report(window) == Listed /\ StartQuery(window)

Finer_Picked(p) == 1 .. p
Finer(p) == 1 .. p - 1

\* Then, for each finer tier, the cursor, and the slot it pointed to.
ReadCursor ==
  /\ query.on /\ query.next \in Finer(query.tier) /\ query.cursor = NoRow
  /\ LET c == CursorOf(ring, query.next)
     IN  query' = IF c # NoRow /\ OpenAt(ring, query.next).bucket >= query.cutoff
                  THEN [query EXCEPT !.cursor = [slot |-> c,
                                                 bucket |-> OpenAt(ring, query.next).bucket]]
                  ELSE [query EXCEPT !.next = @ + 1]
  /\ UNCHANGED <<tiers, ring, kind, time, now, tx, resets, forgotten>>

ReadSlot ==
  /\ query.on /\ query.cursor # NoRow
  /\ LET row == RowAt(ring, query.next, query.cursor.slot)
     IN  query' = [query EXCEPT
                     !.next = @ + 1, !.cursor = NoRow,
                     !.acc = IF row = NoRow THEN @
                             ELSE Absorb(@, [row EXCEPT !.bucket = query.cursor.bucket])]
  /\ UNCHANGED <<tiers, ring, kind, time, now, tx, resets, forgotten>>

Finished == query.on /\ query.next \notin Finer(query.tier) /\ query.cursor = NoRow

EndQuery ==
  /\ Finished
  /\ query' = NoQuery
  /\ UNCHANGED <<tiers, ring, kind, time, now, tx, resets, forgotten>>

UsageNext ==
  \/ Tick
  \/ \E r \in Recorders :
       \/ \E at \in {t \in 0 .. now : t + Skew >= now} : \E k \in Kinds : BeginRecord(r, at, k)
       \/ CommitRecord(r) \/ RollBack(r)
  \/ \E g \in Geometries : SetTierConfig(g)
  \/ \E w \in Windows : Report(w)
  \/ ReadCursor \/ ReadSlot \/ EndQuery

UsageSpec == UsageInit /\ [][UsageNext]_usageVars

-----------------------------------------------------------------------------

Recorded == DOMAIN time
Coarsest == Len(tiers)

\* The places a sample is when it is counted once: the windows still open in
\* the finer tiers, and every row of the coarsest.
Places ==
  {<<i, ring[i].cursor>> : i \in {x \in 1 .. Coarsest - 1 : ring[x].cursor # NoRow}}
    \cup {<<Coarsest, s>> : s \in {x \in DOMAIN ring[Coarsest].row : ring[Coarsest].row[x] # NoRow}}
In(id, p) == id \in ring[p[1]].row[p[2]].agg.ids

\* The window that is open is so much newer that the ring has come round to the slot again.
Overwritten(i, t) ==
  ring[i].cursor # NoRow /\ WindowOf(tiers, t, i) + Span(tiers[i]) <= OpenAt(ring, i).bucket

(* "never dropped, never double-counted (a window is folded exactly once, at   *)
(* the moment it closes)": whatever the order in which samples arrive, and     *)
(* across changes of the geometry, a sample is in one place only; it is lost   *)
(* only to a reset, or when the coarsest ring comes round to its window.       *)
FoldedOnce ==
  \A id \in Recorded :
    /\ \A p, q \in Places : In(id, p) /\ In(id, q) => p = q
    /\ \/ id \in forgotten \/ Overwritten(Coarsest, time[id])
       \/ \E p \in Places : In(id, p)

(* "a slot index computed under the old geometry is meaningless under the new  *)
(* one": every row is in the slot its bucket has in the geometry of now, and   *)
(* every bucket starts on a step of its tier.                                  *)
RowsFitTheGeometry ==
  \A i \in DOMAIN tiers :
    /\ DOMAIN ring[i].row = Slots(tiers[i])
    /\ \A s \in DOMAIN ring[i].row :
         LET r == ring[i].row[s]
         IN  r # NoRow => r.bucket % tiers[i].step = 0 /\ SlotFor(r.bucket, tiers[i]) = s

(* What a query that no transaction crossed returns: no sample that is older   *)
(* than the window (or than the window and the skew), every sample in a bucket *)
(* that began inside it, each counted once, and the `last' of the newest.      *)
QuietQueriesAreExact ==
  Finished /\ query.quiet =>
    /\ query.acc.twice = {}
    /\ \A id \in query.acc.ids : time[id] + Skew >= query.cutoff
    /\ Span(tiers[query.tier]) >= query.window =>
         \A id \in Recorded \ forgotten :
           WindowOf(tiers, time[id], query.tier) > query.cutoff => id \in query.acc.ids
    /\ \A l \in query.acc.last \ forgotten, id \in query.acc.ids : time[id] <= time[l] + Skew

=============================================================================
