----------------------------- MODULE SyncProofs -----------------------------
(***************************************************************************)
(* What the merges of a store keep: the merge driver of the documents it   *)
(* is given, and a sync of the deletions it does not follow.  Proved for   *)
(* any devices, files, fields and values, and any number of edits.         *)
(***************************************************************************)
EXTENDS StoreSync, ItemMerge, WellFoundedInduction, TLAPS

-----------------------------------------------------------------------------
(* ItemMerge *)

\* A body may hold whole documents, so there is no set of all documents: this is what
\* every one of them looks like.
IsDocument(d) ==
  /\ d = [field |-> d.field, tags |-> d.tags, updated |-> d.updated, body |-> d.body]
  /\ d.body = [text |-> d.body.text, blank |-> d.body.blank]

ItemInv == doc = [d \in Sides |-> doc[d]] /\ \A d \in Sides : IsDocument(doc[d])

LEMMA TwoSides ==
  ASSUME NEW d \in Sides
  PROVE  OtherSide(d) \in Sides /\ \A s \in Sides : s = d \/ s = OtherSide(d)
BY DEF Sides, OtherSide

LEMMA ResolveTakesOne ==
  ASSUME NEW b, NEW o, NEW t, Resolve(b, o, t) # <<>>
  PROVE  \/ Resolve(b, o, t)[1] = o /\ t \in {o, b}
         \/ Resolve(b, o, t)[1] = t /\ o = b
BY DEF Resolve

LEMMA NoFrontmatterIsADocument ==
  ASSUME NEW text PROVE IsDocument(NoFrontmatter(text))
BY DEF IsDocument, NoFrontmatter

(* The driver keeps both documents whole, or each of its fields and its    *)
(* body is the one side's that changed it.                                 *)
LEMMA MergeTakesChanges ==
  ASSUME NEW b, NEW o, NEW t, IsDocument(o), IsDocument(t), NEW m, m = Merge(b, o, t),
         m # BothKept(o, t)
  PROVE  /\ IsDocument(m)
         /\ \A f \in Scalars : \/ m.field[f] = o.field[f] /\ t.field[f] \in {o.field[f], b.field[f]}
                               \/ m.field[f] = t.field[f] /\ o.field[f] = b.field[f]
         /\ m.tags = o.tags \cup t.tags
         /\ \/ m.body.text = o.body.text /\ t.body \in {o.body, b.body}
            \/ m.body.text = t.body.text /\ o.body = b.body
<1> DEFINE scalar == [f \in Scalars |-> Resolve(b.field[f], o.field[f], t.field[f])]
           body == Resolve(b.body, o.body, t.body)
           field == [f \in Fields |-> IF f \in Scalars THEN scalar[f][1] ELSE o.field[f]]
           bd == [body[1] EXCEPT !.blank = @ + 1]
           updated == Max({o.updated, t.updated})
<1>1. /\ body # <<>> /\ \A f \in Scalars : scalar[f] # <<>>
      /\ m = [field |-> field, tags |-> o.tags \cup t.tags, updated |-> updated, body |-> bd]
  BY DEF Merge
<1>2. \/ body[1] = o.body /\ t.body \in {o.body, b.body}
      \/ body[1] = t.body /\ o.body = b.body
  BY <1>1, ResolveTakesOne
<1>3. body[1] = [text |-> body[1].text, blank |-> body[1].blank]
  BY <1>2 DEF IsDocument
<1>4. bd = [text |-> body[1].text, blank |-> body[1].blank + 1]
  BY <1>3
<1> HIDE DEF bd, body, updated
<1>5. ASSUME NEW f \in Scalars
      PROVE  \/ field[f] = o.field[f] /\ t.field[f] \in {o.field[f], b.field[f]}
             \/ field[f] = t.field[f] /\ o.field[f] = b.field[f]
  <2>1. field[f] = Resolve(b.field[f], o.field[f], t.field[f])[1]
    BY DEF Fields
  <2>2. Resolve(b.field[f], o.field[f], t.field[f]) # <<>>
    BY <1>1
  <2> QED BY <2>1, <2>2, ResolveTakesOne
<1> HIDE DEF field
<1>6. IsDocument(m) /\ m.field = field /\ m.tags = o.tags \cup t.tags /\ m.body.text = body[1].text
  BY <1>1, <1>4 DEF IsDocument
<1> QED BY <1>2, <1>5, <1>6

LEMMA ThreeWayIsADocument ==
  ASSUME NEW b, NEW o, NEW t, IsDocument(o), IsDocument(t)
  PROVE  IsDocument(ThreeWay(b, o, t))
BY MergeTakesChanges, NoFrontmatterIsADocument DEF ThreeWay, BothKept

LEMMA EditedIsADocument ==
  ASSUME ItemInv, NEW d \in Sides, EditItem(d)
  PROVE  ItemInv'
<1> DEFINE r == doc[d]
<1>1. r = [field |-> r.field, tags |-> r.tags, updated |-> r.updated, body |-> r.body]
      /\ r.body = [text |-> r.body.text, blank |-> r.body.blank]
  BY DEF ItemInv, IsDocument
<1>2. ASSUME NEW f, NEW v, doc' = [doc EXCEPT ![d].field[f] = v] PROVE ItemInv'
  BY <1>1, <1>2 DEF ItemInv, IsDocument
<1>3. ASSUME NEW ts, doc' = [doc EXCEPT ![d].tags = ts] PROVE ItemInv'
  BY <1>1, <1>3 DEF ItemInv, IsDocument
<1>4. ASSUME NEW v, doc' = [doc EXCEPT ![d].body.text = v] PROVE ItemInv'
  BY <1>1, <1>4 DEF ItemInv, IsDocument
<1>5. ASSUME NEW n, doc' = [doc EXCEPT ![d].updated = n] PROVE ItemInv'
  BY <1>1, <1>5 DEF ItemInv, IsDocument
<1> QED BY <1>2, <1>3, <1>4, <1>5 DEF EditItem

(* Every version of the item, on either device and whatever merges made of *)
(* it, is a document with fields, tags, a date and a body.                 *)
THEOREM DocumentsStayWhole == ItemSpec => []ItemInv
<1>1. MergeInit => ItemInv
  BY NoFrontmatterIsADocument DEF MergeInit, ItemInv
<1>2. ItemInv /\ [ItemNext]_mergeVars => ItemInv'
  <2> SUFFICES ASSUME ItemInv, ItemNext PROVE ItemInv'
    BY DEF ItemInv, mergeVars
  <2>1. ASSUME NEW d \in Sides, MergeItem(d) PROVE ItemInv'
    <3>1. doc' = [doc EXCEPT ![d] = ThreeWay(base, doc[d], doc[OtherSide(d)])]
      BY <2>1 DEF MergeItem
    <3>2. IsDocument(ThreeWay(base, doc[d], doc[OtherSide(d)]))
      BY TwoSides, ThreeWayIsADocument DEF ItemInv
    <3> QED BY <3>1, <3>2 DEF ItemInv
  <2> QED BY <2>1, EditedIsADocument DEF ItemNext
<1> QED BY <1>1, <1>2, PTL DEF ItemSpec

(* What either device did to a field the driver merges, to the body or as  *)
(* a new tag since the two last agreed is in the result of the merge, or   *)
(* both documents are in it whole.                                         *)
THEOREM DriverKeepsEdits == ItemSpec => MergesKeepEdits
<1>1. ItemInv /\ [ItemNext]_mergeVars => [\A d \in Sides : MergeKeeps(d, Scalars)]_mergeVars
  <2> SUFFICES ASSUME ItemInv, NEW d \in Sides, MergeItem(d), NEW s \in Sides
               PROVE  KeptIn(doc'[d], doc[s], Scalars)
    BY DEF MergeKeeps
  <2> DEFINE o == doc[d]
             t == doc[OtherSide(d)]
             m == ThreeWay(base, o, t)
  <2>1. doc'[d] = m /\ IsDocument(o) /\ IsDocument(t) /\ doc[s] \in {o, t}
    BY TwoSides DEF ItemInv, MergeItem
  <2>2. CASE doc[s] = m
    BY <2>1, <2>2 DEF KeptIn, Changed, Says
  <2>3. CASE doc[s] = base
    BY <2>3 DEF KeptIn, Changed
  <2>4. CASE m = BothKept(o, t)
    BY <2>1, <2>4 DEF KeptIn
  <2>5. CASE doc[s] # m /\ doc[s] # base /\ m # BothKept(o, t)
    <3>1. m = Merge(base, o, t)
      BY <2>1, <2>5 DEF ThreeWay
    <3>2. /\ \A f \in Scalars : \/ m.field[f] = o.field[f] /\ t.field[f] \in {o.field[f], base.field[f]}
                                \/ m.field[f] = t.field[f] /\ o.field[f] = base.field[f]
          /\ m.tags = o.tags \cup t.tags
          /\ \/ m.body.text = o.body.text /\ t.body \in {o.body, base.body}
             \/ m.body.text = t.body.text /\ o.body = base.body
      BY <2>1, <2>5, <3>1, MergeTakesChanges
    <3> HIDE DEF m, o, t
    <3>3. ASSUME NEW f \in Scalars, doc[s].field[f] # base.field[f]
          PROVE  doc[s].field[f] = m.field[f]
      BY <2>1, <3>2, <3>3
    <3>4. doc[s].tags \subseteq m.tags
      BY <2>1, <3>2
    <3>5. doc[s].body.text # base.body.text => doc[s].body.text = m.body.text
      BY <2>1, <3>2
    <3>6. Changed(doc[s], Scalars) \subseteq Says(m, Scalars)
      BY <3>3, <3>4, <3>5 DEF Changed, Says
    <3> QED BY <2>1, <3>6 DEF KeptIn
  <2> QED BY <2>2, <2>3, <2>4, <2>5
<1> QED BY <1>1, DocumentsStayWhole, PTL DEF ItemSpec, MergesKeepEdits

-----------------------------------------------------------------------------
(* StoreSync *)

Writings == (Dev \cup {"init"}) \X Nat
Trees == [SyncPaths -> Seq(Writings)]
Stored == [tree : Trees, anc : SUBSET Nat, parent : Nat, own : SUBSET SyncPaths]

\* The questions in a tree were all asked when there were at most n commits.
Dated(tree, n) ==
  \A d \in Dev : \A i \in DOMAIN tree[Question(d)] : tree[Question(d)][i][2] <= n

\* Commit c of a history: what it descends from, but for itself, is older than it, and
\* so are its questions.
IsCommit(x, c) ==
  /\ x.anc \subseteq 1 .. c /\ c \in x.anc /\ x.parent \in 0 .. c - 1
  /\ Dated(x.tree, c - 1)

IsHistory(h) == h \in Seq(Stored) /\ \A c \in 1 .. Len(h) : IsCommit(h[c], c)

IsClone(r, n) ==
  /\ r \in [work : Trees, index : Trees, head : {"own"}, refs : [{"own"} -> 0 .. n]]
  /\ Dated(r.work, n) /\ Dated(r.index, n)

IsMerge(m, n) == m \in [theirs : 0 .. n, paths : SUBSET SyncPaths]

SyncSteps == {"rest", "fetch", "merge", "resolve", "ask"}
IsSync(s, n) == s \in [step : SyncSteps, todo : [DOMAIN Devices -> 0 .. n], pushes : BOOLEAN]

\* Once no path is left unmerged, the index has a question neither branch can have.
Asked(d, r, m, s) ==
  s.step = "resolve" /\ m.paths = {} =>
    \E i \in DOMAIN r.index[Question(d)] :
      r.index[Question(d)][i][2] >= Git!Tip(r) /\ r.index[Question(d)][i][2] >= m.theirs

SyncInv ==
  /\ IsHistory(commits)
  /\ clone = [d \in Dev |-> clone[d]] /\ open = [d \in Dev |-> open[d]]
  /\ syncing = [d \in Dev |-> syncing[d]] /\ remote \in [Dev -> 0 .. Len(commits)]
  /\ edits \in Nat
  /\ \A d \in Dev : /\ IsClone(clone[d], Len(commits)) /\ IsMerge(open[d], Len(commits))
                    /\ IsSync(syncing[d], Len(commits))
                    /\ Asked(d, clone[d], open[d], syncing[d])

LEMMA SmallestOf ==
  ASSUME NEW S, S \subseteq Nat, S # {}
  PROVE  \E x \in S : \A y \in S : x <= y
<1> DEFINE R == OpToRel(<, Nat)
<1>1. \E x \in S : \A y \in S : ~(<<y, x>> \in R)
  BY NatLessThanWellFounded, WFMin
<1>2. \A x, y \in Nat : <<y, x>> \in R <=> y < x
  BY DEF OpToRel
<1> HIDE DEF R
<1>3. PICK x \in S : \A y \in S : ~(<<y, x>> \in R)
  BY <1>1
<1>4. \A y \in S : ~(y < x)
  BY <1>2, <1>3
<1>5. \A y \in S : x <= y
  BY <1>4
<1> QED BY <1>5

LEMMA NewestIsOneOf ==
  ASSUME NEW n \in Nat, NEW S, S \subseteq 1 .. n
  PROVE  Newest(S) \in 0 .. n /\ (S # {} => Newest(S) \in S)
<1>1. CASE S = {}
  BY <1>1 DEF Newest
<1>2. CASE S # {}
  <2> DEFINE R == {n - x : x \in S}
  <2>1. \A x \in S : x \in Int /\ n - x \in Nat
    OBVIOUS
  <2>2. R \subseteq Nat /\ R # {}
    BY <1>2, <2>1
  <2>3. PICK m \in R : \A y \in R : m <= y
    BY <2>2, SmallestOf
  <2>4. PICK x \in S : m = n - x
    BY <2>3
  <2>5. ASSUME NEW y \in S PROVE x >= y
    <3>1. n - y \in R
      OBVIOUS
    <3>2. n - x <= n - y
      BY <2>3, <2>4, <3>1
    <3>3. x \in Int /\ y \in Int
      BY <2>1
    <3> HIDE DEF R
    <3> QED BY <3>2, <3>3
  <2> HIDE DEF R
  <2>6. Max(S) \in S
    BY <2>5 DEF Max
  <2>7. Newest(S) = Max(S)
    BY <1>2 DEF Newest
  <2>8. Newest(S) \in S
    BY <2>6, <2>7
  <2>9. \A z \in S : z \in 0 .. n
    OBVIOUS
  <2> QED BY <1>2, <2>8, <2>9
<1> QED BY <1>1, <1>2

LEMMA WritingOf ==
  ASSUME NEW d \in Dev, NEW n \in Nat
  PROVE  <<d, n>> \in Writings /\ <<d, n>>[2] = n
BY DEF Writings

LEMMA WritingIsDated == \A v \in Writings : v[2] \in Nat
BY DEF Writings

LEMMA QuestionIsAPath == \A d \in Dev : Question(d) \in SyncPaths
BY DEF SyncPaths

LEMMA NothingIsATree == Git!Nothing \in Trees /\ \A n : Dated(Git!Nothing, n)
BY QuestionIsAPath DEF Git!Nothing, Trees, Dated, Gone

LEMMA DatedLater ==
  ASSUME NEW tree \in Trees, NEW n \in Int, NEW m \in Int, n <= m, Dated(tree, n)
  PROVE  Dated(tree, m)
<1> SUFFICES ASSUME NEW d \in Dev, NEW i \in DOMAIN tree[Question(d)]
             PROVE  tree[Question(d)][i][2] <= m
  BY DEF Dated
<1>1. tree[Question(d)] \in Seq(Writings)
  BY QuestionIsAPath DEF Trees
<1>2. tree[Question(d)][i] \in Writings
  BY <1>1
<1>3. tree[Question(d)][i][2] \in Nat /\ tree[Question(d)][i][2] <= n
  BY <1>2, WritingIsDated DEF Dated
<1> QED BY <1>3

(* A tree of the history, and the trees merges make of them.               *)
LEMMA TreeOfACommit ==
  ASSUME IsHistory(commits), NEW c \in 0 .. Len(commits)
  PROVE  /\ Git!Tree(commits, c) \in Trees
         /\ Dated(Git!Tree(commits, c), Len(commits))
         /\ Dated(Git!Tree(commits, c), c - 1)
         /\ Git!Ancestors(commits, c) \subseteq 1 .. Len(commits)
         /\ Git!Ancestors(commits, c) \subseteq 1 .. c
<1>0. Len(commits) \in Nat
  BY DEF IsHistory
<1>1. CASE c = 0
  BY <1>1, NothingIsATree DEF Git!Tree, Git!Ancestors
<1>2. CASE c # 0
  <2>1. c \in 1 .. Len(commits) /\ commits[c] \in Stored
    BY <1>0, <1>2 DEF IsHistory
  <2>2. commits[c].tree \in Trees /\ Dated(commits[c].tree, c - 1)
        /\ commits[c].anc \subseteq 1 .. c
    BY <2>1 DEF Stored, IsHistory, IsCommit
  <2>3. Dated(commits[c].tree, Len(commits))
    BY <1>0, <2>1, <2>2, DatedLater
  <2>4. commits[c].anc \subseteq 1 .. Len(commits)
    BY <1>0, <2>1, <2>2
  <2> QED BY <1>2, <2>2, <2>3, <2>4 DEF Git!Tree, Git!Ancestors
<1> QED BY <1>1, <1>2

LEMMA MergedTree ==
  ASSUME NEW n \in Int, NEW b \in Trees, NEW o \in Trees, NEW t \in Trees,
         Dated(b, n), Dated(o, n), Dated(t, n),
         NEW m, m = [p \in SyncPaths |-> Merged(b[p], o[p], t[p])]
  PROVE  m \in Trees /\ Dated(m, n)
<1>1. ASSUME NEW p \in SyncPaths PROVE m[p] \in {o[p], t[p], o[p] \o t[p]}
  BY DEF Merged
<1>2. m \in Trees
  <2> SUFFICES ASSUME NEW p \in SyncPaths PROVE m[p] \in Seq(Writings)
    BY DEF Trees
  <2>1. o[p] \in Seq(Writings) /\ t[p] \in Seq(Writings)
    BY DEF Trees
  <2>2. o[p] \o t[p] \in Seq(Writings)
    BY <2>1
  <2> QED BY <1>1, <2>1, <2>2
<1>3. ASSUME NEW d \in Dev, NEW i \in DOMAIN m[Question(d)] PROVE m[Question(d)][i][2] <= n
  <2> DEFINE x == o[Question(d)]
             y == t[Question(d)]
  <2>1. x \in Seq(Writings) /\ y \in Seq(Writings) /\ m[Question(d)] \in {x, y, x \o y}
    BY <1>1, QuestionIsAPath DEF Trees
  <2>2. \A j \in DOMAIN x : x[j][2] <= n
    BY DEF Dated
  <2>3. \A j \in DOMAIN y : y[j][2] <= n
    BY DEF Dated
  <2> HIDE DEF x, y
  <2>4. CASE m[Question(d)] = x
    BY <2>2, <2>4
  <2>5. CASE m[Question(d)] = y
    BY <2>3, <2>5
  <2>6. CASE m[Question(d)] = x \o y
    <3>1. i \in 1 .. Len(x) + Len(y) /\ Len(x) \in Nat /\ Len(y) \in Nat
      BY <2>1, <2>6
    <3>2. CASE i <= Len(x)
      <4>1. i \in DOMAIN x /\ m[Question(d)][i] = x[i]
        BY <2>1, <2>6, <3>1, <3>2
      <4> QED BY <2>2, <4>1
    <3>3. CASE i > Len(x)
      <4>1. i - Len(x) \in DOMAIN y
        BY <2>1, <3>1, <3>3
      <4>2. (x \o y)[i] = y[i - Len(x)]
        BY <2>1, <3>1, <3>3
      <4> QED BY <2>3, <2>6, <4>1, <4>2
    <3> QED BY <3>1, <3>2, <3>3
  <2> QED BY <2>1, <2>4, <2>5, <2>6
<1> QED BY <1>2, <1>3 DEF Dated

LEMMA BaseIsATree ==
  ASSUME IsHistory(commits), NEW a \in 0 .. Len(commits), NEW b \in 0 .. Len(commits)
  PROVE  BaseTree(a, b) \in Trees /\ Dated(BaseTree(a, b), Len(commits))
<1> DEFINE x == Newest(Bases(a, b))
           y == Newest(Bases(a, b) \ {x})
<1>0. Len(commits) \in Nat
  BY DEF IsHistory
<1>1. Bases(a, b) \subseteq 1 .. Len(commits)
  BY TreeOfACommit DEF Bases
<1>2. x \in 0 .. Len(commits) /\ y \in 0 .. Len(commits)
  BY <1>0, <1>1, NewestIsOneOf
<1>3. BaseTree(a, b) = IF y = 0 THEN Git!Tree(commits, x) ELSE MergedBases(x, y)
  BY DEF BaseTree
<1> HIDE DEF x, y
<1>4. MergedBases(x, y) \in Trees /\ Dated(MergedBases(x, y), Len(commits))
  <2>1. Bases(x, y) \subseteq 1 .. Len(commits)
    BY <1>2, TreeOfACommit DEF Bases
  <2>2. Newest(Bases(x, y)) \in 0 .. Len(commits)
    BY <1>0, <2>1, NewestIsOneOf
  <2> QED BY <1>0, <1>2, <2>2, TreeOfACommit, MergedTree DEF MergedBases
<1> QED BY <1>2, <1>3, <1>4, TreeOfACommit

(* What git makes of a clone.                                              *)
LEMMA CloneLater ==
  ASSUME NEW n \in Nat, NEW m \in Nat, n <= m, NEW r, IsClone(r, n)
  PROVE  IsClone(r, m)
<1>1. r.work \in Trees /\ r.index \in Trees
  BY DEF IsClone
<1>2. Dated(r.work, m) /\ Dated(r.index, m)
  BY <1>1, DatedLater DEF IsClone
<1>3. r \in [work : Trees, index : Trees, head : {"own"}, refs : [{"own"} -> 0 .. m]]
  BY DEF IsClone
<1> QED BY <1>2, <1>3 DEF IsClone

LEMMA TipOfAClone ==
  ASSUME NEW n, NEW r, IsClone(r, n)
  PROVE  Git!Tip(r) \in 0 .. n /\ Git!Tip(r) = r.refs["own"]
BY DEF IsClone, Git!Tip

LEMMA TreeFromTwo ==
  ASSUME NEW n, NEW x \in Trees, NEW y \in Trees, Dated(x, n), Dated(y, n),
         NEW t, t \in [SyncPaths -> UNION {{x[p], y[p]} : p \in SyncPaths}],
         \A p \in SyncPaths : t[p] = x[p] \/ t[p] = y[p]
  PROVE  t \in Trees /\ Dated(t, n)
<1>1. \A p \in SyncPaths : t[p] \in Seq(Writings)
  BY DEF Trees
<1>2. t \in Trees
  BY <1>1 DEF Trees
<1>3. Dated(t, n)
  BY QuestionIsAPath DEF Dated
<1> QED BY <1>2, <1>3

LEMMA StagedClone ==
  ASSUME NEW n, NEW r, IsClone(r, n), NEW ps, NEW s, s = Git!StagedPaths(r, ps)
  PROVE  /\ IsClone(s, n) /\ Git!Tip(s) = Git!Tip(r) /\ s.work = r.work
         /\ \A p \in SyncPaths : s.index[p] = IF p \in ps THEN r.work[p] ELSE r.index[p]
<1> DEFINE t == [p \in SyncPaths |-> IF p \in ps THEN r.work[p] ELSE r.index[p]]
<1>1. s = [r EXCEPT !.index = t]
  BY DEF Git!StagedPaths
<1>2. r \in [work : Trees, index : Trees, head : {"own"}, refs : [{"own"} -> 0 .. n]]
      /\ Dated(r.work, n) /\ Dated(r.index, n)
  BY DEF IsClone
<1>3. \A p \in SyncPaths : t[p] = IF p \in ps THEN r.work[p] ELSE r.index[p]
  OBVIOUS
<1>4. t \in [SyncPaths -> UNION {{r.work[p], r.index[p]} : p \in SyncPaths}]
  OBVIOUS
<1> HIDE DEF t
<1>5. t \in Trees /\ Dated(t, n)
  BY <1>2, <1>3, <1>4, TreeFromTwo
<1>6. s.work = r.work /\ s.index = t /\ s.head = r.head /\ s.refs = r.refs
      /\ s \in [work : Trees, index : Trees, head : {"own"}, refs : [{"own"} -> 0 .. n]]
  BY <1>1, <1>2, <1>5
<1> QED BY <1>2, <1>3, <1>5, <1>6 DEF IsClone, Git!Tip

LEMMA TakenClone ==
  ASSUME NEW n, NEW r, IsClone(r, n), NEW result \in Trees, Dated(result, n),
         NEW s, s = Taken(r, result)
  PROVE  IsClone(s, n) /\ Git!Tip(s) = Git!Tip(r)
<1> DEFINE t == [p \in SyncPaths |-> IF result[p] # r.index[p] THEN result[p] ELSE r.work[p]]
<1>1. s = [r EXCEPT !.index = result, !.work = t]
  BY DEF Taken
<1>2. r \in [work : Trees, index : Trees, head : {"own"}, refs : [{"own"} -> 0 .. n]]
      /\ Dated(r.work, n) /\ Dated(r.index, n)
  BY DEF IsClone
<1>3. \A p \in SyncPaths : t[p] = result[p] \/ t[p] = r.work[p]
  OBVIOUS
<1>4. t \in [SyncPaths -> UNION {{result[p], r.work[p]} : p \in SyncPaths}]
  OBVIOUS
<1> HIDE DEF t
<1>5. t \in Trees /\ Dated(t, n)
  BY <1>2, <1>3, <1>4, TreeFromTwo
<1>6. s.work = t /\ s.index = result /\ s.head = r.head /\ s.refs = r.refs
      /\ s \in [work : Trees, index : Trees, head : {"own"}, refs : [{"own"} -> 0 .. n]]
  BY <1>1, <1>2, <1>5
<1> QED BY <1>2, <1>5, <1>6 DEF IsClone, Git!Tip

LEMMA AdvancedClone ==
  ASSUME NEW r, Len(commits) \in Nat, IsClone(r, Len(commits)), NEW s, s = Git!Advanced(commits, r)
  PROVE  /\ IsClone(s, Len(commits) + 1) /\ Git!Tip(s) = Len(commits) + 1
         /\ s.work = r.work /\ s.index = r.index
<1>1. IsClone(r, Len(commits) + 1)
  BY CloneLater
<1>2. r \in [work : Trees, index : Trees, head : {"own"}, refs : [{"own"} -> 0 .. Len(commits) + 1]]
  BY <1>1 DEF IsClone
<1>3. s = [r EXCEPT !.refs["own"] = Len(commits) + 1]
  BY <1>2 DEF Git!Advanced
<1>4. s \in [work : Trees, index : Trees, head : {"own"}, refs : [{"own"} -> 0 .. Len(commits) + 1]]
      /\ s.work = r.work /\ s.index = r.index /\ s.refs["own"] = Len(commits) + 1
  BY <1>2, <1>3
<1> QED BY <1>1, <1>4, TipOfAClone DEF IsClone

\* The user writes and deletes files, but no questions.
LEMMA TouchedClone ==
  ASSUME NEW n \in Nat, NEW r, IsClone(r, n), NEW p \in Notes, NEW text \in Seq(Writings),
         NEW s, s = [r EXCEPT !.work[p] = text]
  PROVE  IsClone(s, n) /\ s.index = r.index /\ Git!Tip(s) = Git!Tip(r)
<1>1. r \in [work : Trees, index : Trees, head : {"own"}, refs : [{"own"} -> 0 .. n]]
      /\ Dated(r.work, n) /\ Dated(r.index, n)
  BY DEF IsClone
<1> DEFINE t == [r.work EXCEPT ![p] = text]
<1>2. t \in Trees
  BY <1>1 DEF Trees
<1>3. Dated(t, n)
  <2> SUFFICES ASSUME NEW d \in Dev PROVE t[Question(d)] = r.work[Question(d)]
    BY <1>1 DEF Dated
  <2>1. Question(d) \in SyncPaths /\ Question(d) # p
    BY QuestionIsAPath, QuestionsAreNew
  <2> QED BY <1>1, <2>1 DEF Trees
<1>4. s = [r EXCEPT !.work = t]
  BY <1>1
<1> HIDE DEF t
<1>5. s.work = t /\ s.index = r.index /\ s.head = r.head /\ s.refs = r.refs
      /\ s \in [work : Trees, index : Trees, head : {"own"}, refs : [{"own"} -> 0 .. n]]
  BY <1>1, <1>2, <1>4
<1> QED BY <1>1, <1>3, <1>5 DEF IsClone, Git!Tip

LEMMA UnstagedClone ==
  ASSUME NEW n \in Nat, NEW r, IsClone(r, n), NEW p \in SyncPaths,
         NEW s, s = Git!RemovedFromIndex(r, p)
  PROVE  IsClone(s, n)
<1>1. r \in [work : Trees, index : Trees, head : {"own"}, refs : [{"own"} -> 0 .. n]]
      /\ Dated(r.work, n) /\ Dated(r.index, n)
  BY DEF IsClone
<1> DEFINE t == [q \in SyncPaths |-> IF q = p THEN Git!Nothing[q] ELSE r.index[q]]
<1>2. t = [r.index EXCEPT ![p] = Gone]
  BY <1>1 DEF Git!Nothing, Trees
<1>3. \A q \in SyncPaths : t[q] = Git!Nothing[q] \/ t[q] = r.index[q]
  OBVIOUS
<1>4. t \in [SyncPaths -> UNION {{Git!Nothing[q], r.index[q]} : q \in SyncPaths}]
  OBVIOUS
<1>5. s = [r EXCEPT !.index = t]
  BY <1>1, <1>2 DEF Git!RemovedFromIndex
<1> HIDE DEF t
<1>6. t \in Trees /\ Dated(t, n)
  BY <1>1, <1>3, <1>4, NothingIsATree, TreeFromTwo
<1>7. s.work = r.work /\ s.index = t
      /\ s \in [work : Trees, index : Trees, head : {"own"}, refs : [{"own"} -> 0 .. n]]
  BY <1>1, <1>5, <1>6
<1> QED BY <1>1, <1>6, <1>7 DEF IsClone

(* The question itself, as late as the commits there are.                  *)
WithQuestion(r, d, n) == [r EXCEPT !.work[Question(d)] = Append(@, <<d, n>>)]

LEMMA AskingClone ==
  ASSUME NEW n \in Nat, NEW d \in Dev, NEW r, IsClone(r, n), NEW s, s = WithQuestion(r, d, n)
  PROVE  /\ IsClone(s, n) /\ Git!Tip(s) = Git!Tip(r)
         /\ \E i \in DOMAIN s.work[Question(d)] : s.work[Question(d)][i][2] = n
<1>1. r \in [work : Trees, index : Trees, head : {"own"}, refs : [{"own"} -> 0 .. n]]
      /\ Dated(r.work, n) /\ Dated(r.index, n)
  BY DEF IsClone
<1> DEFINE q == Question(d)
           v == <<d, n>>
           x == r.work[q]
           y == Append(x, v)
           t == [r.work EXCEPT ![q] = y]
<1>2. q \in SyncPaths /\ x \in Seq(Writings) /\ v \in Writings /\ v[2] = n
  BY <1>1, QuestionIsAPath, WritingOf DEF Trees
<1>3. s = [r EXCEPT !.work = t]
  BY <1>1 DEF WithQuestion
<1> HIDE DEF q, v
<1>4. y \in Seq(Writings) /\ Len(y) \in DOMAIN y /\ y[Len(y)] = v
      /\ \A i \in DOMAIN y : y[i] = v \/ (i \in DOMAIN x /\ y[i] = x[i])
  BY <1>2
<1> HIDE DEF y
<1>5. t \in Trees /\ t[q] = y
  BY <1>1, <1>2, <1>4 DEF Trees
<1>6. Dated(t, n)
  <2> SUFFICES ASSUME NEW e \in Dev, NEW i \in DOMAIN t[Question(e)]
               PROVE  t[Question(e)][i][2] <= n
    BY DEF Dated
  <2>1. CASE Question(e) = q
    <3>1. y[i] = v \/ (i \in DOMAIN r.work[Question(e)] /\ y[i] = r.work[Question(e)][i])
      BY <1>4, <1>5, <2>1
    <3> QED BY <1>1, <1>2, <1>5, <2>1, <3>1 DEF Dated
  <2>2. CASE Question(e) # q
    <3>1. t[Question(e)] = r.work[Question(e)]
      BY <1>1, <2>2, QuestionIsAPath DEF Trees
    <3> QED BY <1>1, <3>1 DEF Dated
  <2> QED BY <2>1, <2>2
<1> HIDE DEF t
<1>7. s.work = t /\ s.index = r.index /\ s.head = r.head /\ s.refs = r.refs
      /\ s \in [work : Trees, index : Trees, head : {"own"}, refs : [{"own"} -> 0 .. n]]
  BY <1>1, <1>3, <1>5
<1>8. \E i \in DOMAIN s.work[q] : s.work[q][i][2] = n
  BY <1>2, <1>4, <1>5, <1>7
<1> QED BY <1>1, <1>6, <1>7, <1>8 DEF IsClone, Git!Tip, q

(* What is added to the history.                                           *)
LEMMA Appended ==
  ASSUME IsHistory(commits), NEW c \in Stored, IsCommit(c, Len(commits) + 1),
         NEW h, h = Append(commits, c)
  PROVE  IsHistory(h) /\ Len(h) = Len(commits) + 1
<1>1. commits \in Seq(Stored) /\ Len(commits) \in Nat
  BY DEF IsHistory
<1>2. h \in Seq(Stored) /\ Len(h) = Len(commits) + 1
      /\ \A k \in 1 .. Len(h) : h[k] = IF k <= Len(commits) THEN commits[k] ELSE c
  BY <1>1
<1>3. ASSUME NEW k \in 1 .. Len(h) PROVE IsCommit(h[k], k)
  <2>1. CASE k <= Len(commits)
    BY <1>1, <1>2, <2>1 DEF IsHistory
  <2>2. CASE k > Len(commits)
    <3>1. k = Len(commits) + 1 /\ h[k] = c
      BY <1>1, <1>2, <2>2
    <3> QED BY <3>1
  <2> QED BY <1>1, <1>2, <2>1, <2>2
<1> QED BY <1>2, <1>3 DEF IsHistory

LEMMA NewCommitIsStored ==
  ASSUME IsHistory(commits), NEW r, IsClone(r, Len(commits)), NEW own \in SUBSET SyncPaths,
         NEW c, c = Git!NewCommit(commits, r, own)
  PROVE  c \in Stored /\ IsCommit(c, Len(commits) + 1)
<1>1. Len(commits) \in Nat
  BY DEF IsHistory
<1>2. Git!Tip(r) \in 0 .. Len(commits) /\ r.index \in Trees /\ Dated(r.index, Len(commits))
  BY TipOfAClone DEF IsClone
<1>3. Git!Ancestors(commits, Git!Tip(r)) \subseteq 1 .. Len(commits)
  BY <1>2, TreeOfACommit
<1>4. Git!Ancestors(commits, Git!Tip(r)) \cup {Len(commits) + 1} \subseteq 1 .. Len(commits) + 1
  BY <1>1, <1>3
<1>5. Len(commits) + 1 - 1 = Len(commits)
  BY <1>1
<1> QED BY <1>1, <1>2, <1>4, <1>5 DEF Git!NewCommit, Stored, IsCommit

LEMMA MergeCommitIsStored ==
  ASSUME IsHistory(commits), NEW a \in 0 .. Len(commits), NEW b \in 0 .. Len(commits),
         NEW tree \in Trees, Dated(tree, Len(commits)), NEW c, c = MergeCommit(a, b, tree)
  PROVE  c \in Stored /\ IsCommit(c, Len(commits) + 1)
<1>1. Len(commits) \in Nat
  BY DEF IsHistory
<1>2. /\ Git!Ancestors(commits, a) \subseteq 1 .. Len(commits)
      /\ Git!Ancestors(commits, b) \subseteq 1 .. Len(commits)
  BY TreeOfACommit
<1>3. c.anc \subseteq 1 .. Len(commits) + 1 /\ c.anc \subseteq Nat
  BY <1>1, <1>2 DEF MergeCommit
<1>4. Len(commits) + 1 - 1 = Len(commits)
  BY <1>1
<1> QED BY <1>1, <1>3, <1>4 DEF MergeCommit, Stored, IsCommit

(* A step of one device leaves the invariant true of the others.           *)
LEMMA StepKeeps ==
  ASSUME SyncInv, NEW d \in Dev, IsHistory(commits'), Len(commits) <= Len(commits'),
         NEW r, clone' = [clone EXCEPT ![d] = r], IsClone(r, Len(commits')),
         NEW m, open' = [open EXCEPT ![d] = m], IsMerge(m, Len(commits')),
         NEW s, syncing' = [syncing EXCEPT ![d] = s], IsSync(s, Len(commits')),
         Asked(d, r, m, s), remote' \in [Dev -> 0 .. Len(commits')], edits' \in Nat
  PROVE  SyncInv'
<1>1. Len(commits) \in Nat /\ Len(commits') \in Nat
  BY DEF SyncInv, IsHistory
<1>2. /\ clone' = [e \in Dev |-> clone'[e]] /\ open' = [e \in Dev |-> open'[e]]
      /\ syncing' = [e \in Dev |-> syncing'[e]]
      /\ clone'[d] = r /\ open'[d] = m /\ syncing'[d] = s
      /\ \A e \in Dev \ {d} : clone'[e] = clone[e] /\ open'[e] = open[e] /\ syncing'[e] = syncing[e]
  BY DEF SyncInv
<1>3. ASSUME NEW e \in Dev
      PROVE  /\ IsClone(clone'[e], Len(commits')) /\ IsMerge(open'[e], Len(commits'))
             /\ IsSync(syncing'[e], Len(commits')) /\ Asked(e, clone'[e], open'[e], syncing'[e])
  <2>1. CASE e = d
    BY <1>2, <2>1
  <2>2. CASE e # d
    <3>1. /\ IsClone(clone[e], Len(commits)) /\ IsMerge(open[e], Len(commits))
          /\ IsSync(syncing[e], Len(commits)) /\ Asked(e, clone[e], open[e], syncing[e])
      BY DEF SyncInv
    <3>2. IsClone(clone[e], Len(commits'))
      BY <1>1, <3>1, CloneLater
    <3>3. IsMerge(open[e], Len(commits')) /\ IsSync(syncing[e], Len(commits'))
      BY <1>1, <3>1 DEF IsMerge, IsSync
    <3> QED BY <1>2, <2>2, <3>1, <3>2, <3>3
  <2> QED BY <2>1, <2>2
<1> QED BY <1>2, <1>3 DEF SyncInv

LEMMA DeviceFacts ==
  ASSUME SyncInv, NEW d \in Dev
  PROVE  /\ IsHistory(commits) /\ Len(commits) \in Nat /\ Len(commits) <= Len(commits)
         /\ IsClone(clone[d], Len(commits)) /\ IsMerge(open[d], Len(commits))
         /\ IsSync(syncing[d], Len(commits)) /\ Asked(d, clone[d], open[d], syncing[d])
         /\ clone = [clone EXCEPT ![d] = clone[d]] /\ open = [open EXCEPT ![d] = open[d]]
         /\ syncing = [syncing EXCEPT ![d] = syncing[d]]
         /\ remote \in [Dev -> 0 .. Len(commits)] /\ edits \in Nat
         /\ TipOf(d) = Git!Tip(clone[d]) /\ TipOf(d) \in 0 .. Len(commits)
<1>1. Len(commits) \in Nat
  BY DEF SyncInv, IsHistory
<1>2. clone = [clone EXCEPT ![d] = clone[d]] /\ open = [open EXCEPT ![d] = open[d]]
      /\ syncing = [syncing EXCEPT ![d] = syncing[d]]
  BY DEF SyncInv
<1>3. IsClone(clone[d], Len(commits))
  BY DEF SyncInv
<1> QED BY <1>1, <1>2, <1>3, TipOfAClone DEF SyncInv, TipOf

LEMMA Elsewhere ==
  ASSUME NEW d, NEW r, NEW m, NEW s, s.step # "resolve"
  PROVE  Asked(d, r, m, s)
BY DEF Asked

LEMMA GoneTo ==
  ASSUME NEW n \in Nat, NEW s, IsSync(s, n), NEW x \in SyncSteps
  PROVE  IsSync([s EXCEPT !.step = x], n) /\ [s EXCEPT !.step = x].step = x
BY DEF IsSync

LEMMA StepTo ==
  ASSUME SyncInv, NEW d \in Dev, NEW x \in SyncSteps, NEW s, s = [syncing[d] EXCEPT !.step = x]
  PROVE  IsSync(s, Len(commits)) /\ s.step = x
<1>1. IsSync(syncing[d], Len(commits)) /\ Len(commits) \in Nat
  BY DeviceFacts
<1> QED BY <1>1, GoneTo

LEMMA RestingIsSync ==
  ASSUME NEW n \in Nat PROVE IsSync(Resting, n) /\ Resting.step # "resolve"
<1>1. NoBranches \in [DOMAIN Devices -> 0 .. n]
  BY DEF NoBranches
<1> QED BY <1>1 DEF IsSync, Resting, SyncSteps

LEMMA NoMergeIsMerge == \A n \in Nat : IsMerge(NoMerge, n)
BY DEF IsMerge, NoMerge

LEMMA GoneIsText == Gone \in Seq(Writings)
BY DEF Gone

LEMMA TouchKeeps ==
  ASSUME SyncInv, NEW d \in Dev, NEW p \in Notes, NEW text \in Seq(Writings), Touch(d, p, text),
         UNCHANGED <<commits, remote, open, syncing>>
  PROVE  SyncInv'
<1> DEFINE r == [clone[d] EXCEPT !.work[p] = text]
<1>1. clone' = [clone EXCEPT ![d] = r]
  BY DEF Touch
<1>2. edits' \in Nat
  BY DEF Touch, SyncInv
<1>3. IsClone(r, Len(commits)) /\ r.index = clone[d].index /\ Git!Tip(r) = Git!Tip(clone[d])
  BY DeviceFacts, TouchedClone
<1>4. Asked(d, r, open[d], syncing[d])
  BY <1>3, DeviceFacts DEF Asked
<1> HIDE DEF r
<1> QED BY <1>1, <1>2, <1>3, <1>4, DeviceFacts, StepKeeps

LEMMA EditKeeps ==
  ASSUME SyncInv, NEW d \in Dev, NEW p \in Notes, Edit(d, p) \/ DeleteFile(d, p)
  PROVE  SyncInv'
<1>1. <<d, edits + 1>> \in Writings
  BY WritingOf DEF SyncInv
<1>2. << <<d, edits + 1>> >> \in Seq(Writings)
  BY <1>1
<1>3. CASE Edit(d, p)
  BY <1>2, <1>3, TouchKeeps DEF Edit
<1>4. CASE DeleteFile(d, p)
  BY <1>4, GoneIsText, TouchKeeps DEF DeleteFile
<1> QED BY <1>3, <1>4

LEMMA CommittedKeeps ==
  ASSUME SyncInv, NEW d \in Dev, NEW r, IsClone(r, Len(commits)),
         NEW c \in Stored, IsCommit(c, Len(commits) + 1), commits' = Append(commits, c),
         clone' = [clone EXCEPT ![d] = Git!Advanced(commits, r)],
         NEW m, open' = [open EXCEPT ![d] = m], m \in {open[d], NoMerge},
         NEW s, syncing' = [syncing EXCEPT ![d] = s], IsSync(s, Len(commits)), s.step # "resolve",
         remote' = remote, edits' \in Nat
  PROVE  SyncInv'
<1> DEFINE n == Len(commits)
<1>1. IsHistory(commits') /\ Len(commits') = n + 1 /\ n \in Nat
  BY DeviceFacts, Appended
<1>2. IsClone(Git!Advanced(commits, r), n + 1)
  BY <1>1, AdvancedClone
<1>3. IsMerge(m, n)
  BY <1>1, DeviceFacts, NoMergeIsMerge
<1>4. IsMerge(m, n + 1) /\ IsSync(s, n + 1) /\ remote' \in [Dev -> 0 .. n + 1]
  BY <1>1, <1>3, DeviceFacts DEF IsMerge, IsSync
<1>5. Asked(d, Git!Advanced(commits, r), m, s)
  BY Elsewhere
<1>6. Len(commits) <= Len(commits') /\ n + 1 = Len(commits')
  BY <1>1
<1> HIDE DEF n
<1>7. IsClone(Git!Advanced(commits, r), Len(commits')) /\ IsMerge(m, Len(commits'))
      /\ IsSync(s, Len(commits')) /\ remote' \in [Dev -> 0 .. Len(commits')]
  BY <1>2, <1>4, <1>6
<1> QED BY <1>1, <1>5, <1>6, <1>7, StepKeeps

LEMMA ForgetItemKeeps ==
  ASSUME SyncInv, NEW d \in Dev, NEW p \in Notes, ForgetItem(d, p)
  PROVE  SyncInv'
<1> DEFINE w == [clone[d] EXCEPT !.work[p] = Gone]
           r == Git!RemovedFromIndex(w, p)
<1>1. p \in SyncPaths
  BY DEF SyncPaths
<1>2. IsClone(w, Len(commits))
  BY DeviceFacts, TouchedClone, GoneIsText
<1>3. IsClone(r, Len(commits))
  BY <1>1, <1>2, DeviceFacts, UnstagedClone
<1>4. /\ commits' = Append(commits, Git!NewCommit(commits, r, {p}))
      /\ clone' = [clone EXCEPT ![d] = Git!Advanced(commits, r)]
      /\ open' = open /\ syncing' = syncing /\ remote' = remote /\ edits' \in Nat
      /\ syncing[d].step # "resolve"
  BY DEF ForgetItem, At, SyncInv
<1> HIDE DEF r
<1> DEFINE c == Git!NewCommit(commits, r, {p})
<1>5. /\ open' = [open EXCEPT ![d] = open[d]] /\ syncing' = [syncing EXCEPT ![d] = syncing[d]]
      /\ IsSync(syncing[d], Len(commits)) /\ {p} \in SUBSET SyncPaths
  BY <1>1, <1>4, DeviceFacts
<1>6. c \in Stored /\ IsCommit(c, Len(commits) + 1)
  BY <1>3, <1>5, DeviceFacts, NewCommitIsStored
<1> HIDE DEF c
<1>7. commits' = Append(commits, c)
  BY <1>4 DEF c
<1> QED BY <1>3, <1>4, <1>5, <1>6, <1>7, CommittedKeeps

LEMMA CycleKeeps ==
  ASSUME SyncInv, NEW d \in Dev, Cycle(d)
  PROVE  SyncInv'
<1> DEFINE ps == Git!AddedOrModified(commits, clone[d]) \cup open[d].paths
           r == Git!StagedPaths(clone[d], ps)
           s == [syncing[d] EXCEPT !.step = "fetch"]
<1>0. syncing' = [syncing EXCEPT ![d] = s]
  BY DEF Cycle, Goto
<1>1. IsSync(s, Len(commits)) /\ s.step # "resolve"
  <2>1. IsSync(s, Len(commits)) /\ s.step = "fetch"
    <3>1. "fetch" \in SyncSteps
      BY DEF SyncSteps
    <3> QED BY <3>1, StepTo
  <2> HIDE DEF s
  <2> QED BY <2>1
<1>2. remote' = remote /\ edits' = edits
  BY DEF Cycle
<1>3. CASE UNCHANGED <<clone, commits, open>>
  <2> HIDE DEF s
  <2>1. /\ clone' = [clone EXCEPT ![d] = clone[d]] /\ open' = [open EXCEPT ![d] = open[d]]
        /\ commits' = commits /\ remote' \in [Dev -> 0 .. Len(commits)] /\ edits' \in Nat
    BY <1>2, <1>3, DeviceFacts
  <2>2. Asked(d, clone[d], open[d], s)
    BY <1>1, Elsewhere
  <2> QED BY <1>0, <1>1, <2>1, <2>2, DeviceFacts, StepKeeps
<1>4. CASE /\ commits' = Append(commits, Git!NewCommit(commits, r, ps))
           /\ clone' = [clone EXCEPT ![d] = Git!Advanced(commits, r)]
           /\ open' = [open EXCEPT ![d] = NoMerge]
  <2>1. ps \in SUBSET SyncPaths
    BY DeviceFacts DEF Git!AddedOrModified, IsMerge
  <2>2. IsClone(r, Len(commits))
    BY DeviceFacts, StagedClone
  <2> DEFINE c == Git!NewCommit(commits, r, ps)
  <2> HIDE DEF ps, r, s
  <2>3. c \in Stored /\ IsCommit(c, Len(commits) + 1)
    BY <2>1, <2>2, DeviceFacts, NewCommitIsStored
  <2>4. commits' = Append(commits, c)
    BY <1>4
  <2> HIDE DEF c
  <2> QED BY <1>0, <1>1, <1>2, <1>4, <2>2, <2>3, <2>4, DeviceFacts, CommittedKeeps
<1> QED BY <1>3, <1>4 DEF Cycle

LEMMA SyncCommandKeeps ==
  ASSUME SyncInv, NEW d \in Dev, SyncCommand(d)
  PROVE  SyncInv'
<1> DEFINE s == [syncing[d] EXCEPT !.step = "fetch"]
<1>1. /\ syncing' = [syncing EXCEPT ![d] = s]
      /\ clone' = clone /\ commits' = commits /\ open' = open /\ remote' = remote /\ edits' = edits
  BY DEF SyncCommand, Goto
<1>2. IsSync(s, Len(commits)) /\ s.step = "fetch"
  <2>1. "fetch" \in SyncSteps
    BY DEF SyncSteps
  <2> QED BY <2>1, StepTo
<1> HIDE DEF s
<1>3. Asked(d, clone[d], open[d], s)
  BY <1>2, Elsewhere
<1> QED BY <1>1, <1>2, <1>3, DeviceFacts, StepKeeps

\* Steps that change what a sync has to do and the open merge, and nothing else.
LEMMA TurnKeeps ==
  ASSUME SyncInv, NEW d \in Dev, NEW s, IsSync(s, Len(commits)), s.step # "resolve",
         syncing' = [syncing EXCEPT ![d] = s], NEW m \in {open[d], NoMerge},
         open' = [open EXCEPT ![d] = m], UNCHANGED <<clone, commits, edits>>,
         remote' \in [Dev -> 0 .. Len(commits)]
  PROVE  SyncInv'
<1>1. IsMerge(m, Len(commits))
  BY DeviceFacts, NoMergeIsMerge
<1>2. Asked(d, clone[d], m, s)
  BY Elsewhere
<1> QED BY <1>1, <1>2, DeviceFacts, StepKeeps

LEMMA RestKeeps ==
  ASSUME SyncInv, NEW d \in Dev, Fail(d), UNCHANGED <<clone, commits, open, edits>>,
         remote' \in [Dev -> 0 .. Len(commits)]
  PROVE  SyncInv'
<1>1. syncing' = [syncing EXCEPT ![d] = Resting]
  BY DEF Fail
<1> QED BY <1>1, DeviceFacts, RestingIsSync, TurnKeeps

\* A sync that begins to merge.
LEMMA Merging ==
  ASSUME NEW n \in Nat, NEW todo \in [DOMAIN Devices -> 0 .. n], NEW b \in BOOLEAN,
         NEW s, s = [step |-> "merge", pushes |-> b, todo |-> todo]
  PROVE  IsSync(s, n) /\ s.step # "resolve"
BY DEF IsSync, SyncSteps

LEMMA FetchKeeps ==
  ASSUME SyncInv, NEW d \in Dev, Fetch(d)
  PROVE  SyncInv'
<1> DEFINE s == [step |-> "merge", pushes |-> TRUE, todo |-> OtherBranches(d)]
<1>1. UNCHANGED <<clone, commits, remote, edits>>
  BY DEF Fetch
<1>2. CASE Fail(d) /\ open' = open
  BY <1>1, <1>2, DeviceFacts, RestKeeps
<1>3. CASE syncing' = [syncing EXCEPT ![d] = s] /\ open' = [open EXCEPT ![d] = NoMerge]
  <2>1. \A i \in DOMAIN Devices : Devices[i] \in Dev
    BY DEF Dev, ToSet
  <2>2. OtherBranches(d) \in [DOMAIN Devices -> 0 .. Len(commits)]
    BY <2>1, DeviceFacts DEF OtherBranches
  <2>3. IsSync(s, Len(commits)) /\ s.step # "resolve"
    BY <2>2, DeviceFacts, Merging
  <2> HIDE DEF s
  <2> QED BY <1>1, <1>3, <2>3, DeviceFacts, TurnKeeps
<1> QED BY <1>2, <1>3 DEF Fetch

LEMMA BundleImportKeeps ==
  ASSUME SyncInv, NEW d \in Dev, BundleImport(d)
  PROVE  SyncInv'
<1>0. PICK i \in DOMAIN Devices :
         \E c \in Bundled(Devices[i]) \ Bundled(d) :
           syncing' = [syncing EXCEPT ![d] = [step |-> "merge", pushes |-> FALSE,
                                              todo |-> [NoBranches EXCEPT ![i] = c]]]
  BY DEF BundleImport
<1>1. PICK c \in Bundled(Devices[i]) \ Bundled(d) :
         syncing' = [syncing EXCEPT ![d] = [step |-> "merge", pushes |-> FALSE,
                                            todo |-> [NoBranches EXCEPT ![i] = c]]]
  BY <1>0
<1>2. Devices[i] \in Dev
  BY DEF Dev, ToSet
<1>3. c \in 1 .. Len(commits)
  BY <1>2, DeviceFacts, TreeOfACommit DEF Bundled
<1> DEFINE todo == [NoBranches EXCEPT ![i] = c]
           s == [step |-> "merge", pushes |-> FALSE, todo |-> todo]
<1>4. todo \in [DOMAIN Devices -> 0 .. Len(commits)]
  BY <1>3, DeviceFacts DEF NoBranches
<1>5. syncing' = [syncing EXCEPT ![d] = s]
  BY <1>1
<1> HIDE DEF todo
<1>6. IsSync(s, Len(commits)) /\ s.step # "resolve"
  BY <1>4, DeviceFacts, Merging
<1> HIDE DEF s
<1>7. UNCHANGED <<clone, commits, remote, edits>> /\ open' = [open EXCEPT ![d] = NoMerge]
  BY DEF BundleImport
<1> QED BY <1>5, <1>6, <1>7, DeviceFacts, TurnKeeps

LEMMA BranchDone ==
  ASSUME SyncInv, NEW d \in Dev
  PROVE  /\ AfterNext(d) \in [DOMAIN Devices -> 0 .. Len(commits)]
         /\ IsSync([syncing[d] EXCEPT !.todo = AfterNext(d)], Len(commits))
<1>1. syncing[d] \in [step : SyncSteps, todo : [DOMAIN Devices -> 0 .. Len(commits)],
                      pushes : BOOLEAN] /\ Len(commits) \in Nat
  BY DeviceFacts DEF IsSync
<1>2. AfterNext(d) \in [DOMAIN Devices -> 0 .. Len(commits)]
  BY <1>1 DEF AfterNext
<1> QED BY <1>1, <1>2 DEF IsSync

LEMMA MergeIsATree ==
  ASSUME IsHistory(commits), NEW a \in 0 .. Len(commits), NEW b \in 0 .. Len(commits),
         NEW m, m = MergeOf(BaseTree(a, b), a, b)
  PROVE  /\ m.theirs = b /\ m.tree \in Trees /\ Dated(m.tree, Len(commits))
         /\ m.conflicts \in SUBSET SyncPaths
<1>1. Len(commits) \in Nat
  BY DEF IsHistory
<1>2. /\ m.theirs = b /\ m.conflicts \in SUBSET SyncPaths
      /\ m.tree = [p \in SyncPaths |-> Merged(BaseTree(a, b)[p], Git!Tree(commits, a)[p],
                                              Git!Tree(commits, b)[p])]
  BY DEF MergeOf
<1> QED BY <1>1, <1>2, BaseIsATree, TreeOfACommit, MergedTree

LEMMA ForwardClone ==
  ASSUME NEW n, NEW r, IsClone(r, n), NEW b \in 0 .. n, NEW s, s = [r EXCEPT !.refs["own"] = b]
  PROVE  IsClone(s, n)
BY DEF IsClone

LEMMA MergeNextKeeps ==
  ASSUME SyncInv, NEW d \in Dev, MergeNext(d)
  PROVE  SyncInv'
<1>1. PICK i \in DOMAIN Devices :
         \E m \in {MergeOf(BaseTree(TipOf(d), syncing[d].todo[i]), TipOf(d), syncing[d].todo[i])} :
           \/ UpToDate(d, m)
           \/ Fail(d) /\ UNCHANGED <<clone, commits, open>>
           \/ FastForward(d, m) \/ CleanMerge(d, m) \/ OpenMerge(d, m)
  BY DEF MergeNext
<1> DEFINE n == Len(commits)
           a == TipOf(d)
           b == syncing[d].todo[i]
           m == MergeOf(BaseTree(a, b), a, b)
           s == [syncing[d] EXCEPT !.todo = AfterNext(d)]
<1>2. remote' = remote /\ edits' = edits /\ syncing[d].step = "merge"
  BY DEF MergeNext, At
<1>3. IsHistory(commits) /\ n \in Nat /\ a \in 0 .. n /\ b \in 0 .. n
  BY DeviceFacts DEF IsSync
<1>4. m.theirs = b /\ m.tree \in Trees /\ Dated(m.tree, n) /\ m.conflicts \in SUBSET SyncPaths
  BY <1>3, MergeIsATree
<1>5. \/ UpToDate(d, m)
      \/ Fail(d) /\ UNCHANGED <<clone, commits, open>>
      \/ FastForward(d, m) \/ CleanMerge(d, m) \/ OpenMerge(d, m)
  BY <1>1
<1> HIDE DEF m, b
<1>6. IsSync(s, n) /\ s.step # "resolve"
  BY <1>2, DeviceFacts, BranchDone DEF IsSync
<1>7. CASE UpToDate(d, m)
  <2>1. syncing' = [syncing EXCEPT ![d] = s] /\ UNCHANGED <<clone, commits, open>>
    BY <1>7 DEF UpToDate
  <2> HIDE DEF s
  <2> QED BY <1>2, <1>6, <2>1, DeviceFacts, TurnKeeps
<1>8. CASE Fail(d) /\ UNCHANGED <<clone, commits, open>>
  BY <1>2, <1>8, DeviceFacts, RestKeeps
<1>9. IsClone(Taken(clone[d], m.tree), n)
  BY <1>4, DeviceFacts, TakenClone
<1>10. CASE FastForward(d, m)
  <2> DEFINE r == [Taken(clone[d], Git!Tree(commits, b)) EXCEPT !.refs["own"] = b]
  <2>1. /\ clone' = [clone EXCEPT ![d] = r] /\ syncing' = [syncing EXCEPT ![d] = s]
        /\ UNCHANGED <<commits, open>>
    BY <1>4, <1>10 DEF FastForward
  <2>2. IsClone(r, n)
    <3>1. Git!Tree(commits, b) \in Trees /\ Dated(Git!Tree(commits, b), n)
      BY <1>3, TreeOfACommit
    <3>2. IsClone(Taken(clone[d], Git!Tree(commits, b)), n)
      BY <3>1, DeviceFacts, TakenClone
    <3> QED BY <1>3, <3>2, ForwardClone
  <2> HIDE DEF r, s
  <2>3. Asked(d, r, open[d], s)
    BY <1>6, Elsewhere
  <2> QED BY <1>2, <1>6, <2>1, <2>2, <2>3, DeviceFacts, StepKeeps
<1>11. CASE CleanMerge(d, m)
  <2> DEFINE r == Taken(clone[d], m.tree)
             c == MergeCommit(a, b, m.tree)
  <2>1. /\ commits' = Append(commits, c) /\ clone' = [clone EXCEPT ![d] = Git!Advanced(commits, r)]
        /\ syncing' = [syncing EXCEPT ![d] = s] /\ open' = open
    BY <1>4, <1>11 DEF CleanMerge
  <2>2. c \in Stored /\ IsCommit(c, n + 1)
    BY <1>3, <1>4, MergeCommitIsStored
  <2> HIDE DEF c, r, s
  <2>3. IsClone(r, n)
    BY <1>9 DEF r
  <2> QED BY <1>2, <1>6, <2>1, <2>2, <2>3, DeviceFacts, CommittedKeeps
<1>12. CASE OpenMerge(d, m)
  <2> DEFINE r == Taken(clone[d], m.tree)
             o == [theirs |-> b, paths |-> m.conflicts]
             t == [syncing[d] EXCEPT !.step = "resolve"]
  <2>1. /\ clone' = [clone EXCEPT ![d] = r] /\ open' = [open EXCEPT ![d] = o]
        /\ syncing' = [syncing EXCEPT ![d] = t] /\ commits' = commits /\ o.paths # {}
    BY <1>4, <1>12 DEF OpenMerge, Goto
  <2>2. IsMerge(o, n)
    BY <1>3, <1>4 DEF IsMerge
  <2>3. IsSync(t, n)
    <3>1. "resolve" \in SyncSteps
      BY DEF SyncSteps
    <3> QED BY <3>1, StepTo
  <2> HIDE DEF o, t
  <2>4. Asked(d, r, o, t)
    BY <2>1 DEF Asked
  <2> QED BY <1>2, <1>9, <2>1, <2>2, <2>3, <2>4, DeviceFacts, StepKeeps
<1> QED BY <1>5, <1>7, <1>8, <1>10, <1>11, <1>12

LEMMA StageSurvivorKeeps ==
  ASSUME SyncInv, NEW d \in Dev, StageSurvivor(d)
  PROVE  SyncInv'
<1>1. PICK p \in ModifyDeletePaths(d) :
         /\ clone' = [clone EXCEPT ![d] = Git!StagedPaths(@, {p})]
         /\ open' = [open EXCEPT ![d].paths = @ \ {p}]
  BY DEF StageSurvivor
<1> DEFINE r == Git!StagedPaths(clone[d], {p})
           m == [open[d] EXCEPT !.paths = @ \ {p}]
           s == [syncing[d] EXCEPT !.step = "ask"]
<1>2. clone' = [clone EXCEPT ![d] = r] /\ open' = [open EXCEPT ![d] = m]
  BY <1>1
<1>3. syncing' = [syncing EXCEPT ![d] = s] /\ UNCHANGED <<commits, remote, edits>>
  BY DEF StageSurvivor, Goto
<1>4. IsClone(r, Len(commits))
  BY DeviceFacts, StagedClone
<1>5. IsMerge(m, Len(commits))
  BY DeviceFacts DEF IsMerge
<1>6. IsSync(s, Len(commits)) /\ s.step = "ask"
  <2>1. "ask" \in SyncSteps
    BY DEF SyncSteps
  <2> QED BY <2>1, StepTo
<1> HIDE DEF r, m, s
<1>7. Asked(d, r, m, s)
  BY <1>6, Elsewhere
<1> QED BY <1>2, <1>3, <1>4, <1>5, <1>6, <1>7, DeviceFacts, StepKeeps

(* The question is staged with the number of commits there are, and the    *)
(* tips of both branches are among them.                                   *)
LEMMA AskAboutDeletionKeeps ==
  ASSUME SyncInv, NEW d \in Dev, AskAboutDeletion(d)
  PROVE  SyncInv'
<1> DEFINE n == Len(commits)
           w == WithQuestion(clone[d], d, n)
           r == Git!StagedPaths(w, {Question(d)})
           s == [syncing[d] EXCEPT !.step = "resolve"]
<1>1. /\ clone' = [clone EXCEPT ![d] = r] /\ syncing' = [syncing EXCEPT ![d] = s]
      /\ UNCHANGED <<commits, remote, open, edits>>
  BY DEF AskAboutDeletion, Goto, WithQuestion
<1>2. /\ IsClone(w, n) /\ Git!Tip(w) = Git!Tip(clone[d])
      /\ \E i \in DOMAIN w.work[Question(d)] : w.work[Question(d)][i][2] = n
  <2>1. IsClone(clone[d], n) /\ n \in Nat
    BY DeviceFacts
  <2> HIDE DEF n
  <2> QED BY <2>1, AskingClone
<1> HIDE DEF w
<1>3. IsClone(r, n) /\ Git!Tip(r) = Git!Tip(w) /\ r.index[Question(d)] = w.work[Question(d)]
  BY <1>2, StagedClone, QuestionIsAPath
<1>4. IsSync(s, n)
  <2>1. "resolve" \in SyncSteps
    BY DEF SyncSteps
  <2> QED BY <2>1, StepTo
<1> HIDE DEF r, s
<1>5. Git!Tip(r) \in 0 .. n
  BY <1>3, TipOfAClone
<1>6. \E i \in DOMAIN r.index[Question(d)] :
        r.index[Question(d)][i][2] >= Git!Tip(r) /\ r.index[Question(d)][i][2] >= open[d].theirs
  <2>1. PICK i \in DOMAIN r.index[Question(d)] : r.index[Question(d)][i][2] = n
    BY <1>2, <1>3
  <2>2. n >= Git!Tip(r) /\ n >= open[d].theirs
    BY <1>5, DeviceFacts DEF IsMerge
  <2> QED BY <2>1, <2>2
<1>7. Asked(d, r, open[d], s)
  BY <1>6 DEF Asked
<1> QED BY <1>1, <1>3, <1>4, <1>7, DeviceFacts, StepKeeps

LEMMA FinishMergeKeeps ==
  ASSUME SyncInv, NEW d \in Dev, FinishMerge(d)
  PROVE  SyncInv'
<1> DEFINE n == Len(commits)
           c == MergeCommit(TipOf(d), open[d].theirs, clone[d].index)
           t == [syncing[d] EXCEPT !.todo = AfterNext(d)]
           s == [t EXCEPT !.step = "merge"]
<1>1. remote' = remote /\ edits' = edits
  BY DEF FinishMerge
<1>2. CASE Fail(d) /\ UNCHANGED <<clone, commits, open>>
  BY <1>1, <1>2, DeviceFacts, RestKeeps
<1>3. CASE /\ commits' = Append(commits, c)
           /\ clone' = [clone EXCEPT ![d] = Git!Advanced(commits, @)]
           /\ open' = [open EXCEPT ![d] = NoMerge]
           /\ syncing' = [syncing EXCEPT ![d].step = "merge", ![d].todo = AfterNext(d)]
  <2>1. open[d].theirs \in 0 .. n /\ clone[d].index \in Trees /\ Dated(clone[d].index, n)
    BY DeviceFacts DEF IsMerge, IsClone
  <2>2. c \in Stored /\ IsCommit(c, n + 1)
    BY <2>1, DeviceFacts, MergeCommitIsStored
  <2>3. IsSync(s, n) /\ s.step = "merge"
    <3>1. "merge" \in SyncSteps
      BY DEF SyncSteps
    <3>2. IsSync(t, n) /\ n \in Nat
      BY DeviceFacts, BranchDone
    <3> HIDE DEF t
    <3> QED BY <3>1, <3>2, GoneTo
  <2>4. syncing' = [syncing EXCEPT ![d] = s]
    BY <1>3, DeviceFacts DEF SyncInv, IsSync
  <2>5. clone' = [clone EXCEPT ![d] = Git!Advanced(commits, clone[d])]
    BY <1>3
  <2> HIDE DEF c, s
  <2>6. s.step # "resolve"
    BY <2>3
  <2> QED BY <1>1, <1>3, <2>2, <2>3, <2>4, <2>5, <2>6, DeviceFacts, CommittedKeeps
<1> QED BY <1>2, <1>3 DEF FinishMerge

LEMMA PushKeeps ==
  ASSUME SyncInv, NEW d \in Dev, Push(d) \/ Breaks(d)
  PROVE  SyncInv'
<1>1. Fail(d) /\ UNCHANGED <<clone, commits, open, edits>>
  BY DEF Push, Breaks
<1>2. remote' \in {remote, [remote EXCEPT ![d] = TipOf(d)]}
  BY DEF Push, Breaks
<1>3. remote' \in [Dev -> 0 .. Len(commits)]
  BY <1>2, DeviceFacts
<1> QED BY <1>1, <1>3, RestKeeps

LEMMA SyncNextKeeps ==
  ASSUME SyncInv, [SyncNext]_syncVars
  PROVE  SyncInv'
<1>1. CASE UNCHANGED syncVars
  BY <1>1 DEF syncVars, SyncInv
<1>2. CASE SyncNext
  BY <1>2, EditKeeps, ForgetItemKeeps, SyncCommandKeeps, BundleImportKeeps, CycleKeeps, FetchKeeps,
     MergeNextKeeps, StageSurvivorKeeps, AskAboutDeletionKeeps, FinishMergeKeeps, PushKeeps
  DEF SyncNext, SyncStep
<1> QED BY <1>1, <1>2

LEMMA InitText == ASSUME NEW x \in Dev \cup {"init"} PROVE << <<x, 0>> >> \in Seq(Writings)
<1>1. <<x, 0>> \in Writings
  BY DEF Writings
<1> QED BY <1>1

LEMMA InitTrees ==
  ASSUME NEW d \in Dev
  PROVE  FreshWork(d) \in Trees /\ \A n : Dated(FreshWork(d), n)
<1> DEFINE mine == << <<d, 0>> >>
           common == << <<"init", 0>> >>
           tree == FreshWork(d)
<1>1. mine \in Seq(Writings) /\ common \in Seq(Writings)
  BY InitText
<1>2. tree \in [SyncPaths -> {mine, common, Gone}]
      /\ \A p \in SyncPaths \ (Notes \cup Plain \cup Common \cup Forgotten) : tree[p] = Gone
  BY DEF FreshWork
<1> HIDE DEF mine, common, tree
<1>3. tree \in Trees
  BY <1>1, <1>2, GoneIsText DEF Trees
<1>4. \A e \in Dev : tree[Question(e)] = Gone
  BY <1>2, QuestionIsAPath, QuestionsAreNew
<1>5. \A n : Dated(tree, n)
  BY <1>4 DEF Dated, Gone
<1> QED BY <1>3, <1>5 DEF tree

LEMMA SharedTrees ==
  ASSUME NEW tree \in {Shared, Remaining}
  PROVE  /\ tree \in Trees /\ \A n : Dated(tree, n)
         /\ \A d \in Dev : tree[Question(d)] = Gone
         /\ \A p \in SyncPaths : tree[p] \in {<< <<"init", 0>> >>, Gone}
<1> DEFINE common == << <<"init", 0>> >>
<1>1. common \in Seq(Writings)
  BY InitText
<1>2. Shared \in [SyncPaths -> {common, Gone}] /\ \A d \in Dev : Shared[Question(d)] = Gone
  BY QuestionIsAPath DEF Shared
<1> HIDE DEF common
<1>3. Remaining \in [SyncPaths -> {common, Gone}] /\ \A d \in Dev : Remaining[Question(d)] = Gone
  BY <1>2, QuestionIsAPath DEF Remaining
<1>4. tree \in [SyncPaths -> {common, Gone}] /\ \A d \in Dev : tree[Question(d)] = Gone
  BY <1>2, <1>3
<1>5. tree \in Trees
  BY <1>1, <1>4, GoneIsText DEF Trees
<1>6. \A n : Dated(tree, n)
  BY <1>4 DEF Dated, Gone
<1> QED BY <1>4, <1>5, <1>6 DEF common

LEMMA SyncStartsSound == SyncInit => SyncInv
<1> SUFFICES ASSUME SyncInit PROVE SyncInv
  OBVIOUS
<1>1. /\ remote = [d \in Dev |-> 0] /\ open = [d \in Dev |-> NoMerge]
      /\ syncing = [d \in Dev |-> Resting] /\ edits = 0
  BY DEF SyncInit
<1>2. CASE /\ commits = << [tree |-> Shared, anc |-> {1}, parent |-> 0, own |-> {}],
                          [tree |-> Remaining, anc |-> {1, 2}, parent |-> 1, own |-> Forgotten] >>
           /\ clone = [d \in Dev |-> IF d = Devices[1] THEN OnBranch(Remaining, 2) ELSE OnBranch(Shared, 1)]
  <2> DEFINE first == [tree |-> Shared, anc |-> {1}, parent |-> 0, own |-> {}]
             second == [tree |-> Remaining, anc |-> {1, 2}, parent |-> 1, own |-> Forgotten]
  <2>1. /\ Shared \in Trees /\ \A n : Dated(Shared, n)
        /\ Remaining \in Trees /\ \A n : Dated(Remaining, n)
    BY SharedTrees
  <2>2. first \in Stored /\ second \in Stored
    BY <2>1 DEF Stored, SyncPaths
  <2>3. IsCommit(first, 1) /\ IsCommit(second, 2)
    BY <2>1 DEF IsCommit
  <2> HIDE DEF first, second
  <2>4. commits = << first, second >>
    BY <1>2 DEF first, second
  <2>5. IsHistory(commits) /\ Len(commits) = 2
    <3>1. Len(commits) = 2 /\ commits[1] = first /\ commits[2] = second /\ commits \in Seq(Stored)
      BY <2>2, <2>4
    <3>2. \A c \in 1 .. 2 : c = 1 \/ c = 2
      OBVIOUS
    <3> QED BY <2>3, <3>1, <3>2 DEF IsHistory
  <2>6. IsClone(OnBranch(Remaining, 2), 2) /\ IsClone(OnBranch(Shared, 1), 2)
    BY <2>1 DEF IsClone, OnBranch
  <2>7. \A d \in Dev : IsClone(clone[d], 2)
    BY <1>2, <2>6
  <2>8. clone = [e \in Dev |-> clone[e]] /\ remote \in [Dev -> 0 .. 2]
    BY <1>1, <1>2
  <2> QED BY <1>1, <2>5, <2>7, <2>8, RestingIsSync, NoMergeIsMerge, Elsewhere DEF SyncInv
<1>3. CASE /\ commits = <<>>
           /\ clone = [d \in Dev |-> [work |-> FreshWork(d), index |-> Git!Nothing,
                                     head |-> "own", refs |-> [own |-> 0]]]
  <2>1. IsHistory(commits) /\ Len(commits) = 0
    BY <1>3 DEF IsHistory
  <2>2. ASSUME NEW d \in Dev PROVE IsClone(clone[d], 0)
    BY <1>3, InitTrees, NothingIsATree DEF IsClone
  <2>3. clone = [e \in Dev |-> clone[e]] /\ remote \in [Dev -> 0 .. 0]
    BY <1>1, <1>3
  <2> QED BY <1>1, <2>1, <2>2, <2>3, RestingIsSync, NoMergeIsMerge, Elsewhere DEF SyncInv
<1> QED BY <1>2, <1>3 DEF SyncInit

(* Branches, merges and what a sync has to do name commits there are; no   *)
(* tree has a question as young as itself; and a merge that has no         *)
(* unmerged path left has its question staged.                             *)
THEOREM SyncStaysSound == SyncSpec => []SyncInv
<1> QED BY SyncStartsSound, SyncNextKeeps, PTL DEF SyncSpec

-----------------------------------------------------------------------------
(* Questions about deletions.                                              *)

(* A longer history has the shorter one's commits.                         *)
Extends(h) ==
  \A a \in 0 .. Len(commits) :
    /\ Git!Tree(h, a) = Git!Tree(commits, a) /\ Git!Ancestors(h, a) = Git!Ancestors(commits, a)
    /\ \A p : Versions(h, a, p) = Versions(commits, a, p)
    /\ a # 0 => h[a] = commits[a]

LEMMA HistoryStays ==
  ASSUME IsHistory(commits), NEW c \in Stored, NEW h, h = Append(commits, c)
  PROVE  Extends(h)
<1> SUFFICES ASSUME NEW a \in 0 .. Len(commits)
             PROVE  /\ Git!Tree(h, a) = Git!Tree(commits, a)
                    /\ Git!Ancestors(h, a) = Git!Ancestors(commits, a)
                    /\ \A p : Versions(h, a, p) = Versions(commits, a, p)
                    /\ a # 0 => h[a] = commits[a]
  BY DEF Extends
<1>1. a # 0 => h[a] = commits[a]
  BY DEF IsHistory
<1>2. Git!Tree(h, a) = Git!Tree(commits, a) /\ Git!Ancestors(h, a) = Git!Ancestors(commits, a)
  BY <1>1 DEF Git!Tree, Git!Ancestors
<1> QED BY <1>1, <1>2 DEF Versions

FromAway(d, text) == \E v \in ToSet(text) : v[1] \in Dev \ {d}

\* What is in the work tree alone no other device has written, and it is no question.
HomeMade(d, r) ==
  \A p \in SyncPaths : r.work[p] = r.index[p] \/ (p # Question(d) /\ ~FromAway(d, r.work[p]))

\* An index that has taken in a file of another device that its branch does not have
\* has a question as well, one that the branch cannot have.
HasTaken(d, h, r) ==
  \E p \in SyncPaths : Git!HeadTree(h, r)[p] = Gone /\ FromAway(d, r.index[p])

Answers(d, r) == \E i \in DOMAIN r.index[Question(d)] : r.index[Question(d)][i][2] >= Git!Tip(r)

Settled(d, h, r) == HasTaken(d, h, r) => Answers(d, r)

Owes(d) ==
  d \in unasked \/ syncing[d].step = "ask" \/ open[d].paths # {} \/ Settled(d, commits, clone[d])

AskInv == \A d \in Dev : HomeMade(d, clone[d]) /\ Owes(d)

LEMMA GoneIsHome == \A d : ~FromAway(d, Gone)
BY DEF FromAway, ToSet, Gone

LEMMA NewTip ==
  ASSUME SyncInv, NEW r, IsClone(r, Len(commits)), NEW c, commits' = Append(commits, c),
         NEW d \in Dev, clone' = [clone EXCEPT ![d] = Git!Advanced(commits, r)]
  PROVE  /\ Git!Tip(Git!Advanced(commits, r)) = Len(commits) + 1 /\ TipOf(d)' = Len(commits) + 1
         /\ Git!Tree(commits', Len(commits) + 1) = c.tree
<1>1. Len(commits) \in Nat /\ commits \in Seq(Stored) /\ clone'[d] = Git!Advanced(commits, r)
  BY DEF SyncInv, IsHistory
<1>2. Git!Tip(Git!Advanced(commits, r)) = Len(commits) + 1
  BY <1>1, AdvancedClone
<1>3. commits'[Len(commits) + 1] = c /\ Len(commits) + 1 # 0
  BY <1>1
<1> QED BY <1>1, <1>2, <1>3 DEF TipOf, Git!Tree

\* A step of one device leaves the others' index and branch as they are.
LEMMA OneOwes ==
  ASSUME SyncInv, AskInv, NEW d \in Dev, Extends(commits'), unasked \subseteq unasked',
         NEW r, clone' = [clone EXCEPT ![d] = r], HomeMade(d, r),
         NEW m, open' = [open EXCEPT ![d] = m], NEW s, syncing' = [syncing EXCEPT ![d] = s],
         d \in unasked' \/ s.step = "ask" \/ m.paths # {} \/ Settled(d, commits', r)
  PROVE  AskInv'
<1>1. /\ clone'[d] = r /\ open'[d] = m /\ syncing'[d] = s
      /\ \A e \in Dev \ {d} : clone'[e] = clone[e] /\ open'[e] = open[e] /\ syncing'[e] = syncing[e]
  BY DEF SyncInv
<1>2. ASSUME NEW e \in Dev
      PROVE  /\ HomeMade(e, clone'[e])
             /\ \/ e \in unasked' \/ syncing'[e].step = "ask" \/ open'[e].paths # {}
                \/ Settled(e, commits', clone'[e])
  <2>1. CASE e = d
    BY <1>1, <2>1
  <2>2. CASE e # d
    <3>1. Git!Tip(clone[e]) \in 0 .. Len(commits)
      BY DeviceFacts
    <3>2. Git!HeadTree(commits', clone[e]) = Git!HeadTree(commits, clone[e])
      BY <3>1 DEF Extends, Git!HeadTree
    <3>3. Settled(e, commits, clone[e]) => Settled(e, commits', clone[e])
      BY <3>2 DEF Settled, HasTaken
    <3> QED BY <1>1, <2>2, <3>3 DEF AskInv, Owes
  <2> QED BY <2>1, <2>2
<1>3. AskInv' = (\A e \in Dev : HomeMade(e, clone'[e]) /\ Owes(e)')
  BY DEF AskInv, HomeMade
<1> QED BY <1>2, <1>3 DEF Owes, Settled, HasTaken, Answers

\* A commit of the whole index leaves nothing taken in that the branch has not.
LEMMA CommitSettles ==
  ASSUME SyncInv, AskInv, NEW d \in Dev, NEW r, IsClone(r, Len(commits)), HomeMade(d, r),
         NEW c \in Stored, c.tree = r.index, commits' = Append(commits, c),
         clone' = [clone EXCEPT ![d] = Git!Advanced(commits, r)], unasked' = unasked,
         NEW m, open' = [open EXCEPT ![d] = m], NEW s, syncing' = [syncing EXCEPT ![d] = s]
  PROVE  AskInv'
<1> DEFINE a == Git!Advanced(commits, r)
<1>1. Extends(commits')
  BY HistoryStays, DeviceFacts
<1>2. a.work = r.work /\ a.index = r.index
  BY AdvancedClone, DeviceFacts
<1>3. Git!HeadTree(commits', a) = a.index
  BY <1>2, NewTip DEF Git!HeadTree
<1> HIDE DEF a
<1>4. HomeMade(d, a)
  BY <1>2 DEF HomeMade
<1>5. Settled(d, commits', a)
  BY <1>3, GoneIsHome DEF Settled, HasTaken
<1>6. clone' = [clone EXCEPT ![d] = a]
  BY DEF a
<1> QED BY <1>1, <1>4, <1>5, <1>6, OneOwes

\* Steps that touch neither the clone nor the commits.
LEMMA TurnSettles ==
  ASSUME SyncInv, AskInv, NEW d \in Dev, UNCHANGED <<clone, commits>>, unasked \subseteq unasked',
         At(d, "ask") => d \in unasked',
         NEW m, open' = [open EXCEPT ![d] = m], m.paths = open[d].paths,
         NEW s, syncing' = [syncing EXCEPT ![d] = s]
  PROVE  AskInv'
<1>1. Extends(commits')
  BY DEF Extends
<1>2. clone' = [clone EXCEPT ![d] = clone[d]] /\ HomeMade(d, clone[d])
  BY DeviceFacts DEF AskInv
<1>3. d \in unasked' \/ m.paths # {} \/ Settled(d, commits', clone[d])
  BY DEF AskInv, Owes, At
<1> QED BY <1>1, <1>2, <1>3, OneOwes

LEMMA TouchSettles ==
  ASSUME SyncInv, AskInv, NEW d \in Dev, NEW p \in Notes, Edit(d, p) \/ DeleteFile(d, p)
  PROVE  AskInv'
<1>1. PICK text \in {<< <<d, edits + 1>> >>, Gone} :
         clone' = [clone EXCEPT ![d] = [clone[d] EXCEPT !.work[p] = text]]
  BY DEF Edit, DeleteFile, Touch
<1> DEFINE r == [clone[d] EXCEPT !.work[p] = text]
<1>2. UNCHANGED <<commits, open, syncing, unasked>>
  BY DEF Edit, DeleteFile
<1>3. ~FromAway(d, text)
  <2>1. ToSet(<< <<d, edits + 1>> >>) = {<<d, edits + 1>>}
    BY DEF ToSet
  <2> QED BY <2>1, GoneIsHome DEF FromAway
<1>4. text \in Seq(Writings)
  <2>1. <<d, edits + 1>> \in Writings
    BY DeviceFacts, WritingOf
  <2>2. << <<d, edits + 1>> >> \in Seq(Writings)
    BY <2>1
  <2> QED BY <2>2, GoneIsText
<1>5. r.index = clone[d].index /\ Git!Tip(r) = Git!Tip(clone[d])
  BY <1>4, DeviceFacts, TouchedClone
<1>6. \A q \in SyncPaths : r.work[q] = IF q = p THEN text ELSE clone[d].work[q]
  BY DeviceFacts DEF IsClone, Trees
<1>7. clone' = [clone EXCEPT ![d] = r]
  BY <1>1
<1> HIDE DEF r
<1>8. HomeMade(d, r)
  BY <1>3, <1>5, <1>6, QuestionsAreNew DEF HomeMade, AskInv
<1>9. Extends(commits')
  BY <1>2 DEF Extends
<1>10. Settled(d, commits, clone[d]) => Settled(d, commits', r)
  BY <1>2, <1>5 DEF Settled, HasTaken, Answers, Git!HeadTree
<1>11. /\ open' = [open EXCEPT ![d] = open[d]] /\ syncing' = [syncing EXCEPT ![d] = syncing[d]]
       /\ unasked \subseteq unasked'
  BY <1>2, DeviceFacts
<1>12. d \in unasked' \/ syncing[d].step = "ask" \/ open[d].paths # {} \/ Settled(d, commits', r)
  BY <1>2, <1>10 DEF AskInv, Owes
<1> QED BY <1>7, <1>8, <1>9, <1>11, <1>12, OneOwes

LEMMA StagedAtHome ==
  ASSUME NEW n, NEW r, IsClone(r, n), NEW d, HomeMade(d, r), NEW ps, NEW s, s = Git!StagedPaths(r, ps)
  PROVE  HomeMade(d, s)
BY StagedClone DEF HomeMade

LEMMA TakenAtHome ==
  ASSUME NEW n, NEW r, IsClone(r, n), NEW d, HomeMade(d, r), NEW result \in Trees,
         NEW s, s = Taken(r, result)
  PROVE  HomeMade(d, s) /\ s.index = result
<1> DEFINE t == [p \in SyncPaths |-> IF result[p] # r.index[p] THEN result[p] ELSE r.work[p]]
<1>1. s = [r EXCEPT !.index = result, !.work = t]
  BY DEF Taken
<1>2. r \in [work : Trees, index : Trees, head : {"own"}, refs : [{"own"} -> 0 .. n]]
  BY DEF IsClone
<1>3. \A p \in SyncPaths : t[p] = IF result[p] # r.index[p] THEN result[p] ELSE r.work[p]
  OBVIOUS
<1> HIDE DEF t
<1>4. s.work = t /\ s.index = result
  BY <1>1, <1>2
<1> QED BY <1>3, <1>4 DEF HomeMade

LEMMA ForgetItemSettles ==
  ASSUME SyncInv, AskInv, NEW d \in Dev, NEW p \in Notes, ForgetItem(d, p)
  PROVE  AskInv'
<1> DEFINE w == [clone[d] EXCEPT !.work[p] = Gone]
           r == Git!RemovedFromIndex(w, p)
           c == Git!NewCommit(commits, r, {p})
<1>1. p \in SyncPaths
  BY DEF SyncPaths
<1>2. IsClone(w, Len(commits)) /\ IsClone(clone[d], Len(commits))
  BY DeviceFacts, TouchedClone, GoneIsText
<1>3. IsClone(r, Len(commits))
  BY <1>1, <1>2, DeviceFacts, UnstagedClone
<1>4. /\ commits' = Append(commits, c) /\ clone' = [clone EXCEPT ![d] = Git!Advanced(commits, r)]
      /\ UNCHANGED <<open, syncing, unasked>>
  BY DEF ForgetItem
<1>5. \A q \in SyncPaths : /\ r.work[q] = IF q = p THEN Gone ELSE clone[d].work[q]
                           /\ r.index[q] = IF q = p THEN Gone ELSE clone[d].index[q]
  BY <1>2 DEF IsClone, Trees, Git!RemovedFromIndex
<1> HIDE DEF r
<1>6. HomeMade(d, r)
  BY <1>5 DEF HomeMade, AskInv
<1>7. c \in Stored /\ c.tree = r.index
  <2>1. {p} \in SUBSET SyncPaths
    BY <1>1
  <2> QED BY <1>3, <2>1, DeviceFacts, NewCommitIsStored DEF Git!NewCommit
<1>8. open' = [open EXCEPT ![d] = open[d]] /\ syncing' = [syncing EXCEPT ![d] = syncing[d]]
  BY <1>4, DeviceFacts
<1> HIDE DEF c
<1> QED BY <1>3, <1>4, <1>6, <1>7, <1>8, CommitSettles

LEMMA CycleSettles ==
  ASSUME SyncInv, AskInv, NEW d \in Dev, Cycle(d)
  PROVE  AskInv'
<1> DEFINE ps == Git!AddedOrModified(commits, clone[d]) \cup open[d].paths
           r == Git!StagedPaths(clone[d], ps)
           c == Git!NewCommit(commits, r, ps)
           s == [syncing[d] EXCEPT !.step = "fetch"]
<1>1. syncing' = [syncing EXCEPT ![d] = s] /\ unasked' = unasked /\ ~At(d, "ask")
  BY DEF Cycle, Goto, At
<1>2. CASE UNCHANGED <<clone, commits, open>>
  <2> HIDE DEF s
  <2> QED BY <1>1, <1>2, DeviceFacts, TurnSettles
<1>3. CASE /\ commits' = Append(commits, c)
           /\ clone' = [clone EXCEPT ![d] = Git!Advanced(commits, r)]
           /\ open' = [open EXCEPT ![d] = NoMerge]
  <2>1. ps \in SUBSET SyncPaths
    BY DeviceFacts DEF Git!AddedOrModified, IsMerge
  <2>2. IsClone(r, Len(commits)) /\ HomeMade(d, r)
    BY DeviceFacts, StagedClone, StagedAtHome DEF AskInv
  <2> HIDE DEF ps, r, s
  <2>3. c \in Stored /\ c.tree = r.index
    BY <2>1, <2>2, DeviceFacts, NewCommitIsStored DEF Git!NewCommit
  <2> HIDE DEF c
  <2> QED BY <1>1, <1>3, <2>2, <2>3, CommitSettles
<1> QED BY <1>2, <1>3 DEF Cycle

LEMMA SyncCommandSettles ==
  ASSUME SyncInv, AskInv, NEW d \in Dev, SyncCommand(d)
  PROVE  AskInv'
<1> DEFINE s == [syncing[d] EXCEPT !.step = "fetch"]
<1>1. /\ syncing' = [syncing EXCEPT ![d] = s] /\ UNCHANGED <<clone, commits, open, unasked>>
      /\ ~At(d, "ask")
  BY DEF SyncCommand, Goto, At
<1> HIDE DEF s
<1> QED BY <1>1, DeviceFacts, TurnSettles

LEMMA BeginSettles ==
  ASSUME SyncInv, AskInv, NEW d \in Dev, Fetch(d) \/ BundleImport(d)
  PROVE  AskInv'
<1>1. UNCHANGED <<clone, commits, unasked>> /\ ~At(d, "ask")
  BY DEF Fetch, BundleImport, At
<1>2. PICK s : syncing' = [syncing EXCEPT ![d] = s]
  BY DEF Fetch, Fail, BundleImport
<1>3. \/ open' = open
      \/ open[d].paths = NoMerge.paths /\ open' = [open EXCEPT ![d] = NoMerge]
  BY DEF Fetch, BundleImport, NoMerge
<1>4. PICK m : open' = [open EXCEPT ![d] = m] /\ m.paths = open[d].paths
  BY <1>3, DeviceFacts
<1> QED BY <1>1, <1>2, <1>4, TurnSettles

LEMMA EndSettles ==
  ASSUME SyncInv, AskInv, NEW d \in Dev, Push(d) \/ Breaks(d)
  PROVE  AskInv'
<1>1. Fail(d) /\ UNCHANGED <<clone, commits, open>>
  BY DEF Push, Breaks
<1>2. unasked \subseteq unasked' /\ (At(d, "ask") => d \in unasked')
  BY DEF Push, Breaks, At
<1> QED BY <1>1, <1>2, DeviceFacts, TurnSettles DEF Fail

LEMMA MergeNextSettles ==
  ASSUME SyncInv, AskInv, NEW d \in Dev, MergeNext(d)
  PROVE  AskInv'
<1>1. PICK i \in DOMAIN Devices :
         \E m \in {MergeOf(BaseTree(TipOf(d), syncing[d].todo[i]), TipOf(d), syncing[d].todo[i])} :
           \/ UpToDate(d, m)
           \/ Fail(d) /\ UNCHANGED <<clone, commits, open>>
           \/ FastForward(d, m) \/ CleanMerge(d, m) \/ OpenMerge(d, m)
  BY DEF MergeNext
<1> DEFINE n == Len(commits)
           a == TipOf(d)
           b == syncing[d].todo[i]
           m == MergeOf(BaseTree(a, b), a, b)
           s == [syncing[d] EXCEPT !.todo = AfterNext(d)]
<1>2. unasked' = unasked /\ ~At(d, "ask")
  BY DEF MergeNext, At
<1>3. /\ IsHistory(commits) /\ n \in Nat /\ a \in 0 .. n /\ b \in 0 .. n
      /\ IsClone(clone[d], n) /\ HomeMade(d, clone[d])
  BY DeviceFacts DEF IsSync, AskInv
<1>4. m.theirs = b /\ m.tree \in Trees /\ Dated(m.tree, n) /\ m.conflicts \in SUBSET SyncPaths
  BY <1>3, MergeIsATree
<1>5. \/ UpToDate(d, m)
      \/ Fail(d) /\ UNCHANGED <<clone, commits, open>>
      \/ FastForward(d, m) \/ CleanMerge(d, m) \/ OpenMerge(d, m)
  BY <1>1
<1> HIDE DEF m, b
<1>6. CASE UpToDate(d, m) \/ (Fail(d) /\ UNCHANGED <<clone, commits, open>>)
  <2>1. PICK t : syncing' = [syncing EXCEPT ![d] = t]
    BY <1>6 DEF UpToDate, Fail
  <2>2. UNCHANGED <<clone, commits, open>>
    BY <1>6 DEF UpToDate
  <2> QED BY <1>2, <2>1, <2>2, DeviceFacts, TurnSettles
<1>7. CASE FastForward(d, m)
  <2> DEFINE tree == Git!Tree(commits, b)
             r0 == Taken(clone[d], tree)
             r == [r0 EXCEPT !.refs["own"] = b]
  <2>1. /\ clone' = [clone EXCEPT ![d] = r] /\ syncing' = [syncing EXCEPT ![d] = s]
        /\ UNCHANGED <<commits, open>>
    BY <1>4, <1>7 DEF FastForward
  <2>2. tree \in Trees /\ Dated(tree, n)
    BY <1>3, TreeOfACommit
  <2> HIDE DEF tree, s
  <2>3. HomeMade(d, r0) /\ r0.index = tree /\ IsClone(r0, n)
    BY <1>3, <2>2, TakenAtHome, TakenClone
  <2> HIDE DEF r0
  <2>4. r.work = r0.work /\ r.index = r0.index /\ Git!Tip(r) = b
    BY <1>3, <2>3 DEF IsClone, Git!Tip
  <2> HIDE DEF r
  <2>5. HomeMade(d, r)
    BY <2>3, <2>4 DEF HomeMade
  <2>6. Git!HeadTree(commits', r) = r.index
    BY <2>1, <2>3, <2>4 DEF Git!HeadTree, tree
  <2>7. Settled(d, commits', r)
    BY <2>6, GoneIsHome DEF Settled, HasTaken
  <2>8. Extends(commits') /\ open' = [open EXCEPT ![d] = open[d]]
    BY <2>1, DeviceFacts DEF Extends
  <2> QED BY <1>2, <2>1, <2>5, <2>7, <2>8, OneOwes
<1> DEFINE r == Taken(clone[d], m.tree)
<1>8. IsClone(r, n) /\ HomeMade(d, r) /\ r.index = m.tree
  BY <1>3, <1>4, TakenClone, TakenAtHome
<1>9. CASE CleanMerge(d, m)
  <2> DEFINE c == MergeCommit(a, b, m.tree)
  <2>1. /\ commits' = Append(commits, c) /\ clone' = [clone EXCEPT ![d] = Git!Advanced(commits, r)]
        /\ syncing' = [syncing EXCEPT ![d] = s] /\ open' = open
    BY <1>4, <1>9 DEF CleanMerge
  <2>2. c \in Stored
    BY <1>3, <1>4, MergeCommitIsStored
  <2>3. c.tree = m.tree
    BY DEF MergeCommit
  <2>4. open' = [open EXCEPT ![d] = open[d]]
    BY <2>1, DeviceFacts
  <2> HIDE DEF c, r, s
  <2> QED BY <1>2, <1>8, <2>1, <2>2, <2>3, <2>4, CommitSettles
<1>10. CASE OpenMerge(d, m)
  <2> DEFINE o == [theirs |-> b, paths |-> m.conflicts]
             t == [syncing[d] EXCEPT !.step = "resolve"]
  <2>1. /\ clone' = [clone EXCEPT ![d] = r] /\ open' = [open EXCEPT ![d] = o]
        /\ syncing' = [syncing EXCEPT ![d] = t] /\ commits' = commits /\ o.paths # {}
    BY <1>4, <1>10 DEF OpenMerge, Goto
  <2>2. Extends(commits')
    BY <2>1 DEF Extends
  <2> HIDE DEF o, t, r
  <2> QED BY <1>2, <1>8, <2>1, <2>2, OneOwes
<1> QED BY <1>5, <1>6, <1>7, <1>9, <1>10

LEMMA StageSurvivorSettles ==
  ASSUME SyncInv, AskInv, NEW d \in Dev, StageSurvivor(d)
  PROVE  AskInv'
<1>1. PICK p \in ModifyDeletePaths(d) :
         /\ clone' = [clone EXCEPT ![d] = Git!StagedPaths(@, {p})]
         /\ open' = [open EXCEPT ![d].paths = @ \ {p}]
  BY DEF StageSurvivor
<1> DEFINE r == Git!StagedPaths(clone[d], {p})
           m == [open[d] EXCEPT !.paths = @ \ {p}]
           s == [syncing[d] EXCEPT !.step = "ask"]
<1>2. /\ clone' = [clone EXCEPT ![d] = r] /\ open' = [open EXCEPT ![d] = m]
      /\ syncing' = [syncing EXCEPT ![d] = s] /\ UNCHANGED <<commits, unasked>>
  BY <1>1 DEF StageSurvivor, Goto
<1>3. HomeMade(d, r)
  BY DeviceFacts, StagedAtHome DEF AskInv
<1>4. s.step = "ask"
  BY DeviceFacts DEF IsSync
<1>5. Extends(commits')
  BY <1>2 DEF Extends
<1> HIDE DEF r, m, s
<1> QED BY <1>2, <1>3, <1>4, <1>5, OneOwes

LEMMA AskAboutDeletionSettles ==
  ASSUME SyncInv, AskInv, NEW d \in Dev, AskAboutDeletion(d)
  PROVE  AskInv'
<1> DEFINE n == Len(commits)
           q == Question(d)
           w == WithQuestion(clone[d], d, n)
           r == Git!StagedPaths(w, {q})
           s == [syncing[d] EXCEPT !.step = "resolve"]
<1>1. /\ clone' = [clone EXCEPT ![d] = r] /\ syncing' = [syncing EXCEPT ![d] = s]
      /\ UNCHANGED <<commits, open, unasked>>
  BY DEF AskAboutDeletion, Goto, WithQuestion
<1>2. IsClone(clone[d], n) /\ n \in Nat /\ q \in SyncPaths
  BY DeviceFacts, QuestionIsAPath
<1>3. IsClone(w, n) /\ \E i \in DOMAIN w.work[q] : w.work[q][i][2] = n
  BY <1>2, AskingClone
<1>4. \A p \in SyncPaths \ {q} : w.work[p] = clone[d].work[p] /\ w.index[p] = clone[d].index[p]
  BY <1>2 DEF WithQuestion, IsClone, Trees
<1> HIDE DEF w
<1>5. /\ IsClone(r, n) /\ r.work = w.work
      /\ \A p \in SyncPaths : r.index[p] = IF p \in {q} THEN w.work[p] ELSE w.index[p]
  BY <1>3, StagedClone
<1> HIDE DEF q
<1>6. HomeMade(d, r)
  BY <1>4, <1>5 DEF HomeMade, AskInv, q
<1>7. Git!Tip(r) \in 0 .. n
  BY <1>5, TipOfAClone
<1>8. r.index[q] = w.work[q]
  BY <1>2, <1>5
<1>9. \E i \in DOMAIN r.index[q] : r.index[q][i][2] >= Git!Tip(r)
  BY <1>2, <1>3, <1>7, <1>8
<1>10. Settled(d, commits', r)
  BY <1>9 DEF Settled, Answers, q
<1>11. Extends(commits') /\ open' = [open EXCEPT ![d] = open[d]] /\ unasked \subseteq unasked'
  BY <1>1, DeviceFacts DEF Extends
<1> HIDE DEF r, s
<1> QED BY <1>1, <1>6, <1>10, <1>11, OneOwes

LEMMA FinishMergeSettles ==
  ASSUME SyncInv, AskInv, NEW d \in Dev, FinishMerge(d)
  PROVE  AskInv'
<1> DEFINE c == MergeCommit(TipOf(d), open[d].theirs, clone[d].index)
           s == [syncing[d] EXCEPT !.step = "merge", !.todo = AfterNext(d)]
<1>1. unasked' = unasked /\ ~At(d, "ask")
  BY DEF FinishMerge, At
<1>2. CASE Fail(d) /\ UNCHANGED <<clone, commits, open>>
  BY <1>1, <1>2, DeviceFacts, TurnSettles DEF Fail
<1>3. CASE /\ commits' = Append(commits, c)
           /\ clone' = [clone EXCEPT ![d] = Git!Advanced(commits, @)]
           /\ open' = [open EXCEPT ![d] = NoMerge]
           /\ syncing' = [syncing EXCEPT ![d].step = "merge", ![d].todo = AfterNext(d)]
  <2>1. open[d].theirs \in 0 .. Len(commits) /\ clone[d].index \in Trees
        /\ Dated(clone[d].index, Len(commits))
    BY DeviceFacts DEF IsMerge, IsClone
  <2>2. c \in Stored
    BY <2>1, DeviceFacts, MergeCommitIsStored
  <2>3. c.tree = clone[d].index
    BY DEF MergeCommit
  <2>4. syncing' = [syncing EXCEPT ![d] = s]
    BY <1>3, DeviceFacts DEF SyncInv, IsSync
  <2>5. clone' = [clone EXCEPT ![d] = Git!Advanced(commits, clone[d])] /\ HomeMade(d, clone[d])
    BY <1>3 DEF AskInv
  <2> HIDE DEF c, s
  <2> QED BY <1>1, <1>3, <2>2, <2>3, <2>4, <2>5, DeviceFacts, CommitSettles
<1> QED BY <1>2, <1>3 DEF FinishMerge

LEMMA SyncNextSettles ==
  ASSUME SyncInv, AskInv, [SyncNext]_syncVars
  PROVE  AskInv'
<1>1. CASE UNCHANGED syncVars
  BY <1>1 DEF syncVars, AskInv, HomeMade, Owes, Settled, HasTaken, Answers
<1>2. CASE SyncNext
  BY <1>2, TouchSettles, ForgetItemSettles, CycleSettles, SyncCommandSettles, BeginSettles,
     MergeNextSettles, StageSurvivorSettles, AskAboutDeletionSettles, FinishMergeSettles, EndSettles
  DEF SyncNext, SyncStep
<1> QED BY <1>1, <1>2

LEMMA SyncStartsSettled == SyncInit => AskInv
<1> SUFFICES ASSUME SyncInit, NEW d \in Dev PROVE HomeMade(d, clone[d]) /\ Owes(d)
  BY DEF AskInv
<1>1. CASE /\ commits = << [tree |-> Shared, anc |-> {1}, parent |-> 0, own |-> {}],
                          [tree |-> Remaining, anc |-> {1, 2}, parent |-> 1, own |-> Forgotten] >>
           /\ clone = [e \in Dev |-> IF e = Devices[1] THEN OnBranch(Remaining, 2) ELSE OnBranch(Shared, 1)]
  <2>1. PICK c \in {1, 2} : clone[d] = OnBranch(commits[c].tree, c)
    BY <1>1
  <2>2. Git!HeadTree(commits, clone[d]) = clone[d].index /\ clone[d].work = clone[d].index
    BY <2>1 DEF OnBranch, Git!HeadTree, Git!Tip, Git!Tree
  <2> QED BY <2>2, GoneIsHome DEF HomeMade, Owes, Settled, HasTaken
<1>2. CASE /\ commits = <<>>
           /\ clone = [e \in Dev |-> [work |-> FreshWork(e), index |-> Git!Nothing,
                                     head |-> "own", refs |-> [own |-> 0]]]
  <2>1. clone[d].work = FreshWork(d) /\ clone[d].index = Git!Nothing
    BY <1>2
  <2>2. \A p \in SyncPaths : Git!Nothing[p] = Gone
    BY DEF Git!Nothing
  <2>3. ToSet(<< <<d, 0>> >>) = {<<d, 0>>} /\ ToSet(<< <<"init", 0>> >>) = {<<"init", 0>>}
    BY DEF ToSet
  <2>4. ~FromAway(d, << <<d, 0>> >>) /\ ~FromAway(d, << <<"init", 0>> >>)
    BY <2>3, InitIsNoDevice DEF FromAway
  <2>5. ASSUME NEW p \in SyncPaths
        PROVE  /\ FreshWork(d)[p] \in {<< <<d, 0>> >>, << <<"init", 0>> >>, Gone}
               /\ p \notin Plain \cup Common => FreshWork(d)[p] = Gone
    BY DEF FreshWork
  <2>6. Question(d) \notin Plain \cup Common
    BY QuestionsAreNew
  <2>7. HomeMade(d, clone[d])
    <3> SUFFICES ASSUME NEW p \in SyncPaths, FreshWork(d)[p] # Gone
                 PROVE  p # Question(d) /\ ~FromAway(d, FreshWork(d)[p])
      BY <2>1, <2>2 DEF HomeMade
    <3> QED BY <2>4, <2>5, <2>6, GoneIsHome
  <2>8. ~HasTaken(d, commits, clone[d])
    BY <2>1, <2>2, GoneIsHome DEF HasTaken
  <2> QED BY <2>7, <2>8 DEF Owes, Settled
<1> QED BY <1>1, <1>2 DEF SyncInit

\* What the branch gets of one path when a device commits from its index.
Commits(d, tree) ==
  \A p \in SyncPaths : \/ tree[p] \in {clone[d].index[p], clone[d].work[p]}
                       \/ tree[p] = Gone /\ p # Question(d)

(* Outside the merges git finishes itself, only commits of what is in the  *)
(* index or the work tree move a branch; in a merge, the one that ends it. *)
LEMMA OnlyCommitsMove ==
  ASSUME SyncInv, SyncNext, NEW d \in Dev, ~At(d, "merge"), TipOf(d)' # TipOf(d)
  PROVE  /\ open[d].paths = {} /\ ~At(d, "ask")
         /\ Commits(d, Git!Tree(commits', TipOf(d)'))
         /\ At(d, "resolve") => Git!Tree(commits', TipOf(d)') = clone[d].index
<1>1. PICK e \in Dev : \/ \E p \in Notes : Edit(e, p) \/ DeleteFile(e, p) \/ ForgetItem(e, p)
                      \/ SyncCommand(e) \/ BundleImport(e) \/ SyncStep(e) \/ Breaks(e)
  BY DEF SyncNext
<1>2. ASSUME NEW r, clone' = [clone EXCEPT ![e] = r], Git!Tip(r) = Git!Tip(clone[e])
      PROVE  FALSE
  BY <1>2 DEF TipOf, SyncInv
<1>3. clone' # clone
  BY DEF TipOf
<1>4. ASSUME NEW p \in Notes, Edit(e, p) \/ DeleteFile(e, p) PROVE FALSE
  <2>1. PICK text : clone' = [clone EXCEPT ![e] = [clone[e] EXCEPT !.work[p] = text]]
    BY <1>4 DEF Edit, DeleteFile, Touch
  <2>2. Git!Tip([clone[e] EXCEPT !.work[p] = text]) = Git!Tip(clone[e])
    BY DeviceFacts DEF IsClone, Git!Tip
  <2> QED BY <1>2, <2>1, <2>2
<1>5. ~StageSurvivor(e)
  <2> SUFFICES ASSUME StageSurvivor(e) PROVE FALSE
    OBVIOUS
  <2>1. PICK p : clone' = [clone EXCEPT ![e] = Git!StagedPaths(clone[e], {p})]
    BY DEF StageSurvivor
  <2>2. Git!Tip(Git!StagedPaths(clone[e], {p})) = Git!Tip(clone[e])
    BY DeviceFacts, StagedClone
  <2> QED BY <1>2, <2>1, <2>2
<1>6. ~AskAboutDeletion(e)
  <2> SUFFICES ASSUME AskAboutDeletion(e) PROVE FALSE
    OBVIOUS
  <2> DEFINE w == WithQuestion(clone[e], e, Len(commits))
  <2>1. clone' = [clone EXCEPT ![e] = Git!StagedPaths(w, {Question(e)})]
    BY DEF AskAboutDeletion, WithQuestion
  <2>2. IsClone(w, Len(commits)) /\ Git!Tip(w) = Git!Tip(clone[e])
    BY DeviceFacts, AskingClone
  <2> HIDE DEF w
  <2>3. Git!Tip(Git!StagedPaths(w, {Question(e)})) = Git!Tip(w)
    BY <2>2, StagedClone
  <2> QED BY <1>2, <2>1, <2>2, <2>3
<1>7. ~(SyncCommand(e) \/ BundleImport(e) \/ Fetch(e) \/ Push(e) \/ Breaks(e))
  BY <1>3 DEF SyncCommand, BundleImport, Fetch, Push, Breaks
<1>8. e = d
  <2>1. ASSUME NEW r, clone' = [clone EXCEPT ![e] = r] PROVE e = d
    BY <2>1 DEF TipOf, SyncInv
  <2>2. ASSUME NEW p \in Notes, ForgetItem(e, p) PROVE e = d
    BY <2>1, <2>2 DEF ForgetItem
  <2>3. CASE Cycle(e)
    BY <1>3, <2>1, <2>3 DEF Cycle
  <2>4. CASE MergeNext(e)
    BY <1>3, <2>1, <2>4 DEF MergeNext, UpToDate, FastForward, CleanMerge, OpenMerge
  <2>5. CASE FinishMerge(e)
    BY <1>3, <2>1, <2>5 DEF FinishMerge
  <2> QED BY <1>1, <1>4, <1>5, <1>6, <1>7, <2>2, <2>3, <2>4, <2>5 DEF SyncStep
<1>9. (\E p \in Notes : ForgetItem(d, p)) \/ Cycle(d) \/ FinishMerge(d)
  BY <1>1, <1>4, <1>5, <1>6, <1>7, <1>8 DEF SyncStep, MergeNext
<1>10. ASSUME NEW p \in Notes, ForgetItem(d, p)
       PROVE  /\ At(d, "rest") /\ open[d].paths = {}
              /\ Commits(d, Git!Tree(commits', TipOf(d)'))
  <2> DEFINE w == [clone[d] EXCEPT !.work[p] = Gone]
             r == Git!RemovedFromIndex(w, p)
             c == Git!NewCommit(commits, r, {p})
  <2>1. IsClone(w, Len(commits)) /\ IsClone(clone[d], Len(commits)) /\ p \in SyncPaths
    BY DeviceFacts, TouchedClone, GoneIsText DEF SyncPaths
  <2>2. IsClone(r, Len(commits))
    BY <2>1, DeviceFacts, UnstagedClone
  <2>3. /\ commits' = Append(commits, c) /\ clone' = [clone EXCEPT ![d] = Git!Advanced(commits, r)]
        /\ At(d, "rest") /\ open[d].paths = {}
    BY <1>10 DEF ForgetItem, NoMerge
  <2>4. \A q \in SyncPaths : r.index[q] = IF q = p THEN Gone ELSE clone[d].index[q]
    BY <2>1 DEF IsClone, Trees, Git!RemovedFromIndex
  <2>5. c.tree = r.index
    BY DEF Git!NewCommit
  <2> HIDE DEF r, c
  <2>6. Git!Tree(commits', TipOf(d)') = r.index
    BY <2>2, <2>3, <2>5, NewTip
  <2>7. p # Question(d)
    BY QuestionsAreNew
  <2> QED BY <2>3, <2>4, <2>6, <2>7 DEF Commits
<1>11. CASE Cycle(d)
  <2> DEFINE ps == Git!AddedOrModified(commits, clone[d]) \cup open[d].paths
             r == Git!StagedPaths(clone[d], ps)
             c == Git!NewCommit(commits, r, ps)
  <2>1. /\ commits' = Append(commits, c) /\ clone' = [clone EXCEPT ![d] = Git!Advanced(commits, r)]
        /\ At(d, "rest") /\ open[d].paths = {}
    BY <1>3, <1>11 DEF Cycle
  <2>2. c.tree = r.index
    BY DEF Git!NewCommit
  <2> HIDE DEF ps, c
  <2>3. /\ IsClone(r, Len(commits))
        /\ \A p \in SyncPaths : r.index[p] = IF p \in ps THEN clone[d].work[p] ELSE clone[d].index[p]
    BY DeviceFacts, StagedClone
  <2> HIDE DEF r
  <2>4. Git!Tree(commits', TipOf(d)') = r.index
    BY <2>1, <2>2, <2>3, NewTip
  <2> QED BY <2>1, <2>3, <2>4 DEF Commits, At
<1>12. CASE FinishMerge(d)
  <2> DEFINE c == MergeCommit(TipOf(d), open[d].theirs, clone[d].index)
  <2>1. /\ commits' = Append(commits, c) /\ clone' = [clone EXCEPT ![d] = Git!Advanced(commits, clone[d])]
        /\ At(d, "resolve") /\ open[d].paths = {}
    BY <1>3, <1>12 DEF FinishMerge
  <2>2. c.tree = clone[d].index
    BY DEF MergeCommit
  <2> HIDE DEF c
  <2>3. Git!Tree(commits', TipOf(d)') = clone[d].index
    BY <2>1, <2>2, DeviceFacts, NewTip
  <2> QED BY <2>1, <2>3 DEF Commits, At
<1> QED BY <1>9, <1>10, <1>11, <1>12 DEF At

(* A commit that ends a merge in which one side had deleted an item, or    *)
(* that takes in what such a merge left in the index when it broke off,    *)
(* has a question its branch did not have - whatever the user does to      *)
(* files meanwhile and whatever fails, but for a failure right before the  *)
(* question: the index has one too young to be in the branch.              *)
THEOREM DeletionsGetAQuestion == SyncSpec => DeletionsAreAsked
<1>1. SyncInit => AskInv
  BY SyncStartsSettled
<1>2. SyncInv /\ AskInv /\ [SyncNext]_syncVars => AskInv'
  BY SyncNextSettles
<1>3. SyncInv /\ AskInv /\ [SyncNext]_syncVars =>
        [\A d \in Dev \ unasked : Overrules(d) => Asking(d)]_syncVars
  <2> SUFFICES ASSUME SyncInv, AskInv, SyncNext, NEW d \in Dev \ unasked, Overrules(d)
               PROVE  Asking(d)
    OBVIOUS
  <2> DEFINE q == Question(d)
             head == Git!Tree(commits, TipOf(d))
             new == Git!Tree(commits', TipOf(d)')
             index == clone[d].index
             work == clone[d].work
  <2>1. /\ TipOf(d)' # TipOf(d) /\ ~At(d, "merge")
        /\ At(d, "resolve") \/ \E p \in SyncPaths : head[p] = Gone /\ FromAway(d, new[p])
    BY DEF Overrules, TakesIn, At, FromAway
  <2>2. /\ open[d].paths = {} /\ ~At(d, "ask") /\ Commits(d, new)
        /\ At(d, "resolve") => new = index
    BY <2>1, OnlyCommitsMove
  <2>3. HomeMade(d, clone[d]) /\ Settled(d, commits, clone[d])
    BY <2>2 DEF AskInv, Owes, At
  <2>4. q \in SyncPaths /\ TipOf(d) = Git!Tip(clone[d]) /\ head = Git!HeadTree(commits, clone[d])
    BY QuestionIsAPath DEF TipOf, Git!HeadTree
  <2>5. Asking(d) <=> new[q] # head[q]
    BY DEF Asking
  <2> HIDE DEF head, new
  <2>6. new[q] = index[q]
    BY <2>2, <2>3, <2>4 DEF Commits, HomeMade
  <2>7. \E i \in DOMAIN index[q] : index[q][i][2] >= TipOf(d)
    <3>1. CASE At(d, "resolve")
      BY <2>2, <2>4, <3>1, DeviceFacts DEF Asked, At
    <3>2. CASE ~At(d, "resolve")
      <4>1. PICK p \in SyncPaths : head[p] = Gone /\ FromAway(d, new[p])
        BY <2>1, <3>2
      <4>2. FromAway(d, index[p])
        BY <2>2, <2>3, <4>1, GoneIsHome DEF Commits, HomeMade
      <4>3. HasTaken(d, commits, clone[d])
        BY <2>4, <4>1, <4>2 DEF HasTaken
      <4> QED BY <2>3, <2>4, <4>3 DEF Settled, Answers
    <3> QED BY <3>1, <3>2
  <2>8. PICK i \in DOMAIN index[q] : index[q][i][2] >= TipOf(d)
    BY <2>7
  <2>9. Dated(head, TipOf(d) - 1) /\ TipOf(d) \in Nat
    BY DeviceFacts, TreeOfACommit DEF head
  <2>10. index[q] \in Seq(Writings)
    BY <2>4, DeviceFacts DEF IsClone, Trees
  <2>11. index[q][i] \in Writings
    BY <2>8, <2>10
  <2>12. index[q][i][2] \in Nat
    BY <2>11, WritingIsDated
  <2>13. index[q] # head[q]
    BY <2>8, <2>9, <2>12 DEF Dated
  <2> QED BY <2>5, <2>6, <2>13
<1> QED BY <1>1, <1>2, <1>3, SyncStaysSound, PTL DEF SyncSpec, DeletionsAreAsked

-----------------------------------------------------------------------------
(* What a history has decided.                                             *)

\* What a commit descends from and does not hold any more was given up on the way to it.
Decided(h) ==
  \A c \in 1 .. Len(h) : \A a \in h[c].anc : \A p \in SyncPaths :
    \A v \in Versions(h, a, p) \ Versions(h, c, p) : GivenUpBy(h, c, p, v)

(* What was given up stays given up.                                       *)
LEMMA DecisionStays ==
  ASSUME IsHistory(commits), NEW h, Extends(h), NEW g \in 1 .. Len(commits), NEW p, NEW v,
         GivesUp(commits, g, p, v)
  PROVE  GivesUp(h, g, p, v)
<1>1. Len(commits) \in Nat
  BY DEF IsHistory
<1>2. commits[g].anc \subseteq 1 .. g /\ commits[g].parent \in 0 .. g - 1
  BY DEF IsHistory, IsCommit
<1>3. h[g] = commits[g] /\ \A q : Versions(h, g, q) = Versions(commits, g, q)
  BY <1>1 DEF Extends
<1>4. Versions(h, h[g].parent, p) = Versions(commits, commits[g].parent, p)
  <2>1. commits[g].parent \in 0 .. Len(commits)
    BY <1>1, <1>2
  <2> QED BY <1>3, <2>1 DEF Extends
<1>5. Asks(commits, g) => Asks(h, g)
  <2> SUFFICES ASSUME NEW d \in Dev, NEW w \in Versions(commits, g, Question(d)),
                      \A x \in commits[g].anc \ {g} : w \notin Versions(commits, x, Question(d))
               PROVE  Asks(h, g)
    BY DEF Asks
  <2>1. \A x \in commits[g].anc : x \in 0 .. Len(commits)
    BY <1>1, <1>2
  <2>2. \A x \in h[g].anc \ {g} : w \notin Versions(h, x, Question(d))
    BY <1>3, <2>1 DEF Extends
  <2> QED BY <1>3, <2>2 DEF Asks
<1> QED BY <1>3, <1>4, <1>5 DEF GivesUp

(* A commit may be added if what it leaves out of what it descends from    *)
(* was given up by one of those, or is by itself.                          *)
LEMMA OneMoreDecided ==
  ASSUME IsHistory(commits), Decided(commits), NEW c \in Stored, IsCommit(c, Len(commits) + 1),
         NEW h, h = Append(commits, c),
         \A a \in c.anc \ {Len(commits) + 1} : \A p \in SyncPaths :
           \A v \in Versions(commits, a, p) \ ToSet(c.tree[p]) :
             \/ \E b \in c.anc \ {Len(commits) + 1} : GivesUp(commits, b, p, v)
             \/ GivesUp(h, Len(commits) + 1, p, v)
  PROVE  Decided(h)
<1> DEFINE n == Len(commits)
<1>1. n \in Nat /\ Len(h) = n + 1 /\ h[n + 1] = c
  BY DEF IsHistory
<1>2. \A p : Versions(h, n + 1, p) = ToSet(c.tree[p])
  BY <1>1 DEF Versions, Git!Tree
<1>0. Extends(h)
  BY HistoryStays
<1>3. ASSUME NEW k \in 1 .. n, NEW a \in h[k].anc, NEW p \in SyncPaths,
             NEW v \in Versions(h, a, p) \ Versions(h, k, p)
      PROVE  GivenUpBy(h, k, p, v)
  <2>1. k \in 0 .. n /\ k # 0
    BY <1>1
  <2>2. /\ h[k] = commits[k] /\ Versions(h, k, p) = Versions(commits, k, p)
        /\ Git!Ancestors(h, k) = Git!Ancestors(commits, k)
    BY <1>0, <2>1 DEF Extends
  <2>3. commits[k].anc \subseteq 1 .. k
    BY DEF IsHistory, IsCommit
  <2>4. a \in commits[k].anc /\ a \in 0 .. n
    BY <1>1, <2>2, <2>3
  <2>5. v \in Versions(commits, a, p) \ Versions(commits, k, p)
    BY <1>0, <2>2, <2>4 DEF Extends
  <2>6. PICK g \in Git!Ancestors(commits, k) : GivesUp(commits, g, p, v)
    BY <2>4, <2>5 DEF Decided, GivenUpBy
  <2>7. g \in 1 .. n
    BY <1>1, <2>1, <2>3, <2>6 DEF Git!Ancestors
  <2>8. GivesUp(h, g, p, v)
    BY <1>0, <2>6, <2>7, DecisionStays
  <2> QED BY <2>2, <2>6, <2>8 DEF GivenUpBy
<1>4. ASSUME NEW a \in c.anc, NEW p \in SyncPaths, NEW v \in Versions(h, a, p) \ Versions(h, n + 1, p)
      PROVE  GivenUpBy(h, n + 1, p, v)
  <2>1. Git!Ancestors(h, n + 1) = c.anc /\ n + 1 \in c.anc
    BY <1>1 DEF Git!Ancestors, IsCommit
  <2>2. a # n + 1
    OBVIOUS
  <2>3. \A b \in c.anc \ {n + 1} : b \in 1 .. n /\ b \in 0 .. n
    BY <1>1 DEF IsCommit
  <2>4. v \in Versions(commits, a, p) \ ToSet(c.tree[p])
    BY <1>0, <1>2, <2>2, <2>3 DEF Extends
  <2>5. CASE GivesUp(h, n + 1, p, v)
    BY <2>1, <2>5 DEF GivenUpBy
  <2>6. ASSUME NEW b \in c.anc \ {n + 1}, GivesUp(commits, b, p, v)
        PROVE  GivenUpBy(h, n + 1, p, v)
    <3>1. GivesUp(h, b, p, v)
      BY <1>0, <2>3, <2>6, DecisionStays
    <3> QED BY <2>1, <3>1 DEF GivenUpBy
  <2> QED BY <2>2, <2>4, <2>5, <2>6
<1> QED BY <1>1, <1>3, <1>4 DEF Decided

LEMMA DecidedBy ==
  ASSUME IsHistory(commits), Decided(commits), NEW c \in 0 .. Len(commits),
         NEW a \in Git!Ancestors(commits, c), NEW p \in SyncPaths,
         NEW v \in Versions(commits, a, p) \ Versions(commits, c, p)
  PROVE  GivenUpBy(commits, c, p, v)
<1>1. c # 0 /\ a \in commits[c].anc
  BY DEF Git!Ancestors
<1>2. c \in 1 .. Len(commits)
  BY <1>1 DEF IsHistory
<1> QED BY <1>1, <1>2 DEF Decided

LEMMA BothWritings ==
  ASSUME NEW S, NEW s \in Seq(S), NEW t \in Seq(S)
  PROVE  ToSet(s \o t) = ToSet(s) \cup ToSet(t)
<1>1. Len(s) \in Nat /\ Len(t) \in Nat /\ DOMAIN (s \o t) = 1 .. Len(s) + Len(t)
  OBVIOUS
<1>2. ASSUME NEW i \in DOMAIN (s \o t) PROVE (s \o t)[i] \in ToSet(s) \cup ToSet(t)
  <2>1. CASE i <= Len(s)
    <3>1. i \in DOMAIN s /\ (s \o t)[i] = s[i]
      BY <1>1, <2>1
    <3> QED BY <3>1 DEF ToSet
  <2>2. CASE i > Len(s)
    <3>1. i - Len(s) \in DOMAIN t /\ (s \o t)[i] = t[i - Len(s)]
      BY <1>1, <2>2
    <3> QED BY <3>1 DEF ToSet
  <2> QED BY <1>1, <2>1, <2>2
<1>3. ASSUME NEW i \in DOMAIN s PROVE s[i] \in ToSet(s \o t)
  <2>1. i \in DOMAIN (s \o t) /\ (s \o t)[i] = s[i]
    BY <1>1
  <2> QED BY <2>1 DEF ToSet
<1>4. ASSUME NEW i \in DOMAIN t PROVE t[i] \in ToSet(s \o t)
  <2>1. Len(s) + i \in DOMAIN (s \o t) /\ (s \o t)[Len(s) + i] = t[i]
    BY <1>1
  <2> QED BY <2>1 DEF ToSet
<1> QED BY <1>2, <1>3, <1>4 DEF ToSet

(* What a three-way merge of one path leaves out, the base had and the     *)
(* other side has not.                                                     *)
LEMMA LeftOut ==
  ASSUME NEW b, NEW o \in Seq(Writings), NEW t \in Seq(Writings), NEW v, v \notin ToSet(Merged(b, o, t))
  PROVE  /\ v \in ToSet(o) => v \in ToSet(b) /\ v \notin ToSet(t)
         /\ v \in ToSet(t) => v \in ToSet(b) /\ v \notin ToSet(o)
BY BothWritings DEF Merged

(* The tree merged against has no version of its own.                      *)
LEMMA BaseIsCommon ==
  ASSUME IsHistory(commits), NEW a \in 0 .. Len(commits), NEW b \in 0 .. Len(commits),
         NEW p \in SyncPaths, NEW v \in ToSet(BaseTree(a, b)[p])
  PROVE  \E x \in Git!Ancestors(commits, a) \cap Git!Ancestors(commits, b) : v \in Versions(commits, x, p)
<1> DEFINE n == Len(commits)
           B == Bases(a, b)
           x == Newest(B)
           y == Newest(B \ {x})
<1>0. n \in Nat
  BY DEF IsHistory
<1>1. B \subseteq 1 .. n /\ B \subseteq Git!Ancestors(commits, a) \cap Git!Ancestors(commits, b)
  BY TreeOfACommit DEF Bases
<1> HIDE DEF B
<1>2. /\ x \in 0 .. n /\ (B # {} => x \in B)
      /\ y \in 0 .. n /\ (B \ {x} # {} => y \in B) /\ (B \ {x} = {} => y = 0)
  <2>1. x \in 0 .. n /\ (B # {} => x \in B)
    BY <1>0, <1>1, NewestIsOneOf
  <2>2. y \in 0 .. n /\ (B \ {x} # {} => y \in B \ {x})
    BY <1>0, <1>1, NewestIsOneOf
  <2>3. B \ {x} = {} => y = 0
    BY DEF Newest
  <2> QED BY <2>1, <2>2, <2>3
<1>3. BaseTree(a, b) = IF y = 0 THEN Git!Tree(commits, x) ELSE MergedBases(x, y)
  BY DEF BaseTree, B
<1> HIDE DEF x, y
<1>4. CASE y = 0
  <2>1. v \in Versions(commits, x, p)
    BY <1>3, <1>4 DEF Versions
  <2>2. B # {}
    <3>1. CASE x = 0
      <4>1. FALSE
        BY <2>1, <3>1 DEF Versions, Git!Tree, Git!Nothing, Gone, ToSet
      <4> QED BY <4>1
    <3>2. CASE B = {}
      BY <2>1, <3>2 DEF Newest, x, Versions, Git!Tree, Git!Nothing, Gone, ToSet
    <3> QED BY <3>2
  <2> QED BY <1>1, <1>2, <2>1, <2>2
<1>5. CASE y # 0
  <2>1. x \in B /\ y \in B
    BY <1>2, <1>5
  <2> DEFINE tree == Git!Tree(commits, Newest(Bases(x, y)))
             o == Git!Tree(commits, x)[p]
             t == Git!Tree(commits, y)[p]
  <2>2. v \in ToSet(Merged(tree[p], o, t))
    BY <1>3, <1>5 DEF MergedBases
  <2>3. o \in Seq(Writings) /\ t \in Seq(Writings)
    BY <1>2, TreeOfACommit DEF Trees
  <2>4. ToSet(o \o t) = ToSet(o) \cup ToSet(t)
    BY <2>3, BothWritings
  <2>5. Merged(tree[p], o, t) \in {o, t, o \o t}
    BY DEF Merged
  <2>6. v \in ToSet(o) \/ v \in ToSet(t)
    BY <2>2, <2>4, <2>5
  <2>7. v \in Versions(commits, x, p) \/ v \in Versions(commits, y, p)
    BY <2>6 DEF Versions
  <2> QED BY <1>1, <2>1, <2>7
<1> QED BY <1>4, <1>5

(* What a merge of two decided branches leaves out of one was given up on  *)
(* the other.                                                              *)
LEMMA MergedDecides ==
  ASSUME IsHistory(commits), Decided(commits), NEW a \in 0 .. Len(commits), NEW b \in 0 .. Len(commits),
         NEW result, result = MergeOf(BaseTree(a, b), a, b).tree, NEW p \in SyncPaths
  PROVE  /\ \A v \in Dropped(result, a, p) : GivenUpBy(commits, b, p, v)
         /\ \A v \in Dropped(result, b, p) : GivenUpBy(commits, a, p, v)
<1> DEFINE against == BaseTree(a, b)[p]
           o == Git!Tree(commits, a)[p]
           t == Git!Tree(commits, b)[p]
<1>1. result[p] = Merged(against, o, t)
  BY DEF MergeOf
<1>2. o \in Seq(Writings) /\ t \in Seq(Writings)
  BY TreeOfACommit DEF Trees
<1>3. Versions(commits, a, p) = ToSet(o) /\ Versions(commits, b, p) = ToSet(t)
  BY DEF Versions
<1>4. \A v \in ToSet(against) :
        \E x \in Git!Ancestors(commits, a) \cap Git!Ancestors(commits, b) : v \in Versions(commits, x, p)
  BY BaseIsCommon
<1> HIDE DEF against, o, t
<1>5. ASSUME NEW v \in Dropped(result, a, p) PROVE GivenUpBy(commits, b, p, v)
  <2>1. v \in ToSet(against) /\ v \notin Versions(commits, b, p)
    BY <1>1, <1>2, <1>3, <1>5, LeftOut DEF Dropped
  <2> QED BY <1>4, <2>1, DecidedBy
<1>6. ASSUME NEW v \in Dropped(result, b, p) PROVE GivenUpBy(commits, a, p, v)
  <2>1. v \in ToSet(against) /\ v \notin Versions(commits, a, p)
    BY <1>1, <1>2, <1>3, <1>6, LeftOut DEF Dropped
  <2> QED BY <1>4, <2>1, DecidedBy
<1> QED BY <1>5, <1>6

(* A commit on one branch gives up itself what that branch had.            *)
LEMMA NewCommitDecides ==
  ASSUME IsHistory(commits), Decided(commits), NEW r, IsClone(r, Len(commits)),
         NEW own \in SUBSET SyncPaths, NEW h, h = Append(commits, Git!NewCommit(commits, r, own))
  PROVE  Decided(h)
<1> DEFINE n == Len(commits)
           c == Git!NewCommit(commits, r, own)
           a == Git!Tip(r)
<1>0. n \in Nat
  BY DEF IsHistory
<1>1. c \in Stored /\ IsCommit(c, n + 1)
  BY NewCommitIsStored
<1>2. a \in 0 .. n /\ Git!Ancestors(commits, a) \subseteq 1 .. n
  BY TipOfAClone, TreeOfACommit
<1>3. c.parent = a /\ c.anc \ {n + 1} = Git!Ancestors(commits, a)
  BY <1>0, <1>2 DEF Git!NewCommit
<1> HIDE DEF c, a
<1>4. h = Append(commits, c)
  BY DEF c
<1>5. h[n + 1] = c /\ Extends(h)
  <2>1. h[n + 1] = c
    BY <1>0, <1>1, <1>4 DEF IsHistory
  <2>2. Extends(h)
    BY <1>1, <1>4, HistoryStays
  <2> QED BY <2>1, <2>2
<1>6. ASSUME NEW e \in Git!Ancestors(commits, a), NEW p \in SyncPaths,
             NEW v \in Versions(commits, e, p) \ ToSet(c.tree[p])
      PROVE  \/ \E b \in Git!Ancestors(commits, a) : GivesUp(commits, b, p, v)
             \/ GivesUp(h, n + 1, p, v)
  <2>1. CASE v \in Versions(commits, a, p)
    <3>1. v \in Versions(h, h[n + 1].parent, p)
      BY <1>2, <1>3, <1>5, <2>1 DEF Extends
    <3>2. v \notin Versions(h, n + 1, p)
      BY <1>0, <1>5 DEF Versions, Git!Tree
    <3> QED BY <3>1, <3>2 DEF GivesUp
  <2>2. CASE v \notin Versions(commits, a, p)
    BY <1>2, <2>2, DecidedBy DEF GivenUpBy
  <2> QED BY <2>1, <2>2
<1> QED BY <1>1, <1>3, <1>4, <1>6, OneMoreDecided

(* The commit of a merge nothing of was left to the user.                  *)
LEMMA CleanMergeDecides ==
  ASSUME IsHistory(commits), Decided(commits), NEW a \in 0 .. Len(commits), NEW b \in 0 .. Len(commits),
         NEW m, m = MergeOf(BaseTree(a, b), a, b),
         NEW h, h = Append(commits, MergeCommit(a, b, m.tree))
  PROVE  Decided(h)
<1> DEFINE n == Len(commits)
           c == MergeCommit(a, b, m.tree)
<1>0. n \in Nat
  BY DEF IsHistory
<1>1. c \in Stored /\ IsCommit(c, n + 1)
  BY MergeIsATree, MergeCommitIsStored
<1>2. Git!Ancestors(commits, a) \subseteq 1 .. n /\ Git!Ancestors(commits, b) \subseteq 1 .. n
  BY TreeOfACommit
<1>3. /\ c.anc \ {n + 1} = Git!Ancestors(commits, a) \cup Git!Ancestors(commits, b)
      /\ c.tree = m.tree
  BY <1>0, <1>2 DEF MergeCommit
<1> HIDE DEF c
<1>4. h = Append(commits, c)
  BY DEF c
<1>5. ASSUME NEW e \in Git!Ancestors(commits, a) \cup Git!Ancestors(commits, b), NEW p \in SyncPaths,
             NEW v \in Versions(commits, e, p) \ ToSet(m.tree[p])
      PROVE  \E g \in Git!Ancestors(commits, a) \cup Git!Ancestors(commits, b) : GivesUp(commits, g, p, v)
  <2>1. CASE v \in Dropped(m.tree, a, p)
    BY <2>1, MergedDecides DEF GivenUpBy
  <2>2. CASE v \in Dropped(m.tree, b, p)
    BY <2>2, MergedDecides DEF GivenUpBy
  <2>3. CASE v \notin Versions(commits, a, p) /\ v \notin Versions(commits, b, p)
    BY <2>3, DecidedBy DEF GivenUpBy
  <2> QED BY <2>1, <2>2, <2>3 DEF Dropped
<1> QED BY <1>1, <1>3, <1>4, <1>5, OneMoreDecided

(* The commit of one that was, by then: its question is younger than all   *)
(* it descends from.                                                       *)
LEMMA AskedMergeDecides ==
  ASSUME IsHistory(commits), Decided(commits), NEW a \in 0 .. Len(commits), NEW b \in 0 .. Len(commits),
         NEW tree \in Trees, Dated(tree, Len(commits)), NEW d \in Dev, NEW i \in DOMAIN tree[Question(d)],
         tree[Question(d)][i][2] >= a, tree[Question(d)][i][2] >= b,
         NEW h, h = Append(commits, MergeCommit(a, b, tree))
  PROVE  Decided(h)
<1> DEFINE n == Len(commits)
           c == MergeCommit(a, b, tree)
           q == Question(d)
           w == tree[q][i]
<1>0. n \in Nat
  BY DEF IsHistory
<1>1. c \in Stored /\ IsCommit(c, n + 1)
  BY MergeCommitIsStored
<1>2. /\ Git!Ancestors(commits, a) \subseteq 1 .. n /\ Git!Ancestors(commits, b) \subseteq 1 .. n
      /\ Git!Ancestors(commits, a) \subseteq 1 .. a /\ Git!Ancestors(commits, b) \subseteq 1 .. b
  BY TreeOfACommit
<1>3. /\ c.anc \ {n + 1} = Git!Ancestors(commits, a) \cup Git!Ancestors(commits, b)
      /\ c.tree = tree
  BY <1>0, <1>2 DEF MergeCommit
<1>4. q \in SyncPaths /\ w \in Writings /\ w[2] \in Nat
  <2>1. q \in SyncPaths /\ tree[q] \in Seq(Writings)
    BY QuestionIsAPath DEF Trees
  <2>2. w \in Writings
    BY <2>1
  <2> QED BY <2>1, <2>2, WritingIsDated
<1> HIDE DEF c
<1>5. h = Append(commits, c)
  BY DEF c
<1>6. h[n + 1] = c /\ Extends(h)
  <2>1. h[n + 1] = c
    BY <1>0, <1>1, <1>5 DEF IsHistory
  <2>2. Extends(h)
    BY <1>1, <1>5, HistoryStays
  <2> QED BY <2>1, <2>2
<1>7. \A p : Versions(h, n + 1, p) = ToSet(tree[p])
  BY <1>0, <1>3, <1>6 DEF Versions, Git!Tree
<1>8. ASSUME NEW e \in c.anc \ {n + 1} PROVE w \notin Versions(h, e, q)
  <2>1. e \in 1 .. n /\ (e <= a \/ e <= b)
    BY <1>2, <1>3
  <2>2. Dated(Git!Tree(commits, e), e - 1) /\ Versions(h, e, q) = Versions(commits, e, q)
    BY <1>6, <2>1, TreeOfACommit DEF Extends
  <2>3. w[2] > e - 1
    BY <1>0, <1>4, <2>1
  <2>4. \A j \in DOMAIN Git!Tree(commits, e)[q] : Git!Tree(commits, e)[q][j][2] <= e - 1
    BY <2>2 DEF Dated
  <2>5. \A j \in DOMAIN Git!Tree(commits, e)[q] : Git!Tree(commits, e)[q][j] # w
    BY <1>0, <1>4, <2>1, <2>3, <2>4
  <2> QED BY <2>2, <2>5 DEF Versions, ToSet
<1>9. Asks(h, n + 1)
  <2>1. w \in Versions(h, n + 1, q)
    BY <1>7 DEF ToSet
  <2> QED BY <1>6, <1>8, <2>1 DEF Asks
<1>10. ASSUME NEW p \in SyncPaths, NEW v, v \notin ToSet(c.tree[p]) PROVE GivesUp(h, n + 1, p, v)
  BY <1>3, <1>7, <1>9, <1>10 DEF GivesUp
<1> QED BY <1>1, <1>5, <1>10, OneMoreDecided

LEMMA ForgetItemDecides ==
  ASSUME SyncInv, Decided(commits), NEW d \in Dev, NEW p \in Notes, ForgetItem(d, p)
  PROVE  Decided(commits')
<1> DEFINE w == [clone[d] EXCEPT !.work[p] = Gone]
           r == Git!RemovedFromIndex(w, p)
<1>1. p \in SyncPaths
  BY DEF SyncPaths
<1>2. IsClone(w, Len(commits))
  BY DeviceFacts, TouchedClone, GoneIsText
<1>3. IsClone(r, Len(commits))
  BY <1>1, <1>2, DeviceFacts, UnstagedClone
<1>4. commits' = Append(commits, Git!NewCommit(commits, r, {p}))
  BY DEF ForgetItem
<1> HIDE DEF r
<1>5. {p} \in SUBSET SyncPaths /\ IsHistory(commits)
  BY <1>1, DeviceFacts
<1> QED BY <1>3, <1>4, <1>5, NewCommitDecides

LEMMA CycleDecides ==
  ASSUME SyncInv, Decided(commits), NEW d \in Dev, Cycle(d)
  PROVE  Decided(commits')
<1> DEFINE ps == Git!AddedOrModified(commits, clone[d]) \cup open[d].paths
           r == Git!StagedPaths(clone[d], ps)
<1>1. commits' = commits \/ commits' = Append(commits, Git!NewCommit(commits, r, ps))
  BY DEF Cycle
<1>2. ps \in SUBSET SyncPaths
  BY DeviceFacts DEF Git!AddedOrModified, IsMerge
<1>3. IsClone(r, Len(commits)) /\ IsHistory(commits)
  BY DeviceFacts, StagedClone
<1> HIDE DEF ps, r
<1>4. CASE commits' = commits
  BY <1>4
<1>5. CASE commits' = Append(commits, Git!NewCommit(commits, r, ps))
  BY <1>2, <1>3, <1>5, NewCommitDecides
<1> QED BY <1>1, <1>4, <1>5

(* A merge of the next branch leaves the branch's index alone or makes it  *)
(* the merged tree.                                                        *)
LEMMA NextMerged ==
  ASSUME SyncInv, NEW d \in Dev, MergeNext(d)
  PROVE  \E i \in DOMAIN Devices :
           LET b == syncing[d].todo[i]
               m == MergeOf(BaseTree(TipOf(d), b), TipOf(d), b)
           IN  /\ IsNext(d, i) /\ b \in 0 .. Len(commits)
               /\ commits' \in {commits, Append(commits, MergeCommit(TipOf(d), b, m.tree))}
               /\ \/ clone[d].index' \in {clone[d].index, m.tree}
                  \/ /\ clone[d].index' = Git!Tree(commits, b)
                     /\ TipOf(d) \in Git!Ancestors(commits, b)
               /\ \A e \in Dev \ {d} : clone[e]' = clone[e]
<1>1. PICK i \in DOMAIN Devices :
         /\ IsNext(d, i)
         /\ \E m \in {MergeOf(BaseTree(TipOf(d), syncing[d].todo[i]), TipOf(d), syncing[d].todo[i])} :
              \/ UNCHANGED <<clone, commits>>
              \/ FastForward(d, m) \/ CleanMerge(d, m) \/ OpenMerge(d, m)
  BY DEF MergeNext, UpToDate
<1> DEFINE b == syncing[d].todo[i]
           m == MergeOf(BaseTree(TipOf(d), b), TipOf(d), b)
<1>2. b \in 0 .. Len(commits)
  BY DeviceFacts DEF IsSync
<1>3. m.theirs = b
  BY DEF MergeOf
<1>4. \/ UNCHANGED <<clone, commits>>
      \/ FastForward(d, m) \/ CleanMerge(d, m) \/ OpenMerge(d, m)
  BY <1>1
<1> HIDE DEF m, b
<1>5. ASSUME NEW tree PROVE Taken(clone[d], tree).index = tree
  <2>1. DOMAIN clone[d] = {"work", "index", "head", "refs"}
    BY DeviceFacts DEF IsClone
  <2> QED BY <2>1 DEF Taken
<1> DEFINE t == Taken(clone[d], m.tree)
           f == Taken(clone[d], Git!Tree(commits, b))
<1>11. t.index = m.tree /\ f.index = Git!Tree(commits, b)
  BY <1>5
<1> HIDE DEF t, f
<1>6. ASSUME NEW r, clone' = [clone EXCEPT ![d] = r]
      PROVE  clone[d].index' = r.index /\ \A e \in Dev \ {d} : clone[e]' = clone[e]
  BY <1>6, DeviceFacts DEF SyncInv
<1>7. CASE UNCHANGED <<clone, commits>>
  BY <1>1, <1>2, <1>7 DEF m, b
<1>8. CASE FastForward(d, m)
  <2>1. /\ clone' = [clone EXCEPT ![d] = [f EXCEPT !.refs["own"] = b]] /\ commits' = commits
        /\ TipOf(d) \in Git!Ancestors(commits, b)
    BY <1>3, <1>8 DEF FastForward, f
  <2>2. [f EXCEPT !.refs["own"] = b].index = Git!Tree(commits, b)
    BY <1>11
  <2> QED BY <1>1, <1>2, <1>6, <2>1, <2>2 DEF m, b
<1>9. CASE CleanMerge(d, m)
  <2>1. /\ clone' = [clone EXCEPT ![d] = Git!Advanced(commits, t)]
        /\ commits' = Append(commits, MergeCommit(TipOf(d), b, m.tree))
    BY <1>3, <1>9 DEF CleanMerge, t
  <2>2. Git!Advanced(commits, t).index = m.tree
    BY <1>11 DEF Git!Advanced
  <2> QED BY <1>1, <1>2, <1>6, <2>1, <2>2 DEF m, b
<1>10. CASE OpenMerge(d, m)
  <2>1. clone' = [clone EXCEPT ![d] = t] /\ commits' = commits
    BY <1>10 DEF OpenMerge, t
  <2> QED BY <1>1, <1>2, <1>6, <1>11, <2>1 DEF m, b
<1> QED BY <1>4, <1>7, <1>8, <1>9, <1>10

LEMMA MergeNextDecides ==
  ASSUME SyncInv, Decided(commits), NEW d \in Dev, MergeNext(d)
  PROVE  Decided(commits')
<1> DEFINE a == TipOf(d)
<1>1. PICK b \in 0 .. Len(commits) :
         commits' \in {commits, Append(commits, MergeCommit(a, b, MergeOf(BaseTree(a, b), a, b).tree))}
  BY NextMerged
<1> QED BY <1>1, DeviceFacts, CleanMergeDecides

LEMMA FinishMergeDecides ==
  ASSUME SyncInv, Decided(commits), NEW d \in Dev, FinishMerge(d)
  PROVE  Decided(commits')
<1>1. CASE commits' = commits
  BY <1>1
<1>2. CASE commits' # commits
  <2>1. /\ At(d, "resolve") /\ open[d].paths = {}
        /\ commits' = Append(commits, MergeCommit(TipOf(d), open[d].theirs, clone[d].index))
    BY <1>2 DEF FinishMerge
  <2>2. PICK i \in DOMAIN clone[d].index[Question(d)] :
          /\ clone[d].index[Question(d)][i][2] >= TipOf(d)
          /\ clone[d].index[Question(d)][i][2] >= open[d].theirs
    BY <2>1, DeviceFacts DEF Asked, At
  <2>3. /\ clone[d].index \in Trees /\ Dated(clone[d].index, Len(commits))
        /\ open[d].theirs \in 0 .. Len(commits)
    BY DeviceFacts DEF IsClone, IsMerge
  <2> QED BY <2>1, <2>2, <2>3, DeviceFacts, AskedMergeDecides
<1> QED BY <1>1, <1>2

LEMMA SyncNextDecides ==
  ASSUME SyncInv, Decided(commits), [SyncNext]_syncVars
  PROVE  Decided(commits')
<1>1. CASE commits' = commits
  BY <1>1
<1>2. CASE commits' # commits
  <2>1. SyncNext
    BY <1>2 DEF syncVars
  <2>2. PICK d \in Dev : (\E p \in Notes : ForgetItem(d, p)) \/ Cycle(d) \/ MergeNext(d) \/ FinishMerge(d)
    BY <1>2, <2>1 DEF SyncNext, SyncStep, Edit, DeleteFile, SyncCommand, BundleImport, Fetch,
       StageSurvivor, AskAboutDeletion, Push, Breaks
  <2> QED BY <2>2, ForgetItemDecides, CycleDecides, MergeNextDecides, FinishMergeDecides
<1> QED BY <1>1, <1>2

LEMMA SyncStartsDecided == SyncInit => Decided(commits)
<1> SUFFICES ASSUME SyncInit PROVE Decided(commits)
  OBVIOUS
<1>1. CASE commits = <<>>
  BY <1>1 DEF Decided
<1>2. CASE commits = << [tree |-> Shared, anc |-> {1}, parent |-> 0, own |-> {}],
                        [tree |-> Remaining, anc |-> {1, 2}, parent |-> 1, own |-> Forgotten] >>
  <2>1. Len(commits) = 2 /\ commits[1].anc = {1} /\ commits[2].anc = {1, 2} /\ commits[2].parent = 1
    BY <1>2
  <2>2. ASSUME NEW c \in 1 .. 2, NEW a \in commits[c].anc, NEW p \in SyncPaths,
               NEW v \in Versions(commits, a, p) \ Versions(commits, c, p)
        PROVE  GivenUpBy(commits, c, p, v)
    <3>1. c = 2 /\ a = 1
      BY <2>1, <2>2
    <3>2. GivesUp(commits, 2, p, v)
      BY <2>1, <2>2, <3>1 DEF GivesUp
    <3>3. 2 \in Git!Ancestors(commits, 2)
      BY <2>1 DEF Git!Ancestors
    <3> QED BY <3>1, <3>2, <3>3 DEF GivenUpBy
  <2> QED BY <2>1, <2>2 DEF Decided
<1> QED BY <1>1, <1>2 DEF SyncInit

(* Nothing any device ever committed is out of a later version of a file   *)
(* without a commit in between that gave it up.                            *)
THEOREM HistoriesAreDecided == SyncSpec => []Decided(commits)
<1>1. SyncInv /\ Decided(commits) /\ [SyncNext]_syncVars => Decided(commits)'
  BY SyncNextDecides
<1> QED BY <1>1, SyncStartsDecided, SyncStaysSound, PTL DEF SyncSpec

(* While a sync merges, its own steps are the only ones to move the index. *)
LEMMA OnlyMergesMoveTheIndex ==
  ASSUME SyncInv, SyncNext, NEW d \in Dev, At(d, "merge"), clone[d].index' # clone[d].index
  PROVE  MergeNext(d)
<1>1. PICK e \in Dev : \/ \E p \in Notes : Edit(e, p) \/ DeleteFile(e, p) \/ ForgetItem(e, p)
                      \/ SyncCommand(e) \/ BundleImport(e) \/ SyncStep(e) \/ Breaks(e)
  BY DEF SyncNext
<1>2. ASSUME NEW p \in Notes, Edit(e, p) \/ DeleteFile(e, p) PROVE FALSE
  <2>1. PICK text : clone' = [clone EXCEPT ![e] = [clone[e] EXCEPT !.work[p] = text]]
    BY <1>2 DEF Edit, DeleteFile, Touch
  <2>2. [clone[e] EXCEPT !.work[p] = text].index = clone[e].index
    OBVIOUS
  <2> QED BY <2>1, <2>2 DEF SyncInv
<1>3. clone' # clone
  OBVIOUS
<1>4. ~(SyncCommand(e) \/ BundleImport(e) \/ Fetch(e) \/ Push(e) \/ Breaks(e))
  BY <1>3 DEF SyncCommand, BundleImport, Fetch, Push, Breaks
<1>5. e = d
  <2>1. ASSUME NEW r, clone' = [clone EXCEPT ![e] = r] PROVE e = d
    BY <2>1 DEF SyncInv
  <2>2. ASSUME NEW p \in Notes, ForgetItem(e, p) PROVE e = d
    BY <2>1, <2>2 DEF ForgetItem
  <2>3. CASE Cycle(e)
    BY <1>3, <2>1, <2>3 DEF Cycle
  <2>4. CASE MergeNext(e)
    BY <2>4, NextMerged
  <2>5. CASE StageSurvivor(e)
    BY <2>1, <2>5 DEF StageSurvivor
  <2>6. CASE AskAboutDeletion(e)
    BY <2>1, <2>6 DEF AskAboutDeletion
  <2>7. CASE FinishMerge(e)
    BY <1>3, <2>1, <2>7 DEF FinishMerge
  <2> QED BY <1>1, <1>2, <1>4, <2>2, <2>3, <2>4, <2>5, <2>6, <2>7 DEF SyncStep
<1>6. /\ ~(\E p \in Notes : ForgetItem(e, p)) /\ ~Cycle(e)
      /\ ~StageSurvivor(e) /\ ~AskAboutDeletion(e) /\ ~FinishMerge(e)
  BY <1>5 DEF ForgetItem, Cycle, StageSurvivor, AskAboutDeletion, FinishMerge, At
<1> QED BY <1>1, <1>2, <1>4, <1>5, <1>6 DEF SyncStep

(* Whatever the devices edit, delete, merge and forget, in whatever order, *)
(* and however the branches have been merged before, a merge leaves no     *)
(* version of a file out that the other branch had not given up.           *)
THEOREM MergesLoseNoVersion == SyncSpec => MergesDiscardNothing
<1>1. SyncInv /\ Decided(commits) /\ [SyncNext]_syncVars =>
        [\A d \in Dev :
           (At(d, "merge") /\ clone[d].index' # clone[d].index) =>
             \E i \in DOMAIN Devices :
               /\ IsNext(d, i)
               /\ \A p \in SyncPaths :
                    LET ours == TipOf(d)
                        theirs == syncing[d].todo[i]
                    IN  /\ \A v \in Dropped(clone[d].index', ours, p) : GivenUpBy(commits, theirs, p, v)
                        /\ \A v \in Dropped(clone[d].index', theirs, p) : GivenUpBy(commits, ours, p, v)
        ]_syncVars
  <2> SUFFICES ASSUME SyncInv, Decided(commits), SyncNext, NEW d \in Dev, At(d, "merge"),
                      clone[d].index' # clone[d].index
               PROVE  \E i \in DOMAIN Devices :
                        /\ IsNext(d, i)
                        /\ \A p \in SyncPaths :
                             /\ \A v \in Dropped(clone[d].index', TipOf(d), p) :
                                  GivenUpBy(commits, syncing[d].todo[i], p, v)
                             /\ \A v \in Dropped(clone[d].index', syncing[d].todo[i], p) :
                                  GivenUpBy(commits, TipOf(d), p, v)
    OBVIOUS
  <2>1. MergeNext(d)
    BY OnlyMergesMoveTheIndex
  <2>2. PICK i \in DOMAIN Devices :
          /\ IsNext(d, i) /\ syncing[d].todo[i] \in 0 .. Len(commits)
          /\ \/ clone[d].index' = MergeOf(BaseTree(TipOf(d), syncing[d].todo[i]), TipOf(d),
                                          syncing[d].todo[i]).tree
             \/ /\ clone[d].index' = Git!Tree(commits, syncing[d].todo[i])
                /\ TipOf(d) \in Git!Ancestors(commits, syncing[d].todo[i])
    BY <2>1, NextMerged
  <2>3. CASE clone[d].index' = MergeOf(BaseTree(TipOf(d), syncing[d].todo[i]), TipOf(d),
                                       syncing[d].todo[i]).tree
    BY <2>2, <2>3, DeviceFacts, MergedDecides
  <2>4. CASE /\ clone[d].index' = Git!Tree(commits, syncing[d].todo[i])
             /\ TipOf(d) \in Git!Ancestors(commits, syncing[d].todo[i])
    <3> DEFINE b == syncing[d].todo[i]
    <3>1. b \in 1 .. Len(commits) /\ TipOf(d) \in commits[b].anc /\ Git!Tree(commits, b) = commits[b].tree
      BY <2>2, <2>4 DEF Git!Ancestors, Git!Tree
    <3> HIDE DEF b
    <3>2. ASSUME NEW p \in SyncPaths
          PROVE  /\ Dropped(Git!Tree(commits, b), b, p) = {}
                 /\ \A v \in Dropped(Git!Tree(commits, b), TipOf(d), p) : GivenUpBy(commits, b, p, v)
      <4>1. Dropped(Git!Tree(commits, b), b, p) = {}
        BY DEF Dropped, Versions
      <4>2. Dropped(Git!Tree(commits, b), TipOf(d), p) = Versions(commits, TipOf(d), p) \ Versions(commits, b, p)
        BY DEF Dropped, Versions
      <4> QED BY <3>1, <4>1, <4>2 DEF Decided
    <3> QED BY <2>2, <2>4, <3>2 DEF b
  <2> QED BY <2>2, <2>3, <2>4
<1> QED BY <1>1, HistoriesAreDecided, SyncStaysSound, PTL DEF SyncSpec, MergesDiscardNothing

=============================================================================
