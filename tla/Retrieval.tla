----------------------------- MODULE Retrieval -----------------------------
(* What `wkp search`, `wkp search --embed-url`, `wkp context`, `wkp traverse`  *)
(* and `wkp prompt-hook` answer from index.db. One question is several SQL    *)
(* statements on one connection with no transaction around them               *)
(* (index/search.rs, index/hybrid.rs), so an index run may commit between any *)
(* two of them. A row keeps what the answer can tell: its tier, its token      *)
(* estimate, how well it matches the words of the question (score, 0 for not  *)
(* at all) and how close its embedding is (near, 0 for none of the question's *)
(* dimension).                                                                *)
EXTENDS Naturals, Sequences, FiniteSets

CONSTANTS
  Paths, Rows, Links,     \* items, the rows they may have, the edge sets they may start with
  CommandLines,           \* pairs of a command and the options it is given
  HookLimit,                    \* 5 in prompt-hook
  TopHits, SeedCount, Hops,     \* 20, 3 and 2 in context()
  FuseLimit, RankConstant,      \* 40 and 60 in hybrid_search() and its rank fusion
  Unlimited,              \* more than there are paths, or tokens in all rows
  MaxUpdates              \* bound: index runs that commit

VARIABLES items, itemEdges, ask, during, updates

retrievalVars == <<items, itemEdges, ask, during, updates>>

NotIndexed == [tier |-> 0, tokens |-> 0, score |-> 0, near |-> 0, gone |-> TRUE]

(* The options of a command: those left out filter nothing, and the hook asks *)
(* for its best five whatever their tier.                                     *)
Option(given, name, default) == IF name \in DOMAIN given THEN given[name] ELSE default
QuestionOf(kind, given) ==
  [kind   |-> kind,
   tier   |-> Option(given, "tier", 2),
   budget |-> Option(given, "budget", Unlimited),
   limit  |-> Option(given, "limit", IF kind = "prompt" THEN HookLimit ELSE Unlimited),
   start  |-> Option(given, "start", ""),
   depth  |-> Option(given, "depth", Hops)]

(* What a parser lets through; `traverse` has a start, and no tier or limit.  *)
Questions ==
  {q \in [kind : {"search", "prompt", "context", "traverse", "hybrid"}, tier : Nat, budget : Nat,
          limit : Nat, start : Paths \union {""}, depth : Nat] :
     q.kind = "traverse" => q.start \in Paths /\ q.tier = 2 /\ q.limit = Unlimited}

(* The constants as the program has them.                                     *)
RetrievalSetting ==
  /\ IsFiniteSet(Paths) /\ Cardinality(Paths) <= Unlimited /\ Unlimited \in Nat
  /\ Rows \subseteq [tier : 0 .. 2, tokens : Nat, score : Nat, near : Nat, gone : {FALSE}]
  /\ Links \subseteq [Paths -> SUBSET Paths]
  /\ \A line \in CommandLines : QuestionOf(line.command, line.given) \in Questions
  /\ HookLimit \in Nat /\ TopHits \in Nat /\ SeedCount \in Nat /\ Hops \in Nat /\ Hops >= 2
  /\ FuseLimit \in Nat /\ RankConstant \in Nat /\ FuseLimit < RankConstant + 2

ASSUME RetrievalAssumption == RetrievalSetting

InIndex == {p \in Paths : ~items[p].gone}

-----------------------------------------------------------------------------

(* Every order, best first, of the paths in S by a weight: SQL and the hash   *)
(* map of the fusion leave the order of ties open.                            *)
Ranked(S, weight) ==
  {q \in [1 .. Cardinality(S) -> S] :
     \A i, j \in DOMAIN q : i < j => q[i] # q[j] /\ weight[q[i]] >= weight[q[j]]}

Cut(q, n) == SubSeq(q, 1, IF n < Len(q) THEN n ELSE Len(q))

PathsOf(hits) == {hits[i].path : i \in DOMAIN hits}

HitOf(p, hop) == [path |-> p, tier |-> items[p].tier, tokens |-> items[p].tokens, hop |-> hop]

Spent(hits) ==
  LET total[i \in 0 .. Len(hits)] == IF i = 0 THEN 0 ELSE total[i - 1] + hits[i].tokens
  IN  total[Len(hits)]

\* fault: the budget is looked at before an answer is added
ApplyBudget_Before(hits, budget) ==
  LET fits == {n \in DOMAIN hits : n = 1 \/ Spent(Cut(hits, n - 1)) <= budget}
  IN  Cut(hits, Cardinality(fits))

(* apply_budget: the best answers that fit, and always the first.             *)
ApplyBudget(hits, budget) ==
  LET fits == {n \in DOMAIN hits : n = 1 \/ Spent(Cut(hits, n)) <= budget}
  IN  Cut(hits, Cardinality(fits))

(* The paths an edge walk of at most n steps from p ends at, whether or not   *)
(* they are indexed themselves.                                               *)
Reach(p, n) ==
  LET level[k \in 0 .. n] ==
        IF k = 0 THEN {p} ELSE UNION {itemEdges[q] : q \in level[k - 1]}
  IN  level

HopOf(p, q, n) ==
  CHOOSE k \in 0 .. n : q \in Reach(p, n)[k] /\ \A l \in 0 .. k - 1 : q \notin Reach(p, n)[l]

Rank(q, p) == CHOOSE i \in DOMAIN q : q[i] = p

\* Fractions, as pairs: their sum and their order.
Sum2(x, y) == <<x[1] * y[2] + y[1] * x[2], x[2] * y[2]>>
AtLeast(x, y) == x[1] * y[2] >= y[1] * x[2]

\* fault: the reciprocal of the bare rank
FusedScore_BareRank(lists, p) ==
  LET part(q) == IF \E i \in DOMAIN q : q[i] = p THEN <<1, Rank(q, p)>> ELSE <<0, 1>>
  IN  Sum2(part(lists[1]), part(lists[2]))

(* Two rank lists fused: the sum of 1 / (K + rank) over the lists a path is   *)
(* in.                                                                        *)
FusedScore(lists, p) ==
  LET part(q) == IF \E i \in DOMAIN q : q[i] = p THEN <<1, RankConstant + Rank(q, p)>> ELSE <<0, 1>>
  IN  Sum2(part(lists[1]), part(lists[2]))

-----------------------------------------------------------------------------

Asked(kind, at) == ask.question.kind = kind /\ ask.at = at

Ask(kind, given) ==
  /\ ask.at = "idle"
  /\ ask' = [ask EXCEPT !.question = QuestionOf(kind, given), !.at = "words", !.quiet = TRUE]
  /\ during' = [p \in Paths |-> {items[p]}]
  /\ UNCHANGED <<items, itemEdges, updates>>

(* The words: the BM25 statement, with the tier filter and the limit in it.   *)
WordHits ==
  LET found == {p \in InIndex : items[p].score > 0 /\ items[p].tier <= ask.question.tier}
      limit == CASE ask.question.kind = "context" -> TopHits
                 [] ask.question.kind = "hybrid"  -> FuseLimit
                 [] OTHER                         -> ask.question.limit
  IN  {[i \in DOMAIN Cut(q, limit) |-> HitOf(q[i], 0)] :
         q \in Ranked(found, [p \in Paths |-> items[p].score])}

Answer(hits) == [ask EXCEPT !.at = "done", !.hits = ApplyBudget(hits, ask.question.budget)]

Search ==
  /\ Asked("search", "words") \/ Asked("prompt", "words")
  /\ \E hits \in WordHits : ask' = Answer(hits)
  /\ UNCHANGED <<items, itemEdges, during, updates>>

(* context: the words first, then the neighbours of the best three.           *)
SearchTopic ==
  /\ Asked("context", "words")
  /\ \E hits \in WordHits :
       ask' = [ask EXCEPT !.at = "seeds", !.hits = hits,
                 !.todo = [i \in DOMAIN Cut(hits, SeedCount) |-> hits[i].path]]
  /\ UNCHANGED <<items, itemEdges, during, updates>>

\* fault: the walk stops one edge short
Neighbours_Short(seed, depth) == {p \in InIndex \ {seed} : p \in itemEdges[seed]}

Neighbours(seed, depth) ==
  {p \in InIndex \ {seed} : \E k \in 0 .. depth : p \in Reach(seed, depth)[k]}

(* The neighbours in S as hits, nearest first and the lower tier among those. *)
Walks(seed, S, depth) ==
  LET hop == [p \in S |-> HopOf(seed, p, depth)]
  IN  {[i \in DOMAIN q |-> HitOf(q[i], hop[q[i]])] :
         q \in Ranked(S, [p \in S |-> 10 * (depth - hop[p]) + 2 - items[p].tier])}

TraverseFrom ==
  /\ Asked("traverse", "words")
  /\ \E hits \in Walks(ask.question.start, Neighbours(ask.question.start, ask.question.depth),
                       ask.question.depth) :
       ask' = Answer(hits)
  /\ UNCHANGED <<items, itemEdges, during, updates>>

Traverse ==
  /\ Asked("context", "seeds")
  /\ ask.todo # <<>>
  /\ LET seed == Head(ask.todo)
         new == {p \in Neighbours(seed, Hops) : items[p].tier <= ask.question.tier /\ p \notin PathsOf(ask.hits)}
     IN  \E hits \in Walks(seed, new, Hops) :
           ask' = [ask EXCEPT !.todo = Tail(@), !.hits = @ \o hits]
  /\ UNCHANGED <<items, itemEdges, during, updates>>

EndContext ==
  /\ Asked("context", "seeds")
  /\ ask.todo = <<>>
  /\ ask' = Answer(ask.hits)
  /\ UNCHANGED <<items, itemEdges, during, updates>>

(* The embedding endpoint did not answer, or nothing in scope has an          *)
(* embedding of that dimension: a plain search instead, from the start.       *)
FallBack ==
  /\ ask.question.kind = "hybrid"
  /\ \/ ask.at = "words"
     \/ ask.at = "vectors" /\ ask.near = {}
  /\ ask' = [ask EXCEPT !.question.kind = "search", !.at = "words", !.hits = <<>>]
  /\ UNCHANGED <<items, itemEdges, during, updates>>

SearchWords ==
  /\ Asked("hybrid", "words")
  /\ \E hits \in WordHits : ask' = [ask EXCEPT !.at = "embeddings", !.hits = hits]
  /\ UNCHANGED <<items, itemEdges, during, updates>>

Near == {p \in InIndex : items[p].near > 0 /\ items[p].tier <= ask.question.tier}

(* The vector statement: every row with an embedding, ranked by closeness and *)
(* truncated like the word list.                                              *)
SearchVectors ==
  /\ Asked("hybrid", "embeddings")
  /\ \E q \in Ranked(Near, [p \in Paths |-> items[p].near]) :
       ask' = [ask EXCEPT !.at = "vectors", !.near = Near,
                 !.lists = <<[i \in DOMAIN ask.hits |-> ask.hits[i].path], Cut(q, FuseLimit)>>]
  /\ UNCHANGED <<items, itemEdges, during, updates>>

InList(p, l) == \E i \in DOMAIN ask.lists[l] : ask.lists[l][i] = p

(* Every order of the paths in either list by the fused score, best first.    *)
FusedOrders ==
  {q \in Ranked({p \in Paths : InList(p, 1) \/ InList(p, 2)}, [p \in Paths |-> 0]) :
     \A i, j \in DOMAIN q :
       i < j => AtLeast(FusedScore(ask.lists, q[i]), FusedScore(ask.lists, q[j]))}

Fuse ==
  /\ Asked("hybrid", "vectors")
  /\ ask.near # {}
  /\ \E q \in FusedOrders :
       ask' = [ask EXCEPT !.at = "fused", !.todo = q, !.words = ask.hits, !.hits = <<>>]
  /\ UNCHANGED <<items, itemEdges, during, updates>>

(* One fused path at a time: the word hit as it was read, or the row looked   *)
(* up now; a row that has gone meanwhile is passed over.                      *)
FetchMetadata ==
  /\ Asked("hybrid", "fused")
  /\ ask.todo # <<>>
  /\ LET p == Head(ask.todo)
         word == {i \in DOMAIN ask.words : ask.words[i].path = p}
         hit == IF word # {} THEN {ask.words[i] : i \in word}
                ELSE IF p \in InIndex THEN {HitOf(p, 0)} ELSE {}
     IN  ask' = [ask EXCEPT !.todo = Tail(@),
                   !.hits = IF hit = {} THEN @ ELSE Append(@, CHOOSE h \in hit : TRUE)]
  /\ UNCHANGED <<items, itemEdges, during, updates>>

EndHybrid ==
  /\ Asked("hybrid", "fused")
  /\ ask.todo = <<>>
  /\ ask' = Answer(Cut(ask.hits, ask.question.limit))
  /\ UNCHANGED <<items, itemEdges, during, updates>>

(* An index run commits: one item has another row, or none, and other edges.  *)
(* One that commits before or after the question is another initial state.    *)
Reindex(p) ==
  /\ ask.at \notin {"idle", "done"}
  /\ updates < MaxUpdates
  /\ updates' = updates + 1
  /\ \E row \in Rows \union {NotIndexed} : items' = [items EXCEPT ![p] = row]
  /\ itemEdges' \in {itemEdges, [itemEdges EXCEPT ![p] = {}]}
  /\ during' = [during EXCEPT ![p] = @ \union {items'[p]}]
  /\ ask' = [ask EXCEPT !.quiet = FALSE]

RetrievalInit ==
  /\ items \in [Paths -> Rows \union {NotIndexed}]
  /\ itemEdges \in Links
  /\ ask = [at |-> "idle", question |-> QuestionOf("search", <<>>),
            hits |-> <<>>, words |-> <<>>, todo |-> <<>>, near |-> {}, lists |-> <<<<>>, <<>>>>,
            quiet |-> TRUE]
  /\ during = [p \in Paths |-> {}]
  /\ updates = 0

RetrievalNext ==
  \/ \E line \in CommandLines : Ask(line.command, line.given)
  \/ Search \/ TraverseFrom \/ SearchTopic \/ Traverse \/ EndContext
  \/ FallBack \/ SearchWords \/ SearchVectors \/ Fuse \/ FetchMetadata \/ EndHybrid
  \/ \E p \in Paths : Reindex(p)

RetrievalSpec == RetrievalInit /\ [][RetrievalNext]_retrievalVars

-----------------------------------------------------------------------------

Done == ask.at = "done"

(* However the index changes between the statements of one question, the      *)
(* answer names no item twice, names only items that were within the asked    *)
(* tier at some moment of it, stays within the limit, and, but for a single   *)
(* best item, within the budget (search.rs:20-27, and context's `seen`).      *)
AnswersKeepTheRequest ==
  Done =>
    /\ \A i, j \in DOMAIN ask.hits : i # j => ask.hits[i].path # ask.hits[j].path
    /\ \A p \in PathsOf(ask.hits) : \E row \in during[p] : ~row.gone /\ row.tier <= ask.question.tier
    /\ Len(ask.hits) > 1 => Spent(ask.hits) <= ask.question.budget
    /\ ask.question.kind # "context" => Len(ask.hits) <= ask.question.limit

(* "A path present in both the BM25 and vector-similarity rankings naturally  *)
(* outranks one found by only one signal" (embed.rs:56-58): true only because *)
(* both lists are cut well below K + 2 entries before they are fused.         *)
BothSignalsFirst ==
  ask.at = "fused" =>
    \A i, j \in DOMAIN ask.todo :
      /\ InList(ask.todo[j], 1) /\ InList(ask.todo[j], 2)
      /\ ~(InList(ask.todo[i], 1) /\ InList(ask.todo[i], 2))
      => j < i

(* While no index run interferes, context leaves out no item within two edges *)
(* of one of its best hits unless the budget is spent on what it kept: walks  *)
(* through a cycle, or through a link to an item that is not indexed, do not  *)
(* hide what lies behind them.                                                *)
NeighboursAreNotMissed ==
  Done /\ ask.quiet /\ ask.question.kind = "context" =>
    \A i \in 1 .. SeedCount : \A p \in InIndex :
      /\ i \in DOMAIN ask.hits /\ ask.hits[i].hop = 0
      /\ items[p].tier <= ask.question.tier
      /\ \/ p \in itemEdges[ask.hits[i].path]
         \/ \E q \in itemEdges[ask.hits[i].path] : p \in itemEdges[q]
      => \/ p \in PathsOf(ask.hits)
         \/ Spent(ask.hits) + items[p].tokens > ask.question.budget
         \/ \E q \in InIndex \ PathsOf(ask.hits) : Spent(ask.hits) + items[q].tokens > ask.question.budget

=============================================================================
