------------------------------ MODULE MCStore ------------------------------
(***************************************************************************)
(* The components of the client, of a tenant's pod and of the hub's own    *)
(* files that meet only through the store and the index, side by side in   *)
(* one instance for TLC.  They share no variable, so nothing would be      *)
(* gained by interleaving them: a behavior picks one part and lets it run, *)
(* and the others stay in an initial state of theirs.  The modules that    *)
(* have theorems are extended, so that their constants are this module's,  *)
(* and the others are instances with their bounds.                         *)
(***************************************************************************)
EXTENDS SecretFiles, StoreWrites, StoreSync, ItemMerge, Frontmatter, StoreIndex, Retrieval,
        PrivateItems, SessionContext, Calendar, K8sPods, Invocation, UsageMetrics, Sequences,
        FiniteSets, TLC

VARIABLES
  part,
  tenantHead, tree, answered, run, lastIndexed, published, unlisted,   \* Tenant
  tenantTroubles

tenant == <<tenantHead, tree, answered, run, lastIndexed, published, unlisted, tenantTroubles>>

-----------------------------------------------------------------------------

\* One item of the user's and one of a project; an agent that may not promote itself.
ScopeOf == [i \in Items |-> IF i = "a" THEN "user" ELSE "project"]

\* Each text links to one of the items.
LinkOf == "v1" :> "a" @@ "v2" :> "b"

ItemPlaces == "u" :> [dir |-> "user", type |-> "instruction"] @@
              "k" :> [dir |-> "knowledge", type |-> "knowledge"]

Laptops == <<"d1", "d2">>

\* The coarsest ring is one window, so that the fourth sample can come round to the first;
\* the change gives the finest tier a longer step than the next one's.
Rings == <<[step |-> 1, slots |-> 1], [step |-> 1, slots |-> 2], [step |-> 2, slots |-> 1]>>
NewGeometries == {[tier |-> 1, step |-> 2, slots |-> 3]}

NotePaths == {"a.md", "b.md", "c.md"}
NoteRow(tier, tokens, score, near) ==
  [tier |-> tier, tokens |-> tokens, score |-> score, near |-> near, gone |-> FALSE]
RowSamples == {NoteRow(0, 1, 2, 1), NoteRow(2, 2, 1, 2)}
LinkCycle == "a.md" :> {"b.md"} @@ "b.md" :> {"a.md", "c.md"} @@ "c.md" :> {"a.md"}
Line(command, given) == [command |-> command, given |-> given]
LineSamples ==
  {Line("search", [tier |-> 1, budget |-> 2]), Line("prompt", <<>>),
   Line("context", [tier |-> 1, budget |-> 3]), Line("traverse", [start |-> "a.md"]),
   Line("hybrid", <<>>), Line("hybrid", [tier |-> 1, budget |-> 2, limit |-> 2])}
LinkSamples == {LinkCycle}

\* From each of these days over two years: a leap day of 1972, 2000 itself, and 2100
\* without one.
FirstDays == {<<0, <<1970, 1, 1>>>>, <<10957, <<2000, 1, 1>>>>, <<47482, <<2100, 1, 1>>>>}

Text(word, around, quotes) == [word |-> word, around |-> around, quotes |-> quotes, slashes |-> 0]
Words(word) == Text(word, <<>>, 0)
AtMargin(key, value) == [indent |-> 0, key |-> key, value |-> value]
Indented(key, value) == [indent |-> 1, key |-> key, value |-> value]
BlockLines ==
  {AtMargin("title", Words("one")), AtMargin("title", Text("two", <<"quotes", "quotes">>, 2)),
   AtMargin("title", Blank), AtMargin("type", Words("knowledge")),
   AtMargin("workspace", Text("null", <<"quotes", "space", "quotes">>, 0)),
   AtMargin("source", Words("web")), AtMargin("provenance", Blank),
   Indented("actor", Words("human")), Indented("source", Text("chat", <<"quotes", "quotes">>, 1)),
   Indented("session", Blank), AtMargin("tokens", Words("null")), AtMargin("tags", Blank),
   Indented("-", <<Words("a"), Text("b", <<"quotes">>, 0)>>), Indented("-", <<Words("")>>),
   AtMargin("tags", <<<<Text("d", <<"quotes", "quotes">>, 0)>>, <<Text("", <<"quotes", "space">>, 0)>>>>)}

Tenant == INSTANCE TenantIndex WITH
  Tenant <- "acme", Slugs <- {"acme", "other"}, Documents <- {"a.md", "b.md"},
  MaxPushes <- 2, MaxTroubles <- 1, head <- tenantHead, troubles <- tenantTroubles

-----------------------------------------------------------------------------

Parts == {"writes", "sync", "index", "usage", "merge", "secret", "private", "retrieval",
          "context", "calendar", "front", "tenant", "pods", "wkp"}

\* Parts with several initial states stay in one of them while another part runs.
Init ==
  /\ part \in Parts
  /\ WritesInit            /\ (part = "writes" \/ history = <<>>)
  /\ SyncInit
  /\ IndexInit             /\ (part = "index" \/ head = [p \in Md |-> NoFile])
  /\ UsageInit
  /\ MergeInit             /\ (part = "merge" \/ base = NoFrontmatter(<<>>))
  /\ SecretInit
  /\ PrivateInit
  /\ RetrievalInit
  /\ \/ part = "retrieval"
     \/ /\ items = [p \in NotePaths |-> NotIndexed]
        /\ itemEdges = LinkCycle
  /\ ContextInit           /\ (part = "context" \/ signers = {})
  /\ CalendarInit          /\ (part = "calendar" \/ day = 0)
  /\ FrontmatterInit       /\ (part = "front" \/ lines = <<>>)
  /\ Tenant!TenantIndexInit
  /\ K8sInit
  /\ InvocationInit        /\ (part = "wkp" \/ (landlock /\ store))

Still(p, its) == IF part = p THEN TRUE ELSE UNCHANGED its

OnlyThePartMoves ==
  /\ UNCHANGED part
  /\ Still("writes", writesVars)   /\ Still("sync", syncVars)       /\ Still("index", indexVars)
  /\ Still("usage", usageVars)     /\ Still("merge", mergeVars)     /\ Still("secret", secretVars)
  /\ Still("private", privateVars) /\ Still("context", contextVars) /\ Still("wkp", invocationVars)
  /\ Still("retrieval", retrievalVars)                              /\ Still("calendar", calendarVars)
  /\ Still("front", frontmatterVars) /\ Still("tenant", tenant)       /\ Still("pods", k8sVars)

Next ==
  \/ part = "writes"    /\ WritesNext             /\ OnlyThePartMoves
  \/ part = "sync"      /\ SyncNext               /\ OnlyThePartMoves
  \/ part = "index"     /\ IndexNext              /\ OnlyThePartMoves
  \/ part = "usage"     /\ UsageNext              /\ OnlyThePartMoves
  \/ part = "merge"     /\ ItemNext               /\ OnlyThePartMoves
  \/ part = "secret"    /\ SecretNext             /\ OnlyThePartMoves
  \/ part = "private"   /\ PrivateNext            /\ OnlyThePartMoves
  \/ part = "retrieval" /\ RetrievalNext          /\ OnlyThePartMoves
  \/ part = "context"   /\ ContextNext            /\ OnlyThePartMoves
  \/ part = "calendar"  /\ NextDay                /\ OnlyThePartMoves
  \/ part = "front"     /\ Rewrite                /\ OnlyThePartMoves
  \/ part = "tenant"    /\ Tenant!TenantIndexNext /\ OnlyThePartMoves
  \/ part = "pods"      /\ K8sNext                /\ OnlyThePartMoves
  \/ part = "wkp"       /\ InvocationNext         /\ OnlyThePartMoves

vars == <<part, writesVars, syncVars, indexVars, usageVars, mergeVars, secretVars, privateVars,
          retrievalVars, contextVars, calendarVars, frontmatterVars, tenant, k8sVars, invocationVars>>

\* The loops that poll: wkpd's on each device, and the index worker's in the pod.
Spec == Init /\ [][Next]_vars /\ SyncFairness /\ Tenant!WorkerFairness

-----------------------------------------------------------------------------
\* Each property is stated, with the code it is about, in the module it is of; those of the
\* extended modules go by their names there.

\* The pod's index gets to the repository's HEAD (TenantIndex).
IndexFollowsHead == Tenant!IndexFollowsHead
=============================================================================
