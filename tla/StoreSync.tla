------------------------------ MODULE StoreSync ------------------------------
(***************************************************************************)
(* `wkp sync`, `wkp bundle` and wkpd: devices that each write their own    *)
(* branch, fetch everybody's, merge them one after the other and push      *)
(* their own.  main on the remote, merged like any other branch but pushed *)
(* by no device, is left out.  The content of a file is the sequence of    *)
(* the versions it holds: an edit leaves one, the merge driver keeps both  *)
(* documents of a conflict, ours first (ItemMerge models the driver).      *)
(* Every step of a sync may be its last, and the user edits and deletes    *)
(* files meanwhile.                                                        *)
(***************************************************************************)
EXTENDS Naturals, Sequences, FiniteSets, SequencesExt

CONSTANTS Devices,     \* a sequence: for-each-ref lists branches by name
          Notes,       \* *.md files the user edits, merged by `wkp merge-driver`
          Plain,       \* other files of each device's own making, like recipients:
                       \* no driver is set for them
          Common,      \* files `wkp init` makes alike everywhere: .gitattributes
          Forgotten,   \* more notes, of which only this: the first device has forgotten them
          Cloned,      \* do the devices start from one commit, or each from none?
          MaxEdits,    \* bound: edits, deletions and forgets
          LastEdit,    \* bound: the length of the commits edits stop at
          MaxMerged,   \* bound: commits of all devices
          MaxExtras    \* bound: failed steps, crashes and bundles imported

Gone == << >>
Dev == ToSet(Devices)
Question(d) == <<"inbox", d>>
SyncPaths == Notes \cup Plain \cup Common \cup Forgotten \cup {Question(d) : d \in Dev}

(* A new item has an id no file has had.                                   *)
ASSUME QuestionsAreNew == \A d \in Dev : Question(d) \notin Notes \cup Plain \cup Common \cup Forgotten

(* What `wkp init` writes is alike everywhere and no device's own text.    *)
ASSUME InitIsNoDevice == "init" \notin Dev

Git == INSTANCE Git WITH Paths <- SyncPaths, Absent <- Gone

VARIABLES clone,     \* each device's work tree, index and branch
          commits,   \* every commit of every device
          remote,    \* where the remote's branches point
          open,      \* each device's MERGE_HEAD and unmerged paths
          syncing,   \* where each device's sync stands
          awake,     \* devices whose watcher has an event to deliver
          edits, extras,
          unasked    \* history: devices on which a sync has stopped between keeping a
                     \* modification and asking about the deletion

syncVars == <<clone, commits, remote, open, syncing, awake, edits, extras, unasked>>

NoMerge == [theirs |-> 0, paths |-> {}]

(* What a sync has still to merge: a commit for each branch in its order,  *)
(* 0 for a branch that is not there or is done.                            *)
NoBranches == [i \in DOMAIN Devices |-> 0]
Resting == [step |-> "rest", todo |-> NoBranches, pushes |-> FALSE]

(* What `wkp init` leaves in the work tree, not committed yet.             *)
FreshWork(d) == [p \in SyncPaths |-> IF p \in Plain THEN << <<d, 0>> >>
                                     ELSE IF p \in Common THEN << <<"init", 0>> >> ELSE Gone]

(* What every device has got of the first commit, and the commit in which  *)
(* the first device forgot some of it.                                     *)
Shared == [p \in SyncPaths |-> IF p \in Plain \/ \E d \in Dev : p = Question(d)
                               THEN Gone ELSE << <<"init", 0>> >>]

Remaining == [p \in SyncPaths |-> IF p \in Forgotten THEN Gone ELSE Shared[p]]

OnBranch(tree, c) == [work |-> tree, index |-> tree, head |-> "own", refs |-> [own |-> c]]

SyncInit ==
  /\ \/ /\ Cloned
        /\ commits = << [tree |-> Shared, anc |-> {1}, parent |-> 0, own |-> {}],
                        [tree |-> Remaining, anc |-> {1, 2}, parent |-> 1, own |-> Forgotten] >>
        /\ clone = [d \in Dev |-> IF d = Devices[1] THEN OnBranch(Remaining, 2) ELSE OnBranch(Shared, 1)]
     \/ /\ ~Cloned
        /\ commits = <<>>
        /\ clone = [d \in Dev |-> [work |-> FreshWork(d), index |-> Git!Nothing,
                                  head |-> "own", refs |-> [own |-> 0]]]
  /\ remote = [d \in Dev |-> 0]
  /\ open = [d \in Dev |-> NoMerge] /\ syncing = [d \in Dev |-> Resting]
  /\ awake = {} /\ edits = 0 /\ extras = 0 /\ unasked = {}

-----------------------------------------------------------------------------
At(d, s) == syncing[d].step = s
Goto(d, s) == syncing' = [syncing EXCEPT ![d].step = s]
Fail(d) == syncing' = [syncing EXCEPT ![d] = Resting]
TipOf(d) == Git!Tip(clone[d])

MayEdit == edits < MaxEdits /\ Len(commits) <= LastEdit

Touch(d, p, text) ==
  /\ MayEdit /\ edits' = edits + 1
  /\ clone' = [clone EXCEPT ![d].work[p] = text]
  /\ awake' = awake \cup {d}

Edit(d, p) ==
  /\ Touch(d, p, << <<d, edits + 1>> >>)
  /\ UNCHANGED <<commits, remote, open, syncing, extras, unasked>>

DeleteFile(d, p) ==
  /\ clone[d].work[p] # Gone /\ Touch(d, p, Gone)
  /\ UNCHANGED <<commits, remote, open, syncing, extras, unasked>>

(* `wkp forget` (StoreWrites has its steps): the removal is committed.     *)
ForgetItem(d, p) ==
  /\ At(d, "rest") /\ open[d] = NoMerge
  /\ clone[d].index[p] # Gone /\ clone[d].work[p] # Gone
  /\ Len(commits) < MaxMerged /\ MayEdit /\ edits' = edits + 1
  /\ LET r == Git!RemovedFromIndex([clone[d] EXCEPT !.work[p] = Gone], p)
     IN  /\ commits' = Append(commits, Git!NewCommit(commits, r, {p}))
         /\ clone' = [clone EXCEPT ![d] = Git!Advanced(commits, r)]
  /\ awake' = awake \cup {d}
  /\ UNCHANGED <<remote, open, syncing, extras, unasked>>

\* fault: what a cycle writes itself wakes nobody
Cycle_Deaf(d) ==
  LET ps == Git!AddedOrModified(commits, clone[d]) \cup open[d].paths
      r == Git!StagedPaths(clone[d], ps)
  IN  /\ At(d, "rest") /\ d \in awake
      /\ IF ps = {} THEN UNCHANGED <<clone, commits, open>>
         ELSE /\ open[d].paths = {} /\ Len(commits) < MaxMerged
              /\ commits' = Append(commits, Git!NewCommit(commits, r, ps))
              /\ clone' = [clone EXCEPT ![d] = Git!Advanced(commits, r)]
              /\ open' = [open EXCEPT ![d] = NoMerge]
      /\ awake' = awake \ {d} /\ Goto(d, "fetch")
      /\ UNCHANGED <<remote, edits, extras, unasked>>

(* A cycle of wkpd: commit what was added or modified, index, sync.  Its   *)
(* own writes under .git are events of the next cycle.  A checkout git     *)
(* refuses for an unmerged index ends the cycle before the sync; one it    *)
(* grants forgets MERGE_HEAD.                                              *)
Cycle(d) ==
  LET ps == Git!AddedOrModified(commits, clone[d]) \cup open[d].paths
      r == Git!StagedPaths(clone[d], ps)
  IN  /\ At(d, "rest") /\ d \in awake
      /\ IF ps = {} THEN UNCHANGED <<clone, commits, open>>
         ELSE /\ open[d].paths = {} /\ Len(commits) < MaxMerged
              /\ commits' = Append(commits, Git!NewCommit(commits, r, ps))
              /\ clone' = [clone EXCEPT ![d] = Git!Advanced(commits, r)]
              /\ open' = [open EXCEPT ![d] = NoMerge]
      /\ Goto(d, "fetch")
      /\ UNCHANGED <<remote, awake, edits, extras, unasked>>

(* `wkp sync` by hand starts where the daemon's cycle gets to.             *)
SyncCommand(d) ==
  /\ At(d, "rest") /\ d \notin awake
  /\ awake' = awake \cup {d}
  /\ Goto(d, "fetch")
  /\ UNCHANGED <<clone, commits, remote, open, edits, extras, unasked>>

(* fetch, ensure_device_branch (which needs a commit) and the checkout of  *)
(* the device's own branch; then the others' branches, in order.           *)
OtherBranches(d) ==
  [i \in DOMAIN Devices |-> IF Devices[i] = d THEN 0 ELSE remote[Devices[i]]]

Fetch(d) ==
  /\ At(d, "fetch")
  /\ IF TipOf(d) = 0 \/ open[d].paths # {} THEN Fail(d) /\ open' = open
     ELSE /\ syncing' = [syncing EXCEPT ![d] = [step |-> "merge", pushes |-> TRUE,
                                               todo |-> OtherBranches(d)]]
          /\ open' = [open EXCEPT ![d] = NoMerge]
  /\ UNCHANGED <<clone, commits, remote, awake, edits, extras, unasked>>

(* `wkp bundle export` writes a branch into a file and changes nothing: a  *)
(* bundle may hold any state a device's branch has been in.  An import     *)
(* merges it like a sync does and pushes nothing.                          *)
Bundled(e) == Git!Ancestors(commits, TipOf(e))

BundleImport(d) ==
  /\ At(d, "rest") /\ TipOf(d) # 0 /\ open[d].paths = {} /\ extras < MaxExtras
  /\ \E i \in DOMAIN Devices : \E c \in Bundled(Devices[i]) \ Bundled(d) :
       syncing' = [syncing EXCEPT ![d] = [step |-> "merge", pushes |-> FALSE,
                                          todo |-> [NoBranches EXCEPT ![i] = c]]]
  /\ open' = [open EXCEPT ![d] = NoMerge]
  /\ awake' = awake \cup {d} /\ extras' = extras + 1
  /\ UNCHANGED <<clone, commits, remote, edits, unasked>>

-----------------------------------------------------------------------------
\* fault: of two changes only ours is kept
Merged_Ours(b, o, t) == IF o = b THEN t ELSE o

(* The three-way merge of one path: what changed on one side only is       *)
(* taken; of a deletion and a modification the modification stays in the   *)
(* work tree; the driver keeps both of two changes.                        *)
Merged(b, o, t) == IF o = t \/ t = b THEN o ELSE IF o = b THEN t ELSE o \o t

Diverged(b, o, t) == o # t /\ o # b /\ t # b
ModifyDelete(b, o, t) == Diverged(b, o, t) /\ Gone \in {o, t}
Conflicting(p, b, o, t) == Diverged(b, o, t) /\ (p \in Plain \cup Common \/ Gone \in {o, t})

Bases(a, b) ==
  LET common == Git!Ancestors(commits, a) \cap Git!Ancestors(commits, b)
  IN  {x \in common : \A y \in common \ {x} : x \notin Git!Ancestors(commits, y)}

(* The tree merged against: the best common ancestor's; of two, their own  *)
(* merge; none for histories that share no commit.  (The sets of one tree  *)
(* here and in MergeNext make TLC compute it once.)                        *)
Newest(S) == IF S = {} THEN 0 ELSE Max(S)

MergedBases(x, y) ==
  LET base == Git!Tree(commits, Newest(Bases(x, y)))
  IN  [p \in SyncPaths |-> Merged(base[p], Git!Tree(commits, x)[p], Git!Tree(commits, y)[p])]

BaseTree(a, b) ==
  CHOOSE tree \in
    {IF y = 0 THEN Git!Tree(commits, x) ELSE MergedBases(x, y) :
       x \in {Newest(Bases(a, b))}, y \in {Newest(Bases(a, b) \ {Newest(Bases(a, b))})}} : TRUE

MergeOf(base, a, b) ==
  LET ours == Git!Tree(commits, a)
      theirs == Git!Tree(commits, b)
  IN  [theirs |-> b,
       tree |-> [p \in SyncPaths |-> Merged(base[p], ours[p], theirs[p])],
       conflicts |-> {p \in SyncPaths : Conflicting(p, base[p], ours[p], theirs[p])}]

(* git merge starts from an index that is HEAD's and leaves no uncommitted *)
(* or untracked file overwritten.                                          *)
Refused(r, result) ==
  \/ r.index # Git!HeadTree(commits, r)
  \/ \E p \in SyncPaths : /\ result[p] # r.index[p]
                          /\ r.work[p] \notin {r.index[p], Gone}

Taken(r, result) ==
  [r EXCEPT !.index = result,
            !.work = [p \in SyncPaths |-> IF result[p] # r.index[p] THEN result[p] ELSE @[p]]]

MergeCommit(a, b, tree) ==
  [tree |-> tree, parent |-> a, own |-> {},
   anc |-> Git!Ancestors(commits, a) \cup Git!Ancestors(commits, b) \cup {Len(commits) + 1}]

IsNext(d, i) == syncing[d].todo[i] # 0 /\ \A j \in 1 .. i - 1 : syncing[d].todo[j] = 0
AfterNext(d) == [i \in DOMAIN Devices |-> IF IsNext(d, i) THEN 0 ELSE syncing[d].todo[i]]

(* merge_branch of the next ref: nothing to merge, or one that git will    *)
(* not even start, which fails the sync as finish_merge has nothing to     *)
(* commit; a fast-forward, a clean merge, or one left open.                *)
UpToDate(d, m) ==
  /\ m.theirs \in Git!Ancestors(commits, TipOf(d))
  /\ syncing' = [syncing EXCEPT ![d].todo = AfterNext(d)]
  /\ UNCHANGED <<clone, commits, open>>

FastForward(d, m) ==
  /\ TipOf(d) \in Git!Ancestors(commits, m.theirs)
  /\ clone' = [clone EXCEPT ![d] = [Taken(@, Git!Tree(commits, m.theirs)) EXCEPT !.refs["own"] = m.theirs]]
  /\ syncing' = [syncing EXCEPT ![d].todo = AfterNext(d)]
  /\ UNCHANGED <<commits, open>>

CleanMerge(d, m) ==
  /\ TipOf(d) \notin Git!Ancestors(commits, m.theirs)
  /\ m.conflicts = {} /\ Len(commits) < MaxMerged
  /\ commits' = Append(commits, MergeCommit(TipOf(d), m.theirs, m.tree))
  /\ clone' = [clone EXCEPT ![d] = Git!Advanced(commits, Taken(@, m.tree))]
  /\ syncing' = [syncing EXCEPT ![d].todo = AfterNext(d)]
  /\ UNCHANGED open

OpenMerge(d, m) ==
  /\ TipOf(d) \notin Git!Ancestors(commits, m.theirs)
  /\ m.conflicts # {}
  /\ clone' = [clone EXCEPT ![d] = Taken(@, m.tree)]
  /\ open' = [open EXCEPT ![d] = [theirs |-> m.theirs, paths |-> m.conflicts]]
  /\ Goto(d, "resolve") /\ UNCHANGED commits

MergeNext(d) ==
  /\ At(d, "merge")
  /\ \E theirs \in {syncing[d].todo[i] : i \in {j \in DOMAIN Devices : IsNext(d, j)}} :
     \E base \in {BaseTree(TipOf(d), theirs)} : \E m \in {MergeOf(base, TipOf(d), theirs)} :
       \/ UpToDate(d, m)
       \/ /\ m.theirs \notin Git!Ancestors(commits, TipOf(d))
          /\ IF Refused(clone[d], m.tree) THEN Fail(d) /\ UNCHANGED <<clone, commits, open>>
             ELSE FastForward(d, m) \/ CleanMerge(d, m) \/ OpenMerge(d, m)
  /\ UNCHANGED <<remote, awake, edits, extras, unasked>>

(* modify_delete_conflicts: the unmerged paths one side has deleted.       *)
ModifyDeletePaths(d) ==
  {p \in open[d].paths :
     Gone \in {Git!Tree(commits, TipOf(d))[p], Git!Tree(commits, open[d].theirs)[p]}}

(* resolve_modify_delete_conflicts stages what is in the work tree, then   *)
(* writes and stages the item that asks about the deletion.                *)
StageSurvivor(d) ==
  /\ At(d, "resolve")
  /\ \E p \in ModifyDeletePaths(d) :
       /\ clone' = [clone EXCEPT ![d] = Git!StagedPaths(@, {p})]
       /\ open' = [open EXCEPT ![d].paths = @ \ {p}]
  /\ Goto(d, "ask")
  /\ UNCHANGED <<commits, remote, awake, edits, extras, unasked>>

\* fault: the question is written, not staged
AskAboutDeletion_Unstaged(d) ==
  /\ At(d, "ask") /\ Goto(d, "resolve")
  /\ clone' = [clone EXCEPT ![d].work[Question(d)] = Append(@, <<d, Len(commits)>>)]
  /\ UNCHANGED <<commits, remote, open, awake, edits, extras, unasked>>
AskAboutDeletion(d) ==
  /\ At(d, "ask")
  /\ LET r == [clone[d] EXCEPT !.work[Question(d)] = Append(@, <<d, Len(commits)>>)]
     IN  clone' = [clone EXCEPT ![d] = Git!StagedPaths(r, {Question(d)})]
  /\ Goto(d, "resolve")
  /\ UNCHANGED <<commits, remote, open, awake, edits, extras, unasked>>

(* finish_merge: git commits unless a path is still unmerged; then the     *)
(* merge stays open.                                                       *)
FinishMerge(d) ==
  /\ At(d, "resolve") /\ ModifyDeletePaths(d) = {}
  /\ UNCHANGED <<remote, awake, edits, extras, unasked>>
  /\ IF open[d].paths # {} THEN Fail(d) /\ UNCHANGED <<clone, commits, open>>
     ELSE /\ Len(commits) < MaxMerged
          /\ commits' = Append(commits, MergeCommit(TipOf(d), open[d].theirs, clone[d].index))
          /\ clone' = [clone EXCEPT ![d] = Git!Advanced(commits, @)]
          /\ open' = [open EXCEPT ![d] = NoMerge]
          /\ syncing' = [syncing EXCEPT ![d].step = "merge", ![d].todo = AfterNext(d)]

(* push_branch never forces: the remote takes descendants only.            *)
Push(d) ==
  /\ At(d, "merge") /\ syncing[d].todo = NoBranches
  /\ Fail(d)
  /\ remote' = IF syncing[d].pushes /\ Git!Descends(commits, TipOf(d), remote[d])
               THEN [remote EXCEPT ![d] = TipOf(d)] ELSE remote
  /\ UNCHANGED <<clone, commits, open, awake, edits, extras, unasked>>

(* The network, git or the process fails between two steps.                *)
Breaks(d) ==
  /\ ~At(d, "rest") /\ extras < MaxExtras
  /\ extras' = extras + 1 /\ Fail(d)
  /\ unasked' = IF At(d, "ask") THEN unasked \cup {d} ELSE unasked
  /\ UNCHANGED <<clone, commits, remote, open, awake, edits>>

SyncStep(d) == \/ Cycle(d) \/ Fetch(d) \/ MergeNext(d) \/ StageSurvivor(d)
               \/ AskAboutDeletion(d) \/ FinishMerge(d) \/ Push(d)

SyncNext ==
  \E d \in Dev :
    \/ \E p \in Notes : Edit(d, p) \/ DeleteFile(d, p) \/ ForgetItem(d, p)
    \/ SyncCommand(d) \/ BundleImport(d) \/ SyncStep(d) \/ Breaks(d)

(* wkpd runs on every device and its loop never ends.                      *)
SyncFairness == \A d \in Dev : WF_syncVars(SyncStep(d))

-----------------------------------------------------------------------------
SyncSpec == SyncInit /\ [][SyncNext]_syncVars

(* Devices converge: once the edits have stopped and every daemon has seen *)
(* an event, their branches come to the same files and keep them, whoever  *)
(* syncs first and whatever failed - unless a device is stuck: with a path *)
(* left unmerged, which ends each of its syncs, or with a deletion that a  *)
(* failure has left staged, which no cycle commits and for which git       *)
(* refuses every merge.  Nor is anything said of merges without end, which *)
(* syncs that overlap each time may come to, each merging what the other   *)
(* has just made of the same two changes in the other order.               *)
Quiet == ~MayEdit /\ awake = Dev
SameFiles == \A d, e \in Dev : Git!Tree(commits, TipOf(d)) = Git!Tree(commits, TipOf(e))
Stuck(d) ==
  \/ open[d].paths # {}
  \/ \E p \in SyncPaths : clone[d].index[p] = Gone /\ Git!HeadTree(commits, clone[d])[p] # Gone
MergesEnd == [](Len(commits) < MaxMerged)

StoresConverge == MergesEnd => (Quiet ~> [](SameFiles \/ \E d \in Dev : Stuck(d)))

(* A commit asks about a deletion if it has a new item in inbox/.  It has  *)
(* to when it finishes a merge that kept a modification over a deletion,   *)
(* and also if it takes a file its branch did not have from another        *)
(* device, and is none that git makes itself of a merge without conflicts. *)
Asking(d) == Git!Tree(commits, TipOf(d))'[Question(d)] # Git!Tree(commits, TipOf(d))[Question(d)]

TakesIn(d) ==
  \E p \in SyncPaths :
    /\ Git!Tree(commits, TipOf(d))[p] = Gone
    /\ \E v \in ToSet(Git!Tree(commits, TipOf(d))'[p]) : v[1] \in Dev \ {d}

Overrules(d) == TipOf(d)' # TipOf(d) /\ (At(d, "resolve") \/ (~At(d, "merge") /\ TakesIn(d)))

(* Every deletion that is overruled is asked about, whatever fails, unless *)
(* a failure comes between keeping the modification and asking.            *)
DeletionsAreAsked == [][\A d \in Dev \ unasked : Overrules(d) => Asking(d)]_syncVars

(* "The deleted side is never silently dropped: each conflict gets a new   *)
(* item" (resolve_conflicts.rs:30-34), whatever fails.                     *)
EveryDeletionIsAsked == [][\A d \in Dev : Overrules(d) => Asking(d)]_syncVars

(* No version either branch holds goes without a decision: what a merge    *)
(* leaves out of a file was given up before, on the other side.  A commit  *)
(* gives a version up that its branch had, or is of a merge that was left  *)
(* to its user and asks.                                                   *)
Versions(h, c, p) == ToSet(Git!Tree(h, c)[p])

Asks(h, c) ==
  \E e \in Dev : \E v \in Versions(h, c, Question(e)) :
    \A a \in h[c].anc \ {c} : v \notin Versions(h, a, Question(e))

GivesUp(h, c, p, v) ==
  /\ v \notin Versions(h, c, p)
  /\ v \in Versions(h, h[c].parent, p) \/ Asks(h, c)

GivenUpBy(h, c, p, v) == \E g \in Git!Ancestors(h, c) : GivesUp(h, g, p, v)

Dropped(result, a, p) == Versions(commits, a, p) \ ToSet(result[p])

MergesDiscardNothing ==
  [][\A d \in Dev :
       (At(d, "merge") /\ clone[d].index' # clone[d].index) =>
         \E i \in DOMAIN Devices :
           /\ IsNext(d, i)
           /\ \A p \in SyncPaths :
                LET ours == TipOf(d)
                    theirs == syncing[d].todo[i]
                IN  /\ \A v \in Dropped(clone[d].index', ours, p) : GivenUpBy(commits, theirs, p, v)
                    /\ \A v \in Dropped(clone[d].index', theirs, p) : GivenUpBy(commits, ours, p, v)
    ]_syncVars

(* sync_cmd.rs says that what a merge leaves unresolved is "always exactly *)
(* the modify/delete class, never anything else".                          *)
OnlyModifyDeleteIsLeft == \A d \in Dev : open[d].paths = ModifyDeletePaths(d)

=============================================================================
