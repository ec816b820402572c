-------------------------- MODULE StoreWritesProofs --------------------------
(***************************************************************************)
(* What the commands that write a store keep, whichever of their steps     *)
(* fails: proved for any items, principals and number of commands.         *)
(***************************************************************************)
EXTENDS StoreWrites, SequenceTheorems, TLAPS

\* A tree holds each item under its own name only.
Trees == {t \in [WritePaths -> Items \cup {Absent}] : \A p \in WritePaths : t[p] \in {Absent, p[2]}}

Commits == [tree : Trees, anc : SUBSET Nat, parent : Nat, own : SUBSET WritePaths]

Repos == [work : Trees, index : Trees, head : Branches, refs : [Branches -> 0 .. Len(history)]]

StoreTypes ==
  /\ repo \in Repos
  /\ history \in Seq(Commits)
  /\ \A c \in 1 .. Len(history) : history[c].parent <= Len(history)
  /\ known \in SUBSET Items
  /\ fails \in Nat

\* HEAD is on a branch without a commit only as long as there is none at all.
Born == repo.refs[repo.head] = 0 => \A b \in Branches : repo.refs[b] = 0

Committing == {"branch", "checkout", "stage", "commit", "restore"}
Moving == {"unlink", "unindex", "stage", "commit"}

\* What each command has with it at each of its steps.
CommandTypes ==
  cmd # Idle =>
    /\ {"op", "paths", "step"} \subseteq DOMAIN cmd
    /\ cmd = [f \in DOMAIN cmd |-> cmd[f]]
    /\ cmd.paths \in SUBSET WritePaths
    /\ \/ /\ cmd.op = "remember" /\ cmd.step \in Committing
          /\ "item" \in DOMAIN cmd /\ cmd.item \in Items /\ cmd.paths = {Inbox(cmd.item)}
       \/ cmd.op = "wkpd" /\ cmd.step \in Committing
       \/ /\ cmd.op = "promote" /\ cmd.step \in Moving
          /\ {"gone", "next"} \subseteq DOMAIN cmd
          /\ cmd.gone \in WritePaths /\ cmd.next = "stage" /\ cmd.gone \notin cmd.paths
       \/ /\ cmd.op = "forget" /\ cmd.step \in {"unindex", "commit"}
          /\ {"gone", "next"} \subseteq DOMAIN cmd
          /\ cmd.gone \in WritePaths /\ cmd.next = "commit"
    /\ "gone" \in DOMAIN cmd => cmd.op \in {"promote", "forget"}
    /\ "back" \in DOMAIN cmd =>
         cmd.op \in {"remember", "wkpd"} /\ cmd.back \in Branches /\ repo.refs[cmd.back] # 0
    /\ cmd.step \in {"checkout", "restore"} => "back" \in DOMAIN cmd
    /\ cmd.step = "checkout" => repo.refs["device"] # 0
    /\ cmd.step = "branch" => "back" \notin DOMAIN cmd

\* Who commits for an agent or for wkpd has HEAD on the device branch.
OnDevice ==
  cmd # Idle /\ cmd.op \in {"remember", "wkpd"} /\ cmd.step \in {"stage", "commit"}
    => repo.head = "device"

\* The new item is on disk until it is staged, and from then on in git's index.
RememberHolds ==
  cmd # Idle /\ cmd.op = "remember" =>
    /\ cmd.step \in {"branch", "checkout", "stage"} => repo.work[Inbox(cmd.item)] = cmd.item
    /\ cmd.step \in {"branch", "checkout"} => repo.index[Inbox(cmd.item)] # cmd.item
    /\ cmd.step = "commit" => repo.index[Inbox(cmd.item)] = cmd.item

\* The destination has what promote is about to take from the inbox.
PromoteHolds ==
  cmd # Idle /\ cmd.op = "promote" /\ cmd.step \in {"unlink", "unindex"} =>
    \E p \in cmd.paths : p # cmd.gone /\ repo.work[p] = cmd.gone[2]

ForgetHolds ==
  cmd # Idle /\ cmd.op = "forget" /\ cmd.step = "unindex" => cmd.gone[2] \notin known

\* Staging takes nothing out of the index: a path is there, or as the index has it.
NothingUnstaged ==
  cmd # Idle /\ cmd.op # "forget" /\ cmd.step \in {"branch", "checkout", "unlink", "unindex", "stage"} =>
    \A p \in cmd.paths : repo.work[p] # Absent \/ repo.work[p] = repo.index[p]

\* An item is in the work tree; or at the tip of HEAD's branch and in the index, which
\* the next commit will be; or at the tip of the other branch.
Safe(i) ==
  \/ \E p \in WritePaths : repo.work[p] = i
  \/ \E p \in WritePaths : repo.index[p] = i /\ G!HeadTree(history, repo)[p] = i
  \/ \E p \in WritePaths, b \in Branches \ {repo.head} : G!Tree(history, repo.refs[b])[p] = i

KnownAreSafe == \A i \in known : Safe(i)

Staged == G!Changed(repo.index, G!HeadTree(history, repo))
OwnPaths == cmd.paths \cup (IF "gone" \in DOMAIN cmd THEN {cmd.gone} ELSE {})

\* Without a failure the index is HEAD's but for what the command under way is to commit.
IndexIsClean ==
  fails = 0 =>
    /\ CommitsAreExactWithoutFailures
    /\ Staged \subseteq (IF cmd # Idle /\ cmd.step \in {"stage", "commit"} THEN OwnPaths ELSE {})

FilesHeld == RememberHolds /\ PromoteHolds /\ ForgetHolds /\ NothingUnstaged

StoreInv ==
  /\ StoreTypes /\ Born /\ CommandTypes /\ OnDevice
  /\ FilesHeld /\ KnownAreSafe /\ IndexIsClean

-----------------------------------------------------------------------------
(* Trees, and what git makes of them.                                      *)

LEMMA NothingIsTree == G!Nothing \in Trees
  BY DEF G!Nothing, Trees

LEMMA CommittedTrees ==
  ASSUME history \in Seq(Commits), NEW c \in 0 .. Len(history)
  PROVE  G!Tree(history, c) \in Trees
<1>1. CASE c = 0
  BY <1>1, NothingIsTree DEF G!Tree
<1>2. CASE c # 0
  <2>1. history[c] \in Commits
    BY <1>2, ElementOfSeq
  <2> QED BY <1>2, <2>1 DEF G!Tree, Commits
<1> QED BY <1>1, <1>2

\* What a tree holds at a path has the path's name.
LEMMA TreesName ==
  ASSUME NEW t \in Trees, NEW p \in WritePaths, NEW i \in Items, t[p] = i
  PROVE  p[2] = i
  BY AbsentIsNoItem DEF Trees

LEMMA WithPath ==
  ASSUME NEW t \in Trees, NEW p \in WritePaths, NEW x \in {Absent, p[2]}
  PROVE  [t EXCEPT ![p] = x] \in Trees
<1>1. x \in Items \cup {Absent}
  BY DEF WritePaths
<1> QED BY <1>1 DEF Trees

\* A checkout leaves a path alone, or takes the branch's version of one that is as HEAD
\* has it.
LEMMA Checkout ==
  ASSUME history \in Seq(Commits), NEW r \in Repos, NEW b \in Branches,
         G!CanCheckout(history, r, b),
         NEW s, s = G!CheckedOut(history, r, b),
         NEW t, t = G!Tree(history, r.refs[b]), NEW h, h = G!HeadTree(history, r)
  PROVE  /\ s \in Repos /\ s.refs = r.refs /\ s.head = b
         /\ \A p \in WritePaths :
              \/ /\ s.index[p] = r.index[p] /\ s.work[p] = r.work[p]
                 /\ h[p] = t[p] \/ r.index[p] = t[p]
              \/ /\ s.index[p] = t[p] /\ s.work[p] = t[p]
                 /\ h[p] # t[p] /\ r.index[p] = h[p] /\ r.work[p] \in {h[p], Absent}
<1>1. t \in Trees
  BY CommittedTrees DEF Repos
<1> DEFINE moved == {p \in G!Changed(h, t) : r.index[p] # t[p]}
           with(f) == [p \in WritePaths |-> IF p \in moved THEN t[p] ELSE f[p]]
<1>2. s = [r EXCEPT !.head = b, !.index = with(r.index), !.work = with(r.work)]
  BY DEF G!CheckedOut
<1>3. \A f \in Trees : with(f) \in Trees
  BY <1>1 DEF Trees
<1> HIDE DEF with
<1>4. s.head = b /\ s.refs = r.refs /\ s.index = with(r.index) /\ s.work = with(r.work) /\ s \in Repos
  BY <1>2, <1>3 DEF Repos
<1>5. \A p \in moved : r.index[p] = h[p] /\ r.work[p] \in {h[p], Absent}
  BY DEF G!CanCheckout, G!Overwrites, G!Changed
<1>6. \A p \in WritePaths : p \notin moved => h[p] = t[p] \/ r.index[p] = t[p]
  BY DEF G!Changed
<1>7. \A p \in moved : h[p] # t[p]
  BY DEF G!Changed
<1> QED BY <1>4, <1>5, <1>6, <1>7 DEF with

LEMMA WriteOne ==
  ASSUME StoreTypes, NEW p \in WritePaths, NEW x \in {Absent, p[2]}, Write(p, x)
  PROVE  /\ repo' \in Repos
         /\ repo'.work = [repo.work EXCEPT ![p] = x]
         /\ repo'.index = repo.index /\ repo'.head = repo.head /\ repo'.refs = repo.refs
<1>1. [repo.work EXCEPT ![p] = x] \in Trees
  BY WithPath DEF StoreTypes, Repos
<1> QED BY <1>1 DEF StoreTypes, Repos, Write

LEMMA Inboxes == \A i \in Items : Inbox(i) \in WritePaths /\ Inbox(i)[2] = i
  BY DEF Inbox, WritePaths

LEMMA Destinations ==
  ASSUME NEW i \in Items, NEW p \in Destination(i)
  PROVE  p \in WritePaths /\ p[2] = i /\ p # Inbox(i)
<1>1. p \in {<<"user", i>>, <<"projects", i>>}
  BY DEF Destination
<1> QED BY <1>1 DEF WritePaths, Inbox

LEMMA TipIsCommit == StoreTypes => G!Tip(repo) \in 0 .. Len(history)
  BY DEF StoreTypes, Repos, G!Tip

LEMMA HeadIsTree == StoreTypes => G!HeadTree(history, repo) \in Trees
  BY TipIsCommit, CommittedTrees DEF StoreTypes, G!HeadTree

LEMMA StageTyped ==
  ASSUME StoreTypes, NEW ps \in SUBSET WritePaths, NEW s, s = G!StagedPaths(repo, ps)
  PROVE  /\ s \in Repos /\ s.work = repo.work /\ s.head = repo.head /\ s.refs = repo.refs
         /\ \A p \in WritePaths : s.index[p] = IF p \in ps THEN repo.work[p] ELSE repo.index[p]
<1> DEFINE ix == [p \in WritePaths |-> IF p \in ps THEN repo.work[p] ELSE repo.index[p]]
<1>1. ix \in Trees
  BY DEF StoreTypes, Repos, Trees
<1>2. s = [repo EXCEPT !.index = ix]
  BY DEF G!StagedPaths
<1> HIDE DEF ix
<1>3. s.index = ix /\ s \in Repos /\ s.work = repo.work /\ s.head = repo.head /\ s.refs = repo.refs
  BY <1>1, <1>2 DEF StoreTypes, Repos
<1> QED BY <1>3 DEF ix

LEMMA RemoveTyped ==
  ASSUME StoreTypes, NEW p \in WritePaths, NEW s, s = G!RemovedFromIndex(repo, p)
  PROVE  /\ s \in Repos /\ s.work = repo.work /\ s.head = repo.head /\ s.refs = repo.refs
         /\ s.index = [repo.index EXCEPT ![p] = Absent]
<1>1. [repo.index EXCEPT ![p] = Absent] \in Trees
  BY WithPath DEF StoreTypes, Repos
<1> QED BY <1>1 DEF StoreTypes, Repos, G!RemovedFromIndex

\* A commit has git's index, on top of the tip of HEAD's branch, which then is at it.
LEMMA CommitTyped ==
  ASSUME StoreTypes, NEW own \in SUBSET WritePaths,
         history' = Append(history, G!NewCommit(history, repo, own)),
         repo' = G!Advanced(history, repo)
  PROVE  /\ history' \in Seq(Commits) /\ Len(history') = Len(history) + 1
         /\ \A c \in 1 .. Len(history) : history'[c] = history[c]
         /\ history'[Len(history) + 1] = G!NewCommit(history, repo, own)
         /\ repo' \in Repos'
         /\ repo'.work = repo.work /\ repo'.index = repo.index /\ repo'.head = repo.head
         /\ repo'.refs = [repo.refs EXCEPT ![repo.head] = Len(history) + 1]
         /\ \A c \in 0 .. Len(history) : G!Tree(history', c) = G!Tree(history, c)
         /\ G!HeadTree(history', repo') = repo.index
<1>1. G!Ancestors(history, G!Tip(repo)) \cup {Len(history) + 1} \in SUBSET Nat
  <2>1. CASE G!Tip(repo) = 0
    BY <2>1 DEF G!Ancestors, StoreTypes
  <2>2. CASE G!Tip(repo) # 0
    <3>1. history[G!Tip(repo)] \in Commits
      BY <2>2, TipIsCommit, ElementOfSeq DEF StoreTypes
    <3> QED BY <2>2, <3>1 DEF G!Ancestors, StoreTypes, Commits
  <2> QED BY <2>1, <2>2
<1>2. G!NewCommit(history, repo, own) \in Commits
  BY <1>1, TipIsCommit DEF G!NewCommit, Commits, StoreTypes, Repos
<1>3. /\ history' \in Seq(Commits) /\ Len(history') = Len(history) + 1
      /\ \A c \in 1 .. Len(history) : history'[c] = history[c]
      /\ history'[Len(history) + 1] = G!NewCommit(history, repo, own)
  BY <1>2, AppendProperties DEF StoreTypes
<1>4. Len(history) \in Nat
  BY DEF StoreTypes
<1>5. [repo.refs EXCEPT ![repo.head] = Len(history) + 1] \in [Branches -> 0 .. Len(history')]
  BY <1>3, <1>4 DEF StoreTypes, Repos
<1>6. /\ repo' \in Repos'
      /\ repo'.work = repo.work /\ repo'.index = repo.index /\ repo'.head = repo.head
      /\ repo'.refs = [repo.refs EXCEPT ![repo.head] = Len(history) + 1]
  BY <1>5 DEF StoreTypes, Repos, G!Advanced
<1>7. \A c \in 0 .. Len(history) : G!Tree(history', c) = G!Tree(history, c)
  BY <1>3 DEF G!Tree
<1>8. G!HeadTree(history', repo') = repo.index
  <2>1. G!Tip(repo') = Len(history) + 1
    BY <1>6 DEF G!Tip, StoreTypes, Repos
  <2> QED BY <2>1, <1>3, <1>4 DEF G!HeadTree, G!Tree, G!NewCommit
<1> QED BY <1>3, <1>6, <1>7, <1>8

\* A branch that is not there yet starts at HEAD's tip.
WithBranch(b) == IF repo.refs[b] = 0 THEN [repo EXCEPT !.refs[b] = G!Tip(repo)] ELSE repo

LEMMA BranchMade ==
  ASSUME StoreTypes, NEW b \in Branches, NEW r, r = WithBranch(b)
  PROVE  /\ r \in Repos /\ r.work = repo.work /\ r.index = repo.index /\ r.head = repo.head
         /\ \A c \in Branches : r.refs[c] = IF c = b /\ repo.refs[b] = 0 THEN G!Tip(repo) ELSE repo.refs[c]
         /\ G!HeadTree(history, r) = G!HeadTree(history, repo)
<1>1. /\ r \in Repos /\ r.work = repo.work /\ r.index = repo.index /\ r.head = repo.head
      /\ \A c \in Branches : r.refs[c] = IF c = b /\ repo.refs[b] = 0 THEN G!Tip(repo) ELSE repo.refs[c]
  BY TipIsCommit DEF StoreTypes, Repos, WithBranch
<1>2. G!Tip(r) = G!Tip(repo)
  BY <1>1 DEF G!Tip, StoreTypes, Repos
<1> QED BY <1>1, <1>2 DEF G!HeadTree

LEMMA DeviceBranch == EnsureDeviceBranch(repo) = WithBranch("device") /\ "device" \in Branches
  BY DEF EnsureDeviceBranch, WithBranch, Branches

-----------------------------------------------------------------------------
(* Types.                                                                  *)

LEMMA TypesBegin == WritesInit => StoreTypes
<1> SUFFICES ASSUME WritesInit PROVE StoreTypes
  OBVIOUS
<1>1. EmptyRepo \in [work : Trees, index : Trees, head : Branches, refs : [Branches -> {0}]]
  BY NothingIsTree DEF EmptyRepo, Branches
<1>2. known = {} /\ fails = 0
  BY DEF WritesInit
<1>3. CASE repo = EmptyRepo /\ history = <<>>
  BY <1>1, <1>2, <1>3 DEF StoreTypes, Repos
<1>4. CASE /\ repo = [EmptyRepo EXCEPT !.refs["main"] = 1]
           /\ history = << [tree |-> G!Nothing, anc |-> {1}, parent |-> 0, own |-> {}] >>
  <2>1. [tree |-> G!Nothing, anc |-> {1}, parent |-> 0, own |-> {}] \in Commits
    BY NothingIsTree DEF Commits
  <2>2. history \in Seq(Commits) /\ Len(history) = 1 /\ history[1].parent = 0
    BY <1>4, <2>1
  <2>3. repo \in Repos
    BY <1>1, <1>4, <2>2 DEF Repos, Branches
  <2> QED BY <1>2, <2>2, <2>3 DEF StoreTypes
<1> QED BY <1>3, <1>4 DEF WritesInit

LEMMA TypesStep ==
  ASSUME StoreTypes, CommandTypes, [WritesNext]_writesVars
  PROVE  StoreTypes'
<1>0. CASE UNCHANGED writesVars
  BY <1>0 DEF writesVars, StoreTypes, Repos
<1>1. ASSUME NEW i \in Items, Remember(i) PROVE StoreTypes'
  BY <1>1, WriteOne, Inboxes DEF Remember, Begin, StoreTypes, Repos
<1>2. ASSUME NEW i \in Items, Import(i) PROVE StoreTypes'
  BY <1>2, WriteOne, Inboxes DEF Import, StoreTypes, Repos
<1>3. ASSUME NEW i \in Items, NEW who, Promote(i, who) PROVE StoreTypes'
  <2>1. PICK dest \in Destination(i) : Write(dest, repo.work[Inbox(i)])
    BY <1>3 DEF Promote
  <2>2. repo.work[Inbox(i)] \in {Absent, i}
    BY Inboxes DEF StoreTypes, Repos, Trees
  <2>3. repo' \in Repos
    <3>1. dest \in WritePaths /\ repo.work[Inbox(i)] \in {Absent, dest[2]}
      BY <2>2, Destinations
    <3> QED BY <2>1, <3>1, WriteOne
  <2> QED BY <1>3, <2>3 DEF Promote, Begin, StoreTypes, Repos
<1>4. ASSUME NEW p \in WritePaths, Forget(p) PROVE StoreTypes'
  BY <1>4, WriteOne DEF Forget, StoreTypes, Repos
<1>5. CASE AutoCommit
  BY <1>5 DEF AutoCommit, Begin, StoreTypes, Repos
<1>6. ASSUME NEW b \in Branches, Switch(b) PROVE StoreTypes'
  <2> DEFINE r == WithBranch(b)
  <2>1. r \in Repos
    BY BranchMade
  <2>2. G!CanCheckout(history, r, b) /\ repo' = G!CheckedOut(history, r, b)
    BY <1>6 DEF Switch, WithBranch
  <2> HIDE DEF r
  <2>3. repo' \in Repos
    BY <2>1, <2>2, Checkout DEF StoreTypes
  <2> QED BY <1>6, <2>3 DEF Switch, StoreTypes, Repos
<1>7. CASE FindBranch
  <2>1. repo' \in Repos
    <3>1. EnsureDeviceBranch(repo) \in Repos
      BY BranchMade, DeviceBranch
    <3>2. [repo EXCEPT !.head = "device"] \in Repos
      BY DEF StoreTypes, Repos, Branches
    <3> QED BY <1>7, <3>1, <3>2 DEF FindBranch
  <2> QED BY <1>7, <2>1 DEF FindBranch, Rest, StoreTypes, Repos
<1>8. CASE CheckoutDevice
  <2>1. repo' \in Repos
    BY <1>8, Checkout DEF CheckoutDevice, StoreTypes, Branches
  <2> QED BY <1>8, <2>1 DEF CheckoutDevice, Rest, StoreTypes, Repos
<1>9. CASE Unlink
  <2>1. cmd.gone \in WritePaths
    BY <1>9 DEF Unlink, Step, CommandTypes, Committing
  <2> QED BY <1>9, <2>1, WriteOne DEF Unlink, Rest, StoreTypes, Repos
<1>10. CASE Unindex
  <2>1. cmd.gone \in WritePaths
    BY <1>10 DEF Unindex, Step, CommandTypes, Committing
  <2> QED BY <1>10, <2>1, RemoveTyped DEF Unindex, Rest, StoreTypes, Repos
<1>11. CASE Stage
  <2>1. cmd.paths \in SUBSET WritePaths
    BY <1>11 DEF Stage, Step, CommandTypes
  <2> QED BY <1>11, <2>1, StageTyped DEF Stage, Rest, StoreTypes, Repos
<1>12. CASE CommitIndex
  <2>1. OwnPaths \in SUBSET WritePaths
    BY <1>12 DEF CommitIndex, Step, CommandTypes, OwnPaths
  <2>2. /\ history' = Append(history, G!NewCommit(history, repo, OwnPaths))
        /\ repo' = G!Advanced(history, repo)
    BY <1>12 DEF CommitIndex, OwnPaths
  <2>3. \A c \in 1 .. Len(history') : history'[c].parent <= Len(history')
    <3>1. /\ history'[Len(history) + 1].parent = G!Tip(repo) /\ Len(history') = Len(history) + 1
          /\ \A c \in 1 .. Len(history) : history'[c] = history[c]
      BY <2>1, <2>2, CommitTyped DEF G!NewCommit
    <3>2. Len(history) \in Nat /\ \A c \in 1 .. Len(history) : history[c] \in Commits
      BY ElementOfSeq DEF StoreTypes
    <3>3. \A c \in 1 .. Len(history) : history[c].parent \in Nat
      BY <3>2 DEF Commits
    <3> QED BY <3>1, <3>2, <3>3, TipIsCommit DEF StoreTypes
  <2>4. known' \in SUBSET Items
    BY <1>12 DEF CommitIndex, Step, CommandTypes, StoreTypes
  <2> QED BY <1>12, <2>1, <2>2, <2>3, <2>4, CommitTyped DEF CommitIndex, StoreTypes
<1>13. CASE SigningFails
  BY <1>13 DEF SigningFails, StoreTypes, Repos
<1>14. CASE RestoreRef
  <2>1. cmd.back \in Branches
    BY <1>14 DEF RestoreRef, Step, CommandTypes
  <2>2. repo' \in Repos
    BY <1>14, <2>1, Checkout DEF RestoreRef, StoreTypes
  <2> QED BY <1>14, <2>2 DEF RestoreRef, Rest, StoreTypes, Repos
<1>15. CASE Dies
  BY <1>15 DEF Dies, StoreTypes, Repos
<1> QED BY <1>0, <1>1, <1>2, <1>3, <1>4, <1>5, <1>6, <1>7, <1>8, <1>9, <1>10, <1>11, <1>12, <1>13,
           <1>14, <1>15 DEF WritesNext

-----------------------------------------------------------------------------
(* What a command has with it.                                             *)

LEMMA NextStep ==
  ASSUME CommandTypes, cmd # Idle, NEW s, cmd' = [cmd EXCEPT !.step = s]
  PROVE  /\ cmd' # Idle
         /\ DOMAIN cmd' = DOMAIN cmd /\ cmd' = [f \in DOMAIN cmd' |-> cmd'[f]]
         /\ cmd'.step = s
         /\ cmd'.op = cmd.op /\ cmd'.paths = cmd.paths
         /\ "item" \in DOMAIN cmd => cmd'.item = cmd.item
         /\ "gone" \in DOMAIN cmd => cmd'.gone = cmd.gone
         /\ "next" \in DOMAIN cmd => cmd'.next = cmd.next
         /\ "back" \in DOMAIN cmd => cmd'.back = cmd.back
<1>1. /\ DOMAIN cmd' = DOMAIN cmd /\ cmd' = [f \in DOMAIN cmd' |-> cmd'[f]]
      /\ cmd'.step = s
      /\ \A f \in DOMAIN cmd : f # "step" => cmd'[f] = cmd[f]
  BY DEF CommandTypes
<1>2. cmd' # Idle
  BY <1>1 DEF Idle, CommandTypes
<1> QED BY <1>1, <1>2 DEF CommandTypes

\* A step that moves the command on leaves it what it is.
LEMMA NextStepTyped ==
  ASSUME CommandTypes, cmd # Idle, NEW s, cmd' = [cmd EXCEPT !.step = s],
         "back" \in DOMAIN cmd => repo'.refs[cmd.back] # 0,
         s # "branch", s \in {"checkout", "restore"} => "back" \in DOMAIN cmd,
         s = "checkout" => repo'.refs["device"] # 0,
         cmd.op \in {"remember", "wkpd"} => s \in Committing,
         cmd.op = "promote" => s \in Moving,
         cmd.op = "forget" => s \in {"unindex", "commit"}
  PROVE  CommandTypes'
  BY NextStep DEF CommandTypes

LEMMA CommandStep ==
  ASSUME StoreTypes, Born, CommandTypes, [WritesNext]_writesVars
  PROVE  CommandTypes'
<1>0. CASE UNCHANGED writesVars
  BY <1>0 DEF writesVars, CommandTypes
<1>1. ASSUME NEW i \in Items, Remember(i) PROVE CommandTypes'
  <2>1. cmd' = [op |-> "remember", item |-> i, paths |-> {Inbox(i)}, step |-> "branch"]
    BY <1>1 DEF Remember, Begin
  <2> QED BY <2>1, Inboxes DEF CommandTypes, Committing
<1>2. ASSUME NEW i \in Items, Import(i) PROVE CommandTypes'
  BY <1>2 DEF Import, CommandTypes
<1>3. ASSUME NEW i \in Items, NEW who, Promote(i, who) PROVE CommandTypes'
  <2>1. PICK dest \in Destination(i) :
          cmd' = [op |-> "promote", item |-> i, paths |-> {dest}, step |-> "unlink",
                  gone |-> Inbox(i), next |-> "stage"]
    BY <1>3 DEF Promote, Begin
  <2> QED BY <2>1, Inboxes, Destinations DEF CommandTypes, Moving
<1>4. ASSUME NEW p \in WritePaths, Forget(p) PROVE CommandTypes'
  <2>1. cmd' = [op |-> "forget", item |-> repo.work[p], paths |-> {p}, step |-> "unindex",
                gone |-> p, next |-> "commit"]
    BY <1>4 DEF Forget
  <2> QED BY <2>1 DEF CommandTypes
<1>5. CASE AutoCommit
  <2>1. cmd' = [op |-> "wkpd", paths |-> G!AddedOrModified(history, repo), step |-> "branch"]
    BY <1>5 DEF AutoCommit, Begin
  <2>2. G!AddedOrModified(history, repo) \in SUBSET WritePaths
    BY DEF G!AddedOrModified
  <2> QED BY <2>1, <2>2 DEF CommandTypes, Committing
<1>6. ASSUME NEW b \in Branches, Switch(b) PROVE CommandTypes'
  BY <1>6 DEF Switch, CommandTypes
<1>7. CASE FindBranch
  <2>0. cmd # Idle /\ cmd.step = "branch"
    BY <1>7 DEF FindBranch, Step
  <2>1. CASE G!Tip(repo) = 0
    <3>1. cmd' = [cmd EXCEPT !.step = "stage"] /\ repo' = [repo EXCEPT !.head = "device"]
      BY <1>7, <2>1 DEF FindBranch
    <3>2. repo'.refs = repo.refs
      BY <3>1 DEF StoreTypes, Repos
    <3> QED BY <2>0, <3>1, <3>2, NextStepTyped DEF CommandTypes, Committing, Moving
  <2>2. CASE G!Tip(repo) # 0
    <3>1. cmd' = WithBack([cmd EXCEPT !.step = "checkout"], repo.head)
      BY <1>7, <2>2 DEF FindBranch
    <3>2. repo' = EnsureDeviceBranch(repo)
      BY <1>7, <2>2 DEF FindBranch
    <3>3. repo'.refs["device"] # 0 /\ repo'.refs[repo.head] # 0 /\ repo.head \in Branches
      BY <2>2, <3>2, BranchMade, DeviceBranch DEF Branches, G!Tip, StoreTypes, Repos
    <3>4. DOMAIN cmd' = DOMAIN cmd \cup {"back"} /\ cmd' = [f \in DOMAIN cmd' |-> cmd'[f]]
      BY <3>1 DEF WithBack, CommandTypes
    <3>5. /\ \A f \in DOMAIN cmd : f # "step" => cmd'[f] = cmd[f]
          /\ cmd'.step = "checkout"
      BY <2>0, <3>1 DEF WithBack, CommandTypes
    <3>6. cmd'.back = repo.head
      BY <3>1 DEF WithBack
    <3>7. cmd.op \in {"remember", "wkpd"}
      BY <2>0 DEF CommandTypes, Moving
    <3>8. cmd'.op = cmd.op /\ cmd'.paths = cmd.paths /\ (cmd.op = "remember" => cmd'.item = cmd.item)
      BY <2>0, <3>5, <3>7 DEF CommandTypes
    <3>9. cmd.op = "remember" => "item" \in DOMAIN cmd /\ cmd.item \in Items /\ cmd.paths = {Inbox(cmd.item)}
      BY <2>0 DEF CommandTypes
    <3>10. "gone" \notin DOMAIN cmd /\ {"op", "paths", "step"} \subseteq DOMAIN cmd /\ cmd.paths \in SUBSET WritePaths
      BY <2>0, <3>7 DEF CommandTypes
    <3> QED BY <3>3, <3>4, <3>5, <3>6, <3>7, <3>8, <3>9, <3>10 DEF CommandTypes, Committing
  <2> QED BY <2>1, <2>2
<1>8. CASE CheckoutDevice
  <2>0. cmd # Idle /\ cmd.step = "checkout"
    BY <1>8 DEF CheckoutDevice, Step
  <2>1. CASE cmd' = Idle
    BY <2>1 DEF CommandTypes
  <2>2. CASE G!CanCheckout(history, repo, "device")
    <3>1. repo'.refs = repo.refs /\ cmd' = [cmd EXCEPT !.step = "stage"]
      BY <1>8, <2>2, Checkout DEF CheckoutDevice, Then, StoreTypes, Branches
    <3> QED BY <2>0, <3>1, NextStepTyped DEF CommandTypes, Committing, Moving
  <2> QED BY <1>8, <2>1, <2>2 DEF CheckoutDevice
<1>9. CASE Unlink
  <2>1. /\ cmd # Idle /\ cmd.step = "unlink" /\ cmd' = [cmd EXCEPT !.step = "unindex"]
        /\ repo'.refs = repo.refs
    BY <1>9 DEF Unlink, Step, Then, Write, StoreTypes, Repos
  <2> QED BY <2>1, NextStepTyped DEF CommandTypes, Committing, Moving
<1>10. CASE Unindex
  <2>1. /\ cmd # Idle /\ cmd.step = "unindex" /\ cmd' = [cmd EXCEPT !.step = cmd.next]
        /\ repo'.refs = repo.refs
    BY <1>10 DEF Unindex, Step, Then, G!RemovedFromIndex, StoreTypes, Repos
  <2> QED BY <2>1, NextStepTyped DEF CommandTypes, Committing, Moving
<1>11. CASE Stage
  <2>1. /\ cmd # Idle /\ cmd.step = "stage" /\ cmd' = [cmd EXCEPT !.step = "commit"]
        /\ repo'.refs = repo.refs
    BY <1>11 DEF Stage, Step, Then, G!StagedPaths, StoreTypes, Repos
  <2> QED BY <2>1, NextStepTyped DEF CommandTypes, Committing, Moving
<1>12. CASE CommitIndex
  <2>0. cmd # Idle /\ cmd.step = "commit"
    BY <1>12 DEF CommitIndex, Step
  <2>1. CASE "back" \notin DOMAIN cmd
    BY <1>12, <2>1 DEF CommitIndex, CommandTypes
  <2>2. CASE "back" \in DOMAIN cmd
    <3>1. cmd' = [cmd EXCEPT !.step = "restore"] /\ repo' = G!Advanced(history, repo)
      BY <1>12, <2>2 DEF CommitIndex
    <3>2. repo'.refs = [repo.refs EXCEPT ![repo.head] = Len(history) + 1]
      BY <3>1 DEF G!Advanced, StoreTypes, Repos
    <3>3. cmd.back \in Branches /\ repo.refs[cmd.back] # 0 /\ Len(history) \in Nat
      BY <2>0, <2>2 DEF CommandTypes, StoreTypes
    <3>4. repo'.refs[cmd.back] # 0
      BY <3>2, <3>3 DEF StoreTypes, Repos
    <3> QED BY <2>0, <2>2, <3>1, <3>4, NextStepTyped DEF CommandTypes, Committing, Moving
  <2> QED BY <2>1, <2>2
<1>13. CASE SigningFails
  <2>0. cmd # Idle /\ cmd.step = "commit" /\ repo' = repo
    BY <1>13 DEF SigningFails, Step
  <2>1. CASE "back" \notin DOMAIN cmd
    BY <1>13, <2>1 DEF SigningFails, CommandTypes
  <2>2. CASE "back" \in DOMAIN cmd
    <3>1. cmd' = [cmd EXCEPT !.step = "restore"]
      BY <1>13, <2>2 DEF SigningFails
    <3> QED BY <2>0, <2>2, <3>1, NextStepTyped DEF CommandTypes, Committing, Moving
  <2> QED BY <2>1, <2>2
<1>14. CASE RestoreRef
  BY <1>14 DEF RestoreRef, CommandTypes
<1>15. CASE Dies
  BY <1>15 DEF Dies, CommandTypes
<1> QED BY <1>0, <1>1, <1>2, <1>3, <1>4, <1>5, <1>6, <1>7, <1>8, <1>9, <1>10, <1>11, <1>12, <1>13,
           <1>14, <1>15 DEF WritesNext

-----------------------------------------------------------------------------
(* Where HEAD and the branches point.                                      *)

MainStays ==
  cmd # Idle /\ cmd.op \in {"remember", "wkpd"} => repo'.refs["main"] = repo.refs["main"]

LEMMA HeadStep ==
  ASSUME StoreTypes, Born, CommandTypes, OnDevice, [WritesNext]_writesVars
  PROVE  Born' /\ OnDevice' /\ MainStays
<1> USE DEF MainStays
<1>a. ASSUME repo'.head = repo.head, repo'.refs = repo.refs PROVE Born'
  BY <1>a DEF Born
<1>b. ASSUME repo' \in Repos, repo'.refs[repo'.head] # 0 PROVE Born'
  BY <1>b DEF Born
<1>0. CASE UNCHANGED writesVars
  BY <1>0 DEF writesVars, Born, OnDevice
<1>1. ASSUME NEW i \in Items, Remember(i) PROVE Born' /\ OnDevice' /\ MainStays
  <2>1. cmd = Idle /\ cmd'.step = "branch"
    BY <1>1 DEF Remember, Begin
  <2>2. repo'.head = repo.head /\ repo'.refs = repo.refs
    BY <1>1, WriteOne, Inboxes DEF Remember
  <2> QED BY <2>1, <2>2, <1>a DEF OnDevice
<1>2. ASSUME NEW i \in Items, Import(i) PROVE Born' /\ OnDevice' /\ MainStays
  <2>1. cmd = Idle /\ cmd' = Idle
    BY <1>2 DEF Import
  <2>2. repo'.head = repo.head /\ repo'.refs = repo.refs
    BY <1>2, WriteOne, Inboxes DEF Import
  <2> QED BY <2>1, <2>2, <1>a DEF OnDevice
<1>3. ASSUME NEW i \in Items, NEW who, Promote(i, who) PROVE Born' /\ OnDevice' /\ MainStays
  <2>1. cmd = Idle /\ cmd'.op = "promote"
    BY <1>3 DEF Promote, Begin
  <2>2. repo'.head = repo.head /\ repo'.refs = repo.refs
    BY <1>3 DEF Promote, Write, StoreTypes, Repos
  <2> QED BY <2>1, <2>2, <1>a DEF OnDevice
<1>4. ASSUME NEW p \in WritePaths, Forget(p) PROVE Born' /\ OnDevice' /\ MainStays
  <2>1. cmd = Idle /\ cmd'.op = "forget"
    BY <1>4 DEF Forget
  <2>2. repo'.head = repo.head /\ repo'.refs = repo.refs
    BY <1>4, WriteOne DEF Forget
  <2> QED BY <2>1, <2>2, <1>a DEF OnDevice
<1>5. CASE AutoCommit
  <2>1. cmd = Idle /\ cmd'.step = "branch" /\ repo' = repo
    BY <1>5 DEF AutoCommit, Begin
  <2> QED BY <2>1, <1>a DEF OnDevice
<1>6. ASSUME NEW b \in Branches, Switch(b) PROVE Born' /\ OnDevice' /\ MainStays
  <2>1. cmd = Idle /\ cmd' = Idle /\ G!Tip(repo) # 0
    BY <1>6 DEF Switch
  <2> DEFINE r == WithBranch(b)
  <2>2. r \in Repos /\ r.refs[b] # 0
    <3>1. r \in Repos /\ r.refs[b] = IF repo.refs[b] = 0 THEN G!Tip(repo) ELSE repo.refs[b]
      BY BranchMade
    <3> QED BY <2>1, <3>1
  <2>3. G!CanCheckout(history, r, b) /\ repo' = G!CheckedOut(history, r, b)
    BY <1>6 DEF Switch, WithBranch
  <2> HIDE DEF r
  <2>4. repo' \in Repos /\ repo'.head = b /\ repo'.refs = r.refs
    BY <2>2, <2>3, Checkout DEF StoreTypes
  <2> QED BY <2>1, <2>2, <2>4, <1>b DEF OnDevice
<1>7. CASE FindBranch
  <2>0. cmd # Idle /\ cmd.step = "branch"
    BY <1>7 DEF FindBranch, Step
  <2>1. CASE G!Tip(repo) = 0
    <3>1. repo'.refs = repo.refs /\ repo'.head = "device"
      BY <1>7, <2>1 DEF FindBranch, StoreTypes, Repos
    <3>2. \A b \in Branches : repo.refs[b] = 0
      BY <2>1 DEF Born, G!Tip
    <3> QED BY <3>1, <3>2 DEF Born, OnDevice
  <2>2. CASE G!Tip(repo) # 0
    <3>1. repo' = EnsureDeviceBranch(repo) /\ cmd' = WithBack([cmd EXCEPT !.step = "checkout"], repo.head)
      BY <1>7, <2>2 DEF FindBranch
    <3>2. cmd'.step = "checkout"
      BY <2>0, <3>1 DEF WithBack, CommandTypes
    <3>3. /\ repo' \in Repos /\ repo'.head = repo.head
          /\ \A c \in Branches : repo'.refs[c] =
               IF c = "device" /\ repo.refs["device"] = 0 THEN G!Tip(repo) ELSE repo.refs[c]
      BY <3>1, BranchMade, DeviceBranch
    <3>4. repo'.refs[repo'.head] # 0 /\ repo'.refs["main"] = repo.refs["main"]
      BY <2>2, <3>3 DEF G!Tip, StoreTypes, Repos, Branches
    <3> QED BY <3>2, <3>3, <3>4, <1>b DEF OnDevice
  <2> QED BY <2>1, <2>2
<1>8. CASE CheckoutDevice
  <2>0. cmd # Idle /\ cmd.step = "checkout" /\ repo.refs["device"] # 0
    BY <1>8 DEF CheckoutDevice, Step, CommandTypes
  <2>1. CASE repo' = repo /\ cmd' = Idle
    BY <2>1, <1>a DEF OnDevice
  <2>2. CASE G!CanCheckout(history, repo, "device") /\ repo' = G!CheckedOut(history, repo, "device")
    <3>1. repo' \in Repos /\ repo'.refs = repo.refs /\ repo'.head = "device"
      BY <2>2, Checkout DEF StoreTypes, Branches
    <3> QED BY <2>0, <3>1, <1>b DEF OnDevice
  <2> QED BY <1>8, <2>1, <2>2 DEF CheckoutDevice
<1>9. CASE Unlink
  <2>1. cmd # Idle /\ cmd.op = "promote" /\ cmd'.op = cmd.op
    BY <1>9, NextStep DEF Unlink, Step, Then, CommandTypes, Committing
  <2>2. repo'.head = repo.head /\ repo'.refs = repo.refs
    BY <1>9 DEF Unlink, Write, StoreTypes, Repos
  <2> QED BY <2>1, <2>2, <1>a DEF OnDevice
<1>10. CASE Unindex
  <2>1. cmd # Idle /\ cmd.op \in {"promote", "forget"} /\ cmd'.op = cmd.op
    BY <1>10, NextStep DEF Unindex, Step, Then, CommandTypes, Committing
  <2>2. repo'.head = repo.head /\ repo'.refs = repo.refs
    BY <1>10 DEF Unindex, G!RemovedFromIndex, StoreTypes, Repos
  <2> QED BY <2>1, <2>2, <1>a DEF OnDevice
<1>11. CASE Stage
  <2>1. cmd # Idle /\ cmd.step = "stage" /\ cmd'.op = cmd.op
    BY <1>11, NextStep DEF Stage, Step, Then
  <2>2. repo'.head = repo.head /\ repo'.refs = repo.refs
    BY <1>11 DEF Stage, G!StagedPaths, StoreTypes, Repos
  <2> QED BY <2>1, <2>2, <1>a DEF OnDevice
<1>12. CASE CommitIndex
  <2>0. cmd # Idle /\ cmd.step = "commit" /\ (cmd' = Idle \/ cmd'.step = "restore")
    BY <1>12 DEF CommitIndex, Step, CommandTypes
  <2>1. repo'.head = repo.head /\ repo'.refs = [repo.refs EXCEPT ![repo.head] = Len(history) + 1]
    BY <1>12 DEF CommitIndex, G!Advanced, StoreTypes, Repos
  <2>2. repo'.refs[repo'.head] # 0
    BY <2>1 DEF StoreTypes, Repos
  <2>3. Born'
    BY <2>2 DEF Born
  <2>4. repo.head # "main" => repo'.refs["main"] = repo.refs["main"]
    BY <2>1 DEF StoreTypes, Repos, Branches
  <2> QED BY <2>0, <2>3, <2>4 DEF OnDevice
<1>13. CASE SigningFails
  <2>1. repo' = repo /\ (cmd' = Idle \/ cmd'.step = "restore")
    BY <1>13 DEF SigningFails, Step, CommandTypes
  <2> QED BY <2>1, <1>a DEF OnDevice
<1>14. CASE RestoreRef
  <2>1. cmd.back \in Branches /\ repo.refs[cmd.back] # 0 /\ cmd' = Idle
    BY <1>14 DEF RestoreRef, Step, CommandTypes
  <2>2. CASE repo' = repo
    BY <2>1, <2>2, <1>a DEF OnDevice
  <2>3. CASE G!CanCheckout(history, repo, cmd.back) /\ repo' = G!CheckedOut(history, repo, cmd.back)
    <3>1. repo' \in Repos /\ repo'.refs = repo.refs /\ repo'.head = cmd.back
      BY <2>1, <2>3, Checkout DEF StoreTypes
    <3> QED BY <2>1, <3>1, <1>b DEF OnDevice
  <2> QED BY <1>14, <2>2, <2>3 DEF RestoreRef
<1>15. CASE Dies
  <2>1. repo' = repo /\ cmd' = Idle
    BY <1>15 DEF Dies
  <2> QED BY <2>1, <1>a DEF OnDevice
<1> QED BY <1>0, <1>1, <1>2, <1>3, <1>4, <1>5, <1>6, <1>7, <1>8, <1>9, <1>10, <1>11, <1>12, <1>13,
           <1>14, <1>15 DEF WritesNext

-----------------------------------------------------------------------------
(* The files of the command under way.                                     *)

LEMMA FilesStep ==
  ASSUME StoreTypes, CommandTypes, FilesHeld, [WritesNext]_writesVars
  PROVE  FilesHeld'
<1> USE DEF FilesHeld, RememberHolds, PromoteHolds, ForgetHolds, NothingUnstaged
<1>a. ASSUME cmd' = Idle PROVE FilesHeld'
  BY <1>a
<1>b. ASSUME cmd'.step = "restore" PROVE FilesHeld'
  BY <1>b
<1>0. CASE UNCHANGED writesVars
  BY <1>0 DEF writesVars
<1>1. ASSUME NEW i \in Items, Remember(i) PROVE FilesHeld'
  <2>1. cmd' = [op |-> "remember", item |-> i, paths |-> {Inbox(i)}, step |-> "branch"]
    BY <1>1 DEF Remember, Begin
  <2>2. repo'.work[Inbox(i)] = i /\ repo'.index[Inbox(i)] # i /\ i # Absent
    <3>1. Inbox(i) \in WritePaths /\ i \in {Absent, Inbox(i)[2]} /\ Write(Inbox(i), i)
      BY <1>1, Inboxes DEF Remember
    <3>2. repo'.work = [repo.work EXCEPT ![Inbox(i)] = i] /\ repo'.index = repo.index
      BY <3>1, WriteOne
    <3>3. repo.work \in Trees /\ repo.index[Inbox(i)] # i
      BY <1>1, <3>1 DEF Remember, StoreTypes, Repos
    <3> QED BY <3>1, <3>2, <3>3, AbsentIsNoItem DEF Trees
  <2> QED BY <2>1, <2>2
<1>2. ASSUME NEW i \in Items, Import(i) PROVE FilesHeld'
  BY <1>2, <1>a DEF Import
<1>3. ASSUME NEW i \in Items, NEW who, Promote(i, who) PROVE FilesHeld'
  <2>1. PICK dest \in Destination(i) :
          /\ Write(dest, repo.work[Inbox(i)])
          /\ cmd' = [op |-> "promote", item |-> i, paths |-> {dest}, step |-> "unlink",
                     gone |-> Inbox(i), next |-> "stage"]
    BY <1>3 DEF Promote, Begin
  <2>2. repo.work[Inbox(i)] = i /\ i # Absent
    BY <1>3, Inboxes, AbsentIsNoItem DEF Promote, StoreTypes, Repos, Trees
  <2>3. repo'.work[dest] = i /\ dest # Inbox(i) /\ Inbox(i)[2] = i
    <3>1. dest \in WritePaths /\ dest[2] = i /\ dest # Inbox(i) /\ Inbox(i)[2] = i
      BY Destinations, Inboxes
    <3>2. repo'.work = [repo.work EXCEPT ![dest] = i]
      BY <2>1, <2>2, <3>1, WriteOne
    <3>3. repo.work \in Trees
      BY DEF StoreTypes, Repos
    <3> QED BY <3>1, <3>2, <3>3 DEF Trees
  <2> QED BY <2>1, <2>2, <2>3
<1>4. ASSUME NEW p \in WritePaths, Forget(p) PROVE FilesHeld'
  <2>1. cmd' = [op |-> "forget", item |-> repo.work[p], paths |-> {p}, step |-> "unindex",
                gone |-> p, next |-> "commit"]
    BY <1>4 DEF Forget
  <2>2. p[2] \notin known'
    BY <1>4 DEF Forget, StoreTypes, Repos, Trees
  <2> QED BY <2>1, <2>2
<1>5. CASE AutoCommit
  <2>1. /\ cmd' = [op |-> "wkpd", paths |-> G!AddedOrModified(history, repo), step |-> "branch"]
        /\ repo' = repo
    BY <1>5 DEF AutoCommit, Begin
  <2> QED BY <2>1 DEF G!AddedOrModified
<1>6. ASSUME NEW b \in Branches, Switch(b) PROVE FilesHeld'
  BY <1>6, <1>a DEF Switch
<1>7. CASE FindBranch
  <2>0. cmd # Idle /\ cmd.step = "branch" /\ cmd.op \in {"remember", "wkpd"}
    BY <1>7 DEF FindBranch, Step, CommandTypes, Moving
  <2>1. cmd'.op = cmd.op /\ cmd'.paths = cmd.paths /\ (cmd.op = "remember" => cmd'.item = cmd.item)
    <3>1. CASE G!Tip(repo) = 0
      BY <1>7, <2>0, <3>1, NextStep DEF FindBranch, CommandTypes
    <3>2. CASE G!Tip(repo) # 0
      BY <1>7, <2>0, <3>2 DEF FindBranch, WithBack, CommandTypes
    <3> QED BY <3>1, <3>2
  <2>2. repo'.work = repo.work /\ repo'.index = repo.index
    <3>1. CASE G!Tip(repo) = 0
      BY <1>7, <3>1 DEF FindBranch, StoreTypes, Repos
    <3>2. CASE G!Tip(repo) # 0
      BY <1>7, <3>2, BranchMade, DeviceBranch DEF FindBranch
    <3> QED BY <3>1, <3>2
  <2>3. cmd'.step \in {"checkout", "stage"}
    BY <1>7, <2>0 DEF FindBranch, WithBack, CommandTypes
  <2> QED BY <2>0, <2>1, <2>2, <2>3
<1>8. CASE CheckoutDevice
  <2>0. cmd # Idle /\ cmd.step = "checkout" /\ cmd.op \in {"remember", "wkpd"}
    BY <1>8 DEF CheckoutDevice, Step, CommandTypes, Moving
  <2>1. CASE cmd' = Idle
    BY <2>1, <1>a
  <2>2. CASE /\ G!CanCheckout(history, repo, "device") /\ repo' = G!CheckedOut(history, repo, "device")
             /\ cmd' = [cmd EXCEPT !.step = "stage"]
    <3>1. /\ cmd'.op = cmd.op /\ cmd'.paths = cmd.paths /\ cmd'.step = "stage"
          /\ cmd.op = "remember" => cmd'.item = cmd.item
      BY <2>0, <2>2, NextStep DEF CommandTypes
    <3>2. \A p \in WritePaths :
            \/ repo'.work[p] = repo.work[p] /\ repo'.index[p] = repo.index[p]
            \/ repo'.work[p] = repo'.index[p] /\ repo.work[p] \in {repo.index[p], Absent}
      BY <2>2, Checkout DEF StoreTypes, Branches
    <3>3. cmd.paths \in SUBSET WritePaths
      BY <2>0 DEF CommandTypes
    <3>4. cmd.op = "remember" => cmd.item \in Items /\ Inbox(cmd.item) \in WritePaths /\ cmd.item # Absent
      BY <2>0, Inboxes, AbsentIsNoItem DEF CommandTypes
    <3>5. RememberHolds'
      BY <2>0, <3>1, <3>2, <3>4
    <3>6. NothingUnstaged'
      BY <2>0, <3>1, <3>2, <3>3
    <3> QED BY <2>0, <3>1, <3>5, <3>6
  <2> QED BY <1>8, <2>1, <2>2 DEF CheckoutDevice, Then
<1>9. CASE Unlink
  <2>0. cmd # Idle /\ cmd.step = "unlink" /\ cmd.op = "promote"
    BY <1>9 DEF Unlink, Step, CommandTypes, Committing
  <2>1. cmd'.op = cmd.op /\ cmd'.paths = cmd.paths /\ cmd'.step = "unindex" /\ cmd'.gone = cmd.gone
    BY <1>9, <2>0, NextStep DEF Unlink, Then, CommandTypes
  <2>2. cmd.gone \in WritePaths /\ cmd.gone \notin cmd.paths /\ cmd.paths \in SUBSET WritePaths
    BY <2>0 DEF CommandTypes
  <2>3. repo'.index = repo.index /\ \A p \in WritePaths : p # cmd.gone => repo'.work[p] = repo.work[p]
    <3>1. repo'.index = repo.index /\ repo'.work = [repo.work EXCEPT ![cmd.gone] = Absent]
      BY <1>9, <2>2, WriteOne DEF Unlink
    <3>2. DOMAIN repo.work = WritePaths
      BY DEF StoreTypes, Repos, Trees
    <3> QED BY <3>1, <3>2
  <2> QED BY <2>0, <2>1, <2>2, <2>3
<1>10. CASE Unindex
  <2>0. cmd # Idle /\ cmd.step = "unindex" /\ cmd.op \in {"promote", "forget"}
    BY <1>10 DEF Unindex, Step, CommandTypes, Committing
  <2>1. cmd'.op = cmd.op /\ cmd'.paths = cmd.paths /\ cmd'.step = cmd.next
    BY <1>10, <2>0, NextStep DEF Unindex, Then, CommandTypes
  <2>2. cmd.gone \in WritePaths /\ cmd.paths \in SUBSET WritePaths
    BY <2>0 DEF CommandTypes
  <2>3. repo'.work = repo.work /\ \A p \in WritePaths : p # cmd.gone => repo'.index[p] = repo.index[p]
    <3>1. repo'.work = repo.work /\ repo'.index = [repo.index EXCEPT ![cmd.gone] = Absent]
      BY <1>10, <2>2, RemoveTyped DEF Unindex
    <3>2. repo.index \in Trees
      BY DEF StoreTypes, Repos
    <3> QED BY <2>2, <3>1, <3>2 DEF Trees
  <2>4. CASE cmd.op = "promote"
    <3>1. cmd.next = "stage" /\ cmd.gone \notin cmd.paths
      BY <2>0, <2>4 DEF CommandTypes
    <3> QED BY <2>0, <2>1, <2>2, <2>3, <2>4, <3>1
  <2>5. CASE cmd.op = "forget"
    <3>1. cmd.next = "commit"
      BY <2>0, <2>5 DEF CommandTypes
    <3> QED BY <2>0, <2>1, <2>5, <3>1
  <2> QED BY <2>0, <2>4, <2>5
<1>11. CASE Stage
  <2>0. cmd # Idle /\ cmd.step = "stage"
    BY <1>11 DEF Stage, Step
  <2>1. /\ cmd'.op = cmd.op /\ cmd'.paths = cmd.paths /\ cmd'.step = "commit"
        /\ cmd.op = "remember" => cmd'.item = cmd.item
    BY <1>11, <2>0, NextStep DEF Stage, Then, CommandTypes
  <2>2. cmd.paths \in SUBSET WritePaths
    BY <2>0 DEF CommandTypes
  <2>3. \A p \in cmd.paths : repo'.index[p] = repo.work[p]
    BY <1>11, <2>2, StageTyped DEF Stage
  <2>4. cmd.op = "remember" => Inbox(cmd.item) \in cmd.paths
    BY <2>0 DEF CommandTypes
  <2> QED BY <2>0, <2>1, <2>3, <2>4
<1>12. CASE CommitIndex
  <2>1. cmd' = Idle \/ cmd'.step = "restore"
    BY <1>12 DEF CommitIndex, Step, CommandTypes
  <2> QED BY <2>1, <1>a, <1>b
<1>13. CASE SigningFails
  <2>1. cmd' = Idle \/ cmd'.step = "restore"
    BY <1>13 DEF SigningFails, Step, CommandTypes
  <2> QED BY <2>1, <1>a, <1>b
<1>14. CASE RestoreRef
  BY <1>14, <1>a DEF RestoreRef
<1>15. CASE Dies
  BY <1>15, <1>a DEF Dies
<1> QED BY <1>0, <1>1, <1>2, <1>3, <1>4, <1>5, <1>6, <1>7, <1>8, <1>9, <1>10, <1>11, <1>12, <1>13,
           <1>14, <1>15 DEF WritesNext

-----------------------------------------------------------------------------
(* Nothing known is lost.                                                  *)

\* A step that keeps the branches and takes nothing safe out of work tree and index.
LEMMA KeptInPlace ==
  ASSUME KnownAreSafe, NEW i \in known,
         repo'.head = repo.head, repo'.refs = repo.refs, history' = history,
         \A p \in WritePaths : repo.work[p] = i => \E q \in WritePaths : repo'.work[q] = i,
         \A p \in WritePaths : repo.index[p] = i =>
            repo'.index[p] = i \/ \E q \in WritePaths : repo'.work[q] = i
  PROVE  Safe(i)'
<1>1. G!HeadTree(history, repo)' = G!HeadTree(history, repo)
  BY DEF G!HeadTree, G!Tip
<1> QED BY <1>1 DEF KnownAreSafe, Safe

\* A branch that is made at HEAD's tip takes nothing away.
LEMMA KeptByBranch ==
  ASSUME StoreTypes, NEW i \in Items, Safe(i), NEW b \in Branches, NEW r,
         r.work = repo.work, r.index = repo.index, r.head = repo.head,
         \A c \in Branches : r.refs[c] = IF c = b /\ repo.refs[b] = 0 THEN G!Tip(repo) ELSE repo.refs[c],
         G!HeadTree(history, r) = G!HeadTree(history, repo)
  PROVE  \/ \E p \in WritePaths : r.work[p] = i
         \/ \E p \in WritePaths : r.index[p] = i /\ G!HeadTree(history, r)[p] = i
         \/ \E p \in WritePaths, c \in Branches \ {r.head} : G!Tree(history, r.refs[c])[p] = i
<1>1. \A p \in WritePaths : G!Tree(history, 0)[p] # i
  BY AbsentIsNoItem DEF G!Tree, G!Nothing
<1> QED BY <1>1 DEF Safe

\* A checkout leaves an item where it is, or on the branch it leaves or goes to.
LEMMA KeptByCheckout ==
  ASSUME StoreTypes, NEW i \in Items, NEW r \in Repos, NEW b \in Branches,
         G!CanCheckout(history, r, b), repo' = G!CheckedOut(history, r, b), history' = history,
         \/ \E p \in WritePaths : r.work[p] = i
         \/ \E p \in WritePaths : r.index[p] = i /\ G!HeadTree(history, r)[p] = i
         \/ \E p \in WritePaths, c \in Branches \ {r.head} : G!Tree(history, r.refs[c])[p] = i
  PROVE  Safe(i)'
<1> DEFINE t == G!Tree(history, r.refs[b])
           h == G!HeadTree(history, r)
<1>1. /\ repo' \in Repos /\ repo'.refs = r.refs /\ repo'.head = b
      /\ \A p \in WritePaths :
              \/ /\ repo'.index[p] = r.index[p] /\ repo'.work[p] = r.work[p]
                 /\ h[p] = t[p] \/ r.index[p] = t[p]
              \/ /\ repo'.index[p] = t[p] /\ repo'.work[p] = t[p]
                 /\ h[p] # t[p] /\ r.index[p] = h[p] /\ r.work[p] \in {h[p], Absent}
  BY Checkout DEF StoreTypes
<1>2. h = G!Tree(history, r.refs[r.head]) /\ G!HeadTree(history, repo)' = t
  BY <1>1 DEF G!HeadTree, G!Tip
<1>3. i # Absent /\ r.head \in Branches
  BY AbsentIsNoItem DEF Repos
<1> HIDE DEF t, h
<1>4. ASSUME b # r.head, NEW p \in WritePaths, h[p] = i PROVE Safe(i)'
  BY <1>1, <1>2, <1>3, <1>4 DEF Safe
<1>5. ASSUME b = r.head PROVE Safe(i)'
  <2>1. h = t
    BY <1>2, <1>5 DEF t
  <2>2. \A p \in WritePaths : repo'.index[p] = r.index[p] /\ repo'.work[p] = r.work[p]
    BY <1>1, <2>1
  <2>3. CASE \E p \in WritePaths : r.work[p] = i
    BY <2>2, <2>3 DEF Safe
  <2>4. CASE \E p \in WritePaths : r.index[p] = i /\ h[p] = i
    BY <1>2, <2>1, <2>2, <2>4 DEF Safe
  <2>5. CASE \E p \in WritePaths, c \in Branches \ {r.head} : G!Tree(history, r.refs[c])[p] = i
    BY <1>1, <1>5, <2>5 DEF Safe
  <2> QED BY <2>3, <2>4, <2>5 DEF h
<1>6. ASSUME b # r.head, NEW p \in WritePaths, r.work[p] = i PROVE Safe(i)'
  BY <1>1, <1>3, <1>4, <1>6 DEF Safe
<1>7. ASSUME b # r.head, NEW p \in WritePaths, t[p] = i PROVE Safe(i)'
  <2>1. CASE repo'.work[p] = i
    BY <2>1 DEF Safe
  <2>2. CASE repo'.index[p] = i
    BY <1>2, <1>7, <2>2 DEF Safe
  <2>3. CASE h[p] = i
    BY <1>4, <1>7, <2>3
  <2> QED BY <1>1, <1>7, <2>1, <2>2, <2>3
<1>8. ASSUME NEW c \in Branches \ {r.head}, b # r.head PROVE c = b
  BY <1>3, <1>8 DEF Branches
<1>9. CASE b # r.head
  <2>1. CASE \E p \in WritePaths : r.work[p] = i
    BY <1>6, <1>9, <2>1
  <2>2. CASE \E p \in WritePaths : r.index[p] = i /\ h[p] = i
    BY <1>4, <1>9, <2>2
  <2>3. CASE \E p \in WritePaths, c \in Branches \ {r.head} : G!Tree(history, r.refs[c])[p] = i
    BY <1>7, <1>8, <1>9, <2>3 DEF t
  <2> QED BY <2>1, <2>2, <2>3 DEF h
<1> QED BY <1>5, <1>9

LEMMA SafeStep ==
  ASSUME StoreTypes, Born, CommandTypes, FilesHeld, KnownAreSafe, [WritesNext]_writesVars
  PROVE  KnownAreSafe'
<1>. SUFFICES ASSUME NEW i \in known' PROVE Safe(i)'
  BY DEF KnownAreSafe
<1>t. StoreTypes' /\ i \in Items
  BY TypesStep DEF StoreTypes
<1>a. ASSUME repo' = repo, history' = history, i \in known PROVE Safe(i)'
  BY <1>a DEF KnownAreSafe, Safe
<1>b. ASSUME NEW j \in Items, repo'.work[Inbox(j)] = j, j = i PROVE Safe(i)'
  BY <1>b, Inboxes DEF Safe
<1>c. ASSUME NEW p \in WritePaths, NEW x \in {Absent, p[2]}, Write(p, x), history' = history, i \in known,
             repo.work[p] = i => x = i \/ \E q \in WritePaths : q # p /\ repo.work[q] = i
      PROVE  Safe(i)'
  <2>1. /\ repo'.work = [repo.work EXCEPT ![p] = x]
        /\ repo'.index = repo.index /\ repo'.head = repo.head /\ repo'.refs = repo.refs
    BY <1>c, WriteOne
  <2>2. /\ \A q \in WritePaths : q # p => repo'.work[q] = repo.work[q]
        /\ repo'.work[p] = x
    BY <2>1 DEF StoreTypes, Repos, Trees
  <2> QED BY <1>c, <2>1, <2>2, KeptInPlace
<1>0. CASE UNCHANGED writesVars
  BY <1>0, <1>a DEF writesVars
<1>1. ASSUME NEW j \in Items, Remember(j) PROVE Safe(i)'
  <2>1. repo.work[Inbox(j)] # i
    <3>1. repo.work[Inbox(j)] # j
      BY <1>1, Inboxes DEF Remember
    <3>2. repo.work[Inbox(j)] \in {Absent, j}
      BY <1>t, Inboxes DEF StoreTypes, Repos, Trees
    <3> QED BY <3>1, <3>2, <1>t, AbsentIsNoItem
  <2>2. Write(Inbox(j), j) /\ history' = history /\ known' = known
    BY <1>1 DEF Remember, Begin
  <2> QED BY <2>1, <2>2, <1>c, Inboxes
<1>2. ASSUME NEW j \in Items, Import(j) PROVE Safe(i)'
  <2>1. Write(Inbox(j), j) /\ history' = history /\ known' = known \cup {j} /\ repo.work[Inbox(j)] = Absent
    BY <1>2 DEF Import
  <2>2. CASE i = j
    <3>1. repo'.work[Inbox(j)] = j
      <4>1. Inbox(j) \in WritePaths /\ j \in {Absent, Inbox(j)[2]}
        BY Inboxes
      <4>2. repo'.work = [repo.work EXCEPT ![Inbox(j)] = j]
        BY <2>1, <4>1, WriteOne
      <4> QED BY <4>1, <4>2 DEF StoreTypes, Repos, Trees
    <3> QED BY <3>1, <2>2, <1>b
  <2>3. CASE i # j
    BY <2>1, <2>3, <1>c, <1>t, Inboxes, AbsentIsNoItem
  <2> QED BY <2>2, <2>3
<1>3. ASSUME NEW j \in Items, NEW who, Promote(j, who) PROVE Safe(i)'
  <2>1. PICK dest \in Destination(j) : Write(dest, repo.work[Inbox(j)]) /\ repo.work[dest] = Absent
    BY <1>3 DEF Promote
  <2>2. dest \in WritePaths /\ repo.work[Inbox(j)] \in {Absent, dest[2]}
    BY Destinations, Inboxes DEF StoreTypes, Repos, Trees
  <2>3. history' = history /\ known' = known
    BY <1>3 DEF Promote, Begin
  <2> QED BY <2>1, <2>2, <2>3, <1>c, <1>t, AbsentIsNoItem
<1>4. ASSUME NEW p \in WritePaths, Forget(p) PROVE Safe(i)'
  <2>1. Write(p, Absent) /\ history' = history /\ known' = known \ {repo.work[p]}
    BY <1>4 DEF Forget
  <2> QED BY <2>1, <1>c
<1>5. CASE AutoCommit
  BY <1>5, <1>a DEF AutoCommit, Begin
<1>6. ASSUME NEW b \in Branches, Switch(b) PROVE Safe(i)'
  <2> DEFINE r == WithBranch(b)
  <2>1. /\ G!CanCheckout(history, r, b) /\ repo' = G!CheckedOut(history, r, b)
        /\ history' = history /\ known' = known
    BY <1>6 DEF Switch, WithBranch
  <2>2. r \in Repos
    BY BranchMade
  <2>4. /\ r.work = repo.work /\ r.index = repo.index /\ r.head = repo.head
        /\ \A c \in Branches : r.refs[c] = IF c = b /\ repo.refs[b] = 0 THEN G!Tip(repo) ELSE repo.refs[c]
        /\ G!HeadTree(history, r) = G!HeadTree(history, repo)
    BY BranchMade
  <2> HIDE DEF r
  <2>3. \/ \E p \in WritePaths : r.work[p] = i
        \/ \E p \in WritePaths : r.index[p] = i /\ G!HeadTree(history, r)[p] = i
        \/ \E p \in WritePaths, c \in Branches \ {r.head} : G!Tree(history, r.refs[c])[p] = i
    <3>1. Safe(i)
      BY <2>1 DEF KnownAreSafe
    <3> QED BY <2>4, <3>1, <1>t, KeptByBranch
  <2> QED BY <2>1, <2>2, <2>3, <1>t, KeptByCheckout
<1>7. CASE FindBranch
  <2>0. history' = history /\ known' = known
    BY <1>7 DEF FindBranch, Rest
  <2>1. CASE G!Tip(repo) = 0
    <3>1. repo' = [repo EXCEPT !.head = "device"]
      BY <1>7, <2>1 DEF FindBranch
    <3>2. repo'.work = repo.work /\ repo'.index = repo.index
      BY <3>1 DEF StoreTypes, Repos
    <3>3. \A b \in Branches : repo.refs[b] = 0
      BY <2>1 DEF Born, G!Tip
    <3>4. \A p \in WritePaths : G!Tree(history, 0)[p] # i
      BY <1>t, AbsentIsNoItem DEF G!Tree, G!Nothing
    <3>5. \E p \in WritePaths : repo.work[p] = i
      BY <2>0, <2>1, <3>3, <3>4 DEF KnownAreSafe, Safe, G!HeadTree
    <3> QED BY <3>2, <3>5 DEF Safe
  <2>2. CASE G!Tip(repo) # 0
    <3>1. repo' = WithBranch("device")
      BY <1>7, <2>2, DeviceBranch DEF FindBranch
    <3>2. Safe(i)
      BY <2>0 DEF KnownAreSafe
    <3>3. \/ \E p \in WritePaths : repo'.work[p] = i
          \/ \E p \in WritePaths : repo'.index[p] = i /\ G!HeadTree(history, repo')[p] = i
          \/ \E p \in WritePaths, c \in Branches \ {repo'.head} : G!Tree(history, repo'.refs[c])[p] = i
      <4>1. "device" \in Branches
        BY DEF Branches
      <4>2. /\ repo'.work = repo.work /\ repo'.index = repo.index /\ repo'.head = repo.head
            /\ \A c \in Branches : repo'.refs[c] =
                 IF c = "device" /\ repo.refs["device"] = 0 THEN G!Tip(repo) ELSE repo.refs[c]
            /\ G!HeadTree(history, repo') = G!HeadTree(history, repo)
        BY <3>1, <4>1, BranchMade
      <4> QED BY <3>2, <4>1, <4>2, <1>t, KeptByBranch
    <3>4. G!HeadTree(history, repo)' = G!HeadTree(history, repo')
      BY <2>0 DEF G!HeadTree, G!Tip
    <3> QED BY <2>0, <3>3, <3>4 DEF Safe
  <2> QED BY <2>1, <2>2
<1>8. CASE CheckoutDevice
  <2>0. history' = history /\ known' = known
    BY <1>8 DEF CheckoutDevice, Rest
  <2>1. CASE repo' = repo
    BY <2>0, <2>1, <1>a
  <2>2. CASE G!CanCheckout(history, repo, "device") /\ repo' = G!CheckedOut(history, repo, "device")
    BY <2>0, <2>2, <1>t, KeptByCheckout DEF KnownAreSafe, Safe, StoreTypes, Branches
  <2> QED BY <1>8, <2>1, <2>2 DEF CheckoutDevice
<1>9. CASE Unlink
  <2>0. cmd # Idle /\ cmd.step = "unlink" /\ cmd.op = "promote"
    BY <1>9 DEF Unlink, Step, CommandTypes, Committing
  <2>1. Write(cmd.gone, Absent) /\ history' = history /\ known' = known /\ cmd.gone \in WritePaths
    BY <1>9, <2>0 DEF Unlink, Rest, CommandTypes
  <2>2. \E q \in cmd.paths : q # cmd.gone /\ repo.work[q] = cmd.gone[2]
    BY <2>0 DEF FilesHeld, PromoteHolds
  <2>3. repo.work[cmd.gone] = i => cmd.gone[2] = i
    <3>1. repo.work \in Trees
      BY DEF StoreTypes, Repos
    <3> QED BY <2>1, <3>1, <1>t, TreesName
  <2>4. cmd.paths \in SUBSET WritePaths
    BY <2>0 DEF CommandTypes
  <2> QED BY <2>1, <2>2, <2>3, <2>4, <1>c
<1>10. CASE Unindex
  <2>0. cmd # Idle /\ cmd.step = "unindex" /\ cmd.op \in {"promote", "forget"}
    BY <1>10 DEF Unindex, Step, CommandTypes, Committing
  <2>1. /\ repo' = G!RemovedFromIndex(repo, cmd.gone) /\ history' = history /\ known' = known
        /\ cmd.gone \in WritePaths /\ cmd.paths \in SUBSET WritePaths
    BY <1>10, <2>0 DEF Unindex, Rest, CommandTypes
  <2>2. /\ repo'.work = repo.work /\ repo'.head = repo.head /\ repo'.refs = repo.refs
        /\ repo'.index = [repo.index EXCEPT ![cmd.gone] = Absent]
    BY <2>1, RemoveTyped
  <2>3. \A p \in WritePaths : p # cmd.gone => repo'.index[p] = repo.index[p]
    BY <2>1, <2>2 DEF StoreTypes, Repos, Trees
  <2>4. repo.index[cmd.gone] = i => cmd.gone[2] = i
    <3>1. repo.index \in Trees
      BY DEF StoreTypes, Repos
    <3> QED BY <2>1, <3>1, <1>t, TreesName
  <2>5. repo.index[cmd.gone] = i => \E q \in WritePaths : repo.work[q] = i
    BY <2>0, <2>1, <2>4 DEF FilesHeld, PromoteHolds, ForgetHolds
  <2> QED BY <2>1, <2>2, <2>3, <2>5, KeptInPlace
<1>11. CASE Stage
  <2>0. cmd # Idle /\ cmd.step = "stage" /\ cmd.op # "forget"
    BY <1>11 DEF Stage, Step, CommandTypes
  <2>1. /\ repo' = G!StagedPaths(repo, cmd.paths) /\ history' = history /\ known' = known
        /\ cmd.paths \in SUBSET WritePaths
    BY <1>11, <2>0 DEF Stage, Rest, CommandTypes
  <2>2. /\ repo'.work = repo.work /\ repo'.head = repo.head /\ repo'.refs = repo.refs
        /\ \A p \in WritePaths : repo'.index[p] = IF p \in cmd.paths THEN repo.work[p] ELSE repo.index[p]
    BY <2>1, StageTyped
  <2>3. ASSUME NEW p \in WritePaths, repo.index[p] = i
        PROVE  repo'.index[p] = i \/ \E q \in WritePaths : repo'.work[q] = i
    <3>1. CASE p \notin cmd.paths \/ repo.work[p] = repo.index[p]
      BY <2>2, <2>3, <3>1
    <3>2. CASE p \in cmd.paths /\ repo.work[p] # Absent
      <4>1. repo.work \in Trees /\ repo.index \in Trees
        BY DEF StoreTypes, Repos
      <4>2. p[2] = i
        BY <2>3, <4>1, <1>t, TreesName
      <4>3. repo.work[p] = p[2]
        BY <3>2, <4>1 DEF Trees
      <4> QED BY <2>2, <3>2, <4>2, <4>3
    <3> QED BY <2>0, <3>1, <3>2 DEF FilesHeld, NothingUnstaged
  <2> QED BY <2>1, <2>2, <2>3, KeptInPlace
<1>12. CASE CommitIndex
  <2>0. cmd # Idle /\ cmd.step = "commit" /\ OwnPaths \in SUBSET WritePaths
    BY <1>12 DEF CommitIndex, Step, CommandTypes, OwnPaths
  <2>1. /\ history' = Append(history, G!NewCommit(history, repo, OwnPaths))
        /\ repo' = G!Advanced(history, repo)
    BY <1>12 DEF CommitIndex, OwnPaths
  <2>2. /\ repo'.work = repo.work /\ repo'.index = repo.index /\ repo'.head = repo.head
        /\ \A b \in Branches \ {repo.head} : repo'.refs[b] = repo.refs[b]
        /\ \A b \in Branches : G!Tree(history', repo.refs[b]) = G!Tree(history, repo.refs[b])
        /\ G!HeadTree(history, repo)' = repo.index
    BY <2>0, <2>1, CommitTyped DEF StoreTypes, Repos
  <2>3. CASE i \in known
    <3>1. CASE \E p \in WritePaths : repo.work[p] = i
      BY <2>2, <3>1 DEF Safe
    <3>2. CASE \E p \in WritePaths : repo.index[p] = i
      BY <2>2, <3>2 DEF Safe
    <3>3. CASE \E p \in WritePaths, b \in Branches \ {repo.head} : G!Tree(history, repo.refs[b])[p] = i
      BY <2>2, <3>3 DEF Safe
    <3> QED BY <2>3, <3>1, <3>2, <3>3 DEF KnownAreSafe, Safe
  <2>4. CASE i \notin known
    <3>1. cmd.op = "remember" /\ i = cmd.item
      BY <1>12, <2>4 DEF CommitIndex
    <3>2. repo.index[Inbox(i)] = i /\ Inbox(i) \in WritePaths
      BY <2>0, <3>1, <1>t, Inboxes DEF FilesHeld, RememberHolds
    <3> QED BY <2>2, <3>2 DEF Safe
  <2> QED BY <2>3, <2>4
<1>13. CASE SigningFails
  BY <1>13, <1>a DEF SigningFails
<1>14. CASE RestoreRef
  <2>0. history' = history /\ known' = known /\ cmd.back \in Branches
    BY <1>14 DEF RestoreRef, Rest, Step, CommandTypes
  <2>1. CASE repo' = repo
    BY <2>0, <2>1, <1>a
  <2>2. CASE G!CanCheckout(history, repo, cmd.back) /\ repo' = G!CheckedOut(history, repo, cmd.back)
    BY <2>0, <2>2, <1>t, KeptByCheckout DEF KnownAreSafe, Safe, StoreTypes
  <2> QED BY <1>14, <2>1, <2>2 DEF RestoreRef
<1>15. CASE Dies
  BY <1>15, <1>a DEF Dies
<1> QED BY <1>0, <1>1, <1>2, <1>3, <1>4, <1>5, <1>6, <1>7, <1>8, <1>9, <1>10, <1>11, <1>12, <1>13,
           <1>14, <1>15 DEF WritesNext

-----------------------------------------------------------------------------
(* Without a failure a commit has its command's paths.                     *)

Clean == \A p \in WritePaths : repo.index[p] = G!HeadTree(history, repo)[p]

LEMMA CleanIsUnstaged == Clean <=> Staged = {}
  BY DEF Clean, Staged, G!Changed

LEMMA CleanAfterCheckout ==
  ASSUME StoreTypes, NEW r \in Repos, NEW b \in Branches,
         G!CanCheckout(history, r, b), repo' = G!CheckedOut(history, r, b), history' = history,
         \A p \in WritePaths : r.index[p] = G!HeadTree(history, r)[p]
  PROVE  Clean'
<1> DEFINE t == G!Tree(history, r.refs[b])
           h == G!HeadTree(history, r)
<1>1. /\ repo'.refs = r.refs /\ repo'.head = b
      /\ \A p \in WritePaths :
              \/ repo'.index[p] = r.index[p] /\ (h[p] = t[p] \/ r.index[p] = t[p])
              \/ repo'.index[p] = t[p]
  BY Checkout DEF StoreTypes
<1>2. G!HeadTree(history, repo)' = t
  BY <1>1 DEF G!HeadTree, G!Tip
<1> QED BY <1>1, <1>2 DEF Clean

LEMMA ExactStep ==
  ASSUME StoreTypes, Born, CommandTypes, IndexIsClean, [WritesNext]_writesVars
  PROVE  IndexIsClean'
<1> SUFFICES ASSUME fails' = 0 PROVE IndexIsClean'
  BY DEF IndexIsClean
<1> DEFINE mine(c) == c # Idle /\ c.step \in {"stage", "commit"}
<1>f. ~ (SigningFails \/ Dies)
  BY DEF SigningFails, Dies, StoreTypes
<1>g. fails = 0
  <2>1. ASSUME NEW i \in Items, Remember(i) \/ Import(i) PROVE fails' = fails
    BY <2>1 DEF Remember, Import, Begin
  <2>2. ASSUME NEW i, NEW who, Promote(i, who) PROVE fails' = fails
    BY <2>2 DEF Promote, Begin
  <2>3. (\E p \in WritePaths : Forget(p)) \/ AutoCommit \/ (\E b \in Branches : Switch(b)) => fails' = fails
    BY DEF Forget, AutoCommit, Switch, Begin
  <2>4. FindBranch \/ CheckoutDevice \/ Unlink \/ Unindex \/ Stage \/ RestoreRef => fails' = fails
    BY DEF FindBranch, CheckoutDevice, Unlink, Unindex, Stage, RestoreRef, Rest
  <2>5. CommitIndex \/ UNCHANGED writesVars => fails' = fails
    BY DEF CommitIndex, writesVars
  <2> QED BY <1>f, <2>1, <2>2, <2>3, <2>4, <2>5 DEF WritesNext
<1>h. CommitsAreExactWithoutFailures /\ (~mine(cmd) => Clean) /\ (mine(cmd) => Staged \subseteq OwnPaths)
  BY <1>g, CleanIsUnstaged DEF IndexIsClean
<1>a. ASSUME history' = history, Clean' PROVE IndexIsClean'
  <2>1. Staged' = {}
    BY <1>a DEF Clean, Staged, G!Changed
  <2>2. CommitsAreExactWithoutFailures'
    BY <1>a, <1>g, <1>h DEF CommitsAreExactWithoutFailures
  <2> QED BY <2>1, <2>2 DEF IndexIsClean
<1>b. ASSUME history' = history, repo'.index = repo.index, repo'.head = repo.head, repo'.refs = repo.refs
      PROVE  G!HeadTree(history, repo)' = G!HeadTree(history, repo) /\ (Clean => Clean')
  BY <1>b DEF G!HeadTree, G!Tip, Clean
<1>c. ASSUME history' = history, repo'.index = repo.index, repo'.head = repo.head, repo'.refs = repo.refs,
             ~mine(cmd)
      PROVE  IndexIsClean'
  BY <1>a, <1>b, <1>c, <1>h
<1> HIDE DEF mine
<1>0. CASE UNCHANGED writesVars
  BY <1>0 DEF writesVars, IndexIsClean, CommitsAreExactWithoutFailures, Staged, OwnPaths
<1>1. ASSUME NEW i \in Items, Remember(i) PROVE IndexIsClean'
  <2>1. repo'.index = repo.index /\ repo'.head = repo.head /\ repo'.refs = repo.refs
    BY <1>1, WriteOne, Inboxes DEF Remember
  <2> QED BY <1>1, <2>1, <1>c DEF Remember, Begin, mine
<1>2. ASSUME NEW i \in Items, Import(i) PROVE IndexIsClean'
  <2>1. repo'.index = repo.index /\ repo'.head = repo.head /\ repo'.refs = repo.refs
    BY <1>2, WriteOne, Inboxes DEF Import
  <2> QED BY <1>2, <2>1, <1>c DEF Import, mine
<1>3. ASSUME NEW i \in Items, NEW who, Promote(i, who) PROVE IndexIsClean'
  <2>1. repo'.index = repo.index /\ repo'.head = repo.head /\ repo'.refs = repo.refs
    BY <1>3 DEF Promote, Write, StoreTypes, Repos
  <2> QED BY <1>3, <2>1, <1>c DEF Promote, Begin, mine
<1>4. ASSUME NEW p \in WritePaths, Forget(p) PROVE IndexIsClean'
  <2>1. repo'.index = repo.index /\ repo'.head = repo.head /\ repo'.refs = repo.refs
    BY <1>4, WriteOne DEF Forget
  <2> QED BY <1>4, <2>1, <1>c DEF Forget, mine
<1>5. CASE AutoCommit
  BY <1>5, <1>c DEF AutoCommit, Begin, mine
<1>6. ASSUME NEW b \in Branches, Switch(b) PROVE IndexIsClean'
  <2> DEFINE r == WithBranch(b)
  <2>1. /\ G!CanCheckout(history, r, b) /\ repo' = G!CheckedOut(history, r, b)
        /\ history' = history /\ ~mine(cmd)
    BY <1>6 DEF Switch, WithBranch, mine
  <2>2. r \in Repos /\ r.index = repo.index /\ G!HeadTree(history, r) = G!HeadTree(history, repo)
    BY BranchMade
  <2> HIDE DEF r
  <2> QED BY <2>1, <2>2, <1>a, <1>h, CleanAfterCheckout DEF Clean
<1>7. CASE FindBranch
  <2>0. history' = history /\ ~mine(cmd)
    BY <1>7 DEF FindBranch, Rest, Step, mine
  <2>1. CASE G!Tip(repo) = 0
    <3>1. repo' = [repo EXCEPT !.head = "device"]
      BY <1>7, <2>1 DEF FindBranch
    <3>2. repo'.index = repo.index /\ repo'.refs = repo.refs /\ repo'.head = "device"
      BY <3>1 DEF StoreTypes, Repos
    <3>3. \A b \in Branches : repo.refs[b] = 0
      BY <2>1 DEF Born, G!Tip
    <3>4. G!Tip(repo)' = 0
      BY <3>2, <3>3 DEF G!Tip, Branches
    <3> QED BY <2>0, <2>1, <3>2, <3>4, <1>a, <1>h DEF Clean, G!HeadTree
  <2>2. CASE G!Tip(repo) # 0
    <3>1. repo' = WithBranch("device")
      BY <1>7, <2>2, DeviceBranch DEF FindBranch
    <3>2. "device" \in Branches
      BY DEF Branches
    <3>3. repo'.index = repo.index /\ G!HeadTree(history, repo') = G!HeadTree(history, repo)
      BY <3>1, <3>2, BranchMade
    <3> QED BY <2>0, <3>3, <1>a, <1>h DEF Clean, G!HeadTree, G!Tip
  <2> QED BY <2>1, <2>2
<1>8. CASE CheckoutDevice
  <2>0. history' = history /\ ~mine(cmd)
    BY <1>8 DEF CheckoutDevice, Rest, Step, mine
  <2>1. CASE repo' = repo
    BY <2>0, <2>1, <1>c
  <2>2. CASE G!CanCheckout(history, repo, "device") /\ repo' = G!CheckedOut(history, repo, "device")
    BY <2>0, <2>2, <1>a, <1>h, CleanAfterCheckout DEF Clean, StoreTypes, Branches
  <2> QED BY <1>8, <2>1, <2>2 DEF CheckoutDevice
<1>9. CASE Unlink
  <2>1. repo'.index = repo.index /\ repo'.head = repo.head /\ repo'.refs = repo.refs
    BY <1>9 DEF Unlink, Write, StoreTypes, Repos
  <2> QED BY <1>9, <2>1, <1>c DEF Unlink, Rest, Step, mine
<1>d. ASSUME history' = history, repo'.head = repo.head, repo'.refs = repo.refs,
             cmd # Idle, OwnPaths' = OwnPaths, mine(cmd'), Staged' \subseteq OwnPaths
      PROVE  IndexIsClean'
  BY <1>d, <1>g, <1>h DEF IndexIsClean, CommitsAreExactWithoutFailures, mine
<1>10. CASE Unindex
  <2>0. cmd # Idle /\ cmd.step = "unindex" /\ ~mine(cmd) /\ history' = history
    BY <1>10 DEF Unindex, Step, Rest, mine
  <2>1. cmd.gone \in WritePaths /\ "gone" \in DOMAIN cmd /\ cmd.next \in {"stage", "commit"}
    BY <2>0 DEF CommandTypes, Committing
  <2>2. /\ repo'.head = repo.head /\ repo'.refs = repo.refs
        /\ repo'.index = [repo.index EXCEPT ![cmd.gone] = Absent]
    BY <1>10, <2>1, RemoveTyped DEF Unindex
  <2>3. \A p \in WritePaths : p # cmd.gone => repo'.index[p] = repo.index[p]
    BY <2>1, <2>2 DEF StoreTypes, Repos, Trees
  <2>4. G!HeadTree(history, repo)' = G!HeadTree(history, repo)
    BY <2>0, <2>2 DEF G!HeadTree, G!Tip
  <2>5. cmd' # Idle /\ cmd'.step = cmd.next /\ OwnPaths' = OwnPaths
    BY <1>10, <2>0, NextStep DEF Unindex, Then, OwnPaths
  <2>6. Staged' \subseteq OwnPaths
    BY <2>0, <2>1, <2>3, <2>4, <1>h DEF Staged, G!Changed, Clean, OwnPaths
  <2> QED BY <2>0, <2>1, <2>2, <2>5, <2>6, <1>d DEF mine
<1>11. CASE Stage
  <2>0. cmd # Idle /\ cmd.step = "stage" /\ mine(cmd) /\ history' = history /\ cmd.paths \in SUBSET WritePaths
    BY <1>11 DEF Stage, Step, Rest, mine, CommandTypes
  <2>1. /\ repo'.head = repo.head /\ repo'.refs = repo.refs
        /\ \A p \in WritePaths : p \notin cmd.paths => repo'.index[p] = repo.index[p]
    BY <1>11, <2>0, StageTyped DEF Stage
  <2>2. G!HeadTree(history, repo)' = G!HeadTree(history, repo)
    BY <2>0, <2>1 DEF G!HeadTree, G!Tip
  <2>3. cmd' # Idle /\ cmd'.step = "commit" /\ OwnPaths' = OwnPaths
    BY <1>11, <2>0, NextStep DEF Stage, Then, OwnPaths
  <2>4. Staged' \subseteq OwnPaths
    BY <2>0, <2>1, <2>2, <1>h DEF Staged, G!Changed, OwnPaths
  <2> QED BY <2>0, <2>1, <2>3, <2>4, <1>d DEF mine
<1>12. CASE CommitIndex
  <2>0. cmd # Idle /\ cmd.step = "commit" /\ mine(cmd) /\ OwnPaths \in SUBSET WritePaths
    BY <1>12 DEF CommitIndex, Step, CommandTypes, OwnPaths, mine
  <2>1. /\ history' = Append(history, G!NewCommit(history, repo, OwnPaths))
        /\ repo' = G!Advanced(history, repo)
    BY <1>12 DEF CommitIndex, OwnPaths
  <2>2. /\ Len(history') = Len(history) + 1
        /\ \A c \in 1 .. Len(history) : history'[c] = history[c]
        /\ history'[Len(history) + 1] = G!NewCommit(history, repo, OwnPaths)
        /\ repo'.index = repo.index /\ G!HeadTree(history, repo)' = repo.index
        /\ \A c \in 0 .. Len(history) : G!Tree(history', c) = G!Tree(history, c)
    BY <2>0, <2>1, CommitTyped
  <2>3. Clean'
    BY <2>2 DEF Clean
  <2>4. Len(history) \in Nat /\ \A c \in 1 .. Len(history) : history[c].parent \in 0 .. Len(history)
    <3>1. Len(history) \in Nat /\ \A c \in 1 .. Len(history) : history[c] \in Commits
      BY ElementOfSeq DEF StoreTypes
    <3>2. \A c \in 1 .. Len(history) : history[c].parent \in Nat
      BY <3>1 DEF Commits
    <3> QED BY <3>1, <3>2 DEF StoreTypes
  <2>5. ASSUME NEW c \in 1 .. Len(history')
        PROVE  G!Changed(history'[c].tree, G!Tree(history', history'[c].parent)) \subseteq history'[c].own
    <3>1. CASE c \in 1 .. Len(history)
      BY <2>2, <2>4, <3>1, <1>g, <1>h DEF CommitsAreExactWithoutFailures
    <3>2. CASE c = Len(history) + 1
      <4>1. /\ history'[c].tree = repo.index /\ history'[c].parent = G!Tip(repo)
            /\ history'[c].own = OwnPaths
        BY <2>2, <3>2 DEF G!NewCommit
      <4>2. G!Tree(history', G!Tip(repo)) = G!HeadTree(history, repo)
        BY <2>2, TipIsCommit DEF G!HeadTree
      <4> QED BY <2>0, <4>1, <4>2, <1>h DEF Staged
    <3> QED BY <2>2, <2>4, <3>1, <3>2
  <2>6. CommitsAreExactWithoutFailures'
    BY <2>5 DEF CommitsAreExactWithoutFailures
  <2>7. Staged' = {}
    BY <2>3 DEF Clean, Staged, G!Changed
  <2> QED BY <2>6, <2>7 DEF IndexIsClean
<1>14. CASE RestoreRef
  <2>0. history' = history /\ ~mine(cmd) /\ cmd.back \in Branches
    BY <1>14 DEF RestoreRef, Rest, Step, mine, CommandTypes
  <2>1. CASE repo' = repo
    BY <2>0, <2>1, <1>c
  <2>2. CASE G!CanCheckout(history, repo, cmd.back) /\ repo' = G!CheckedOut(history, repo, cmd.back)
    BY <2>0, <2>2, <1>a, <1>h, CleanAfterCheckout DEF Clean, StoreTypes
  <2> QED BY <1>14, <2>1, <2>2 DEF RestoreRef
<1> QED BY <1>0, <1>1, <1>2, <1>3, <1>4, <1>5, <1>6, <1>7, <1>8, <1>9, <1>10, <1>11, <1>12,
           <1>14, <1>f DEF WritesNext

-----------------------------------------------------------------------------
(* The specification keeps all of it.                                      *)

LEMMA StoreStart == WritesInit => StoreInv
<1> SUFFICES ASSUME WritesInit PROVE StoreInv
  OBVIOUS
<1>1. G!Nothing \in Trees /\ "main" \in Branches /\ "device" \in Branches
  BY NothingIsTree DEF Branches
<1>2. /\ repo.work = G!Nothing /\ repo.index = G!Nothing /\ repo.head = "main"
      /\ cmd = Idle /\ known = {} /\ fails = 0
  BY DEF WritesInit, EmptyRepo
<1>3. CASE history = <<>> /\ repo = EmptyRepo
  <2>1. repo.refs = [b \in Branches |-> 0]
    BY <1>3 DEF EmptyRepo
  <2>2. G!HeadTree(history, repo) = G!Nothing
    BY <1>1, <1>2, <2>1 DEF G!HeadTree, G!Tip, G!Tree
  <2>3. history \in Seq(Commits) /\ Len(history) = 0
    BY <1>3
  <2>4. StoreTypes
    BY <1>1, <1>2, <1>3, <2>3 DEF StoreTypes, Repos, EmptyRepo
  <2> QED BY <1>2, <2>1, <2>2, <2>3, <2>4
       DEF StoreInv, Born, CommandTypes, OnDevice, FilesHeld, RememberHolds, PromoteHolds, ForgetHolds,
           NothingUnstaged, KnownAreSafe, IndexIsClean, CommitsAreExactWithoutFailures, Staged, G!Changed
<1>4. CASE /\ repo = [EmptyRepo EXCEPT !.refs["main"] = 1]
           /\ history = << [tree |-> G!Nothing, anc |-> {1}, parent |-> 0, own |-> {}] >>
  <2> DEFINE first == [tree |-> G!Nothing, anc |-> {1}, parent |-> 0, own |-> {}]
  <2>1. repo.refs = [[b \in Branches |-> 0] EXCEPT !["main"] = 1]
    BY <1>4 DEF EmptyRepo
  <2>2. first \in Commits
    BY <1>1 DEF Commits
  <2>3. history \in Seq(Commits) /\ Len(history) = 1 /\ history[1] = first
    BY <1>4, <2>2
  <2>4. G!HeadTree(history, repo) = G!Nothing /\ G!Tree(history, 0) = G!Nothing
    BY <1>1, <1>2, <2>1, <2>3 DEF G!HeadTree, G!Tip, G!Tree
  <2>5. repo.refs["main"] = 1
    BY <1>1, <2>1
  <2>6. [[b \in Branches |-> 0] EXCEPT !["main"] = 1] \in [Branches -> 0 .. 1]
    <3>1. [b \in Branches |-> 0] \in [Branches -> 0 .. 1] /\ 1 \in 0 .. 1
      OBVIOUS
    <3> HIDE DEF first
    <3> QED BY <3>1
  <2>7. repo \in Repos
    BY <1>1, <1>4, <2>3, <2>6 DEF Repos, EmptyRepo
  <2>8. StoreTypes
    BY <1>2, <2>3, <2>7 DEF StoreTypes
  <2>9. CommitsAreExactWithoutFailures
    BY <2>3, <2>4 DEF CommitsAreExactWithoutFailures, G!Changed
  <2> QED BY <1>2, <2>4, <2>5, <2>8, <2>9
       DEF StoreInv, Born, CommandTypes, OnDevice, FilesHeld, RememberHolds, PromoteHolds, ForgetHolds,
           NothingUnstaged, KnownAreSafe, IndexIsClean, Staged, G!Changed
<1> QED BY <1>3, <1>4 DEF WritesInit

LEMMA StoreStep == StoreInv /\ [WritesNext]_writesVars => StoreInv'
  BY TypesStep, CommandStep, HeadStep, FilesStep, SafeStep, ExactStep DEF StoreInv

LEMMA StoreInvariant == WritesSpec => []StoreInv
  BY StoreStart, StoreStep, PTL DEF WritesSpec

\* The types of a store: trees hold an item under its own name only, branches
\* are at commits that exist, a commit's parent is in the history.
THEOREM StoreIsTyped == WritesSpec => []StoreTypes
  BY StoreInvariant, PTL DEF StoreInv

\* What a finished `wkp remember` or an import left is in the work tree or at
\* the tip of a branch until `wkp forget` takes it, whichever step of
\* whichever command failed or was the last.
THEOREM WritesLoseNothing == WritesSpec => []NothingLost
<1>1. StoreInv => NothingLost
  <2> SUFFICES ASSUME StoreInv, NEW i \in known
               PROVE  \E p \in WritePaths : \/ repo.work[p] = i
                                            \/ \E b \in Branches : G!Tree(history, repo.refs[b])[p] = i
    BY DEF NothingLost
  <2>1. Safe(i)
    BY DEF StoreInv, KnownAreSafe
  <2>2. repo.head \in Branches /\ G!HeadTree(history, repo) = G!Tree(history, repo.refs[repo.head])
    BY DEF StoreInv, StoreTypes, Repos, G!HeadTree, G!Tip
  <2> QED BY <2>1, <2>2 DEF Safe
<1> QED BY <1>1, StoreInvariant, PTL

\* As long as no command has failed, a commit changes the paths of its command
\* and nothing else that was sitting in the index.
THEOREM WritesCommitExactly == WritesSpec => []CommitsAreExactWithoutFailures
<1>1. StoreInv => CommitsAreExactWithoutFailures
  <2> SUFFICES ASSUME StoreInv, fails = 0 PROVE CommitsAreExactWithoutFailures
    BY DEF CommitsAreExactWithoutFailures
  <2> QED BY DEF StoreInv, IndexIsClean
<1> QED BY <1>1, StoreInvariant, PTL

\* No step of `wkp remember` or of the auto-commit of wkpd moves main.
THEOREM WritesOfAgentsStayOffMain == WritesSpec => AgentsStayOffMain
<1>1. StoreInv /\ [WritesNext]_writesVars => MainStays
  BY HeadStep DEF StoreInv
<1>2. MainStays => [cmd # Idle /\ cmd.op \in {"remember", "wkpd"}
                     => repo'.refs["main"] = repo.refs["main"]]_writesVars
  BY DEF MainStays
<1> QED BY <1>1, <1>2, StoreInvariant, PTL DEF WritesSpec, AgentsStayOffMain
=============================================================================
