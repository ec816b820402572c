----------------------------- MODULE StoreWrites -----------------------------
(***************************************************************************)
(* The commands that write a store, on one device: `wkp remember`, `wkp    *)
(* promote`, `wkp forget`, the import of `wkp init` and the auto-commit of *)
(* wkpd.  A command is a sequence of steps on the files and on git, each   *)
(* of which may be the last: the process dies, or the step fails and the   *)
(* command returns its error.  Commands run one after the other; what      *)
(* they find is what the failures before them left.                        *)
(***************************************************************************)
EXTENDS Naturals, Sequences, FiniteSets

CONSTANTS Items,       \* the memory items the store may hold
          Secrets,     \* items whose body matches a credential pattern
          Scope,       \* the scope: field of each item
          Projects,    \* directories under projects/
          AutoList,    \* agents in the [promote] auto list
          Agents,      \* principals that are not human
          MaxCommits,  \* bound: commits in the history
          MaxFails,    \* bound: failed steps and crashes
          MaxRuns      \* bound: commands started

Absent == "absent"
ASSUME AbsentIsNoItem == Absent \notin Items

Idle == [op |-> "none"]

Inbox(i) == <<"inbox", i>>
WritePaths == {<<d, i>> : d \in {"inbox", "user", "projects"}, i \in Items}

G == INSTANCE Git WITH Paths <- WritePaths

Branches == {"main", "device"}

VARIABLES repo,       \* work tree, index, HEAD and branches
          history,    \* every commit
          cmd,        \* the command under way, or Idle
          known,      \* items a finished command left in the store
          fails,      \* failures so far
          runs        \* commands so far

writesVars == <<repo, history, cmd, known, fails, runs>>

(* A store right after `wkp init`: no commit, or a first one of the user   *)
(* on main.                                                                *)
EmptyRepo == [work |-> G!Nothing, index |-> G!Nothing, head |-> "main",
              refs |-> [b \in Branches |-> 0]]

WritesInit ==
  /\ \/ repo = EmptyRepo /\ history = <<>>
     \/ /\ repo = [EmptyRepo EXCEPT !.refs["main"] = 1]
        /\ history = << [tree |-> G!Nothing, anc |-> {1}, parent |-> 0, own |-> {}] >>
  /\ cmd = Idle /\ known = {} /\ fails = 0 /\ runs = 0

-----------------------------------------------------------------------------
Begin(c) == /\ cmd = Idle /\ runs < MaxRuns /\ Len(history) < MaxCommits
            /\ cmd' = c /\ runs' = runs + 1
            /\ UNCHANGED <<history, known, fails>>

Write(p, text) == repo' = [repo EXCEPT !.work[p] = text]

(* run_remember_with_body refuses a secret, then writes a path of its own. *)
Remember(i) ==
  /\ i \notin Secrets
  /\ \A p \in WritePaths : i \notin {repo.work[p], repo.index[p]}
  /\ \A c \in 1 .. Len(history), p \in WritePaths : history[c].tree[p] # i
  /\ Write(Inbox(i), i)
  /\ Begin([op |-> "remember", item |-> i, paths |-> {Inbox(i)}, step |-> "branch"])

(* run_import leaves a file alone that is already there.                   *)
Import(i) ==
  /\ cmd = Idle /\ runs < MaxRuns
  /\ \A p \in WritePaths : repo.work[p] # i
  /\ repo.work[Inbox(i)] = Absent
  /\ Write(Inbox(i), i)
  /\ known' = known \cup {i} /\ runs' = runs + 1
  /\ UNCHANGED <<history, cmd, fails>>

(* infer_promote_destination, or a refusal.                                *)
Destination(i) ==
  CASE Scope[i] = "user" -> {<<"user", i>>}
    [] Scope[i] = "project" /\ Cardinality(Projects) = 1 -> {<<"projects", i>>}
    [] OTHER -> {}

MayPromote(who) == who \notin Agents \/ who \in AutoList

Promote(i, who) ==
  /\ MayPromote(who)
  /\ repo.work[Inbox(i)] # Absent
  /\ \E dest \in Destination(i) :
       /\ repo.work[dest] = Absent
       /\ Write(dest, repo.work[Inbox(i)])
       /\ Begin([op |-> "promote", item |-> i, paths |-> {dest}, step |-> "unlink",
                 gone |-> Inbox(i), next |-> "stage"])

(* run_forget_item: a tracked file, removed before git hears of it.        *)
Forget(p) ==
  /\ repo.index[p] # Absent /\ repo.work[p] # Absent
  /\ cmd = Idle /\ runs < MaxRuns /\ Len(history) < MaxCommits
  /\ Write(p, Absent)
  /\ cmd' = [op |-> "forget", item |-> repo.work[p], paths |-> {p}, step |-> "unindex",
             gone |-> p, next |-> "commit"]
  /\ known' = known \ {repo.work[p]} /\ runs' = runs + 1
  /\ UNCHANGED <<history, fails>>

(* run_cycle of wkpd: every added or modified path, onto the device branch.*)
AutoCommit ==
  LET ps == G!AddedOrModified(history, repo)
  IN  /\ ps # {}
      /\ UNCHANGED repo
      /\ Begin([op |-> "wkpd", paths |-> ps, step |-> "branch"])

(* The user changes branches; main is made from HEAD if it is not there.   *)
Switch(b) ==
  /\ cmd = Idle /\ runs < MaxRuns /\ b # repo.head /\ G!Tip(repo) # 0
  /\ LET r == IF repo.refs[b] = 0 THEN [repo EXCEPT !.refs[b] = G!Tip(repo)] ELSE repo
     IN  G!CanCheckout(history, r, b) /\ repo' = G!CheckedOut(history, r, b)
  /\ runs' = runs + 1
  /\ UNCHANGED <<history, cmd, known, fails>>

-----------------------------------------------------------------------------
Step(s) == cmd # Idle /\ cmd.step = s
Then(s) == cmd' = [cmd EXCEPT !.step = s]
Rest == UNCHANGED <<history, known, fails, runs>>

(* ensure_device_branch: made from HEAD, never moved once it is there.     *)
EnsureDeviceBranch(r) ==
  IF r.refs["device"] = 0 THEN [r EXCEPT !.refs["device"] = G!Tip(r)] ELSE r

WithBack(c, ref) == [f \in DOMAIN c \cup {"back"} |-> IF f = "back" THEN ref ELSE c[f]]

(* commit_to_device_branch: HEAD is pointed at the device branch for the   *)
(* first commit of a store; otherwise the branch is checked out around it. *)
FindBranch ==
  /\ Step("branch") /\ Rest
  /\ IF G!Tip(repo) = 0
     THEN /\ repo' = [repo EXCEPT !.head = "device"]
          /\ cmd' = [cmd EXCEPT !.step = "stage"]
     ELSE /\ repo' = EnsureDeviceBranch(repo)
          /\ cmd' = WithBack([cmd EXCEPT !.step = "checkout"], repo.head)

\* fault: a refused checkout is not noticed
CheckoutDevice_Unchecked ==
  /\ Step("checkout") /\ Rest /\ Then("stage")
  /\ repo' = IF G!CanCheckout(history, repo, "device")
             THEN G!CheckedOut(history, repo, "device") ELSE repo

(* A checkout git refuses ends the command.                                *)
CheckoutDevice ==
  /\ Step("checkout") /\ Rest
  /\ IF G!CanCheckout(history, repo, "device")
     THEN repo' = G!CheckedOut(history, repo, "device") /\ Then("stage")
     ELSE repo' = repo /\ cmd' = Idle

Unlink ==
  /\ Step("unlink") /\ Rest
  /\ Write(cmd.gone, Absent) /\ Then("unindex")

Unindex ==
  /\ Step("unindex") /\ Rest
  /\ repo' = G!RemovedFromIndex(repo, cmd.gone) /\ Then(cmd.next)

\* fault: everything that has changed is staged, like git commit -a
Stage_Everything ==
  /\ Step("stage") /\ Rest
  /\ repo' = G!StagedPaths(repo, G!AddedOrModified(history, repo)) /\ Then("commit")
Stage ==
  /\ Step("stage") /\ Rest
  /\ repo' = G!StagedPaths(repo, cmd.paths) /\ Then("commit")

(* commit_current_index: the whole index becomes the commit.               *)
CommitIndex ==
  /\ Step("commit")
  /\ history' = Append(history, G!NewCommit(history, repo, cmd.paths \cup
                         (IF "gone" \in DOMAIN cmd THEN {cmd.gone} ELSE {})))
  /\ repo' = G!Advanced(history, repo)
  /\ known' = IF cmd.op = "remember" THEN known \cup {cmd.item} ELSE known
  /\ cmd' = IF "back" \in DOMAIN cmd THEN [cmd EXCEPT !.step = "restore"] ELSE Idle
  /\ UNCHANGED <<fails, runs>>

(* The key is missing or refused: nothing is committed, what was staged    *)
(* stays staged, and the branch is restored all the same.                  *)
SigningFails ==
  /\ Step("commit") /\ fails < MaxFails
  /\ cmd' = IF "back" \in DOMAIN cmd THEN [cmd EXCEPT !.step = "restore"] ELSE Idle
  /\ fails' = fails + 1
  /\ UNCHANGED <<repo, history, known, runs>>

\* fault: the checkout back overwrites what it meets
RestoreRef_Force ==
  LET t == G!Tree(history, repo.refs[cmd.back])
  IN  /\ Step("restore") /\ Rest
      /\ repo' = [repo EXCEPT !.head = cmd.back, !.index = t,
            !.work = [p \in WritePaths |-> IF repo.index[p] # Absent THEN t[p] ELSE @[p]]]
      /\ cmd' = Idle
RestoreRef ==
  /\ Step("restore") /\ Rest
  /\ repo' = IF G!CanCheckout(history, repo, cmd.back)
             THEN G!CheckedOut(history, repo, cmd.back) ELSE repo
  /\ cmd' = Idle

(* The process dies, or an I/O error ends the command.                     *)
Dies ==
  /\ cmd # Idle /\ fails < MaxFails
  /\ cmd' = Idle /\ fails' = fails + 1
  /\ UNCHANGED <<repo, history, known, runs>>

WritesNext ==
  \/ \E i \in Items : Remember(i) \/ Import(i)
  \/ \E i \in Items, who \in Agents \cup {"human"} : Promote(i, who)
  \/ \E p \in WritePaths : Forget(p)
  \/ AutoCommit
  \/ \E b \in Branches : Switch(b)
  \/ FindBranch \/ CheckoutDevice \/ Unlink \/ Unindex \/ Stage
  \/ CommitIndex \/ SigningFails \/ RestoreRef \/ Dies

WritesSpec == WritesInit /\ [][WritesNext]_writesVars

-----------------------------------------------------------------------------
(* No item is lost: what a finished remember or an import left is in the   *)
(* work tree or at the tip of a branch until `wkp forget` takes it,        *)
(* whatever step of whatever command was the last (promote writes the      *)
(* destination before it removes the source; the device branch keeps what  *)
(* a checkout takes out of the work tree).                                 *)
NothingLost ==
  \A i \in known : \E p \in WritePaths :
     \/ repo.work[p] = i
     \/ \E b \in Branches : G!Tree(history, repo.refs[b])[p] = i

(* What an agent writes lands on the device branch, never on the user's:   *)
(* main moves only under a promote or a forget, or by the user's hand.     *)
AgentsStayOffMain ==
  [][cmd # Idle /\ cmd.op \in {"remember", "wkpd"}
       => repo'.refs["main"] = repo.refs["main"]]_writesVars

(* What signed_commit.rs says of its commits, that they contain exactly    *)
(* the paths of the command and "nothing else already sitting in the       *)
(* index", as long as every command gets to its end: the whole index is    *)
(* committed, and what a failed command has staged stays in it.            *)
CommitsAreExactWithoutFailures ==
  fails = 0 =>
    \A c \in 1 .. Len(history) :
       G!Changed(history[c].tree, G!Tree(history, history[c].parent)) \subseteq history[c].own

=============================================================================
