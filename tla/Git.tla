--------------------------------- MODULE Git ---------------------------------
(***************************************************************************)
(* The part of git the client's store relies on, as pure operators on a    *)
(* repository: its work tree, its index, the branch HEAD names and where   *)
(* the branches point.  wkp runs git as a command, so git itself is        *)
(* external; what is here is what crates/wkp-git asks of it.               *)
(***************************************************************************)
EXTENDS Naturals, Sequences, FiniteSets

CONSTANTS Paths,    \* paths of the store
          Absent    \* the value of a path that is not there

Nothing == [p \in Paths |-> Absent]

(* A history is a sequence of commits, each a tree with the set of the     *)
(* commits it descends from, itself included.  Commit 0 is "no commit".    *)
Tree(h, c) == IF c = 0 THEN Nothing ELSE h[c].tree

Ancestors(h, c) == IF c = 0 THEN {} ELSE h[c].anc

Descends(h, new, old) == old = 0 \/ old \in Ancestors(h, new)

Tip(r) == r.refs[r.head]

HeadTree(h, r) == Tree(h, Tip(r))

(* Paths whose content differs between two trees.                          *)
Changed(a, b) == {p \in Paths : a[p] # b[p]}

(* `git checkout` touches only paths that differ between the two commits,  *)
(* keeps an index entry that already is the target's, and refuses to       *)
(* overwrite anything else that is not as HEAD has it; a file that is just *)
(* missing is no obstacle.                                                 *)
Overwrites(h, r, t) ==
  {p \in Changed(HeadTree(h, r), t) :
     /\ r.index[p] # t[p]
     /\ ~ (r.index[p] = HeadTree(h, r)[p] /\ r.work[p] \in {r.index[p], Absent})}

CanCheckout(h, r, branch) == Overwrites(h, r, Tree(h, r.refs[branch])) = {}

CheckedOut(h, r, branch) ==
  LET t == Tree(h, r.refs[branch])
      moved == {p \in Changed(HeadTree(h, r), t) : r.index[p] # t[p]}
      with(f) == [p \in Paths |-> IF p \in moved THEN t[p] ELSE f[p]]
  IN  [r EXCEPT !.head = branch, !.index = with(r.index), !.work = with(r.work)]

(* hash-object -w and update-index --add --cacheinfo of each path.         *)
StagedPaths(r, ps) ==
  [r EXCEPT !.index = [p \in Paths |-> IF p \in ps THEN r.work[p] ELSE @[p]]]

(* update-index --remove of a path whose file is gone.                     *)
RemovedFromIndex(r, p) == [r EXCEPT !.index[p] = Absent]

(* What `git status` reports as added or modified, untracked files too.    *)
AddedOrModified(h, r) ==
  {p \in Paths : /\ r.work[p] # Absent
                 /\ \/ r.work[p] # r.index[p]
                    \/ r.index[p] # HeadTree(h, r)[p]}

(* write-tree of the whole index, commit-tree on top of HEAD, update-ref.  *)
NewCommit(h, r, own) ==
  [tree |-> r.index, anc |-> Ancestors(h, Tip(r)) \cup {Len(h) + 1},
   parent |-> Tip(r), own |-> own]

Advanced(h, r) == [r EXCEPT !.refs[r.head] = Len(h) + 1]

=============================================================================
