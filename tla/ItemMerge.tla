------------------------------ MODULE ItemMerge ------------------------------
(* The merge driver of items: one item edited on two devices, each of which    *)
(* may merge the other's version into its own, with the last version both had  *)
(* as the base.  A document is its fields, its tags, its date of update and    *)
(* its body: a text, or the two whole documents of a merge that gave up, after *)
(* the blank lines that every merge adds.                                      *)
EXTENDS Naturals, FiniteSetsExt

CONSTANTS Scalars,        \* title, type, scope, workspace, ...
          Unmerged,       \* refs, tokens, provenance: the driver keeps its own
          Values, Tags,
          MaxItemEdits

VARIABLES base, doc, itemEdits

mergeVars == <<base, doc, itemEdits>>

Sides == {"ours", "theirs"}
OtherSide(d) == CHOOSE o \in Sides : o # d

Unset == "unset"
Fields == Scalars \cup Unmerged

\* What the parser makes of a file that does not begin with frontmatter.
NoFrontmatter(text) ==
  [field |-> [f \in Fields |-> Unset], tags |-> {}, updated |-> 0,
   body |-> [text |-> text, blank |-> 0]]

BothKept(o, t) == NoFrontmatter(<<o, t>>)

\* fault: of two changes ours wins, without a conflict
Resolve_Ours(b, o, t) == IF o = b THEN <<t>> ELSE <<o>>

\* One value out of three, or <<>> for a conflict.
Resolve(b, o, t) ==
  IF o = t \/ t = b THEN <<o>> ELSE IF o = b THEN <<t>> ELSE <<>>

Merge(b, o, t) ==
  LET scalar == [f \in Scalars |-> Resolve(b.field[f], o.field[f], t.field[f])]
      body == Resolve(b.body, o.body, t.body)
  IN  IF body = <<>> \/ \E f \in Scalars : scalar[f] = <<>>
      THEN BothKept(o, t)
      ELSE [field |-> [f \in Fields |-> IF f \in Scalars THEN scalar[f][1] ELSE o.field[f]],
            tags |-> o.tags \cup t.tags,
            updated |-> Max({o.updated, t.updated}),
            body |-> [body[1] EXCEPT !.blank = @ + 1]]

(* git calls the driver only when both sides changed the file. *)
ThreeWay(b, o, t) ==
  IF o = b THEN t ELSE IF t \in {b, o} THEN o ELSE Merge(b, o, t)

-----------------------------------------------------------------------------

\* The item is in both stores already, or two devices added it on their own
\* (an empty base).
MergeInit ==
  /\ itemEdits = 0
  /\ base \in {NoFrontmatter(<<"first">>), NoFrontmatter(<<>>)}
  /\ doc = [d \in Sides |-> base]

EditItem(d) ==
  /\ itemEdits < MaxItemEdits
  /\ itemEdits' = itemEdits + 1
  /\ \/ \E f \in Fields, v \in Values : doc' = [doc EXCEPT ![d].field[f] = v]
     \/ \E ts \in SUBSET Tags : doc' = [doc EXCEPT ![d].tags = ts]
     \/ \E v \in Values : doc' = [doc EXCEPT ![d].body.text = <<v>>]
     \/ doc' = [doc EXCEPT ![d].updated = itemEdits + 1]
  /\ UNCHANGED base

MergeItem(d) ==
  /\ base' = doc[OtherSide(d)]
  /\ doc' = [doc EXCEPT ![d] = ThreeWay(base, doc[d], doc[OtherSide(d)])]
  /\ UNCHANGED itemEdits

ItemNext == \E d \in Sides : EditItem(d) \/ MergeItem(d)

ItemSpec == MergeInit /\ [][ItemNext]_mergeVars

-----------------------------------------------------------------------------

Changed(d, fields) ==
  {<<f, d.field[f]>> : f \in {x \in fields : d.field[x] # base.field[x]}}
    \cup {<<"tag", t>> : t \in d.tags \ base.tags}
    \cup IF d.body.text # base.body.text THEN {<<"body", d.body.text>>} ELSE {}

Says(d, fields) ==
  {<<f, d.field[f]>> : f \in fields} \cup {<<"tag", t>> : t \in d.tags}
    \cup {<<"body", d.body.text>>}

KeptIn(m, d, fields) ==
  \/ Changed(d, fields) \subseteq Says(m, fields)
  \/ \E o \in Sides : m = BothKept(doc[o], doc[OtherSide(o)])

MergeKeeps(d, fields) ==
  <<base, doc>>' # <<base, doc>> /\ MergeItem(d) => \A s \in Sides : KeptIn(doc'[d], doc[s], fields)

(* Whatever either device did to a title, a scope, a body or added as a tag    *)
(* since they last agreed is in the result of the merge, or both documents are *)
(* kept whole; over any sequence of edits and merges in either direction, of   *)
(* documents that are themselves the remains of a merge that gave up.          *)
MergesKeepEdits == [][\A d \in Sides : MergeKeeps(d, Scalars)]_mergeVars

(* "Nothing is ever discarded ... one hard invariant" (merge.rs): the same of  *)
(* every field.                                                                *)
NothingDiscarded == [][\A d \in Sides : MergeKeeps(d, Fields)]_mergeVars

=============================================================================
