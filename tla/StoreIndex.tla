------------------------------ MODULE StoreIndex ------------------------------
(***************************************************************************)
(* `wkp index` and the index step of wkpd: index.db brought up to date     *)
(* with the store from what git calls changed and what the index already   *)
(* has a row for.  Runs overlap with edits, with commits and with each     *)
(* other; only the write of index.db is a transaction.                     *)
(***************************************************************************)
EXTENDS Naturals, FiniteSets

CONSTANTS Md,          \* the *.md paths of a store
          Texts,       \* contents
          Mentions,    \* the path each content names in a [[wikilink]]
          Indexers,    \* processes that run an index; "wkpd" commits first
          MaxChanges   \* bound: edits, deletions and commits

NoFile == "none"
ASSUME TextsAreTexts == Texts # {} /\ NoFile \notin Texts

VARIABLES mdFile,    \* the work tree
          head,      \* what HEAD, and with it git's index, holds
          row,       \* index.db: the text each indexed path was read with
          edges,     \* index.db: who mentions whom
          indexer,   \* where each run stands and what it has read so far
          changes,
          quiet      \* history: the runs nothing has happened beside so far

indexVars == <<mdFile, head, row, edges, indexer, changes, quiet>>

Off == [step |-> "off"]
Present(f) == {p \in Md : f[p] # NoFile}

(* `wkp init` has built an index of no item; the store may have history.   *)
IndexInit ==
  /\ head \in [Md -> {NoFile} \cup {CHOOSE x \in Texts : TRUE}] /\ mdFile = head
  /\ row = << >> /\ edges = {}
  /\ indexer = [k \in Indexers |-> Off]
  /\ changes = 0 /\ quiet = {}

-----------------------------------------------------------------------------
Change == changes < MaxChanges /\ changes' = changes + 1 /\ quiet' = {}

(* The user, or a merge, changes a file.                                   *)
ChangeFile(p) ==
  /\ Change
  /\ \E x \in Texts \cup {NoFile} : mdFile' = [mdFile EXCEPT ![p] = x]
  /\ UNCHANGED <<head, row, edges, indexer>>

(* A commit of all there is, by the user or by a command.                  *)
CommitAll ==
  /\ head # mdFile /\ Change /\ head' = mdFile
  /\ UNCHANGED <<mdFile, row, edges, indexer>>

-----------------------------------------------------------------------------
Is(k, s) == indexer[k].step = s
Moves(k, r) == indexer' = [indexer EXCEPT ![k] = r]
IndexUnchanged == UNCHANGED <<mdFile, row, edges, changes>>

(* The cycle of wkpd commits what was added or modified before it indexes. *)
StartIndex(k) ==
  /\ Is(k, "off") /\ Moves(k, [step |-> "detect"])
  /\ head' = IF k # "wkpd" THEN head
             ELSE [p \in Md |-> IF mdFile[p] # NoFile THEN mdFile[p] ELSE head[p]]
  /\ quiet' = IF \A j \in Indexers : Is(j, "off") THEN {k} ELSE {}
  /\ IndexUnchanged

(* detect_changes: the work tree against HEAD.                             *)
DetectChanges(k) ==
  /\ Is(k, "detect")
  /\ Moves(k, [step |-> "list",
               added |-> Present(mdFile) \ Present(head),
               dirty |-> {p \in Present(mdFile) \cap Present(head) : mdFile[p] # head[p]},
               gone |-> Present(head) \ Present(mdFile)])
  /\ UNCHANGED <<head, quiet>> /\ IndexUnchanged

(* The paths there are: the tracked ones and the added less the deleted.   *)
(* An item is read if the index has no row for it, or if git calls it      *)
(* modified; a row goes if its path is not there.                          *)
Current(k, tracked) == (tracked \cup indexer[k].added) \ indexer[k].gone

Plan_NewOnly(current, known, dirty) ==  \* fault: what changed is not read again
  [step |-> "read", drop |-> known \ current, got |-> << >>, todo |-> current \ known]
Plan(current, known, dirty) ==
  [step |-> "read", drop |-> known \ current, got |-> << >>,
   todo |-> (current \ known) \cup (current \cap dirty)]

ListAndCompare(k) ==
  /\ Is(k, "list")
  /\ Moves(k, Plan(Current(k, Present(head)), DOMAIN row, indexer[k].dirty))
  /\ UNCHANGED <<head, quiet>> /\ IndexUnchanged

(* Items are read one by one; a path that is not there any more ends the   *)
(* run with an error.                                                      *)
ReadItem(k) ==
  /\ Is(k, "read")
  /\ \E p \in indexer[k].todo :
       Moves(k, IF mdFile[p] = NoFile THEN Off
                ELSE [indexer[k] EXCEPT !.todo = @ \ {p},
                        !.got = [q \in DOMAIN @ \cup {p} |-> IF q = p THEN mdFile[p] ELSE @[q]]])
  /\ UNCHANGED <<head, quiet>> /\ IndexUnchanged

(* update_index, in one transaction: rows dropped with the edges they are  *)
(* the source of, rows replaced, and then the edges of the replaced rows,  *)
(* to paths that have a row by now.                                        *)
Updated(drop, got) ==
  LET kept == DOMAIN row \ (drop \cup DOMAIN got)
  IN  [q \in kept \cup DOMAIN got |-> IF q \in DOMAIN got THEN got[q] ELSE row[q]]

EdgesFrom(got, known) == {e \in (DOMAIN got) \X known : Mentions[got[e[1]]] = e[2]}

EdgesAfter_Leftover(drop, got) ==  \* fault: the old edges stay
  edges \cup EdgesFrom(got, DOMAIN Updated(drop, got))
EdgesAfter(drop, got) ==
  {e \in edges : e[1] \notin drop \cup DOMAIN got}
    \cup EdgesFrom(got, DOMAIN Updated(drop, got))

UpdateIndex(k) ==
  /\ Is(k, "read") /\ indexer[k].todo = {}
  /\ row' = Updated(indexer[k].drop, indexer[k].got)
  /\ edges' = EdgesAfter(indexer[k].drop, indexer[k].got)
  /\ Moves(k, Off)
  /\ UNCHANGED <<mdFile, head, changes, quiet>>

(* An embedding endpoint without its key file, a lock held for too long, a *)
(* crash: the transaction is rolled back.                                  *)
IndexFails(k) ==
  /\ ~Is(k, "off") /\ Change /\ Moves(k, Off)
  /\ UNCHANGED <<mdFile, head, row, edges>>

IndexNext ==
  \/ \E p \in Md : ChangeFile(p)
  \/ CommitAll
  \/ \E k \in Indexers :
       \/ StartIndex(k) \/ DetectChanges(k) \/ ListAndCompare(k) \/ ReadItem(k)
       \/ UpdateIndex(k) \/ IndexFails(k)

IndexSpec == IndexInit /\ [][IndexNext]_indexVars

-----------------------------------------------------------------------------
(* A run beside which nothing happened leaves a row for every item and for *)
(* nothing else; and what git calls modified is indexed as it is.  (Not so *)
(* an untracked item that was indexed before: git calls it added.)         *)
IndexCatchesUp ==
  [][\A k \in Indexers :
       (k \in quiet /\ UpdateIndex(k)) =>
          /\ DOMAIN row' = Present(mdFile)
          /\ \A p \in DOMAIN row' : row'[p] = mdFile[p] \/ head[p] \in {mdFile[p], NoFile}]_indexVars

(* The graph has no edges of items that are gone, and none that an item's  *)
(* indexed text does not ask for.                                          *)
EdgesHaveTheirSource ==
  \A e \in edges : e[1] \in DOMAIN row /\ Mentions[row[e[1]]] = e[2]

=============================================================================
