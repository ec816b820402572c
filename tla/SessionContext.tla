-------------------------- MODULE SessionContext --------------------------
(* Which items a harness is shown when its session starts: the signature on   *)
(* the commit that last touched an item, read when the item is indexed        *)
(* (allowed_signers.rs, index_cmd.rs), the tier computed from it              *)
(* (index/tier.rs), the file `wkp materialize` writes from the tiers, and the *)
(* hooks that run these commands or only show what an earlier run left.       *)
EXTENDS Naturals, FiniteSets

CONSTANTS
  ContextItems,       \* paths; each has a directory and a type in Where
  Where,              \* [ContextItems -> [dir, type]]
  Humans, NonHumans,  \* principals with the human: prefix, and the others
  LastDay,            \* bound: days
  MaxContextChanges,  \* bound: edits, and changes of allowed_signers
  Never

VARIABLES
  written,   \* the work tree: [body, expires] or Unwritten
  commit,    \* the last commit that touched the path: [body, expires, signer]
  signers,   \* allowed_signers, as git reads it: the principals it names
  tierRow,   \* index.db: [body, tier] or Unindexed
  tierFile,  \* .wkp/tier0.md: the items and bodies in it, with its routing table
  draft,     \* a `wkp materialize` between its two statements
  shown,     \* what the last session start showed
  today, contextChanges,
  reviewed   \* items that were, at some time, last committed by a human known then

contextVars ==
  <<written, commit, signers, tierRow, tierFile, draft, shown, today, contextChanges, reviewed>>

Principals == Humans \union NonHumans
Unwritten == [body |-> 0, expires |-> Never]
Unsigned  == "unsigned"
Nobody    == "none"
ASSUME PrincipalsAreNamed == Principals \cap {Unsigned, Nobody} = {}
Unindexed == [body |-> 0, tier |-> 3]

-----------------------------------------------------------------------------

(* last_signer_for_path: `git log -1` of the path, %G? good only if           *)
(* allowed_signers knows the key; whether the principal is a human is its     *)
(* prefix.                                                                    *)
HumanSigned(p) == commit[p].signer \in signers \intersect Humans

IsExpired(expires) == expires # Never /\ expires < today

\* fault: a good signature of anyone will do
ComputeTier_AnySigner(p, expires, humanSigned) ==
  IF Where[p].dir = "inbox" \/ commit[p].signer = Unsigned THEN 2
  ELSE IF Where[p].type \in {"instruction", "project-state"} THEN 0 ELSE 1

(* compute_tier: what is not signed by a human, is in the inbox, has expired  *)
(* or is an instruction outside user/ and projects/ stays in tier 2.          *)
ComputeTier(p, expires, humanSigned) ==
  IF Where[p].dir = "inbox" \/ ~humanSigned \/ IsExpired(expires) THEN 2
  ELSE CASE Where[p].type = "instruction"   -> IF Where[p].dir \in {"user", "projects"} THEN 0 ELSE 2
         [] Where[p].type = "project-state" -> 0
         [] Where[p].type \in {"feedback", "knowledge"} -> 1
         [] OTHER -> 2

-----------------------------------------------------------------------------

Changes == contextChanges < MaxContextChanges /\ contextChanges' = contextChanges + 1

(* Somebody, or some program, writes the file.                                *)
WriteItem(p) ==
  /\ Changes
  /\ \E expires \in {Never, today} :
       written' = [written EXCEPT ![p] = [body |-> contextChanges', expires |-> expires]]
  /\ UNCHANGED <<commit, signers, tierRow, tierFile, draft, shown, today, reviewed>>

CommitItem(p, who) ==
  /\ written[p].body > commit[p].body
  /\ commit' = [commit EXCEPT ![p] =
       [body |-> written[p].body, expires |-> written[p].expires, signer |-> who]]
  /\ reviewed' = IF who \in signers \intersect Humans THEN reviewed \union {p} ELSE reviewed
  /\ UNCHANGED <<written, signers, tierRow, tierFile, draft, shown, today, contextChanges>>

(* A signer is appended to allowed_signers, or taken out by hand.             *)
TrustSigner(who) ==
  /\ Changes
  /\ signers' = IF who \in signers THEN signers \ {who} ELSE signers \union {who}
  /\ reviewed' = reviewed \union {p \in ContextItems : commit[p].signer \in signers' \intersect Humans}
  /\ UNCHANGED <<written, commit, tierRow, tierFile, draft, shown, today>>

(* `wkp index`: what git calls untracked or modified, and every tracked item  *)
(* the index does not know, is read again; a clean item it knows is not.      *)
Indexed(p) == [body |-> written[p].body,
               tier |-> ComputeTier(p, written[p].expires, HumanSigned(p))]

Reindexed == [p \in ContextItems |->
  IF /\ written[p] # Unwritten
     /\ \/ tierRow[p] = Unindexed
        \/ commit[p].signer # Nobody /\ written[p].body # commit[p].body
  THEN Indexed(p) ELSE tierRow[p]]

IndexStore ==
  /\ tierRow' = Reindexed
  /\ tierRow' # tierRow
  /\ UNCHANGED <<written, commit, signers, tierFile, draft, shown, today, contextChanges, reviewed>>

(* `wkp materialize --tier 0 --routing-table`: the rows of tier 0, and with a *)
(* second statement the titles of tier 1.                                     *)
Body(tier) == {<<p, tierRow[p].body>> : p \in {q \in ContextItems : tierRow[q].tier = tier}}

Materialize ==
  /\ draft = {}
  /\ draft' = {Body(0)}
  /\ UNCHANGED <<written, commit, signers, tierRow, tierFile, shown, today, contextChanges, reviewed>>

RenameTierFile ==
  /\ draft # {}
  /\ \E content \in draft :
       tierFile' = [content |-> content, routes |-> {r[1] : r \in Body(1)}]
  /\ draft' = {}
  /\ UNCHANGED <<written, commit, signers, tierRow, shown, today, contextChanges, reviewed>>

(* The SessionStart hook: `wkp index`, whose failure it hides, and then the   *)
(* tier file as it lies there.                                                *)
SessionStart ==
  /\ tierRow' \in {tierRow, Reindexed}
  /\ shown' = {r[1] : r \in tierFile.content} \union tierFile.routes
  /\ UNCHANGED <<written, commit, signers, tierFile, draft, today, contextChanges, reviewed>>

Midnight ==
  /\ today < LastDay
  /\ today' = today + 1
  /\ UNCHANGED <<written, commit, signers, tierRow, tierFile, draft, shown, contextChanges, reviewed>>

ContextInit ==
  /\ written = [p \in ContextItems |-> Unwritten]
  /\ commit = [p \in ContextItems |-> [body |-> 0, expires |-> Never, signer |-> Nobody]]
  /\ signers \in SUBSET Principals
  /\ tierRow = [p \in ContextItems |-> Unindexed]
  /\ tierFile = [content |-> {}, routes |-> {}]
  /\ draft = {} /\ shown = {} /\ today = 0 /\ contextChanges = 0 /\ reviewed = {}

ContextNext ==
  \/ \E p \in ContextItems : WriteItem(p) \/ \E who \in Principals \union {Unsigned} : CommitItem(p, who)
  \/ \E who \in Principals : TrustSigner(who)
  \/ IndexStore \/ Materialize \/ RenameTierFile \/ SessionStart \/ Midnight

ContextSpec == ContextInit /\ [][ContextNext]_contextVars

-----------------------------------------------------------------------------

(* "The same `inbox/` exclusion ... guarantees a tier-1 item was promoted via *)
(* a human-signed commit" (search.rs:381-388): however commits, edits,        *)
(* changes of allowed_signers, index runs and materialisations interleave, a  *)
(* session is never shown, or routed to, an item no human ever signed off,    *)
(* nor one that lies in the inbox.                                            *)
ShownWasReviewed ==
  \A p \in shown : p \in reviewed /\ Where[p].dir # "inbox"

=============================================================================
