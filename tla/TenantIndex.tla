---------------------------- MODULE TenantIndex ----------------------------
(* Inside one tenant's pod (tenant_repo.rs, http.rs, main.rs): the serving    *)
(* container answers one git request after the other from the bare            *)
(* repository, and the indexing container, which shares nothing with it but   *)
(* the disk, polls HEAD and rebuilds index.db. A rebuild names HEAD again for *)
(* the listing and for every blob it reads, so pushes land in between; an     *)
(* operator's `wkp-hub index-tenant` does the same from outside.              *)
EXTENDS Naturals, FiniteSets

CONSTANTS
  Tenant, Slugs,      \* the tenant this pod serves, and the slugs requests name
  Documents,          \* paths of markdown items
  MaxPushes,          \* bound: pushes
  MaxTroubles         \* bound: failed reads and listings, restarts, operator's runs

VARIABLES
  head, tree,         \* the bare repository: number of pushes, what HEAD holds
  answered,           \* status of the last request
  run,                \* a rebuild of the worker and of the operator
  lastIndexed,        \* the worker's last_indexed_head
  published,          \* index.db
  unlisted,           \* some listing failed and was taken for an empty one
  troubles

tenantIndexVars == <<head, tree, answered, run, lastIndexed, published, unlisted, troubles>>

Rebuilders == {"worker", "operator"}
Stored == {"none", "shared", "private", "cipher"}
NotRunning == [at |-> "idle", seen |-> 0, todo |-> {}, found |-> {}]

Trouble == troubles < MaxTroubles /\ troubles' = troubles + 1

-----------------------------------------------------------------------------

(* git http-backend: receive-pack moves HEAD's branch, and a repository it    *)
(* will not serve is a status in its answer, not a failed process.            *)
Received(p, kind) ==
  /\ head < MaxPushes
  /\ head' = head + 1
  /\ tree' = [tree EXCEPT ![p] = [kind |-> kind, version |-> head']]
  /\ answered' = 200

AskGit ==
  \/ \E p \in Documents, kind \in Stored : Received(p, kind)
  \/ answered' \in {200, 404, 500} /\ UNCHANGED <<head, tree>>

(* serve_single_tenant: only GET and POST, and only this tenant's repository. *)
Serve(slug, method) ==
  /\ IF method = "other" THEN answered' = 405 /\ UNCHANGED <<head, tree>>
     ELSE IF slug # Tenant THEN answered' = 404 /\ UNCHANGED <<head, tree>>
     ELSE AskGit
  /\ UNCHANGED <<run, lastIndexed, published, unlisted, troubles>>

(* current_head: none for a repository without a commit.                      *)
HeadNow == IF head = 0 THEN {} ELSE {head}

(* index-worker: HEAD is not what was last indexed.                           *)
Poll ==
  /\ run["worker"] = NotRunning
  /\ \E now \in HeadNow \ {lastIndexed} :
       run' = [run EXCEPT !["worker"] = [NotRunning EXCEPT !.at = "list", !.seen = now]]
  /\ UNCHANGED <<head, tree, answered, lastIndexed, published, unlisted, troubles>>

IndexTenant ==
  /\ Trouble
  /\ run["operator"] = NotRunning
  /\ run' = [run EXCEPT !["operator"].at = "list"]
  /\ UNCHANGED <<head, tree, answered, lastIndexed, published, unlisted>>

(* index_tenant: the paths at HEAD; a listing that fails, for an unborn HEAD  *)
(* or any other reason, is an empty one.                                      *)
Listed == {p \in Documents : tree[p].kind # "none"}

ListFiles(i) ==
  /\ run[i].at = "list"
  /\ \/ /\ run' = [run EXCEPT ![i].at = "read", ![i].todo = Listed]
        /\ UNCHANGED <<unlisted, troubles>>
     \/ /\ Trouble
        /\ run' = [run EXCEPT ![i].at = "read"]
        /\ unlisted' = TRUE
  /\ UNCHANGED <<head, tree, answered, lastIndexed, published>>

Indexable(blob) == blob.kind = "shared"

(* The blob of the next path, at HEAD as it is by now: one that has gone      *)
(* meanwhile ends the rebuild with an error, and what is encrypted or says it *)
(* is private is skipped.                                                     *)
ReadBlob(i) ==
  /\ run[i].at = "read"
  /\ \E p \in run[i].todo :
       run' = IF tree[p].kind = "none" THEN [run EXCEPT ![i] = NotRunning]
              ELSE [run EXCEPT ![i].todo = @ \ {p},
                      ![i].found = IF Indexable(tree[p]) THEN @ \union {<<p, tree[p].version>>} ELSE @]
  /\ UNCHANGED <<head, tree, answered, lastIndexed, published, unlisted, troubles>>

(* A read that fails for another reason, or the indexing container dying.     *)
ReadFails(i) ==
  /\ Trouble
  /\ run[i].at = "read"
  /\ run' = [run EXCEPT ![i] = NotRunning]
  /\ UNCHANGED <<head, tree, answered, lastIndexed, published, unlisted>>

Restart ==
  /\ Trouble
  /\ run' = [run EXCEPT !["worker"] = NotRunning]
  /\ lastIndexed' = 0
  /\ UNCHANGED <<head, tree, answered, published, unlisted>>

\* fault: HEAD is read again when the rebuild is done
NowIndexed_ReadAgain(i) == IF i = "worker" THEN head ELSE lastIndexed

(* What the worker remembers: the HEAD it saw before the rebuild.             *)
NowIndexed(i) == IF i = "worker" THEN run[i].seen ELSE lastIndexed

(* build_index: into a file of its own, renamed over index.db.                *)
BuildIndex(i) ==
  /\ run[i].at = "read"
  /\ run[i].todo = {}
  /\ published' = [content |-> run[i].found, by |-> i]
  /\ lastIndexed' = NowIndexed(i)
  /\ run' = [run EXCEPT ![i] = NotRunning]
  /\ UNCHANGED <<head, tree, answered, unlisted, troubles>>

TenantIndexInit ==
  /\ head = 0
  /\ tree = [p \in Documents |-> [kind |-> "none", version |-> 0]]
  /\ answered = 0
  /\ run = [i \in Rebuilders |-> NotRunning]
  /\ lastIndexed = 0
  /\ published = [content |-> {}, by |-> "nobody"]
  /\ unlisted = FALSE /\ troubles = 0

TenantIndexNext ==
  \/ \E slug \in Slugs, method \in {"GET", "POST", "other"} : Serve(slug, method)
  \/ Poll \/ IndexTenant \/ Restart
  \/ \E i \in Rebuilders : ListFiles(i) \/ ReadBlob(i) \/ ReadFails(i) \/ BuildIndex(i)

(* The worker's loop sleeps half a second and looks again.                    *)
WorkerFairness ==
  WF_tenantIndexVars(Poll \/ ListFiles("worker") \/ ReadBlob("worker") \/ BuildIndex("worker"))

TenantIndexSpec == TenantIndexInit /\ [][TenantIndexNext]_tenantIndexVars /\ WorkerFairness

-----------------------------------------------------------------------------

Current == published.content = {<<p, tree[p].version>> : p \in {q \in Documents : Indexable(tree[q])}}

(* Bounded staleness (tenant_repo.rs:27-29): when the pushes end, index.db    *)
(* comes to hold exactly what HEAD shares, whatever landed while a rebuild    *)
(* was reading, unless an operator's older rebuild was renamed over it or a   *)
(* listing failed: the worker then thinks it is done.                         *)
IndexFollowsHead ==
  <>[](head = 0 \/ Current \/ published.by = "operator" \/ unlisted)

=============================================================================
