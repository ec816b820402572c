# A verification of WKP

TLA+ models of WKP: what the hub's handshakes, handlers, admin commands and
background threads do to one another's state, what the client's commands, its
daemon and several devices do to a store, and the algorithms in between, step
by step. TLC checks the models on small instances; the safety and action properties are
also proved with TLAPS for every value of their constants. Everything is translated
from the Rust source under `crates/`; `PROJECT.json` maps each definition to
its lines.

To check it: `tlc -config X.cfg Module` for a run (section 3 names both),
`tlapm M.tla` with `M` one of the eight `*Proofs` modules for the proofs.

## 1. The system

WKP keeps an agent's memory as markdown items in a git store. A client (`wkp`,
and the daemon `wkpd`) writes, signs, indexes and synchronises stores; a hub
(`wkp-hub`) hosts bare repositories for several tenants behind one mTLS front
door.

| component | state | operations | how it meets the others | module |
|---|---|---|---|---|
| Connection registry and its subscriber (`connection_registry.rs`) | map serial -> tokens; the subscriber's Postgres session and its place in the loop | register, deregister, close_device, close_all, sweep | accept path and stream drops on tokio threads, the subscriber on its own; fed by NOTIFY | `Revocation` |
| Front door (`front_door.rs`, `http.rs`) | connections, handlers on the blocking pool | handshake, accept, git request, enrolment requests | reads devices and tenants, proxies to pods | `Revocation`, `Enrollment`, `TenantPod` |
| Control plane (`control_plane/*`) | Postgres: tenants, devices, device_grants, reset events, usage | one statement per call, few transactions | used by every hub process; NOTIFY at commit | `Devices` and the modules that use its tables |
| Hub CA and other secrets on disk (`hub_ca.rs`, `signing.rs`) | a key, and a certificate, in files | ensure: exists, generate, create, write, read back | every process that starts | `SecretFiles` |
| Enrolment (`grants.rs`, `http.rs`, `hub_register.rs`) | grants, devices, the certificate in the device's store | device code, verify, token poll | a human's submissions and a device's polls meet in the database only | `Enrollment` |
| Tenant pods (`tenant_pod.rs`) | what podman has, `pod_running`, `always_warm`, `last_active_at` | cold start, start-pod, stop-pod, reap | front door, reaper process and admin commands act on podman and then record it | `TenantPod` |
| Kubernetes backend (`k8s_orchestrator.rs`) | four objects of a tenant, the kubeconfig file | apply, delete, wait | the same callers | `K8sPods` |
| Tenant repository and index worker (`tenant_repo.rs`, `git_http`) | bare repository, `index.db`, last indexed head | push and fetch, poll, rebuild, index-tenant | shared file system | `TenantIndex` |
| Store writes (`signed_commit.rs`, `sync.rs`, `remember.rs`, `promote.rs`, `forget.rs`) | working tree, git index, device branch | write, stage, commit-tree, update-ref, checkout and back | commands and the daemon share one store, without a lock | `Git`, `StoreWrites` |
| Synchronisation (`sync_cmd.rs`, `bundle.rs`, `conflicts.rs`, `resolve_conflicts.rs`) | device branches, remote refs, an open merge | fetch, merge each, ask, push, bundle | other devices, through the hub's repository | `Git`, `StoreSync` |
| Merge driver (`merge.rs`) | none | three-way merge of an item | called by git inside a merge | `ItemMerge` |
| Incremental index (`index_cmd.rs`, `index/store.rs`) | `index.db` | detect, list and compare, read, update | git's view of what changed; one transaction at the end | `StoreIndex` |
| Search, context, traverse, hybrid (`index/search.rs`, `index/hybrid.rs`, `embed.rs`) | none of their own | questions of several statements | `index.db`, which an index run changes meanwhile | `Retrieval` |
| Trust tiers, materialised files, session hooks (`tier.rs`, `allowed_signers.rs`, `materialize.rs`, `hooks.rs`) | tier files | tier of an item, write and show tier 0 and 1 | what the last index run found | `SessionContext`, `Calendar` |
| Item format (`frontmatter.rs`) | none | parse, render | every merge rewrites the block | `Frontmatter` |
| Daemon (`wkpd.rs`) | pending events | commit, index, sync per burst | the three above, concurrently with commands | steps of `StoreWrites`, `StoreIndex`, `StoreSync` |
| Identities and encryption (`device_identity.rs`, `recipients`, `forget.rs`) | keystore, fallback file, recipients file, ciphertexts | ensure a device, register, encrypt, revoke | git's filters, the shared history | `PrivateItems` |
| Usage logs (`usage/store.rs`, `control_plane/usage.rs`) | rings of slots per metric and tier | record, fold, query, change the geometry | every command; best effort | `UsageRing`, `UsageMetrics` |
| The `wkp` command (`wkp-cli/main.rs`) | none | checks, confinement, dispatch, exit code, samples | runs everything above | `Invocation` |

What is hard about it:

* **Reads that go stale.** Nearly every decision reads a row (or git, or
  podman) and acts on it in a later step with nothing held: the handshake and
  the registration, `/verify` and the certificate, `pod_running` and the start,
  the sweep's snapshot, HEAD and its blobs.
* **Lossy delivery.** NOTIFY reaches only a session that listens at commit.
* **Partial failure.** Two statements, or a command and its record, where the
  second may not happen.
* **Work that outlives its cause.** Handlers run on a blocking pool and outlive
  their connection.

What makes each part correct, in a sentence: the registry holds exactly the
live connections, closing is complete and for cause, and a revoked device is
not served; a key gets a certificate only through its own consented grant, and
a job half done gets finished; the row of a pod says what is there; an index
always catches up with the store, and a pod's with its HEAD; devices that sync
converge and lose nothing; a commit holds exactly what its command wrote, and
no item is lost between two steps of a command; a secret is one and stays; a
revoked device reads nothing new; what a session starts with was reviewed; an
answer keeps to its tier, limit and budget; a sample is counted once.

`PROJECT.json` lists the hazards at their lines, all but three with the
properties that would catch them; those three carry a note. Section 6 has those
of less weight.

## 2. The modules

| module | models |
|---|---|
| `Devices` | the `devices` table, the CA's certificates, the admission lookup; shared by the next two |
| `Sessions` | abstract: what force-closing promises |
| `Revocation` | registry, handshake, handlers, subscriber, sweep, notifications, restart |
| `Enrollment` | grants, `/verify` statement by statement, the polling device |
| `TenantPod` | one tenant's pod: podman commands, the row, reaper, admin commands |
| `K8sPods` | the same two operations on Kubernetes, object by object |
| `TenantIndex` | inside the pod: pushes and fetches, the index worker, `index-tenant` |
| `SecretFiles` | the hub's CA files and a device's signing key, made on first use |
| `UsageRing`, `UsageMetrics` | the rings of one metric; transactions, queries and the operator on them |
| `Git` | git as the store uses it: work tree, index, branches, commits (operators only) |
| `StoreWrites` | remember, import, promote, forget and wkpd's commit, step by step |
| `StoreSync` | devices that edit, sync, bundle and run wkpd |
| `ItemMerge`, `Frontmatter` | the merge driver; the parser and renderer every merge goes through |
| `StoreIndex` | overlapping index runs against edits and commits |
| `SessionContext`, `Calendar` | signature to tier to tier file to session; the day an item expires |
| `Retrieval` | the questions asked of `index.db`, statement by statement |
| `PrivateItems` | keystore, recipients, filters, revocation of a device |
| `Invocation` | one run of `wkp` from its arguments to its samples |
| `RevocationProofs`, `EnrollmentProofs`, `TenantPodProofs` | theorems about the module of the name |
| `StoreWritesProofs`, `SyncProofs` | theorems about `StoreWrites`; about `ItemMerge` and `StoreSync` |
| `LocalProofs`, `ProcessProofs`, `UsageProofs` | theorems about `SecretFiles`, `PrivateItems`, `StoreIndex`, `SessionContext` and `Calendar`; `K8sPods`, `Invocation`, `Retrieval` and `Frontmatter`; `UsageRing` and `UsageMetrics` |
| `MC*` | instances for TLC; `MCStore` composes the modules of the last three groups |

### Devices and Revocation

A connection is a slot of `Conn`: `conn` says whether it is closed, has shaken
hands or is open, `presented` is the serial of its certificate, `request` is its
handler, which outlives it. `registry` is the `HashMap` of
`ConnectionRegistry`, `cancelled` the cancelled tokens. `subscriber` is the
place of the `listen_for_revocations` thread: disconnected, waiting for a
notification, having handled one, sweeping. `inbox` is the queue of its
session. `minted` is a history variable: every serial ever
recorded, with its device. `Condemned` are the serials of revoked devices,
**including** those whose row has since been given another certificate, which
the code no longer finds.

One action per step of the code that another thread can come between:
`VerifyClientCert` (the lookup in the handshake) and `Register` (accept) are
two; `ReceiveRequest`, `AuthorizeRequest` (the second lookup) and
`FinishRequest` are three; `HandleNotification`, `BeginSweep` (the snapshot),
`SweepQuery` (one per serial) and `SweepClose` are the subscriber's. A revocation
and its NOTIFY commit together, as the transaction does. Faults are
`LoseSession` (the session dies with any suffix of its queue; a query without a
session counts as "not revoked", as `.ok()` makes it) and `Restart`.

Abstracted: TLS and certificate contents to "the CA signed it for this key";
certificate expiry; tenants (the tenant check of `handle_git_http` compares two
immutable columns); HTTP/2 and pipelining (the front door speaks HTTP/1.1, one
request of a connection at a time); the requests of the enrolment routes to
their being answered.

`Sessions` has only live connections, those ordered closed, the condemned
certificates and the number of audited reset-alls. `Revocation` implements it
(`ImplementsSessions`): an order takes all live connections of a condemned
certificate, or all there are after an audited reset-all; never some of
them, never without cause, and it is never withdrawn.

### Enrollment

A `/verify` submission reads the grant (`FindGrant`), reads its device, decides
(`AlreadyIssued` or `SignDeviceCsr`), inserts the device (`InsertDevice`,
`InsertRefused` by the UNIQUE constraint, or `ApproveAgain` if the grant it has
read was linked), links the grant (`LinkGrant`) and records the certificate
(`IssueCertificate`); each is a statement of its own, and `SubmissionFails` may
come before any of them. `seen` is the stale copy of `approved_device_id` the
code decides on. The device polls (`PollUntilApproved`) or gives up. Keys are
device identities: grants are for keys, and a row is known by its key.

### TenantPod

`podman` is what podman has under the tenant's names and `exited` which of its
containers have stopped; each podman command and each statement of the
workers (requests, reapers, admin commands) is one step, in the order of
`start_pod`, `stop_pod`, `reap_idle` and their callers. `Removal` is `podman pod
rm -f`, whose outcome both operations ignore: one that fails leaves the pod, and
the stop is recorded all the same. The history variable `past` notes that, until the pod
has been removed after all, and that an admin command has been run. Time is abstracted to
`idle`: the row's `last_active_at` is older than the reaper's cutoff. It becomes
so only when no worker is between a lookup and the write that follows: the
timeout is minutes, those steps are seconds. The proxied exchange may take any
time. podman itself is modelled from how the code uses it: creating under a
taken name fails, running a container in a pod that is gone fails, `rm -f` on
nothing does nothing.

### Git, StoreWrites and StoreSync

`Git` has what `crates/wkp-git` asks of git, on a record `[work, index, head,
refs]`: staging, a commit of the whole index by plumbing (`NewCommit`,
`Advanced`), a checkout that git refuses if it would overwrite something
(`CanCheckout`). A commit keeps its tree, its parent and its ancestors. Both
modules `INSTANCE` it.

In `StoreWrites` `cmd` is the command under way and the step it is at: find the
branch, check it out, write, unlink, stage, commit, check the old branch out
again, in the order of `commit_to_device_branch` and its callers. `SigningFails`
and `Dies` end a command at any step. A text is the item it belongs to; `known`
are the items a finished command left and no `forget` took. Commands run one at
a time: what they find is what failures left.

In `StoreSync` each device has a clone, the remote has a ref per device, and
`syncing` is where a device's sync stands: fetch, merge the next branch of its
`todo` (the tip it has of each other device; 0: none, or merged), stage a
survivor of a modify/delete, ask about it in `inbox/`, finish the merge, push.
A merge is three-way against the best common ancestor, or against the merge of
two. Content is the sequence of versions a file holds, so that keeping both
documents of a conflict is a concatenation. `awake` are the devices whose
watcher has an event; a cycle leaves a device awake, for its own writes under
`.git` are events. `Breaks` ends a sync between any two steps; `unasked`, a history
variable, are the devices on which it has come right between keeping a modification
and asking. With `Cloned` the devices start from one commit, in which there are more
notes (`Forgotten`); the first device has committed their removal.

### ItemMerge, Frontmatter

`ItemMerge` has one item on two devices, each of which edits it or merges the
other's into its own with the last common version as the base. A merge that
gives up yields both whole documents as a body without frontmatter, which later
merges then work on. `Frontmatter` is the parser and the renderer on lines of
indentation, key and value: `ParseBlock` says what an ill-formed block means,
`Render` writes it, `Rewrite` is what a clean merge does to the block. A text is a
word with what is at its two ends, pairs of quotes and spaces from the outside in, and
the quotes and backslashes inside it, so that what `unquote` takes off
(`Unquoted`) and what `{:?}` puts on (`Quoted`, `Escaped`) are both there. An item of a
list is the texts between its commas.

### StoreIndex, Retrieval

`StoreIndex`: a run detects changes (`git status` against HEAD), lists the paths
and compares them with the rows, reads the items one at a time, and applies the
lot in one transaction. wkpd's run and the user's overlap; edits, deletions and
commits come between any two steps.

`Retrieval`: a question is at one SQL statement at a time on one connection
without a transaction, and an index run (`Reindex`) commits between any two.
A row is a tier, an estimate of tokens, a text score and a closeness; `search`,
`context`, `traverse`, the hook's search and its fallback, vector search and the
fusion work on these. Scores are naturals; the fusion compares fractions exactly.

### SessionContext, Calendar

An item lies at a place with a type, its last commit has a signer, and
`allowed_signers` changes. `Indexed` computes the tier as `compute_tier` does
from what the run finds, `Materialize` and `RenameTierFile` are the write to a
temporary file and the rename, `SessionStart` shows a harness a tier file or
what it routes to. `Calendar` compares `civil_from_days` with the calendar's
rule a day at a time.

### PrivateItems, SecretFiles

`PrivateItems`: a device's identity is in the keystore, or in a file whenever the
keystore is out of reach (`KeystoreTurns`). Items are encrypted by git's clean
filter to whom the recipients file of the work tree names, and come out of the
smudge filter as text or, without the key, as they are. `forget --device` is two
steps: the rewrite of the recipients file and the commit that re-encrypts what
the device can read; the second may fail. History is shared: a device commits on
the newest version or not at all.

`SecretFiles`: exists, generate, `create_new`, write, read back, for the hub's key
and certificate and for a device's file, by processes that race and die.

### TenantIndex, K8sPods

`TenantIndex` has the serving container answering one request after the other
(`Serve`), pushes that move `head` by a whole tree, and a rebuild that names
HEAD anew for the listing (`ListFiles`) and for each blob (`ReadBlob`), then
renames its result over `index.db`. The worker polls and remembers the head it
began with.

`K8sPods` has the four objects of a tenant, applied in the manifest's order and
deleted in the order of the arguments, calls that are cut off, requests that are
refused (`ObjectRefused`: kubectl goes on to the next object and reports the failure
at its end), pods in their grace period, and the kubeconfig file each process writes.
kubectl and the cluster are modelled from how the code uses them.

### UsageRing, UsageMetrics

`UsageRing` is the arithmetic: slots, cursors, folding a closed bucket into the
next tier, rows of a window. The client's log and the hub's are two copies of it.
`apply` calls itself for the next tier before it writes its own; each call reads
and writes one tier, so `ApplyRow` says tier by tier what a sample does: whether it
gets there (`Reached`: every finer tier closes its window), what comes
(`Incoming`: the window that closed, as it was), and whether that opens a window or
is merged into the one that is open.
An aggregate is the set of samples it was made from, so that dropping one or
counting it twice shows. `UsageMetrics` has the hub's transactions under the two
locks, the operator's change of a tier's geometry, a query that reads tier after
tier with nothing held, and samples stamped with a clock that is off by `Skew`.

### Invocation

Every subcommand of `wkp` as the checks it makes and the way it ends: the git
version check, parsing, the Landlock confinement, the container re-execution,
the exit code and the samples `main` records. `calls` and `errors` are the log,
`exits` and `failures` what really happened.

## 3. The runs

| run | what it asks | instance |
|---|---|---|
| `revocation_safety` | type invariant; registry exact; cancelled for cause; no service after revocation; sweep misses nothing; implements `Sessions` | 2 devices, 3 serials, 2 connections, 1 reset-all, faults; 1.3 M states |
| `revocation_liveness` | a delivered notification closes what it names; any notification sweeps | 2 devices, 2 serials, 1 connection, 1 reset-all, no faults |
| `revocation_sweep` (**violation**) | the periodic sweep the comments promise | 1 device, 1 connection |
| `enrollment_safety` | own certificate; consent; a grant owns its row | 2 devices, 2 grants, 2 submissions, 3 serials, 1 failure |
| `enrollment_liveness` | a linked grant's job gets finished | 1 device, 1 grant, 2 submissions, 4 serials, 2 failures |
| `enrollment_double` (**violation**) | one certificate per key | 1 grant, 2 submissions, no failure |
| `pod_lifecycle` | row honest at rest until an admin command; a row that claims a dead pod is healed; idle pods stop | 2 requests, 1 reaper, 1 admin command, 2 faults; 552 k states |
| `pod_operator` (**violation**) | the row stays honest with admin commands, too | 2 requests, 1 reaper, 1 admin command, no fault |
| `store` | twenty-four properties of the modules composed in `MCStore`, below | 669 k states |
| `sync_conflicts` (**violation**) | a merge leaves modify/delete conflicts only | 2 devices, each with its own `wkp init` |
| `sync_deletions` (**violation**) | every deletion that is overruled is asked about | 2 devices from one commit, 2 notes, 1 failure |
| `item_merge` (**violation**) | no field is ever discarded | 3 edits |

Why the bounds are enough for the hazards: two connections make siblings under
one serial and a bystander under another; three serials let a device be given
a second certificate while another device has one; two submissions and two
grants make both a double click and two humans; two cold starts remove each other's
half-made pod while a reaper and an admin command are at work; two faults are a
pod that crashes and a command that dies over it.
Serials are consumed and never reused, so their number also bounds how often a
certificate is signed; in `enrollment_liveness` four of them are enough for two
submissions that are cut short and two that are not.
`MaxResets`, `MaxFailures` and `MaxFaults` are the only other bounds. Symmetry
is used in the runs of safety properties only (the refinement in
`revocation_safety` is a property of the form Init and [][Next] and names no constant).
The `Enrollment` configurations allow deadlock, for the system may stop: all
grants may have expired with every client gone.

### The `store` run

These components meet only through files that one of them writes and the other
reads whole, and the modules share no variable: interleaving them would multiply
the states and show nothing. `MCStore` is therefore a sum: `part` picks a module
in the initial state and stays, that module runs, the others keep an initial
state. It EXTENDS the modules that have theorems, so that `Store.cfg` gives their
constants values and TLC evaluates their assumptions; the others are instances
with their bounds beside them. No two of the extended modules share a name.

| part | properties | instance and why it is enough |
|---|---|---|
| writes | `NothingLost`, `AgentsStayOffMain`, `CommitsAreExactWithoutFailures` | 2 items of different scopes, 4 commands, 2 failures: a command that meets what two failed ones left |
| sync | `StoresConverge`, `MergesDiscardNothing`, `DeletionsAreAsked` | 2 devices from one commit, 1 note and 1 that the first device has forgotten, 2 edits, 7 commits, 1 failure or bundle: both sides edit, or one edits what the other deletes, a failure leaves a survivor or a deletion staged and another note is merged over it, then merges of merges until they meet |
| index | `IndexCatchesUp`, `EdgesHaveTheirSource` | 2 paths that mention each other, 2 runs, 2 changes between their steps |
| merge | `MergesKeepEdits` | a scalar, an unmerged field, a tag, a body, 3 edits, any merges: both sides change the same thing and one changes another |
| front | `RewriteKeepsTheItem` | blocks of 3 of 15 lines, 2 rewrites: a field under the wrong parent, repeated, empty, as a list; quotes within quotes, spaces, commas |
| retrieval | `AnswersKeepTheRequest`, `BothSignalsFirst`, `NeighboursAreNotMissed` | 3 paths on a cycle, 2 kinds of rows, 6 command lines, 1 update between statements |
| context | `ShownWasReviewed` | an instruction and a knowledge item, a human and an agent, 2 edits, a midnight |
| calendar | `ExpiresOnTime` | 800 days from each of 1970, 2000 and 2100: a leap day, the leap century, the common century |
| secret | `OneSecret` | 2 starts of the hub, 2 of a device, 1 crash, 3 attempts |
| private | `RegisteredKeysAreKept`, `RevocationHolds` | 2 devices, 1 item, 4 keys, 5 counted steps |
| tenant | `IndexFollowsHead` | 2 documents, 2 pushes, 1 failed read or restart |
| pods | `LoneCallsAreExact` | 2 callers, 3 calls, any of whose requests may be refused |
| usage | `FoldedOnce`, `RowsFitTheGeometry`, `QuietQueriesAreExact` | 3 tiers with steps 1, 1, 2 and 1, 2, 1 slots, times to 4, 4 samples up to 1 late, queries of 2 (answered from the second tier, and from the first once the change has widened it), 1 change of geometry: rings come round, and no step divides the next after the change |
| wkp | `FailuresAreCalls` | 1 process at a time (and the one in its container), 5 command lines, 2 runs, 1 failure |

Some of these say less than one would hope, and their comments say so:

* `CommitsAreExactWithoutFailures` is about histories without failures, because
  what a failed command left staged is committed by the next one.
* `StoresConverge` excuses a device that is stuck (`Stuck`): with a path left
  unmerged, which `sync_conflicts` is about, or with a deletion a failure left staged.
  The latter comes about like this: a device takes another's removal of one
  note in a merge that waits for the answer about a second note, the survivor is
  staged, the sync breaks off. wkpd commits what was added or modified only, so nothing
  is left to commit; the checkout of the next sync forgets `MERGE_HEAD`; the index is not
  HEAD's, so git refuses every merge (`sync_cmd.rs:175-178`) and every sync fails, where
  wkpd logs that it "will retry on the next change" (`wkpd.rs:231`). It also
  excuses merges without end (`MergesEnd`): two devices whose syncs overlap each time
  merge the same two changes in either order, over and over.
* `DeletionsAreAsked` excuses a device on which a failure has once come right before a
  question; that it then is not asked is what `sync_deletions` shows.
* `LoneCallsAreExact` says nothing of the index pod's policy from a refused request
  until the next call that succeeds.
* `RewriteKeepsTheItem` says to what a rewrite changes a field rather than that
  it does not (section 6).

Deadlock is not checked: every part stops at its bounds.

Each property has a mutant: a definition (marked `\* fault:`, beside the one it
replaces) that changes the code's behaviour the way a slip would, and that
violates it.

### Fairness

* `Revocation`: the subscriber is a thread in an endless loop; the executor
  polls an accept future, and a stream whose token has woken it; a handler runs
  to its end. No fairness for clients, operators or faults; the 30 s
  time-out is possible only while the queue is empty. The liveness runs are
  under `FaultFreeSpec`, in which no session is lost: a lost session may take
  its notifications with it, and then nothing is promised.
* `Enrollment`: a submission's thread runs to its end; a device that polls does
  poll; a human who has not been told "approved" submits again. Giving up and
  expiring are free.
* `TenantPod`: the reaper is invoked again and again (an external scheduler), and a process
  that has begun goes on. Requests, admin commands and faults are free.
* `StoreSync`: wkpd runs on every device and its loop never ends, so a device that
  has an event, or is in the middle of a sync, goes on. Edits, manual syncs,
  bundles and failures are free.
* `TenantIndex`: the index worker's poll loop never ends. Pushes and failures are
  free.

### What the violations say

1. **The fallback sweep does not run periodically.** `timeout_iter(..).next()`
   is `None` after a quiet 30 s, which returns from `run_listen_loop`; the sweep
   further down is reached after a notification only, and a new session does
   not begin with one. A device revoked while no session listened keeps its open
   connection until some other notification happens along. (It is not served:
   `NoServiceAfterRevocation`.)
2. **Overlapping submissions record two certificates.** The check and the
   record are separate statements; a device that polled in between holds a
   certificate whose serial the row no longer has.
3. **pod_running is not kept honest across admin commands.** A stop that
   overlaps a start may record first and leave a row that claims a pod that is
   gone. Requests then fail with 502, and each of them touches the row, so the
   reaper does not get to heal it while clients keep trying; once they stop,
   `OutageEnds` shows that it does. (A failing `podman pod rm -f` is not needed for it, and
   makes it worse in the other direction: the row then says stopped, against
   `tenant_pod.rs:375-381`, no sweep selects the running pod again, and it stays until the
   tenant's next request finds it. `IdlePodStops` names this as its exception.)
4. **Not every conflict is a modify/delete.** `.gitattributes` sets the merge
   driver for `*.md` only. Two devices that each ran `wkp init` both added the
   recipients file with their own key; git leaves it unmerged, nothing resolves
   it, and this sync and every later one fail.
5. **The merge driver drops what it does not look at.** It starts from our
   frontmatter and resolves tags, `updated`, seven scalars and the body. The other
   device's change to `refs` (or `tokens`) is gone without a conflict.
6. **A deletion can be dropped without a question.** Of a modify/delete conflict the
   survivor is staged first and the item that asks about the deletion is written
   afterwards. A sync that breaks off in between leaves the survivor in the index and the
   path no longer unmerged; wkpd's next cycle commits it as an ordinary change, and no later
   sync sees a conflict. "The deleted side is never silently dropped"
   (`resolve_conflicts.rs:30-34`).

## 4. The proofs

### Revocation

`RevocationProofs` proves for **any** sets of devices, serials and connections
and any number of reset-alls (assumptions: `NoSerial` is no serial, `ResetAll`
is neither, `MaxResets` is a natural number):

| theorem | statement |
|---|---|
| `TypeCorrect` | `Spec => []TypeOK` |
| `RegistryCorrect` | `Spec => []RegistryExact` |
| `CancellationJustified` | `Spec => []CancelledForCause` |
| `RevokedNeverServed` | `Spec => []NoServiceAfterRevocation` |
| `SweepComplete` | `Spec => []SweepMissesNothing` |
| `RevocationImplementsSessions` | `Spec => ImplementsSessions` |

They follow from one inductive invariant `IInv` (theorem `Invariance`), because
none of the properties is inductive alone:

* `MintedOK`: a row's serial is on record as its own, and no serial was minted
  for two devices. Without it, admitting a serial would not exclude that it is
  condemned.
* `ConnOK`: a connection that has shaken hands and is not yet accepted carries a
  certificate, and only open connections have cancelled tokens; needed for
  `RegistryExact`.
* `CauseOK`: every notification in the queue, and the sweep's hit, is already
  justified by a revocation or a reset-all on record. It carries the cause
  from the transaction to the cancellation, since `Condemned` never shrinks
  (`CondemnedGrows`).
* `LateOK`: a slot marked late and still in use carries a condemned serial;
  condemned serials are never admitted (`AdmittedNotCondemned`), which is why
  the second lookup is enough.
* `SweepOK`: what a sweep owes is registered under a serial still to be
  looked at, or cancelled, or its row has been given another certificate
  (which, once so, stays so: `ReplacedStaysReplaced`).

Each conjunct has a lemma of its own (`TypeStep`, `MintedStep`, `ConnStep`,
`RegistryStep`, `CauseStep`, `CancelledStep`, `LateStep`, `SweepStep`), split by
action; frame lemmas say once which actions leave which variables alone. The
refinement is `SimulatesSessions`: closes map to orders, drops to leaving or
being gone, revocations to condemning, a restart to a crash, the rest to stuttering.

### Enrollment

`EnrollmentProofs` proves for **any** sets of devices, serials, grants and
submissions and any number of failures (assumptions: `NoSerial` is no serial,
`NoDevice` is no device, `MaxFailures` is a natural number):

| theorem | statement |
|---|---|
| `EnrollmentTypes` | `Spec => []TypeOK` |
| `DevicesGetTheirOwn` | `Spec => []OwnCertificate` |
| `NoCertificateWithoutConsent` | `Spec => []ConsentedOnly` |
| `ApprovalsOwnTheirRows` | `Spec => []ApprovalOwnsRow` |

The inductive invariant `IInv` (theorem `EnrollmentInvariance`) says why a
handler whose statements share no transaction is safe all the same:

* `FormOK`: what a submission has read of its grant stays true. `seen` may be
  stale, but only by still being NULL; a device once seen linked is linked for
  good (`GrantsStay`).
* `SignedOK`, `GrantOK`: a submission signs before it approves, and by the time
  it records its certificate its grant is linked to the grant's own key
  (`LinkedDevice`).
* `HeldOK`: between a row's INSERT and the UPDATE that links it, the row belongs
  to one submission and no grant has it. The UNIQUE constraint on `public_key`
  is what carries this, and `ApprovalOwnsRow` with it: a second submission, or
  the admin CLI, is refused.
* `RecordOK`: the serial on a row was recorded for it, so that a poll hands out
  the device's own.

Each conjunct has its lemma (`TypeStep`, `RecordStep`, `FormStep`, `SignedStep`,
`GrantStep`, `HeldStep`, `ApprovalStep`, `ConsentedStep`, `OwnStep`); `GrantsStay`
and `RowsFrame` say what no step takes back.

### TenantPod

`TenantPodProofs` proves for **any** set of requests (assumptions: the three
kinds of workers are disjoint, `MaxFaults` is a natural number):

| theorem | statement |
|---|---|
| `PodTypes` | `Spec => []TypeOK` |
| `RowKeptHonest` | `Spec => []KeptHonest`, if there is one reaper |

Both limits are needed, that of the theorem and "until an admin command has run" of
the property: `pod_operator` shows what an admin command does. The invariant is
`HonestInv`, which claims nothing once a step has failed or an admin command has been run:

* `PodComes`, `ServeComes`, `IndexComes`, `RecordComes`: whatever is missing of the
  pod or of its record, somebody is about to make it, the one who removed the
  rest or made the part before. With nobody at work nothing is missing, which is
  `KeptHonest`. A request whose half-made pod another removes is refused at its
  next command, and leaves the rest to the other.
* `IdleAlone`: while the idle timeout has passed nobody starts the pod, and who has
  looked at the row has seen it running. This carries the timeout's length.
* `ReaperAlone`: the same while the reaper is at work, and nothing is left of the
  pod once it has stopped it. It is what a second reaper would break.

`HonestRequest`, `HonestStart` and `HonestReaper` have a step per action;
`StarterAlone` says once what a start leaves to the reaper.

### Store writes

`StoreWritesProofs` proves for **any** items, scopes, projects, agents, number of
commands, commits and failures (assumption: `Absent`, no file, is no item):

| theorem | statement |
|---|---|
| `StoreIsTyped` | `WritesSpec => []StoreTypes` |
| `WritesLoseNothing` | `WritesSpec => []NothingLost` |
| `WritesCommitExactly` | `WritesSpec => []CommitsAreExactWithoutFailures` |
| `WritesOfAgentsStayOffMain` | `WritesSpec => AgentsStayOffMain` |

The invariant is `StoreInv`. `NothingLost` alone says that a known item is in the
work tree, in the index or at the tip of a branch; a checkout between the branches
may break that, so the invariant says where (`KnownAreSafe`): in the work tree; or
in the index **and** at the tip of HEAD's branch, which a commit of the whole
index then keeps; or at the tip of the branch HEAD is not on, which no commit
moves. What carries an item over the steps of its command is `FilesHeld`: on disk
until it is staged (`RememberHolds`), at its destination before `promote` unlinks
it (`PromoteHolds`), and nothing taken out of the index by staging
(`NothingUnstaged`). `OnDevice` has HEAD on the device branch whenever an agent
or wkpd is about to commit, though the branch was checked out steps earlier;
`IndexIsClean` has nothing staged, without failures, but what the command is
about to commit; `Born` is the store's first commit, when a branch is checked out
that has none. The lemmas about `Git` (what a checkout, a staging, a commit leaves
at a path) come first, then one lemma per action.

### Synchronisation and the merge driver

`SyncProofs` proves for **any** devices and files, any fields, values and tags, and
any number of edits, merges and failures (assumptions: the path of a question
`sync` asks in `inbox/` is not one of the files edited by hand; what `wkp init` writes
is no device's own text):

| theorem | statement |
|---|---|
| `DocumentsStayWhole` | `ItemSpec => []ItemInv` |
| `DriverKeepsEdits` | `ItemSpec => MergesKeepEdits` |
| `SyncStaysSound` | `SyncSpec => []SyncInv` |
| `HistoriesAreDecided` | `SyncSpec => []Decided(commits)` |
| `MergesLoseNoVersion` | `SyncSpec => MergesDiscardNothing` |
| `DeletionsGetAQuestion` | `SyncSpec => DeletionsAreAsked` |

`MergesKeepEdits` is a property of one merge of any two documents and needs of
the states only that every version is a document (`ItemInv`); a body may hold
whole documents, so there is no set of all documents and the invariant says what
each looks like.

`DeletionsAreAsked` needs history. A question has the number of the commit it
was asked at, so that one at least as young as the branch is one the branch has not.
The property is about two kinds of commits. One ends a merge; `SyncInv` says that such a
merge has its question in the index by the time no path is left unmerged. The other is any
commit, of a cycle or of `forget`, of what a merge left behind when it broke off. For it
`AskInv` says that the index owes a question (`Owes`): once it has a file of another
device that HEAD has not, it has a question too young for HEAD, unless a path is
unmerged, the question is about to be written, or a failure came right before it
(`unasked`); and that what only the work tree has is the device's own (`HomeMade`), so that
staging it takes in nothing. Each commit of the whole index settles the debt
(`CommitSettles`), and only commits of the index move the branch (`OnlyCommitsMove`).

`SyncInv` says that commits descend from older ones
only and hold no question younger than those (`IsHistory`), that every branch, remote
ref, `todo` and open merge names commits there are (`IsClone`, `IsMerge`,
`IsSync`), and that a merge with nothing left unmerged has its question in the
index (`Asked`). Best common ancestors are a maximum of a set of commits; that
there is one is shown with the library's theorem on well-founded orders, by a
least element rather than by induction.

`MergesDiscardNothing` is about one merge and rests on all merges before it.
`Decided` is the invariant: a version some ancestor of a commit holds and the
commit does not was given up by one of its ancestors, itself included. The tree
merged against, a commit's or the merge of two, has only versions of common
ancestors (`BaseIsCommon`); a three-way merge leaves a version out only if the
base has it and the other side has not (`LeftOut`); so the other side, which
descends from a commit that has it, gave it up (`MergedDecides`). What is
committed afterwards gives up what its parent had, or joins two decided branches,
or asks with a question younger than all it descends from; a longer history takes
nothing back (`OneMoreDecided`).

### Index and sessions

`LocalProofs` proves for **any** paths, texts, mentions, runs and changes
(assumption: there are texts, and "no file" is not one), and **any** items, places,
humans, agents and days (assumption: "unsigned" and "nobody" are nobody's name):

| theorem | statement |
|---|---|
| `IndexEdgesHaveTheirSource` | `IndexSpec => []EdgesHaveTheirSource` |
| `IndexRunsCatchUp` | `IndexSpec => IndexCatchesUp` |
| `SessionsAreShownReviewedItems` | `ContextSpec => []ShownWasReviewed` |

`IndexInv` has `QuietRuns`: as long as nothing has happened beside a run, what it
has detected, listed and read is what there is (`ReadWell`), and nobody else is at
work; it is what a run's one transaction at the end is correct by.

`ShownWasReviewed` is about stages that lag behind one another, and `ContextInv`
has a conjunct for each: an item whose last commit has the signature of a human
who is trusted now is reviewed (`SignedAreReviewed`); so is an item with a row in
tier 0 or 1, and it lies outside the inbox (`TiersAreReviewed`); and so is what a
tier file, a draft of one, or a session has (`FilesAreReviewed`). "Reviewed" is a
history variable that only grows, which is why a stale row or file does no harm
to it: an edit since the review is not excluded, as section 6 says.

### Identities and secrets

`LocalProofs` also proves, for **any** devices, items and keys, and any number of steps,
attempts and crashes:

| theorem | statement |
|---|---|
| `SecretsAreOne` | `SecretSpec => []OneSecret`, if the hub's processes and a device's are different ones |
| `KeysInUseAreKept` | `PrivateSpec => []RegisteredKeysAreKept` |
| `RevokedDevicesStayOut` | `PrivateSpec => []RevocationHolds` |

`SecretInv` is the argument the code relies on `create_new` for: whoever is to
write a file made it, finds it still empty, and is the only one (`OneWriter`); who
goes on to the key file has its own secret in the certificate (`CertFirst`); and
whoever came back with a secret has it from the files (`OnFile`), so that an empty
file is one nobody has come back with.

`PrivateInv` says whose each key is: no two devices have a key in common and new
ones are new (`OwnKeys`), a recipient is a key of the device it is labelled with
(`KeysAreLabelled`), and only the device itself adds its label, the others have it
from the history (`OwnLabels`). A label that a revocation under way has taken out
stays out of the revoking device's file, and out of the history once it is gone
from there (`DeniedStayOut`); from the commit on no item the revocation reached is
encrypted to a key of the device (`RevokedAreOut`), because a recipients file that
still names it is older than the commit, and who has one must take the newest
before it commits.

### Usage metrics

`UsageProofs` proves for **any** recorders, samples, times and number of changes,
any skew and **any** geometry of the three tiers that `set_tier_config` accepts
(steps need not divide one another; assumptions: `ThreeTiers`, there are three,
which is what `load_tier_config` reads; `GeometriesAreChecked`, steps and slots are
at least 1, which `set_tier_config` refuses otherwise; `TimesAreNaturals`;
`NoRowIsNone`, no row is no slot and no row):

| theorem | statement |
|---|---|
| `UsageIsSound` | `UsageSpec => []UsageInv` |
| `EachFoldedOnce` | `UsageSpec => []FoldedOnce` |
| `UsageRowsFit` | `UsageSpec => []RowsFitTheGeometry` |
| `QuietQueriesTakeAll` | `UsageSpec => []QuietQueriesAreExact` |

None of the three is inductive: whether a window may be folded depends on what is
below and above it. `RingInv` says of the rings:

* `CursorsPoint`, `RowsFit`, `OpenIsNewest`: a cursor points at a row, which the
  code's `expect("cursor always points at a real, just-written row")` takes for
  granted; a row is in the slot of its bucket; the open window is the newest, so
  that two rows of one tier never have one bucket.
* `OldestFirst`: samples go through a tier's windows, and from tier to tier, in the
  order of their **commits**, whatever their times. So no sample is in two rows,
  and what a finer tier still has open has not reached a coarser one, which is the
  reason `query_window`'s comment gives for adding the two.
* `NeverEarly`, `NeverFarAhead`: a late sample may be in a newer window than its
  own, never in an older one, and no window is newer than a sample in it, or one
  that has yet to come to it, by more than the skew.
* `LastIsExact`, `LastIsNew`: the `last` of a window belongs to it, every finer
  tier is past it, and no sample of the window is newer by more than the skew.
* `Kept`: a sample that a tier does not have waits in the open window of a finer
  one, or the tier's ring has come round to its slot.

`RingInvAfter` shows that a sample keeps all of it (one lemma per conjunct, over
`RowsAfter`, what a sample leaves of the rows, and `Arrivals`, what comes to a tier).
`OneRecorder` is what the locks are for: one transaction at a time, its geometry
the one of now, and its sample not older than what is there by more than the skew.
A change of a tier empties that tier and forgets the samples of before, of which
`NeverEarly`, `LastIsExact`, `LastIsNew` and `Kept` claim nothing more; order and
slots it leaves as they were (`EmptiedTier`). A query that nothing crossed has so
far taken each row of its tier inside the window and the open rows of the finer
tiers it has passed, and nothing twice (`Sums`); a fourth fact, that no window is
newer than the clock, makes a ring that spans the window long enough.

### Kubernetes and the command

`ProcessProofs` proves of these two, for **any** callers, calls, refused requests,
processes, command lines and failures, without an assumption:

| theorem | statement |
|---|---|
| `LoneCallsLeaveWhatTheySay` | `K8sSpec => []LoneCallsAreExact` |
| `UsageLogIsExact` | `InvocationSpec => []FailuresAreCalls` |

`K8sInv` follows a call that nobody crosses through its objects: those it has come
to are up, or gone or ending, unless one of its requests has been refused, which it
remembers to its end and then reports (`Proceeds`); `alone` is a history variable, and a
settled call leaves nobody at work (`SettledIsQuiet`). `FailuresAreCalls` is about
counters, and the invariant counts (`Counted`): the calls of a command are its
exits and the processes that have recorded their call and not exited yet; the
errors, with the processes that still owe one, are no more than the calls. That
these sets of processes are finite is part of the invariant, for each step adds
or takes one, so that nothing is assumed of `Processes`.

### The calendar

| theorem | statement |
|---|---|
| `ItemsExpireOnTime` | `CalendarSpec => []ExpiresOnTime` |

It is in `LocalProofs`, and counts on from the first of January of 1970, 2000 and 2100
(the assumption `DaysAreKnown`) without an end, where TLC counts 800 days from each. `CalendarInv` says that both
`day` and `date` are the t-th day of one and the same year, counted from March, so
that the leap day is the last of its year (`DayIs`, `FromMarch`). That the calendar's next date keeps this is a
case split on month and year ends (`NextDay_InYear`, `NextDay_YearEnd`): the months of such a
year repeat every five, 153 days each. That `civil_from_days` finds that day again is
`CivilAt`; within an era of 400 years its divisions are exact (`YearOfEraRight`).
Nothing is assumed of how many days are counted; that dates compare as text of ten
characters, true until the year 9999, is a comment of the module.

### Questions to the index

`ProcessProofs` proves of `Retrieval`, for **any** set of items, rows, links,
command lines and number of index runs:

| theorem | statement |
|---|---|
| `AnswersAreAsAsked` | `RetrievalSpec => []AnswersKeepTheRequest` |
| `BothSignalsOutrank` | `RetrievalSpec => []BothSignalsFirst` |
| `NeighboursAreReached` | `RetrievalSpec => []NeighboursAreNotMissed` |

The assumption on the constants is `RetrievalAssumption`: there are finitely many
items, fewer than `Unlimited` stands for; rows have a tier of 0 to 2 and natural estimates;
options are natural numbers, and `traverse` has a start and neither tier
nor limit, as its parser has it; a context walks at least two edges (the code: 2);
and the fusion's lists are cut below K + 2 entries (the code: 40 and 60). TLC
evaluates it in the run `store`.

The first two follow from one invariant, `AskInv`:

* `ItemsAreSeen`, `HitsAreProper`: what is in the index while a question is
  asked has been seen by it, hence every hit was within the tier at some moment; and
  no hit is there twice.
* `WordsAreShort`, `ListsAreShort`: both rank lists are short when they are fused.
* `TodoIsRanked`: the fused list has each path once, by falling score, none that
  has been fetched already. `BothOutrank` is the arithmetic: two ranks
  of at most K + 1 beat one rank of 1.

`ContextInv` adds for the third that a context's hits are those of the words, then
those of the walks, that the best of the former are walked or still to do
(`Progress`), and that a walked one has all within two edges among the hits. A hit
that the budget cut off is the item the property speaks of (`BudgetKeepsAPrefix`).

Sums, walks and fused orders are recursive functions; that they are what they say
for every length is proved from the least number at which they would not be
(`LeastOf`, from the library's well-foundedness of `<`), which needs no induction
theorem (`IterateExists`, `SpentIs`, `ReachIs`).

### The frontmatter

| theorem | statement |
|---|---|
| `RewritesKeepItems` | `FrontmatterSpec => RewriteKeepsTheItem` |

It is in `ProcessProofs`, for blocks of **any** lines and length and any number of
rewrites: each field of the rewritten block is `Rewritten` of what it was, no more and
no less. The assumptions say what a line can hold (`SamplesAreLines`, `IsLine`:
the items of a list or one item of it, a text elsewhere, or nothing) and that nothing is
neither a text nor a list (`NothingIsNoText`). The argument has three parts:

* What `ParseBlock` makes of a block has the schema's types (`ParsedIs`), whichever
  of several lines about a field is the last (`LatestIs`).
* A rendered block has one line for each field that is there and none else, in
  the order of the schema (`Rendered`, from `PiecesInOrder`: which piece each
  element of a sequence put together from pieces comes from). So the fields of
  the provenance come right below `provenance:`, which is there if they are.
* Of such a block (`Shown`) each field's line is the only one about it, hence the
  one that decides (`ScalarAfter`, `ListAfter`, `FieldAfter`).

### What the proofs changed

Three places where `CASE` had guards that overlap, which TLC resolves in order and
the logic does not, have exclusive guards now (`ComputeTier`, the parser's lists and
lines, `NextDate`). A `UNION` that read differently from how it was meant
has its parentheses (`RegisteredKeysAreKept`). `todo` of `StoreSync` is a function
over the devices instead of a filtered sequence, with the same states. Modules
that meet in one proof module had names in common; theirs are their own now. `Retrieval`
writes its sums, its fractions and its fused orders out instead of folding, with the same
states; `Calendar` names the year of an era and the count from March; `Frontmatter`
says what a line can hold, and collects the items of a list line by line.

`MergesDiscardNothing` said of each merged file that what is missing in it was
dropped by the commit that had it, and was true of the run's two devices only. A
third device, a user who edits a file while its merge waits, or two branches that
merged each other crosswise leave a version out that an older commit decided
about; simulations of larger instances found each. It is stated now version by
version and for both sides, with the decision anywhere among the ancestors.

`UsageRing` followed the code's recursion from tier to tier; it now says of each
tier what the recursion does to it, with the same result (compared by TLC on 12,301
rings and rows before the change). Its run had tiers so long that no sample was
ever overwritten and steps that all divide. On shorter rings `FoldedOnce` lacked
the case of a coarsest ring that comes round, and the `last` of a query the case
of samples from before a change; both say so now, and the run meets both.

Five statements have been found to hold because a model left something out. `podman pod
rm -f` may fail unnoticed now; a refused Kubernetes request no longer ends its call; the
texts of the frontmatter have their quotes and spaces; the devices of `StoreSync` may
have a second note, which is what it takes for a deletion to be left staged; and
`DeletionsAreAsked` is about every commit. `IdlePodStops`, `LoneCallsAreExact`,
`RewriteKeepsTheItem`, `StoresConverge` and `DeletionsAreAsked` say now what is left
of them and where the code stops, and `sync_deletions` shows one of the limits.

### Only model-checked

* **Liveness and fairness**: `revocation_liveness`, `enrollment_liveness`, the
  promises of `pod_lifecycle`, `StoresConverge`, `IndexFollowsHead`. The prover has
  neither fairness nor ENABLED.
* The **violations**, which are counterexamples.

`KeptHonest` is also checked with faults (`pod_lifecycle`); the theorem has
no bound on faults but claims nothing after the first, as the property does.

## 5. The plan

Next, most important first:

1. `HubComposition`: `Enrollment` and `Revocation` over one `Devices`, so that a
   revocation may hit a submission half done.
2. Concurrent writers: two commands of `StoreWrites` in one store. The code
   promises nothing of it yet, and `update-ref` has no old value.

### Not modelled

* Tenant administration beyond start, stop, pin, register, revoke and
  `index-tenant`: listings, `tenant create`, and the commands that overwrite the
  row by hand (`pod-started`, `pod-stopped`, `touch-active`), which record what
  the operator says.
* The schema's migration: one critical section under an advisory lock.
* wkpd's socket and start-up; the debounce is "an event to deliver".
* Regular expressions of the secret scan, the embedding model, ranking formulas:
  data, of which the models keep the outcome (refused or not; a rank).
* Cryptography, TLS, certificate contents, CSR parsing, Landlock's system calls,
  option parsing, wording and layout of output, how hooks are written into a
  harness's settings.
* Tests, benches, fuzz targets and deployment files.

## 6. Seen, without a run

Smaller hazards and disagreements met on the way, at their lines; the models
behave as the code does, and no property claims otherwise.

Store and sync
* `promote` that fails after its unlink leaves the only copy uncommitted
  (`promote.rs:250`); a failed signature leaves foreign paths for the next commit
  (`signed_commit.rs:133`); `update-ref` is called without an old value
  (`signed_commit.rs:173`).
* A checkout back that git refuses leaves HEAD on the device branch
  (`sync.rs:164`, against its doc at 112-116). wkpd never commits deletions
  (`wkpd.rs:191`). `wkp purge` discards uncommitted work on tracked files.
* A deletion that a failed sync has left staged is never committed, and with it
  no merge ever begins again (`sync_cmd.rs:175-178`, `wkpd.rs:191`); section 3.
* Each clean merge adds a blank line to the body (`merge.rs:120`). Each also rewrites the
  block: titles, dates, actors and sessions with quotes gain backslashes; workspaces,
  tokens, sources, enumerations and list items lose spaces and a pair of quotes at their
  ends, down to a value that reads as null and is gone; list items with commas split
  (`frontmatter.rs:298`, `306-342`, `466-474`).

Index, tiers and session
* wkpd commits before it indexes: git then no longer calls the item modified, and
  its row keeps the old content until something else has it re-read
  (`index_cmd.rs:103-112`, `wkpd.rs:184-185`). `IndexCatchesUp` promises rows for
  all items, and content for those git calls modified.
* An expired item stays in its tier until it is re-read (`index_cmd.rs:109`,
  `tier.rs:21-23`); an uncommitted edit of a human-signed item is indexed as
  human-signed (`index_cmd.rs:133`).
* The SessionStart hook shows tier files and never materialises them
  (`hooks.rs:115`, against 5-7). Hybrid search reads metadata again
  (`hybrid.rs:190`), materialise uses two statements.

Identities
* `forget --device` skips private files that are missing or not UTF-8
  (`forget.rs:248`). The fallback identity is ignored once the keystore is back
  (`device_identity.rs:50`); two first runs may both generate one (66-83).

Usage
* Windows beyond the second tier can count a sample twice while it is being
  folded (`usage/store.rs:505-511`, hub `usage.rs:585-593`);
  `QuietQueriesAreExact` is about queries no transaction crosses.
* The hub's `query_window` reads the geometry and the tables without
  `TIER_CONFIG_LOCK_KEY`, which its comment has it hold (`usage.rs:60-61`), so a
  change of the geometry may come between two of its reads as well.
* After `set_tier_config` the other tiers keep their rows, so the `last` of a query
  may be that of a sample from before the change though newer ones are counted
  (`usage.rs:134-147`); `QuietQueriesAreExact` claims the newest `last` of samples
  since the change.
  `wkp usage` reads calls before errors (`usage_cmd.rs:86-147`).

Hub
* `http_backend.rs:82-88` (wkp-git) writes a whole request body before it reads
  any output, which may block both ends of the pipe.
* Any listing failure is taken for an empty repository (`tenant_repo.rs:141`); an
  operator's `index-tenant` may rename an older rebuild over the worker's
  (`main.rs:219`).
* A POST is sent up to ten times (`http.rs:470`). A request admitted before a
  revocation may end after it (`front_door.rs:351`). `hub register` gives up on one
  failed request while its grant lives (`hub_register.rs:276`). A key once
  registered cannot be enrolled again (`control_plane/mod.rs:276`).
* `stop_pod` ignores a failing `podman pod rm -f` (`tenant_pod.rs:371`) and the pod is
  recorded as stopped, where `reap_idle` is to record it "once actually stopped" and
  to log and skip a pod that fails to stop (375-381).
* An apply whose policy is refused goes on to the pods (`k8s_orchestrator.rs:217-249`), and
  a delete whose pod is refused goes on to the policy: the index pod then runs
  without one, until a later call succeeds.
* The Kubernetes stop deletes the policy while pods are in their grace period
  (`k8s_orchestrator.rs:266-277`), and the shared kubeconfig is rewritten in place
  (172, 331).
* `tenant pod-stopped` on a running pod (`main.rs:419`) and `tenant create` without
  its repository (`main.rs:338-364`) leave the row saying what is not so.
