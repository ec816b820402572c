----------------------------- MODULE TenantPod -----------------------------
(***************************************************************************)
(* The life of one tenant's pod: cold starts by the git requests of the    *)
(* front door (http.rs), `wkp-hub start-pod` and `stop-pod` (main.rs), the *)
(* reaper `wkp-hub reap-idle-pods` (tenant_pod.rs) and the tenant's row,   *)
(* on which all of them rely (control_plane/mod.rs).  Tenants share        *)
(* nothing here, so one is enough.                                         *)
(*                                                                         *)
(* Every podman command and every statement is a step of its own: nothing  *)
(* holds a lock from the row's reading to its writing.                     *)
(***************************************************************************)
EXTENDS Naturals, FiniteSets

CONSTANTS
  Request,   \* git requests that can be in progress at one time
  Reaper,    \* reaper processes that can be running at one time
  Operator,  \* admin commands that can be running at one time
  MaxFaults  \* bound: commands that fail, processes and containers that die

ASSUME WorkersDisjoint ==
  Request \cap Reaper = {} /\ Request \cap Operator = {} /\ Reaper \cap Operator = {}
ASSUME FaultsAssumption == MaxFaults \in Nat

VARIABLES
  podRunning,  \* columns of the tenant's row ...
  alwaysWarm,
  idle,        \* ... last_active_at is older than the reaper's cutoff
  podman,      \* what podman has under this tenant's names
  exited,      \* the containers of it that have stopped
  pc,          \* where each process stands
  saw,         \* pod_running as each request read it
  faults,
  past         \* history: "admin" once an admin command has begun, "left" while a pod
               \* is there that a stop has failed to remove

rowVars == <<podRunning, alwaysWarm, idle>>
runtimeVars == <<podman, exited>>
workerVars == <<pc, saw>>
vars == <<rowVars, runtimeVars, workerVars, faults, past>>

Worker == Request \cup Reaper \cup Operator
Container == {"serve", "index"}

TypeOK ==
  /\ podRunning \in BOOLEAN /\ alwaysWarm \in BOOLEAN /\ idle \in BOOLEAN
  /\ podman \subseteq {"pod"} \cup Container
  /\ podman # {} => "pod" \in podman
  /\ exited \subseteq podman \cap Container
  /\ pc \in [Worker -> {"ready", "looked", "inspect", "remove", "create", "serve", "index",
                        "started", "proxy", "stop", "stopped"}]
  /\ saw \in [Request -> BOOLEAN]
  /\ faults \in 0 .. MaxFaults
  /\ past \subseteq {"admin", "left"}

Init ==
  /\ podRunning = FALSE /\ alwaysWarm = FALSE /\ idle = FALSE
  /\ podman = {} /\ exited = {}
  /\ pc = [w \in Worker |-> "ready"]
  /\ saw = [r \in Request |-> FALSE]
  /\ faults = 0
  /\ past = {}

Go(w, from, to) == pc[w] = from /\ pc' = [pc EXCEPT ![w] = to]

Fault == faults < MaxFaults /\ faults' = faults + 1

\* What podman reports as Running: containers, and none that has stopped.
Running == podman \cap Container # {} /\ exited = {}

\* A pod as start_pod means it: both containers, up.
PodUp == podman = {"pod"} \cup Container /\ exited = {}

-----------------------------------------------------------------------------
(* handle_git_http, from the tenant's row on.                              *)

FindTenant(r) ==
  /\ Go(r, "ready", "looked")
  /\ saw' = [saw EXCEPT ![r] = podRunning]
  /\ UNCHANGED <<rowVars, runtimeVars, faults, past>>

(***************************************************************************)
(* touch_last_active, whose failure is ignored; then the start, only if    *)
(* the row read before said there is no pod.                               *)
(***************************************************************************)
TouchLastActive(r) ==
  /\ Go(r, "looked", IF saw[r] THEN "proxy" ELSE "inspect")
  /\ \/ idle' = FALSE /\ UNCHANGED faults
     \/ Fault /\ UNCHANGED idle
  /\ UNCHANGED <<podRunning, alwaysWarm, runtimeVars, saw, past>>

(***************************************************************************)
(* The proxied exchange, whatever comes of it, changes none of this state. *)
(***************************************************************************)
ProxyToTenantPod(r) ==
  /\ Go(r, "proxy", "ready")
  /\ UNCHANGED <<rowVars, runtimeVars, saw, faults, past>>

-----------------------------------------------------------------------------
(* start_pod, for a request and for `wkp-hub start-pod`.                   *)

StartPod(o) ==
  /\ Go(o, "ready", "inspect")
  /\ past' = past \cup {"admin"}
  /\ UNCHANGED <<rowVars, runtimeVars, saw, faults>>

PodIsRunning(w) ==
  /\ Go(w, "inspect", IF Running THEN "started" ELSE "remove")
  /\ UNCHANGED <<rowVars, runtimeVars, saw, faults, past>>

\* `podman pod rm -f`.
RemovePod ==
  /\ podman' = {}
  /\ exited' = {}
  /\ past' = past \ {"left"}

(***************************************************************************)
(* Its outcome is ignored, by start_pod and by stop_pod: whether it has    *)
(* removed the pod or failed and left it, both go on in the same way.      *)
(***************************************************************************)
Removal(left) ==
  \/ RemovePod /\ UNCHANGED faults
  \/ Fault /\ past' = past \cup left /\ UNCHANGED runtimeVars

RemoveLeftover(w) ==
  /\ Go(w, "remove", "create")
  /\ Removal({})
  /\ UNCHANGED <<rowVars, saw>>

(***************************************************************************)
(* `podman pod create` and the two `podman run --pod`: each fails if its   *)
(* name is taken, and a run fails if the pod is gone.                      *)
(***************************************************************************)
Make(w, from, part, to) ==
  /\ Go(w, from, to)
  /\ part \notin podman
  /\ part # "pod" => "pod" \in podman
  /\ podman' = podman \cup {part}
  /\ UNCHANGED <<rowVars, exited, saw, faults, past>>

CreatePod(w) == Make(w, "create", "pod", "serve")
RunServe(w) == Make(w, "serve", "serve", "index")
RunIndex(w) == Make(w, "index", "index", "started")

Refused(w) ==
  \/ pc[w] = "create" /\ "pod" \in podman
  \/ pc[w] = "serve" /\ ("serve" \in podman \/ "pod" \notin podman)
  \/ pc[w] = "index" /\ ("index" \in podman \/ "pod" \notin podman)

(***************************************************************************)
(* start_pod returns the error, at "remove" that of the network, which is  *)
(* made first, and leaves what it made: the request is answered 503, the   *)
(* admin command exits.                                                    *)
(***************************************************************************)
StartFails(w) ==
  /\ pc[w] \in {"inspect", "remove", "create", "serve", "index"}
  /\ (Refused(w) /\ UNCHANGED faults) \/ (~Refused(w) /\ Fault)
  /\ pc' = [pc EXCEPT ![w] = "ready"]
  /\ UNCHANGED <<rowVars, runtimeVars, saw, past>>

(***************************************************************************)
(* record_pod_started; a request goes on to the proxy even if it fails.    *)
(***************************************************************************)
RecordPodStarted(w) ==
  /\ Go(w, "started", IF w \in Request THEN "proxy" ELSE "ready")
  /\ \/ podRunning' = TRUE /\ UNCHANGED faults
     \/ Fault /\ UNCHANGED podRunning
  /\ UNCHANGED <<alwaysWarm, idle, runtimeVars, saw, past>>

-----------------------------------------------------------------------------
(* stop_pod, for the reaper and for `wkp-hub stop-pod`.                    *)

FindIdle_Active(p) ==  \* fault: no look at last_active_at
  /\ Go(p, "ready", "stop")
  /\ podRunning /\ ~alwaysWarm
  /\ UNCHANGED <<rowVars, runtimeVars, saw, faults, past>>

FindIdle(p) ==
  /\ Go(p, "ready", "stop")
  /\ podRunning /\ ~alwaysWarm /\ idle
  /\ UNCHANGED <<rowVars, runtimeVars, saw, faults, past>>

StopPodCommand(o) ==
  /\ Go(o, "ready", "stop")
  /\ past' = past \cup {"admin"}
  /\ UNCHANGED <<rowVars, runtimeVars, saw, faults>>

StopPod_Strict(w) ==  \* fault: a pod that is not there is an error
  /\ Go(w, "stop", IF podman = {} THEN "ready" ELSE "stopped")
  /\ Removal({"left"})
  /\ UNCHANGED <<rowVars, saw>>

StopPod_NoForce(w) ==  \* fault: `podman pod rm` without -f refuses a running pod
  /\ Go(w, "stop", "stopped")
  /\ IF Running THEN UNCHANGED <<runtimeVars, faults, past>> ELSE Removal({"left"})
  /\ UNCHANGED <<rowVars, saw>>

StopPod(w) ==
  /\ Go(w, "stop", "stopped")
  /\ Removal({"left"})
  /\ UNCHANGED <<rowVars, saw>>

RecordPodStopped(w) ==
  /\ Go(w, "stopped", "ready")
  /\ \/ podRunning' = FALSE /\ UNCHANGED faults
     \/ Fault /\ UNCHANGED podRunning
  /\ UNCHANGED <<alwaysWarm, idle, runtimeVars, saw, past>>

-----------------------------------------------------------------------------
(* Time, settings and faults.                                              *)

(***************************************************************************)
(* The idle timeout passes.  It is minutes, and everything between a       *)
(* lookup and the write that follows from it takes seconds: the timeout    *)
(* does not pass meanwhile.  An exchange with the pod may outlast it.      *)
(***************************************************************************)
BecomeIdle ==
  /\ ~idle
  /\ \A w \in Worker : pc[w] \in {"ready", "proxy"}
  /\ idle' = TRUE
  /\ UNCHANGED <<podRunning, alwaysWarm, runtimeVars, workerVars, faults, past>>

SetAlwaysWarm(b) ==
  /\ alwaysWarm' = b
  /\ UNCHANGED <<podRunning, idle, runtimeVars, workerVars, faults, past>>

ContainerExits(c) ==
  /\ c \in podman \ exited
  /\ Fault
  /\ exited' = exited \cup {c}
  /\ UNCHANGED <<rowVars, podman, workerVars, past>>

\* The process dies between two steps: the hub, or an admin command.
WorkerDies(w) ==
  /\ pc[w] # "ready"
  /\ Fault
  /\ pc' = [pc EXCEPT ![w] = "ready"]
  /\ UNCHANGED <<rowVars, runtimeVars, saw, past>>

-----------------------------------------------------------------------------
Start(w) ==
  \/ PodIsRunning(w) \/ RemoveLeftover(w)
  \/ CreatePod(w) \/ RunServe(w) \/ RunIndex(w) \/ StartFails(w)
  \/ RecordPodStarted(w)

Stop(w) == StopPod(w) \/ RecordPodStopped(w)

Next ==
  \/ \E r \in Request : FindTenant(r) \/ TouchLastActive(r) \/ ProxyToTenantPod(r)
  \/ \E w \in Request \cup Operator : Start(w)
  \/ \E p \in Reaper : FindIdle(p)
  \/ \E w \in Reaper \cup Operator : Stop(w)
  \/ \E o \in Operator : StartPod(o) \/ StopPodCommand(o)
  \/ BecomeIdle
  \/ \E b \in BOOLEAN : SetAlwaysWarm(b)
  \/ \E c \in Container : ContainerExits(c)
  \/ \E w \in Worker : WorkerDies(w)

Spec == Init /\ [][Next]_vars

(***************************************************************************)
(* The reaper is run again and again, and each process runs to its end.    *)
(* Nobody has to send a request or an admin command, and nothing has to    *)
(* fail.                                                                   *)
(***************************************************************************)
Fairness ==
  /\ \A p \in Reaper : WF_vars(FindIdle(p)) /\ WF_vars(Stop(p))
  /\ \A r \in Request : WF_vars(TouchLastActive(r) \/ Start(r) \/ ProxyToTenantPod(r))
  /\ \A o \in Operator : WF_vars(Start(o) \/ Stop(o))

LiveSpec == Spec /\ Fairness
-----------------------------------------------------------------------------
(* Properties.                                                             *)

(***************************************************************************)
(* pod_running is "kept honest by the provisioning/reaper code that        *)
(* actually starts and stops pods" (control_plane/mod.rs:35-37): if        *)
(* nothing has failed and nobody is at work on the pod, it says whether    *)
(* the pod is up, with both its containers.                                *)
(***************************************************************************)
RowIsHonest ==
  (faults = 0 /\ \A w \in Worker : pc[w] \in {"ready", "looked", "proxy"})
    => (podRunning <=> PodUp)

(***************************************************************************)
(* The same among requests and reapers, until somebody runs an admin       *)
(* command.                                                                *)
(***************************************************************************)
KeptHonest == "admin" \notin past => RowIsHonest

(***************************************************************************)
(* A tenant whose row claims a pod that has gone gets out of it once it    *)
(* has been idle for long enough: the reaper clears the row, and the next  *)
(* request starts a pod (stop_pod's doc, tenant_pod.rs:359-365).           *)
(***************************************************************************)
OutageEnds ==
  (podRunning /\ ~Running /\ idle) ~> (~podRunning \/ Running \/ ~idle \/ alwaysWarm)

(***************************************************************************)
(* The pod of an idle tenant that is not pinned does not run for ever,     *)
(* whichever process dies or statement fails on the way (reap_idle), but   *)
(* for the ways in which the row comes to say stopped while the pod runs,  *)
(* so that no sweep looks at it again: a stop whose `podman pod rm -f` has *)
(* failed reports success all the same; a stop that overlaps a cold start  *)
(* may record itself after it.  The overlap takes an admin command, or two *)
(* touches that fail.                                                      *)
(***************************************************************************)
Forgettable == past # {} \/ faults > 1

IdlePodStops == (podRunning /\ Running /\ idle) ~> (~Running \/ ~idle \/ alwaysWarm \/ Forgettable)
=============================================================================
