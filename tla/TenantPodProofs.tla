-------------------------- MODULE TenantPodProofs --------------------------
(***************************************************************************)
(* Type correctness of TenantPod, and that the row is kept honest as long  *)
(* as nothing fails, no admin command has run and there is one reaper: for *)
(* any number of requests that start and remove each other's pods.         *)
(***************************************************************************)
EXTENDS TenantPod, TLAPS

\* The statements a process that starts the pod goes through.
Starting == {"inspect", "remove", "create", "serve", "index", "started"}

NobodyStarts == \A r \in Request : pc[r] \notin Starting

(***************************************************************************)
(* The idle timeout does not pass while somebody starts the pod, so that   *)
(* who looks at the row before a reaper has cleared it finds it running,   *)
(* and starts nothing.                                                     *)
(***************************************************************************)
IdleAlone ==
  /\ idle => NobodyStarts
  /\ idle /\ podRunning => \A r \in Request : pc[r] = "looked" => saw[r]

ReaperAlone ==
  \A p \in Reaper : pc[p] \in {"stop", "stopped"} =>
    /\ podRunning /\ NobodyStarts
    /\ \A r \in Request : pc[r] = "looked" => saw[r]
    /\ pc[p] = "stopped" => podman = {}

(***************************************************************************)
(* Whatever is missing of the pod, somebody is about to make it: the one   *)
(* who removed the rest, or made the part before.                          *)
(***************************************************************************)
PodComes ==
  podman = {} /\ (podRunning \/ \E r \in Request : pc[r] = "started") =>
    (\E r \in Request : pc[r] = "create") \/ \E p \in Reaper : pc[p] = "stopped"
ServeComes == "pod" \in podman /\ "serve" \notin podman => \E r \in Request : pc[r] = "serve"
IndexComes == "serve" \in podman /\ "index" \notin podman => \E r \in Request : pc[r] = "index"
RecordComes == "index" \in podman /\ ~podRunning => \E r \in Request : pc[r] = "started"

Honest ==
  exited = {} /\ IdleAlone /\ ReaperAlone /\ PodComes /\ ServeComes /\ IndexComes /\ RecordComes

HonestInv ==
  faults = 0 /\ "admin" \notin past => Honest /\ \A o \in Operator : pc[o] = "ready"

-----------------------------------------------------------------------------
(* Types.                                                                  *)

LEMMA TypeInit == Init => TypeOK
<1> SUFFICES ASSUME Init PROVE TypeOK
  OBVIOUS
<1>1. pc \in [Worker -> {"ready", "looked", "inspect", "remove", "create", "serve", "index",
                         "started", "proxy", "stop", "stopped"}]
  BY DEF Init
<1>2. saw \in [Request -> BOOLEAN] /\ faults \in 0 .. MaxFaults
  BY FaultsAssumption DEF Init
<1> QED
  BY <1>1, <1>2 DEF Init, TypeOK

\* A process goes on to another of the places it can stand at.
LEMMA GoType ==
  ASSUME TypeOK, NEW w \in Worker, NEW from,
         NEW to \in {"ready", "looked", "inspect", "remove", "create", "serve", "index",
                     "started", "proxy", "stop", "stopped"},
         Go(w, from, to)
  PROVE  pc' \in [Worker -> {"ready", "looked", "inspect", "remove", "create", "serve", "index",
                             "started", "proxy", "stop", "stopped"}]
  BY DEF TypeOK, Go

\* The faults stay within their bound.
LEMMA FaultType ==
  ASSUME TypeOK, Fault \/ UNCHANGED faults
  PROVE  faults' \in 0 .. MaxFaults
  BY FaultsAssumption DEF TypeOK, Fault

\* A removal, done or failed, leaves the whole of a pod or nothing.
LEMMA RemovalType ==
  ASSUME TypeOK, NEW left \in SUBSET {"left"}, Removal(left)
  PROVE  /\ podman' \subseteq {"pod"} \cup Container
         /\ podman' # {} => "pod" \in podman'
         /\ exited' \subseteq podman' \cap Container
         /\ faults' \in 0 .. MaxFaults
         /\ past' \subseteq {"admin", "left"}
<1>1. faults' \in 0 .. MaxFaults
  BY FaultType DEF Removal
<1> QED BY <1>1 DEF Removal, RemovePod, TypeOK, runtimeVars

\* The columns, podman and the process table under every action.
LEMMA TypeStep == TypeOK /\ [Next]_vars => TypeOK'
<1> SUFFICES ASSUME TypeOK, [Next]_vars PROVE TypeOK'
  OBVIOUS
<1> USE FaultsAssumption
<1>1. ASSUME NEW r \in Request, FindTenant(r) \/ TouchLastActive(r) \/ ProxyToTenantPod(r)
      PROVE TypeOK'
  <2>1. CASE FindTenant(r)
    BY <2>1 DEF FindTenant, Go, TypeOK, Worker, Container, rowVars, runtimeVars
  <2>2. CASE TouchLastActive(r)
    <3>1. pc' \in [Worker -> {"ready", "looked", "inspect", "remove", "create", "serve", "index",
                              "started", "proxy", "stop", "stopped"}]
      <4>1. CASE saw[r]
        BY <2>2, <4>1, GoType DEF TouchLastActive, Worker
      <4>2. CASE ~saw[r]
        BY <2>2, <4>2, GoType DEF TouchLastActive, Worker
      <4> QED BY <4>1, <4>2
    <3>2. faults' \in 0 .. MaxFaults
      BY <2>2, FaultType DEF TouchLastActive
    <3>3. idle' \in BOOLEAN
      BY <2>2, Zenon DEF TouchLastActive, TypeOK
    <3> QED BY <2>2, <3>1, <3>2, <3>3 DEF TouchLastActive, TypeOK, Container, runtimeVars
  <2>3. CASE ProxyToTenantPod(r)
    BY <2>3 DEF ProxyToTenantPod, Go, TypeOK, Worker, Container, rowVars, runtimeVars
  <2> QED BY <1>1, <2>1, <2>2, <2>3
<1>2. ASSUME NEW w \in Request \cup Operator, Start(w) PROVE TypeOK'
  <2>1. CASE PodIsRunning(w)
    BY <2>1 DEF PodIsRunning, Go, TypeOK, Worker, Container, rowVars, runtimeVars
  <2>5. CASE RemoveLeftover(w)
    <3>1. pc' \in [Worker -> {"ready", "looked", "inspect", "remove", "create", "serve", "index",
                              "started", "proxy", "stop", "stopped"}]
      BY <2>5, GoType DEF RemoveLeftover, Worker
    <3> QED BY <2>5, <3>1, RemovalType DEF RemoveLeftover, TypeOK, rowVars
  <2>2. CASE CreatePod(w) \/ RunServe(w) \/ RunIndex(w)
    BY <2>2 DEF CreatePod, RunServe, RunIndex, Make, Go, TypeOK, Worker, Container,
         rowVars, runtimeVars
  <2>3. CASE StartFails(w)
    BY <2>3 DEF StartFails, Fault, TypeOK, Worker, Container, rowVars, runtimeVars
  <2>4. CASE RecordPodStarted(w)
    <3>1. pc' \in [Worker -> {"ready", "looked", "inspect", "remove", "create", "serve", "index",
                              "started", "proxy", "stop", "stopped"}]
      <4>1. CASE w \in Request
        BY <2>4, <4>1, GoType DEF RecordPodStarted, Worker
      <4>2. CASE w \notin Request
        BY <2>4, <4>2, GoType DEF RecordPodStarted, Worker
      <4> QED BY <4>1, <4>2
    <3>2. faults' \in 0 .. MaxFaults
      BY <2>4, FaultType DEF RecordPodStarted
    <3>3. podRunning' \in BOOLEAN
      BY <2>4, Zenon DEF RecordPodStarted, TypeOK
    <3> QED BY <2>4, <3>1, <3>2, <3>3 DEF RecordPodStarted, TypeOK, Container, runtimeVars
  <2> QED BY <1>2, <2>1, <2>2, <2>3, <2>4, <2>5 DEF Start
<1>3. ASSUME NEW p \in Reaper, FindIdle(p) PROVE TypeOK'
  BY <1>3 DEF FindIdle, Go, TypeOK, Worker, Container, rowVars, runtimeVars
<1>4. ASSUME NEW w \in Reaper \cup Operator, Stop(w) PROVE TypeOK'
  <2>1. CASE StopPod(w)
    <3>1. pc' \in [Worker -> {"ready", "looked", "inspect", "remove", "create", "serve", "index",
                              "started", "proxy", "stop", "stopped"}]
      BY <2>1, GoType DEF StopPod, Worker
    <3> QED BY <2>1, <3>1, RemovalType DEF StopPod, TypeOK, rowVars
  <2>2. CASE RecordPodStopped(w)
    <3>1. pc' \in [Worker -> {"ready", "looked", "inspect", "remove", "create", "serve", "index",
                              "started", "proxy", "stop", "stopped"}]
      BY <2>2, GoType DEF RecordPodStopped, Worker
    <3>2. faults' \in 0 .. MaxFaults
      BY <2>2, FaultType DEF RecordPodStopped
    <3>3. podRunning' \in BOOLEAN
      BY <2>2, Zenon DEF RecordPodStopped, TypeOK
    <3> QED BY <2>2, <3>1, <3>2, <3>3 DEF RecordPodStopped, TypeOK, Container, runtimeVars
  <2> QED BY <1>4, <2>1, <2>2 DEF Stop
<1>5. ASSUME NEW o \in Operator, StartPod(o) \/ StopPodCommand(o) PROVE TypeOK'
  BY <1>5 DEF StartPod, StopPodCommand, Go, TypeOK, Worker, Container, rowVars, runtimeVars
<1>6. CASE BecomeIdle
  BY <1>6 DEF BecomeIdle, TypeOK, Worker, Container, runtimeVars, workerVars
<1>7. ASSUME NEW b \in BOOLEAN, SetAlwaysWarm(b) PROVE TypeOK'
  BY <1>7 DEF SetAlwaysWarm, TypeOK, Worker, Container, runtimeVars, workerVars
<1>8. ASSUME NEW c \in Container, ContainerExits(c) PROVE TypeOK'
  BY <1>8 DEF ContainerExits, Fault, TypeOK, Worker, Container, rowVars, workerVars
<1>9. ASSUME NEW w \in Worker, WorkerDies(w) PROVE TypeOK'
  BY <1>9 DEF WorkerDies, Fault, TypeOK, Worker, Container, rowVars, runtimeVars
<1>10. CASE UNCHANGED vars
  BY <1>10 DEF vars, rowVars, runtimeVars, workerVars, TypeOK, Worker, Container
<1> QED
  BY <1>1, <1>2, <1>3, <1>4, <1>5, <1>6, <1>7, <1>8, <1>9, <1>10 DEF Next

(* Every podman command and every statement keeps the row, what podman has *)
(* and the processes in their types, and no container is there without its *)
(* pod.                                                                    *)
THEOREM PodTypes == Spec => []TypeOK
<1>1. Init => TypeOK
  BY TypeInit
<1>2. TypeOK /\ [Next]_vars => TypeOK'
  BY TypeStep
<1> QED
  BY <1>1, <1>2, PTL DEF Spec

-----------------------------------------------------------------------------
(* The row kept honest: no failure, no admin command, one reaper.          *)

\* Where everybody stands after one process has gone on.
LEMMA GoMoves ==
  ASSUME TypeOK, NEW w \in Worker, NEW from, NEW to, Go(w, from, to)
  PROVE  pc[w] = from /\ pc'[w] = to /\ \A v \in Worker : v # w => pc'[v] = pc[v]
  BY DEF TypeOK, Go

LEMMA NoFault == ASSUME TypeOK, faults' = 0 PROVE ~Fault
  BY DEF TypeOK, Fault

LEMMA HonestRequest ==
  ASSUME TypeOK, Honest, NEW r \in Request, faults' = 0,
         FindTenant(r) \/ TouchLastActive(r) \/ ProxyToTenantPod(r)
  PROVE  Honest'
<1> USE WorkersDisjoint DEF Worker
<1>1. CASE FindTenant(r)
  <2>1. pc[r] = "ready" /\ pc'[r] = "looked" /\ \A v \in Worker : v # r => pc'[v] = pc[v]
    BY <1>1, GoMoves DEF FindTenant
  <2>2. saw'[r] = podRunning /\ \A v \in Request : v # r => saw'[v] = saw[v]
    BY <1>1 DEF FindTenant, TypeOK
  <2>3. NobodyStarts => NobodyStarts'
    BY <2>1 DEF NobodyStarts, Starting
  <2>4. IdleAlone' /\ ReaperAlone'
    BY <1>1, <2>1, <2>2, <2>3 DEF Honest, IdleAlone, ReaperAlone, FindTenant, rowVars, runtimeVars
  <2> QED
    BY <1>1, <2>1, <2>4 DEF Honest, PodComes, ServeComes, IndexComes, RecordComes, FindTenant,
         rowVars, runtimeVars
<1>2. CASE TouchLastActive(r)
  <2> DEFINE to == IF saw[r] THEN "proxy" ELSE "inspect"
  <2>1. pc[r] = "looked" /\ pc'[r] = to /\ \A v \in Worker : v # r => pc'[v] = pc[v]
    BY <1>2, GoMoves DEF TouchLastActive
  <2>2. idle' = FALSE
    BY <1>2, NoFault DEF TouchLastActive
  <2>3. IdleAlone'
    BY <2>2 DEF IdleAlone
  <2>4. ReaperAlone'
    BY <1>2, <2>1 DEF Honest, ReaperAlone, NobodyStarts, Starting, TouchLastActive, runtimeVars
  <2> QED
    BY <1>2, <2>1, <2>3, <2>4 DEF Honest, PodComes, ServeComes, IndexComes, RecordComes,
         TouchLastActive, runtimeVars
<1>3. CASE ProxyToTenantPod(r)
  <2>1. pc[r] = "proxy" /\ pc'[r] = "ready" /\ \A v \in Worker : v # r => pc'[v] = pc[v]
    BY <1>3, GoMoves DEF ProxyToTenantPod
  <2>2. NobodyStarts => NobodyStarts'
    BY <2>1 DEF NobodyStarts, Starting
  <2>3. IdleAlone' /\ ReaperAlone'
    BY <1>3, <2>1, <2>2 DEF Honest, IdleAlone, ReaperAlone, ProxyToTenantPod, rowVars, runtimeVars
  <2> QED
    BY <1>3, <2>1, <2>3 DEF Honest, PodComes, ServeComes, IndexComes, RecordComes,
         ProxyToTenantPod, rowVars, runtimeVars
<1> QED BY <1>1, <1>2, <1>3

(***************************************************************************)
(* A process that starts the pod finds no reaper at work and the idle      *)
(* timeout not passed: whatever it does, both stay so.                     *)
(***************************************************************************)
LEMMA StarterAlone ==
  ASSUME TypeOK, Honest, NEW r \in Request, pc[r] \in Starting,
         UNCHANGED <<idle, saw>>,
         \A v \in Worker : v # r => pc'[v] = pc[v]
  PROVE  /\ \A p \in Reaper : pc[p] \notin {"stop", "stopped"}
         /\ IdleAlone' /\ ReaperAlone'
<1> USE WorkersDisjoint DEF Worker
<1>1. ~idle
  BY DEF Honest, IdleAlone, NobodyStarts
<1>2. \A p \in Reaper : pc[p] \notin {"stop", "stopped"}
  BY DEF Honest, ReaperAlone, NobodyStarts
<1>3. \A p \in Reaper : pc'[p] = pc[p]
  OBVIOUS
<1> QED
  BY <1>1, <1>2, <1>3 DEF IdleAlone, ReaperAlone

LEMMA HonestStart ==
  ASSUME TypeOK, Honest, NEW r \in Request, faults' = 0, Start(r)
  PROVE  Honest'
<1> USE WorkersDisjoint DEF Worker
<1>1. CASE PodIsRunning(r)
  <2> DEFINE to == IF Running THEN "started" ELSE "remove"
  <2>1. pc[r] = "inspect" /\ pc'[r] = to /\ \A v \in Worker : v # r => pc'[v] = pc[v]
    BY <1>1, GoMoves DEF PodIsRunning
  <2>2. IdleAlone' /\ ReaperAlone'
    BY <1>1, <2>1, StarterAlone DEF PodIsRunning, Starting, rowVars
  <2>3. podman = {} => pc'[r] = "remove"
    BY <2>1 DEF Running
  <2>4. PodComes'
    BY <1>1, <2>1, <2>3 DEF Honest, PodComes, PodIsRunning, rowVars, runtimeVars
  <2> QED
    BY <1>1, <2>1, <2>2, <2>4 DEF Honest, ServeComes, IndexComes, RecordComes, PodIsRunning,
         rowVars, runtimeVars
<1>2. CASE RemoveLeftover(r)
  <2>1. pc[r] = "remove" /\ pc'[r] = "create" /\ \A v \in Worker : v # r => pc'[v] = pc[v]
    BY <1>2, GoMoves DEF RemoveLeftover
  <2>2. IdleAlone' /\ ReaperAlone'
    BY <1>2, <2>1, StarterAlone DEF RemoveLeftover, Starting, rowVars
  <2>3. ~Fault
    BY NoFault
  <2> QED
    BY <1>2, <2>1, <2>2, <2>3 DEF Honest, PodComes, ServeComes, IndexComes, RecordComes,
         RemoveLeftover, Removal, RemovePod
<1>3. CASE CreatePod(r)
  <2>1. pc[r] = "create" /\ pc'[r] = "serve" /\ \A v \in Worker : v # r => pc'[v] = pc[v]
    BY <1>3, GoMoves DEF CreatePod, Make
  <2>2. IdleAlone' /\ ReaperAlone'
    BY <1>3, <2>1, StarterAlone DEF CreatePod, Make, Starting, rowVars
  <2>3. podman' = {"pod"}
    BY <1>3 DEF CreatePod, Make, TypeOK
  <2> QED
    BY <1>3, <2>1, <2>2, <2>3 DEF Honest, PodComes, ServeComes, IndexComes, RecordComes,
         CreatePod, Make
<1>4. CASE RunServe(r)
  <2>1. pc[r] = "serve" /\ pc'[r] = "index" /\ \A v \in Worker : v # r => pc'[v] = pc[v]
    BY <1>4, GoMoves DEF RunServe, Make
  <2>2. IdleAlone' /\ ReaperAlone'
    BY <1>4, <2>1, StarterAlone DEF RunServe, Make, Starting, rowVars
  <2>3. podman' = podman \cup {"serve"} /\ exited' = exited /\ podRunning' = podRunning
    BY <1>4 DEF RunServe, Make, rowVars
  <2>4. RecordComes'
    BY <2>1, <2>3 DEF Honest, RecordComes
  <2> QED
    BY <2>1, <2>2, <2>3, <2>4 DEF Honest, PodComes, ServeComes, IndexComes
<1>5. CASE RunIndex(r)
  <2>1. pc[r] = "index" /\ pc'[r] = "started" /\ \A v \in Worker : v # r => pc'[v] = pc[v]
    BY <1>5, GoMoves DEF RunIndex, Make
  <2>2. IdleAlone' /\ ReaperAlone'
    BY <1>5, <2>1, StarterAlone DEF RunIndex, Make, Starting, rowVars
  <2>3. podman' = podman \cup {"index"} /\ exited' = exited /\ podRunning' = podRunning
    BY <1>5 DEF RunIndex, Make, rowVars
  <2>4. ServeComes'
    BY <2>1, <2>3 DEF Honest, ServeComes
  <2> QED
    BY <2>1, <2>2, <2>3, <2>4 DEF Honest, PodComes, IndexComes, RecordComes
<1>6. CASE StartFails(r)
  <2>1. Refused(r)
    BY <1>6, NoFault DEF StartFails
  <2>2. /\ pc[r] \in {"inspect", "remove", "create", "serve", "index"}
        /\ \A v \in Worker : v # r => pc'[v] = pc[v]
    BY <1>6 DEF StartFails, TypeOK
  <2>3. IdleAlone' /\ ReaperAlone'
    BY <1>6, <2>2, StarterAlone DEF StartFails, Starting, rowVars
  <2>4. podRunning' = podRunning /\ podman' = podman /\ exited' = exited /\ pc'[r] = "ready"
    BY <1>6 DEF StartFails, rowVars, runtimeVars, TypeOK
  <2>5. PodComes'
    BY <2>1, <2>2, <2>4, StarterAlone DEF Honest, PodComes, Refused, TypeOK
  <2>6. ServeComes' /\ IndexComes' /\ RecordComes'
    BY <2>1, <2>2, <2>4 DEF Honest, ServeComes, IndexComes, RecordComes, Refused, TypeOK
  <2> QED BY <2>3, <2>4, <2>5, <2>6 DEF Honest
<1>7. CASE RecordPodStarted(r)
  <2>1. pc[r] = "started" /\ pc'[r] = "proxy" /\ \A v \in Worker : v # r => pc'[v] = pc[v]
    BY <1>7, GoMoves DEF RecordPodStarted
  <2>2. podRunning' = TRUE
    BY <1>7, NoFault DEF RecordPodStarted
  <2>3. /\ IdleAlone' /\ ReaperAlone'
        /\ \A p \in Reaper : pc[p] \notin {"stop", "stopped"}
    BY <1>7, <2>1, StarterAlone DEF RecordPodStarted, Starting
  <2>4. PodComes'
    BY <1>7, <2>1, <2>3 DEF Honest, PodComes, RecordPodStarted, runtimeVars
  <2> QED
    BY <1>7, <2>1, <2>2, <2>3, <2>4 DEF Honest, ServeComes, IndexComes, RecordComes,
         RecordPodStarted, runtimeVars
<1> QED BY <1>1, <1>2, <1>3, <1>4, <1>5, <1>6, <1>7 DEF Start

LEMMA HonestReaper ==
  ASSUME TypeOK, Honest, \A p, q \in Reaper : p = q, NEW p \in Reaper, faults' = 0,
         FindIdle(p) \/ Stop(p)
  PROVE  Honest'
<1> USE WorkersDisjoint DEF Worker
<1>1. CASE FindIdle(p)
  <2>1. pc[p] = "ready" /\ pc'[p] = "stop" /\ \A v \in Worker : v # p => pc'[v] = pc[v]
    BY <1>1, GoMoves DEF FindIdle
  <2>2. \A v \in Request : pc'[v] = pc[v]
    BY <2>1
  <2>3. IdleAlone' /\ ReaperAlone'
    BY <1>1, <2>1, <2>2 DEF Honest, IdleAlone, ReaperAlone, NobodyStarts, FindIdle, rowVars
  <2> QED
    BY <1>1, <2>1, <2>2, <2>3 DEF Honest, PodComes, ServeComes, IndexComes, RecordComes,
         FindIdle, rowVars, runtimeVars
<1>2. CASE StopPod(p)
  <2>1. pc[p] = "stop" /\ pc'[p] = "stopped" /\ \A v \in Worker : v # p => pc'[v] = pc[v]
    BY <1>2, GoMoves DEF StopPod
  <2>2. \A v \in Request : pc'[v] = pc[v]
    BY <2>1
  <2>3. podman' = {} /\ exited' = {} /\ UNCHANGED <<podRunning, idle, saw>>
    BY <1>2, NoFault DEF StopPod, Removal, RemovePod, rowVars
  <2>4. IdleAlone' /\ ReaperAlone'
    BY <2>1, <2>2, <2>3 DEF Honest, IdleAlone, ReaperAlone, NobodyStarts
  <2> QED
    BY <2>1, <2>3, <2>4 DEF Honest, PodComes, ServeComes, IndexComes, RecordComes
<1>3. CASE RecordPodStopped(p)
  <2>1. pc[p] = "stopped" /\ pc'[p] = "ready" /\ \A v \in Worker : v # p => pc'[v] = pc[v]
    BY <1>3, GoMoves DEF RecordPodStopped
  <2>2. \A v \in Request : pc'[v] = pc[v]
    BY <2>1
  <2>3. podRunning' = FALSE /\ UNCHANGED <<podman, exited, idle, saw>>
    BY <1>3, NoFault DEF RecordPodStopped, runtimeVars
  <2>4. podman = {} /\ NobodyStarts
    BY <2>1 DEF Honest, ReaperAlone
  <2>5. IdleAlone' /\ ReaperAlone'
    BY <2>1, <2>2, <2>3 DEF Honest, IdleAlone, ReaperAlone, NobodyStarts
  <2> QED
    BY <2>2, <2>3, <2>4, <2>5 DEF Honest, PodComes, ServeComes, IndexComes, RecordComes,
         NobodyStarts, Starting
<1> QED BY <1>1, <1>2, <1>3 DEF Stop

LEMMA HonestStep ==
  ASSUME \A p, q \in Reaper : p = q, TypeOK, HonestInv, [Next]_vars
  PROVE  HonestInv'
<1> SUFFICES ASSUME faults' = 0, "admin" \notin past'
             PROVE  Honest' /\ \A o \in Operator : pc'[o] = "ready"
  BY DEF HonestInv
<1>1. TypeOK'
  BY TypeStep
<1>2. ~Fault
  BY NoFault
<1>3. UNCHANGED faults
  BY <1>2 DEF Next, vars, FindTenant, TouchLastActive, ProxyToTenantPod, Start, PodIsRunning,
       RemoveLeftover, Removal, CreatePod, RunServe, RunIndex, Make, StartFails,
       RecordPodStarted, FindIdle, Stop, StopPod, RecordPodStopped, StartPod, StopPodCommand,
       BecomeIdle, SetAlwaysWarm, ContainerExits, WorkerDies
<1>4. "admin" \notin past
  BY DEF Next, vars, FindTenant, TouchLastActive, ProxyToTenantPod, Start, PodIsRunning,
       RemoveLeftover, Removal, RemovePod, CreatePod, RunServe, RunIndex, Make, StartFails,
       RecordPodStarted, FindIdle, Stop, StopPod, RecordPodStopped, StartPod, StopPodCommand,
       BecomeIdle, SetAlwaysWarm, ContainerExits, WorkerDies
<1>5. Honest /\ \A o \in Operator : pc[o] = "ready"
  BY <1>3, <1>4 DEF HonestInv
<1>6. ASSUME NEW o \in Operator PROVE ~Start(o) /\ ~Stop(o) /\ ~StartPod(o) /\ ~StopPodCommand(o)
  <2>1. pc[o] = "ready"
    BY <1>5
  <2>2. ~Start(o) /\ ~Stop(o)
    BY <2>1 DEF Start, Stop, PodIsRunning, RemoveLeftover, CreatePod, RunServe, RunIndex, Make,
         StartFails, RecordPodStarted, StopPod, RecordPodStopped, Go
  <2> QED BY <2>2 DEF StartPod, StopPodCommand
<1>7. ASSUME NEW r \in Request,
             FindTenant(r) \/ TouchLastActive(r) \/ ProxyToTenantPod(r) \/ Start(r)
      PROVE  Honest' /\ \A o \in Operator : pc'[o] = "ready"
  <2>1. Honest'
    BY <1>5, <1>7, HonestRequest, HonestStart
  <2>2. \A w \in Worker : w # r => pc'[w] = pc[w]
    BY <1>7 DEF FindTenant, TouchLastActive, ProxyToTenantPod, Start, PodIsRunning,
         RemoveLeftover, CreatePod, RunServe, RunIndex, Make, StartFails, RecordPodStarted, Go,
         TypeOK
  <2> QED BY <1>5, <2>1, <2>2, WorkersDisjoint DEF Worker
<1>8. ASSUME NEW p \in Reaper, FindIdle(p) \/ Stop(p)
      PROVE  Honest' /\ \A o \in Operator : pc'[o] = "ready"
  <2>1. Honest'
    BY <1>5, <1>8, HonestReaper
  <2>2. \A w \in Worker : w # p => pc'[w] = pc[w]
    BY <1>8 DEF FindIdle, Stop, StopPod, RecordPodStopped, Go, TypeOK
  <2> QED BY <1>5, <2>1, <2>2, WorkersDisjoint DEF Worker
<1>9. CASE BecomeIdle
  <2>1. UNCHANGED <<podRunning, podman, exited, pc, saw>>
    BY <1>9 DEF BecomeIdle, runtimeVars, workerVars
  <2>2. \A w \in Worker : pc[w] \in {"ready", "proxy"}
    BY <1>9 DEF BecomeIdle
  <2>3. IdleAlone' /\ ReaperAlone'
    BY <2>1, <2>2 DEF IdleAlone, ReaperAlone, NobodyStarts, Starting, Worker
  <2> QED
    BY <1>5, <2>1, <2>3 DEF Honest, PodComes, ServeComes, IndexComes, RecordComes
<1>10. CASE UNCHANGED <<podRunning, idle, runtimeVars, workerVars>>
  BY <1>5, <1>10 DEF Honest, IdleAlone, NobodyStarts, ReaperAlone, PodComes, ServeComes,
       IndexComes, RecordComes, runtimeVars, workerVars
<1> QED
  BY <1>2, <1>6, <1>7, <1>8, <1>9, <1>10 DEF Next, SetAlwaysWarm, ContainerExits,
       WorkerDies, vars, rowVars

(***************************************************************************)
(* With one reaper, and until the first admin command or failure, the row  *)
(* of a tenant says whether its pod is up whenever nobody is at work on    *)
(* the pod (record_pod_started, record_pod_stopped), however many requests *)
(* start it at once, remove each other's half-made pods and are refused.   *)
(***************************************************************************)
THEOREM RowKeptHonest ==
  ASSUME \A p, q \in Reaper : p = q
  PROVE  Spec => []KeptHonest
<1>1. Init => TypeOK /\ HonestInv
  <2>1. Init => TypeOK
    BY TypeInit
  <2>2. Init => HonestInv
    BY WorkersDisjoint DEF Init, HonestInv, Honest, IdleAlone, NobodyStarts, Starting, ReaperAlone,
         PodComes, ServeComes, IndexComes, RecordComes, Worker
  <2> QED BY <2>1, <2>2
<1>2. TypeOK /\ HonestInv /\ [Next]_vars => TypeOK' /\ HonestInv'
  BY TypeStep, HonestStep
<1>3. TypeOK /\ HonestInv => KeptHonest
  <2> SUFFICES ASSUME TypeOK, Honest, \A w \in Worker : pc[w] \in {"ready", "looked", "proxy"}
               PROVE  podRunning <=> PodUp
    BY DEF HonestInv, KeptHonest, RowIsHonest
  <2>1. ASSUME podRunning PROVE PodUp
    <3>1. podman # {}
      BY <2>1 DEF Honest, PodComes, Worker
    <3>2. "pod" \in podman
      BY <3>1 DEF TypeOK
    <3>3. "serve" \in podman
      BY <3>2 DEF Honest, ServeComes, Worker
    <3>4. "index" \in podman
      BY <3>3 DEF Honest, IndexComes, Worker
    <3> QED BY <3>2, <3>3, <3>4 DEF PodUp, Container, TypeOK, Honest
  <2>2. PodUp => podRunning
    BY DEF TypeOK, Honest, RecordComes, PodUp, Worker, Container
  <2> QED BY <2>1, <2>2 DEF TypeOK
<1> QED
  BY <1>1, <1>2, <1>3, PTL DEF Spec

=============================================================================
