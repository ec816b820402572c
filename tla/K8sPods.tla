------------------------------ MODULE K8sPods ------------------------------
(* The Kubernetes backend (k8s_orchestrator.rs): a tenant is four objects.    *)
(* start_pod applies them one API request at a time, in the order of the      *)
(* manifest; stop_pod deletes them in the order of its arguments and waits    *)
(* for the pods, which go on running until their grace period is over. Front  *)
(* door, reaper and operator call both with nothing to keep them apart, and   *)
(* each writes the one kubeconfig anew when it starts.                        *)
EXTENDS Naturals, Sequences

CONSTANTS
  Callers,     \* processes that start or stop the tenant
  MaxCalls     \* bound: calls

VARIABLES
  object,      \* of each object: absent, up, or ending
  call,        \* of each caller: what is left of its kubectl call, and whether it has failed
  podCalls,
  process,     \* of each caller: down, writing the kubeconfig, or up
  kubeconfig,  \* absent, torn, or whole
  alone,       \* no call has overlapped another or found a pod ending
  settled,     \* what the last call reported, until the next one begins
  refused      \* history: a request has been refused since a call last succeeded

k8sVars == <<object, call, podCalls, process, kubeconfig, alone, settled, refused>>

Pods == {"serve pod", "index pod"}
NoCall == [verb |-> "none", left |-> <<>>, failed |-> FALSE]

\* fault: the policy applied after the pod it is for
Manifest_PolicyLast == <<"serve pod", "index pod", "network policy", "service">>

(* tenant_manifest: one document after the other, the policy first.           *)
Manifest == <<"network policy", "serve pod", "index pod", "service">>

Doomed == <<"serve pod", "index pod", "service", "network policy">>

Objects == {"network policy", "serve pod", "index pod", "service"}

-----------------------------------------------------------------------------

(* KubernetesOrchestrator::new: without a namespace or the addresses a pod is *)
(* given, the process ends before it serves anything.                         *)
Configure(c) ==
  /\ process[c] = "down"
  /\ process' = [process EXCEPT ![c] = "writing"]
  /\ kubeconfig' = "torn"
  /\ UNCHANGED <<object, call, podCalls, alone, settled, refused>>

WriteKubeconfig(c) ==
  /\ process[c] = "writing"
  /\ \/ process' = [process EXCEPT ![c] = "up"] /\ kubeconfig' = "whole"
     \/ process' = [process EXCEPT ![c] = "down"] /\ UNCHANGED kubeconfig
  /\ UNCHANGED <<object, call, podCalls, alone, settled, refused>>

(* A reaper's run or an operator's command is over.                           *)
Exits(c) ==
  /\ process[c] = "up" /\ call[c] = NoCall
  /\ process' = [process EXCEPT ![c] = "down"]
  /\ UNCHANGED <<object, call, podCalls, kubeconfig, alone, settled, refused>>

(* kubectl reads the kubeconfig as it starts, and fails on a torn one.        *)
BeginCall(c, verb, left) ==
  /\ process[c] = "up" /\ kubeconfig = "whole"
  /\ call[c] = NoCall
  /\ podCalls < MaxCalls
  /\ podCalls' = podCalls + 1
  /\ call' = [call EXCEPT ![c] = [verb |-> verb, left |-> left, failed |-> FALSE]]
  /\ alone' = (alone /\ (\A d \in Callers : call[d] = NoCall) /\ (\A p \in Pods : object[p] # "ending"))
  /\ settled' = "no"
  /\ UNCHANGED <<object, process, kubeconfig, refused>>

StartPod(c) == BeginCall(c, "apply", Manifest)
StopPod(c) == BeginCall(c, "delete", Doomed)

Advance(c) == call' = [call EXCEPT ![c].left = Tail(@)]

(* kubectl apply: what exists, even if it is ending, stays as it is.          *)
Apply(c) ==
  /\ call[c].verb = "apply" /\ call[c].left # <<>>
  /\ object' = [object EXCEPT ![Head(call[c].left)] = IF @ = "absent" THEN "up" ELSE @]
  /\ Advance(c)
  /\ UNCHANGED <<podCalls, process, kubeconfig, alone, settled, refused>>

(* kubectl delete --ignore-not-found: a pod is told to end.                   *)
Delete(c) ==
  /\ call[c].verb = "delete" /\ call[c].left # <<>>
  /\ LET o == Head(call[c].left)
     IN  object' = [object EXCEPT ![o] =
           IF @ = "absent" \/ o \notin Pods THEN "absent" ELSE "ending"]
  /\ Advance(c)
  /\ UNCHANGED <<podCalls, process, kubeconfig, alone, settled, refused>>

(* kubectl goes on to the next object after a request that is refused, and    *)
(* reports the failure when it comes to its end.                              *)
ObjectRefused(c) ==
  /\ call[c].left # <<>>
  /\ call' = [call EXCEPT ![c].left = Tail(@), ![c].failed = TRUE]
  /\ refused' = TRUE
  /\ UNCHANGED <<object, podCalls, process, kubeconfig, alone, settled>>

(* The call reports a failure: at its end, or because kubectl or its caller   *)
(* dies between two requests or while it waits.                               *)
CallFails(c) ==
  /\ call[c] # NoCall
  /\ call' = [call EXCEPT ![c] = NoCall]
  /\ settled' = "no"
  /\ UNCHANGED <<object, podCalls, process, kubeconfig, alone, refused>>

(* The call succeeds: a delete when the pods it waits for have gone.          *)
CallEnds(c) ==
  /\ call[c] # NoCall /\ call[c].left = <<>> /\ ~call[c].failed
  /\ call[c].verb = "delete" => \A p \in Pods : object[p] # "ending"
  /\ call' = [call EXCEPT ![c] = NoCall]
  /\ settled' = IF \A d \in Callers \ {c} : call[d] = NoCall THEN call[c].verb ELSE "no"
  /\ refused' = FALSE
  /\ UNCHANGED <<object, podCalls, process, kubeconfig, alone>>

(* The grace period of a pod is over.                                         *)
GraceEnds(p) ==
  /\ object[p] = "ending"
  /\ object' = [object EXCEPT ![p] = "absent"]
  /\ UNCHANGED <<call, podCalls, process, kubeconfig, alone, settled, refused>>

K8sInit ==
  /\ object = [o \in Objects |-> "absent"]
  /\ call = [c \in Callers |-> NoCall]
  /\ podCalls = 0
  /\ process = [c \in Callers |-> "down"] /\ kubeconfig = "absent"
  /\ alone = TRUE /\ settled = "no" /\ refused = FALSE

K8sNext ==
  \/ \E c \in Callers :
       \/ Configure(c) \/ WriteKubeconfig(c) \/ Exits(c)
       \/ StartPod(c) \/ StopPod(c) \/ Apply(c) \/ Delete(c)
       \/ ObjectRefused(c) \/ CallFails(c) \/ CallEnds(c)
  \/ \E p \in Pods : GraceEnds(p)

K8sSpec == K8sInit /\ [][K8sNext]_k8sVars

-----------------------------------------------------------------------------

(* As long as calls do not overlap, whatever earlier ones left half done: a   *)
(* start that reports success leaves all four objects up, a stop leaves none. *)
(* And wherever a call is cut off, the index pod is never up without the      *)
(* policy that denies it the network ("the NetworkPolicy document comes       *)
(* first", k8s_orchestrator.rs) - until a request is refused: an apply goes   *)
(* on to the pod after its policy is refused, a delete to the policy after    *)
(* the pod is. The next call that succeeds sets that right.                   *)
LoneCallsAreExact ==
  alone =>
    /\ settled = "apply" => \A o \in Objects : object[o] = "up"
    /\ settled = "delete" => \A o \in Objects : object[o] = "absent"
    /\ ~refused /\ object["index pod"] = "up" => object["network policy"] = "up"

=============================================================================
