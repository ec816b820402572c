----------------------------- MODULE ProcessProofs -----------------------------
(***************************************************************************)
(* Processes that nothing keeps apart: kubectl calls on a tenant's pods,    *)
(* invocations of wkp that count themselves, and a question to the index    *)
(* that an index run overtakes; proved for any number of processes, calls,  *)
(* failures, items and index runs. And the frontmatter of an item, written  *)
(* back from any block of lines.                                            *)
(***************************************************************************)
EXTENDS K8sPods, Invocation, Retrieval, Frontmatter, Integers, SequenceTheorems, FiniteSetTheorems,
        WellFoundedInduction, TLAPS

States == {"absent", "up", "ending"}

NetPolicy == "network policy"
ServePod == "serve pod"
IndexPod == "index pod"
Service == "service"

ApplyLefts ==
  {<<NetPolicy, ServePod, IndexPod, Service>>, <<ServePod, IndexPod, Service>>,
   <<IndexPod, Service>>, <<Service>>, <<>>}
DeleteLefts ==
  {<<ServePod, IndexPod, Service, NetPolicy>>, <<IndexPod, Service, NetPolicy>>,
   <<Service, NetPolicy>>, <<NetPolicy>>, <<>>}

PodCalls ==
  [verb : {"apply"}, left : ApplyLefts, failed : BOOLEAN] \cup
  [verb : {"delete"}, left : DeleteLefts, failed : BOOLEAN]

K8sTypes ==
  /\ object \in [Objects -> States] /\ \A o \in Objects \ Pods : object[o] # "ending"
  /\ call \in [Callers -> PodCalls \cup {NoCall}]
  /\ settled \in {"no", "apply", "delete"} /\ alone \in BOOLEAN /\ refused \in BOOLEAN

\* The objects a call has not come to yet.
Pending(left) == {left[i] : i \in 1..Len(left)}

SettledIsQuiet == settled # "no" => \A c \in Callers : call[c] = NoCall

\* How far the only call there is has come, if nothing it asked for was refused.
Proceeds(c) ==
  /\ \A d \in Callers : call[d] # NoCall => d = c
  /\ call[c].verb = "apply" => \A o \in Objects : object[o] # "ending"
  /\ call[c].failed => refused
  /\ call[c].verb = "apply" /\ ~call[c].failed =>
       \A o \in Objects \ Pending(call[c].left) : object[o] = "up"
  /\ call[c].verb = "delete" /\ ~call[c].failed =>
       \A o \in Objects \ Pending(call[c].left) : object[o] = "absent" \/ (o \in Pods /\ object[o] = "ending")

LoneCallsProceed == alone => \A c \in Callers : call[c] # NoCall => Proceeds(c)

K8sInv == K8sTypes /\ SettledIsQuiet /\ LoneCallsProceed /\ LoneCallsAreExact

-----------------------------------------------------------------------------
(* The lists of objects.                                                   *)

LEMMA FourObjects ==
  /\ Objects = {NetPolicy, ServePod, IndexPod, Service} /\ Pods = {ServePod, IndexPod}
  /\ NetPolicy # ServePod /\ NetPolicy # IndexPod /\ NetPolicy # Service
  /\ ServePod # IndexPod /\ ServePod # Service /\ IndexPod # Service
  BY DEF Objects, Pods, NetPolicy, ServePod, IndexPod, Service

LEMMA ManifestLists ==
  /\ Manifest = <<NetPolicy, ServePod, IndexPod, Service>>
  /\ Doomed = <<ServePod, IndexPod, Service, NetPolicy>>
  BY DEF Manifest, Doomed, NetPolicy, ServePod, IndexPod, Service

LEMMA PendingOf ==
  /\ Pending(<<>>) = {}
  /\ \A a : Pending(<<a>>) = {a}
  /\ \A a, b : Pending(<<a, b>>) = {a, b}
  /\ \A a, b, c : Pending(<<a, b, c>>) = {a, b, c}
  /\ \A a, b, c, d : Pending(<<a, b, c, d>>) = {a, b, c, d}
  BY DEF Pending

LEMMA TailOf ==
  /\ \A a : Tail(<<a>>) = <<>> /\ Head(<<a>>) = a
  /\ \A a, b : Tail(<<a, b>>) = <<b>> /\ Head(<<a, b>>) = a
  /\ \A a, b, c : Tail(<<a, b, c>>) = <<b, c>> /\ Head(<<a, b, c>>) = a
  /\ \A a, b, c, d : Tail(<<a, b, c, d>>) = <<b, c, d>> /\ Head(<<a, b, c, d>>) = a
  OBVIOUS

LEMMA ApplyAdvances ==
  ASSUME NEW left \in ApplyLefts, left # <<>>
  PROVE  /\ Head(left) \in Objects /\ Tail(left) \in ApplyLefts
         /\ Pending(Tail(left)) = Pending(left) \ {Head(left)}
         /\ Head(left) = IndexPod => NetPolicy \notin Pending(left)
<1>1. CASE left = <<NetPolicy, ServePod, IndexPod, Service>>
  <2>1. Head(left) = NetPolicy /\ Tail(left) = <<ServePod, IndexPod, Service>>
    BY <1>1, TailOf
  <2>2. Pending(left) = {NetPolicy, ServePod, IndexPod, Service} /\ Pending(Tail(left)) = {ServePod, IndexPod, Service}
    BY <1>1, <2>1, PendingOf
  <2> QED BY <2>1, <2>2, FourObjects DEF ApplyLefts
<1>2. CASE left = <<ServePod, IndexPod, Service>>
  <2>1. Head(left) = ServePod /\ Tail(left) = <<IndexPod, Service>>
    BY <1>2, TailOf
  <2>2. Pending(left) = {ServePod, IndexPod, Service} /\ Pending(Tail(left)) = {IndexPod, Service}
    BY <1>2, <2>1, PendingOf
  <2> QED BY <2>1, <2>2, FourObjects DEF ApplyLefts
<1>3. CASE left = <<IndexPod, Service>>
  <2>1. Head(left) = IndexPod /\ Tail(left) = <<Service>>
    BY <1>3, TailOf
  <2>2. Pending(left) = {IndexPod, Service} /\ Pending(Tail(left)) = {Service}
    BY <1>3, <2>1, PendingOf
  <2> QED BY <2>1, <2>2, FourObjects DEF ApplyLefts
<1>4. CASE left = <<Service>>
  <2>1. Head(left) = Service /\ Tail(left) = <<>>
    BY <1>4, TailOf
  <2>2. Pending(left) = {Service} /\ Pending(Tail(left)) = {}
    BY <1>4, <2>1, PendingOf
  <2> QED BY <2>1, <2>2, FourObjects DEF ApplyLefts
<1> QED BY <1>1, <1>2, <1>3, <1>4 DEF ApplyLefts

LEMMA DeleteAdvances ==
  ASSUME NEW left \in DeleteLefts, left # <<>>
  PROVE  /\ Head(left) \in Objects /\ Tail(left) \in DeleteLefts
         /\ Pending(Tail(left)) = Pending(left) \ {Head(left)}
         /\ Head(left) = NetPolicy => IndexPod \notin Pending(left)
<1>1. CASE left = <<ServePod, IndexPod, Service, NetPolicy>>
  <2>1. Head(left) = ServePod /\ Tail(left) = <<IndexPod, Service, NetPolicy>>
    BY <1>1, TailOf
  <2>2. Pending(left) = {ServePod, IndexPod, Service, NetPolicy} /\ Pending(Tail(left)) = {IndexPod, Service, NetPolicy}
    BY <1>1, <2>1, PendingOf
  <2> QED BY <2>1, <2>2, FourObjects DEF DeleteLefts
<1>2. CASE left = <<IndexPod, Service, NetPolicy>>
  <2>1. Head(left) = IndexPod /\ Tail(left) = <<Service, NetPolicy>>
    BY <1>2, TailOf
  <2>2. Pending(left) = {IndexPod, Service, NetPolicy} /\ Pending(Tail(left)) = {Service, NetPolicy}
    BY <1>2, <2>1, PendingOf
  <2> QED BY <2>1, <2>2, FourObjects DEF DeleteLefts
<1>3. CASE left = <<Service, NetPolicy>>
  <2>1. Head(left) = Service /\ Tail(left) = <<NetPolicy>>
    BY <1>3, TailOf
  <2>2. Pending(left) = {Service, NetPolicy} /\ Pending(Tail(left)) = {NetPolicy}
    BY <1>3, <2>1, PendingOf
  <2> QED BY <2>1, <2>2, FourObjects DEF DeleteLefts
<1>4. CASE left = <<NetPolicy>>
  <2>1. Head(left) = NetPolicy /\ Tail(left) = <<>>
    BY <1>4, TailOf
  <2>2. Pending(left) = {NetPolicy} /\ Pending(Tail(left)) = {}
    BY <1>4, <2>1, PendingOf
  <2> QED BY <2>1, <2>2, FourObjects DEF DeleteLefts
<1> QED BY <1>1, <1>2, <1>3, <1>4 DEF DeleteLefts

LEMMA CallsStart ==
  /\ Manifest \in ApplyLefts /\ Pending(Manifest) = Objects
  /\ Doomed \in DeleteLefts /\ Pending(Doomed) = Objects
  /\ Pending(<<>>) = {}
<1>1. Pending(Manifest) = {NetPolicy, ServePod, IndexPod, Service}
  BY ManifestLists, PendingOf
<1>2. Pending(Doomed) = {ServePod, IndexPod, Service, NetPolicy}
  BY ManifestLists, PendingOf
<1>3. Manifest \in ApplyLefts /\ Doomed \in DeleteLefts
  BY ManifestLists DEF ApplyLefts, DeleteLefts
<1> QED BY <1>1, <1>2, <1>3, FourObjects, PendingOf

-----------------------------------------------------------------------------
(* Calls on a tenant's pods.                                               *)

LEMMA CallsAre ==
  ASSUME K8sTypes, NEW c \in Callers
  PROVE  /\ call[c].verb = "apply" => call[c].left \in ApplyLefts /\ call[c] # NoCall
         /\ call[c].verb = "delete" => call[c].left \in DeleteLefts /\ call[c] # NoCall
         /\ call[c] # NoCall => call[c].verb \in {"apply", "delete"}
<1>1. call[c] \in PodCalls \/ call[c] = NoCall
  BY DEF K8sTypes
<1>2. CASE call[c] = NoCall
  BY <1>2 DEF NoCall
<1>3. CASE call[c] \in PodCalls /\ call[c] # NoCall
  BY <1>3 DEF PodCalls
<1> QED BY <1>1, <1>2, <1>3

LEMMA Begun ==
  ASSUME K8sInv, NEW c \in Callers, StartPod(c) \/ StopPod(c)
  PROVE  K8sInv'
<1>1. /\ object' = object /\ call[c] = NoCall /\ settled' = "no" /\ refused' = refused
      /\ alone' = (alone /\ (\A d \in Callers : call[d] = NoCall) /\ (\A p \in Pods : object[p] # "ending"))
  BY DEF StartPod, StopPod, BeginCall
<1>2. \A d \in Callers \ {c} : call'[d] = call[d]
  BY DEF StartPod, StopPod, BeginCall, K8sInv, K8sTypes
<1>3. \/ call'[c] = [verb |-> "apply", left |-> Manifest, failed |-> FALSE]
      \/ call'[c] = [verb |-> "delete", left |-> Doomed, failed |-> FALSE]
  BY DEF StartPod, StopPod, BeginCall, K8sInv, K8sTypes
<1>4. call'[c] \in PodCalls /\ Pending(call'[c].left) = Objects /\ ~call'[c].failed
  <2>1. CASE call'[c] = [verb |-> "apply", left |-> Manifest, failed |-> FALSE]
    BY <2>1, CallsStart DEF PodCalls
  <2>2. CASE call'[c] = [verb |-> "delete", left |-> Doomed, failed |-> FALSE]
    BY <2>2, CallsStart DEF PodCalls
  <2> QED BY <1>3, <2>1, <2>2
<1>5. call' \in [Callers -> PodCalls \cup {NoCall}]
  BY <1>2, <1>4 DEF StartPod, StopPod, BeginCall, K8sInv, K8sTypes
<1>6. K8sTypes'
  BY <1>1, <1>5 DEF K8sInv, K8sTypes
<1>7. SettledIsQuiet'
  BY <1>1 DEF SettledIsQuiet
<1>8. LoneCallsProceed'
  <2> SUFFICES ASSUME alone', NEW d \in Callers, call'[d] # NoCall PROVE Proceeds(d)'
    BY DEF LoneCallsProceed
  <2>1. d = c /\ \A e \in Callers : call'[e] # NoCall => e = c
    BY <1>1, <1>2
  <2>2. \A o \in Objects : object'[o] # "ending"
    BY <1>1 DEF K8sInv, K8sTypes
  <2> QED BY <1>4, <2>1, <2>2 DEF Proceeds
<1>9. LoneCallsAreExact'
  BY <1>1 DEF K8sInv, LoneCallsAreExact
<1> QED BY <1>6, <1>7, <1>8, <1>9 DEF K8sInv

\* One request of a call: the object it is about is done, the rest of the list stays.
LEMMA Advanced ==
  ASSUME K8sTypes, NEW c \in Callers, Advance(c)
  PROVE  /\ call'[c] = [call[c] EXCEPT !.left = Tail(@)]
         /\ \A d \in Callers \ {c} : call'[d] = call[d]
         /\ call[c].verb = "apply" /\ call[c].left # <<>> =>
              /\ call'[c] \in PodCalls /\ call'[c].verb = "apply"
              /\ call'[c].left = Tail(call[c].left) /\ call'[c].failed = call[c].failed
         /\ call[c].verb = "delete" /\ call[c].left # <<>> =>
              /\ call'[c] \in PodCalls /\ call'[c].verb = "delete"
              /\ call'[c].left = Tail(call[c].left) /\ call'[c].failed = call[c].failed
<1>1. /\ call'[c] = [call[c] EXCEPT !.left = Tail(@)]
      /\ \A d \in Callers \ {c} : call'[d] = call[d]
  BY DEF Advance, K8sTypes
<1>2. CASE call[c].verb = "apply" /\ call[c].left # <<>>
  <2>1. call[c] \in [verb : {"apply"}, left : ApplyLefts, failed : BOOLEAN]
    BY <1>2, CallsAre DEF PodCalls, K8sTypes, NoCall
  <2>2. Tail(call[c].left) \in ApplyLefts
    BY <1>2, CallsAre, ApplyAdvances
  <2> QED BY <1>1, <1>2, <2>1, <2>2 DEF PodCalls
<1>3. CASE call[c].verb = "delete" /\ call[c].left # <<>>
  <2>1. call[c] \in [verb : {"delete"}, left : DeleteLefts, failed : BOOLEAN]
    BY <1>3, CallsAre DEF PodCalls, K8sTypes, NoCall
  <2>2. Tail(call[c].left) \in DeleteLefts
    BY <1>3, CallsAre, DeleteAdvances
  <2> QED BY <1>1, <1>3, <2>1, <2>2 DEF PodCalls
<1> QED BY <1>1, <1>2, <1>3

LEMMA AppliedKeeps ==
  ASSUME K8sInv, NEW c \in Callers, Apply(c)
  PROVE  K8sInv'
<1> DEFINE o == Head(call[c].left)
<1>t. K8sTypes
  BY DEF K8sInv
<1>1. /\ call[c].verb = "apply" /\ call[c].left # <<>> /\ Advance(c)
      /\ object' = [object EXCEPT ![o] = IF @ = "absent" THEN "up" ELSE @]
      /\ UNCHANGED <<alone, settled, refused>>
  BY DEF Apply
<1>2. /\ call[c].left \in ApplyLefts /\ call[c] # NoCall /\ o \in Objects
      /\ Pending(Tail(call[c].left)) = Pending(call[c].left) \ {o}
      /\ o = IndexPod => NetPolicy \notin Pending(call[c].left)
  BY <1>t, <1>1, CallsAre, ApplyAdvances
<1>3. /\ call'[c] \in PodCalls /\ call'[c].verb = "apply" /\ call'[c].left = Tail(call[c].left)
      /\ call'[c].failed = call[c].failed
      /\ \A d \in Callers \ {c} : call'[d] = call[d]
  BY <1>t, <1>1, Advanced
<1>4. /\ \A x \in Objects \ {o} : object'[x] = object[x]
      /\ object'[o] = IF object[o] = "absent" THEN "up" ELSE object[o]
  BY <1>t, <1>1, <1>2 DEF K8sTypes
<1> HIDE DEF o
<1>5. K8sTypes'
  <2>1. call' \in [Callers -> PodCalls \cup {NoCall}]
    BY <1>t, <1>1, <1>3 DEF Advance, K8sTypes
  <2>2. object' \in [Objects -> States]
    BY <1>t, <1>1, <1>2, <1>4 DEF K8sTypes, States
  <2>3. \A x \in Objects \ Pods : object'[x] # "ending"
    BY <1>t, <1>4 DEF K8sTypes
  <2> QED BY <1>t, <1>1, <2>1, <2>2, <2>3 DEF K8sTypes
<1>6. settled' = "no"
  BY <1>1, <1>2, <1>t DEF K8sInv, K8sTypes, SettledIsQuiet
<1>7. ASSUME alone'
      PROVE  /\ \A d \in Callers : call'[d] # NoCall => d = c
             /\ \A x \in Objects : object'[x] # "ending"
             /\ call'[c].failed => refused'
             /\ ~call'[c].failed => \A x \in Objects \ Pending(call'[c].left) : object'[x] = "up"
  <2>1. Proceeds(c)
    BY <1>1, <1>2, <1>7 DEF K8sInv, LoneCallsProceed
  <2>2. \A d \in Callers : call'[d] # NoCall => d = c
    BY <1>3, <2>1 DEF Proceeds
  <2>3. /\ \A x \in Objects : object[x] # "ending"
        /\ ~call[c].failed => \A x \in Objects \ Pending(call[c].left) : object[x] = "up"
    BY <1>1, <2>1 DEF Proceeds
  <2>4. \A x \in Objects : object'[x] # "ending"
    BY <1>4, <2>3
  <2>5. object'[o] = "up"
    BY <1>t, <1>2, <1>4, <2>3 DEF K8sTypes, States
  <2>6. ~call'[c].failed => \A x \in Objects \ Pending(call'[c].left) : object'[x] = "up"
    BY <1>2, <1>3, <1>4, <2>3, <2>5
  <2>7. call'[c].failed => refused'
    BY <1>1, <1>3, <2>1 DEF Proceeds
  <2> QED BY <2>2, <2>4, <2>6, <2>7
<1>8. LoneCallsProceed'
  BY <1>3, <1>7 DEF LoneCallsProceed, Proceeds
<1>9. LoneCallsAreExact'
  <2> SUFFICES ASSUME alone', ~refused', object'[IndexPod] = "up" PROVE object'[NetPolicy] = "up"
    BY <1>6 DEF LoneCallsAreExact, IndexPod, NetPolicy
  <2>1. Proceeds(c) /\ alone /\ ~refused
    BY <1>1, <1>2 DEF K8sInv, LoneCallsProceed
  <2>2. \A x \in Objects \ Pending(call[c].left) : object[x] = "up"
    BY <1>1, <2>1 DEF Proceeds
  <2>3. CASE o = IndexPod
    BY <1>2, <1>4, <2>2, <2>3, FourObjects
  <2>4. CASE o # IndexPod
    <3>1. object[NetPolicy] = "up"
      BY <1>4, <2>1, <2>4, FourObjects DEF K8sInv, LoneCallsAreExact, IndexPod, NetPolicy
    <3> QED BY <1>4, <3>1, FourObjects
  <2> QED BY <2>3, <2>4
<1> QED BY <1>5, <1>6, <1>8, <1>9 DEF K8sInv, SettledIsQuiet

LEMMA DeletedKeeps ==
  ASSUME K8sInv, NEW c \in Callers, Delete(c)
  PROVE  K8sInv'
<1> DEFINE o == Head(call[c].left)
<1>t. K8sTypes
  BY DEF K8sInv
<1>1. /\ call[c].verb = "delete" /\ call[c].left # <<>> /\ Advance(c)
      /\ object' = [object EXCEPT ![o] = IF @ = "absent" \/ o \notin Pods THEN "absent" ELSE "ending"]
      /\ UNCHANGED <<alone, settled, refused>>
  BY DEF Delete
<1>2. /\ call[c].left \in DeleteLefts /\ call[c] # NoCall /\ o \in Objects
      /\ Pending(Tail(call[c].left)) = Pending(call[c].left) \ {o}
      /\ o = NetPolicy => IndexPod \notin Pending(call[c].left)
  BY <1>t, <1>1, CallsAre, DeleteAdvances
<1>3. /\ call'[c] \in PodCalls /\ call'[c].verb = "delete" /\ call'[c].left = Tail(call[c].left)
      /\ call'[c].failed = call[c].failed
      /\ \A d \in Callers \ {c} : call'[d] = call[d]
  BY <1>t, <1>1, Advanced
<1>4. /\ \A x \in Objects \ {o} : object'[x] = object[x]
      /\ object'[o] = "absent" \/ (o \in Pods /\ object'[o] = "ending")
  BY <1>t, <1>1, <1>2 DEF K8sTypes
<1> HIDE DEF o
<1>5. K8sTypes'
  <2>1. call' \in [Callers -> PodCalls \cup {NoCall}]
    BY <1>t, <1>1, <1>3 DEF Advance, K8sTypes
  <2>2. object' \in [Objects -> States]
    BY <1>t, <1>1, <1>2, <1>4 DEF K8sTypes, States
  <2>3. \A x \in Objects \ Pods : object'[x] # "ending"
    BY <1>t, <1>4 DEF K8sTypes
  <2> QED BY <1>t, <1>1, <2>1, <2>2, <2>3 DEF K8sTypes
<1>6. settled' = "no"
  BY <1>1, <1>2, <1>t DEF K8sInv, K8sTypes, SettledIsQuiet
<1>7. ASSUME alone'
      PROVE  /\ \A d \in Callers : call'[d] # NoCall => d = c
             /\ call'[c].failed => refused'
             /\ ~call'[c].failed => \A x \in Objects \ Pending(call'[c].left) :
                  object'[x] = "absent" \/ (x \in Pods /\ object'[x] = "ending")
  <2>1. Proceeds(c)
    BY <1>1, <1>2, <1>7 DEF K8sInv, LoneCallsProceed
  <2>2. \A d \in Callers : call'[d] # NoCall => d = c
    BY <1>3, <2>1 DEF Proceeds
  <2>3. ~call[c].failed => \A x \in Objects \ Pending(call[c].left) :
          object[x] = "absent" \/ (x \in Pods /\ object[x] = "ending")
    BY <1>1, <2>1 DEF Proceeds
  <2>4. ~call'[c].failed => \A x \in Objects \ Pending(call'[c].left) :
          object'[x] = "absent" \/ (x \in Pods /\ object'[x] = "ending")
    BY <1>2, <1>3, <1>4, <2>3
  <2>5. call'[c].failed => refused'
    BY <1>1, <1>3, <2>1 DEF Proceeds
  <2> QED BY <2>2, <2>4, <2>5
<1>8. LoneCallsProceed'
  BY <1>3, <1>7 DEF LoneCallsProceed, Proceeds
<1>9. LoneCallsAreExact'
  <2> SUFFICES ASSUME alone', ~refused', object'[IndexPod] = "up" PROVE object'[NetPolicy] = "up"
    BY <1>6 DEF LoneCallsAreExact, IndexPod, NetPolicy
  <2>1. Proceeds(c) /\ alone /\ ~refused
    BY <1>1, <1>2 DEF K8sInv, LoneCallsProceed
  <2>2. o # IndexPod /\ object[IndexPod] = "up"
    BY <1>4, FourObjects
  <2>3. object[NetPolicy] = "up"
    BY <2>1, <2>2 DEF K8sInv, LoneCallsAreExact, IndexPod, NetPolicy
  <2>4. o # NetPolicy
    <3> SUFFICES ASSUME o = NetPolicy PROVE FALSE
      OBVIOUS
    <3>1. object[IndexPod] = "absent" \/ object[IndexPod] = "ending"
      BY <1>1, <1>2, <2>1, FourObjects DEF Proceeds
    <3> QED BY <2>2, <3>1
  <2> QED BY <1>4, <2>3, <2>4, FourObjects
<1> QED BY <1>5, <1>6, <1>8, <1>9 DEF K8sInv, SettledIsQuiet

\* A refused request: the object stays as it is, and the call has failed.
LEMMA RefusedKeeps ==
  ASSUME K8sInv, NEW c \in Callers, ObjectRefused(c)
  PROVE  K8sInv'
<1>t. K8sTypes
  BY DEF K8sInv
<1>1. /\ call[c].left # <<>> /\ UNCHANGED <<object, alone, settled>> /\ refused' = TRUE
      /\ call' = [call EXCEPT ![c].left = Tail(@), ![c].failed = TRUE]
  BY DEF ObjectRefused
<1>2. call[c] \in PodCalls /\ call[c] # NoCall
  BY <1>t, <1>1 DEF K8sTypes, NoCall
<1>3. /\ call'[c] = [call[c] EXCEPT !.left = Tail(@), !.failed = TRUE]
      /\ \A d \in Callers \ {c} : call'[d] = call[d]
  BY <1>t, <1>1 DEF K8sTypes
<1>4. call'[c] \in PodCalls /\ call'[c].verb = call[c].verb /\ call'[c].failed
  <2>1. CASE call[c] \in [verb : {"apply"}, left : ApplyLefts, failed : BOOLEAN]
    <3>1. Tail(call[c].left) \in ApplyLefts
      BY <1>1, <2>1, ApplyAdvances
    <3>2. call'[c] = [verb |-> "apply", left |-> Tail(call[c].left), failed |-> TRUE]
      BY <1>3, <2>1
    <3> QED BY <2>1, <3>1, <3>2 DEF PodCalls
  <2>2. CASE call[c] \in [verb : {"delete"}, left : DeleteLefts, failed : BOOLEAN]
    <3>1. Tail(call[c].left) \in DeleteLefts
      BY <1>1, <2>2, DeleteAdvances
    <3>2. call'[c] = [verb |-> "delete", left |-> Tail(call[c].left), failed |-> TRUE]
      BY <1>3, <2>2
    <3> QED BY <2>2, <3>1, <3>2 DEF PodCalls
  <2> QED BY <1>2, <2>1, <2>2 DEF PodCalls
<1>5. K8sTypes'
  BY <1>t, <1>1, <1>4 DEF K8sTypes
<1>6. settled' = "no"
  BY <1>t, <1>1, <1>2 DEF K8sInv, K8sTypes, SettledIsQuiet
<1>7. LoneCallsProceed'
  <2> SUFFICES ASSUME alone, NEW d \in Callers, call'[d] # NoCall PROVE Proceeds(d)'
    BY <1>1 DEF LoneCallsProceed
  <2>1. Proceeds(c)
    BY <1>2 DEF K8sInv, LoneCallsProceed
  <2>2. d = c /\ \A e \in Callers : call'[e] # NoCall => e = c
    BY <1>3, <2>1 DEF Proceeds
  <2> QED BY <1>1, <1>4, <2>1, <2>2 DEF Proceeds
<1> QED BY <1>1, <1>5, <1>6, <1>7 DEF K8sInv, SettledIsQuiet, LoneCallsAreExact

LEMMA FailedKeeps ==
  ASSUME K8sInv, NEW c \in Callers, CallFails(c)
  PROVE  K8sInv'
<1>1. call'[c] = NoCall /\ \A d \in Callers \ {c} : call'[d] = call[d]
  BY DEF CallFails, K8sInv, K8sTypes
<1>2. settled' = "no" /\ UNCHANGED <<object, alone, refused>>
  BY DEF CallFails
<1>3. K8sTypes'
  BY <1>2 DEF CallFails, K8sInv, K8sTypes
<1>4. LoneCallsProceed'
  BY <1>1, <1>2 DEF K8sInv, LoneCallsProceed, Proceeds
<1>5. LoneCallsAreExact'
  BY <1>2 DEF K8sInv, LoneCallsAreExact
<1> QED BY <1>2, <1>3, <1>4, <1>5 DEF K8sInv, SettledIsQuiet

LEMMA EndedKeeps ==
  ASSUME K8sInv, NEW c \in Callers, CallEnds(c)
  PROVE  K8sInv'
<1>t. K8sTypes
  BY DEF K8sInv
<1>1. call'[c] = NoCall /\ \A d \in Callers \ {c} : call'[d] = call[d]
  BY DEF CallEnds, K8sInv, K8sTypes
<1>2. /\ UNCHANGED <<object, alone>> /\ call[c] # NoCall /\ call[c].left = <<>> /\ ~call[c].failed
      /\ refused' = FALSE
      /\ call[c].verb = "delete" => \A p \in Pods : object[p] # "ending"
      /\ settled' = IF \A d \in Callers \ {c} : call[d] = NoCall THEN call[c].verb ELSE "no"
  BY DEF CallEnds
<1>3. call[c].verb \in {"apply", "delete"}
  BY <1>t, <1>2, CallsAre
<1>4. K8sTypes'
  BY <1>2, <1>3 DEF CallEnds, K8sInv, K8sTypes
<1>5. SettledIsQuiet'
  BY <1>1, <1>2 DEF SettledIsQuiet
<1>6. LoneCallsProceed'
  BY <1>1, <1>2 DEF K8sInv, LoneCallsProceed, Proceeds
<1>7. LoneCallsAreExact'
  <2> SUFFICES ASSUME alone PROVE LoneCallsAreExact'
    BY <1>2 DEF LoneCallsAreExact
  <2>1. Proceeds(c)
    BY <1>2 DEF K8sInv, LoneCallsProceed
  <2>2. Pending(call[c].left) = {}
    BY <1>2, CallsStart
  <2>3. settled' = "apply" => \A o \in Objects : object'[o] = "up"
    BY <1>2, <1>3, <2>1, <2>2 DEF Proceeds
  <2>4. settled' = "delete" => \A o \in Objects : object'[o] = "absent"
    BY <1>2, <1>3, <2>1, <2>2 DEF Proceeds
  <2>5. object'["index pod"] = "up" => object'["network policy"] = "up"
    BY <1>2, <1>3, <2>1, <2>2, FourObjects DEF Proceeds, IndexPod, NetPolicy
  <2> QED BY <2>3, <2>4, <2>5 DEF LoneCallsAreExact
<1> QED BY <1>4, <1>5, <1>6, <1>7 DEF K8sInv

LEMMA GraceKeeps ==
  ASSUME K8sInv, NEW p \in Pods, GraceEnds(p)
  PROVE  K8sInv'
<1>1. /\ object[p] = "ending" /\ UNCHANGED <<call, alone, settled, refused>> /\ p \in Objects
      /\ object'[p] = "absent" /\ \A o \in Objects \ {p} : object'[o] = object[o]
  BY FourObjects DEF GraceEnds, K8sInv, K8sTypes
<1>2. K8sTypes'
  <2>1. object' \in [Objects -> States]
    BY <1>1 DEF GraceEnds, K8sInv, K8sTypes, States
  <2>2. \A o \in Objects \ Pods : object'[o] # "ending"
    BY <1>1 DEF K8sInv, K8sTypes
  <2> QED BY <1>1, <2>1, <2>2 DEF K8sInv, K8sTypes
<1>3. LoneCallsProceed'
  <2> SUFFICES ASSUME alone, NEW c \in Callers, call[c] # NoCall PROVE Proceeds(c)'
    BY <1>1 DEF LoneCallsProceed
  <2>1. Proceeds(c)
    BY DEF K8sInv, LoneCallsProceed
  <2> QED BY <1>1, <2>1 DEF Proceeds
<1>4. LoneCallsAreExact'
  <2>1. p # "network policy"
    BY DEF Pods
  <2> QED BY <1>1, <2>1 DEF K8sInv, LoneCallsAreExact, Objects
<1> QED BY <1>1, <1>2, <1>3, <1>4 DEF K8sInv, SettledIsQuiet

LEMMA K8sStart == K8sInit => K8sInv
<1> SUFFICES ASSUME K8sInit PROVE K8sInv
  OBVIOUS
<1>1. K8sTypes
  BY DEF K8sInit, K8sTypes, States
<1>2. \A c \in Callers : call[c] = NoCall
  BY DEF K8sInit
<1>3. LoneCallsAreExact
  BY DEF K8sInit, LoneCallsAreExact, Objects
<1> QED BY <1>1, <1>2, <1>3 DEF K8sInv, SettledIsQuiet, LoneCallsProceed

LEMMA K8sStep == K8sInv /\ [K8sNext]_k8sVars => K8sInv'
<1> SUFFICES ASSUME K8sInv, [K8sNext]_k8sVars PROVE K8sInv'
  OBVIOUS
<1>1. CASE UNCHANGED <<object, call, alone, settled, refused>>
  BY <1>1 DEF K8sInv, K8sTypes, SettledIsQuiet, LoneCallsProceed, Proceeds, LoneCallsAreExact
<1>2. UNCHANGED k8sVars => UNCHANGED <<object, call, alone, settled, refused>>
  BY DEF k8sVars
<1>3. ASSUME NEW c \in Callers, Configure(c) \/ WriteKubeconfig(c) \/ Exits(c)
      PROVE  UNCHANGED <<object, call, alone, settled, refused>>
  BY <1>3 DEF Configure, WriteKubeconfig, Exits
<1> QED BY <1>1, <1>2, <1>3, Begun, AppliedKeeps, DeletedKeeps, RefusedKeeps, FailedKeeps, EndedKeeps, GraceKeeps
       DEF K8sNext

(***************************************************************************)
(* Calls that do not overlap and report success leave the tenant as they   *)
(* say, however many failed before (start_pod, stop_pod); there is no      *)
(* index pod without its policy wherever a call is cut off, unless a       *)
(* request has been refused since a call last succeeded.                   *)
(***************************************************************************)
THEOREM LoneCallsLeaveWhatTheySay == K8sSpec => []LoneCallsAreExact
<1>1. K8sInv => LoneCallsAreExact
  BY DEF K8sInv
<1> QED BY <1>1, K8sStart, K8sStep, PTL DEF K8sSpec

-----------------------------------------------------------------------------
(* Invocations that count themselves.                                      *)

CallSample == "call"
ErrorSample == "error"
OnlyCall == <<CallSample>>
OnlyError == <<ErrorSample>>
CallAndError == <<CallSample, ErrorSample>>

Runs == [at : {"away", "dispatch", "parse", "confine", "work", "record", "sample", "exit"},
         command : Typed \cup {"", Podman}, elsewhere : BOOLEAN, outer : BOOLEAN, confined : BOOLEAN,
         code : {0, 1}, seen : BOOLEAN, left : {<<>>, OnlyCall, OnlyError, CallAndError}]

\* A run is seen in a store from its first sample on, and has the error left
\* to record exactly if it failed.
WellRun(r) ==
  /\ r.seen => r.at \in {"sample", "exit"}
  /\ r.at = "sample" =>
       /\ r.seen /\ r.left \in {OnlyCall, OnlyError, CallAndError}
       /\ r.code = 0 <=> r.left = OnlyCall

RunTypes ==
  /\ proc \in [Processes -> Runs] /\ \A p \in Processes : WellRun(proc[p])
  /\ calls \in [Names -> Nat] /\ errors \in [Names -> Nat]
  /\ exits \in [Names -> Nat] /\ failures \in [Names -> Nat]
  /\ troubles \in Nat /\ lost \in BOOLEAN

\* The running processes whose call is in the log, those of them that owe it
\* their failure, and those that have told it.
HasCalled(r, c) == r.command = c /\ r.seen /\ (r.at = "exit" \/ (r.at = "sample" /\ r.left = OnlyError))
Owes(r, c) == r.command = c /\ r.at = "sample" /\ r.left = OnlyError
HasFailed(r, c) == r.command = c /\ r.seen /\ r.at = "exit" /\ r.code # 0

Called(c) == {p \in Processes : HasCalled(proc[p], c)}
Owing(c) == {p \in Processes : Owes(proc[p], c)}
Failed(c) == {p \in Processes : HasFailed(proc[p], c)}

Counted(c) ==
  /\ IsFiniteSet(Called(c)) /\ IsFiniteSet(Owing(c)) /\ IsFiniteSet(Failed(c))
  /\ ~lost => errors[c] + Cardinality(Owing(c)) <= calls[c]
  /\ troubles = 0 => /\ calls[c] = exits[c] + Cardinality(Called(c))
                     /\ errors[c] = failures[c] + Cardinality(Failed(c))

InvocationInv == RunTypes /\ \A c \in Names : Counted(c)

LEMMA SamplesAre ==
  /\ CallSample # ErrorSample
  /\ \A p : Samples(p) = IF proc[p].code # 0 THEN CallAndError ELSE OnlyCall
  BY DEF CallSample, ErrorSample, Samples, CallAndError, OnlyCall

LEMMA LeftsAre ==
  ASSUME NEW call0, NEW error0, call0 # error0
  PROVE  /\ Head(<<call0>>) = call0 /\ Tail(<<call0>>) = <<>> /\ Len(<<call0>>) = 1
         /\ Head(<<call0, error0>>) = call0 /\ Tail(<<call0, error0>>) = <<error0>>
         /\ Len(<<call0, error0>>) = 2
         /\ <<call0>> # <<error0>> /\ <<call0>> # <<call0, error0>> /\ <<error0>> # <<call0, error0>>
  OBVIOUS

LEMMA SampleLists ==
  /\ Head(OnlyCall) = CallSample /\ Tail(OnlyCall) = <<>> /\ Len(OnlyCall) = 1
  /\ Head(OnlyError) = ErrorSample /\ Tail(OnlyError) = <<>> /\ Len(OnlyError) = 1
  /\ Head(CallAndError) = CallSample /\ Tail(CallAndError) = OnlyError /\ Len(CallAndError) = 2
  /\ OnlyCall # OnlyError /\ OnlyCall # CallAndError /\ OnlyError # CallAndError
<1>1. CallSample # ErrorSample
  BY SamplesAre
<1> QED BY <1>1, LeftsAre DEF OnlyCall, OnlyError, CallAndError

\* What a change of one member does to a count.
LEMMA Recounted ==
  ASSUME NEW S, NEW T, NEW p, IsFiniteSet(S), T \ {p} = S \ {p}
  PROVE  /\ IsFiniteSet(T) /\ Cardinality(S) \in Nat /\ Cardinality(T) \in Nat
         /\ (p \in S <=> p \in T) => T = S
         /\ p \notin S /\ p \in T => Cardinality(T) = Cardinality(S) + 1
         /\ p \in S /\ p \notin T => Cardinality(S) = Cardinality(T) + 1
<1>1. IsFiniteSet(S \ {p}) /\ IsFiniteSet((S \ {p}) \cup {p})
  BY FS_Subset, FS_AddElement
<1>2. IsFiniteSet(T)
  <2>1. T \subseteq (S \ {p}) \cup {p}
    OBVIOUS
  <2> QED BY <1>1, <2>1, FS_Subset
<1>3. Cardinality(S) \in Nat /\ Cardinality(T) \in Nat
  BY <1>2, FS_CardinalityType
<1>4. ASSUME p \notin S, p \in T PROVE Cardinality(T) = Cardinality(S) + 1
  <2>1. T = S \cup {p}
    BY <1>4
  <2> QED BY <1>4, <2>1, FS_AddElement
<1>5. ASSUME p \in S, p \notin T PROVE Cardinality(S) = Cardinality(T) + 1
  <2>1. S = T \cup {p}
    BY <1>5
  <2> QED BY <1>2, <1>5, <2>1, FS_AddElement
<1> QED BY <1>2, <1>3, <1>4, <1>5

\* One process moves on: it alone may enter or leave the counts.
LEMMA OneMoved ==
  ASSUME RunTypes, NEW p \in Processes, NEW r, proc' = [proc EXCEPT ![p] = r], NEW c
  PROVE  /\ proc'[p] = r /\ \A q \in Processes \ {p} : proc'[q] = proc[q]
         /\ Called(c)' \ {p} = Called(c) \ {p} /\ (p \in Called(c)' <=> HasCalled(r, c))
         /\ Owing(c)' \ {p} = Owing(c) \ {p} /\ (p \in Owing(c)' <=> Owes(r, c))
         /\ Failed(c)' \ {p} = Failed(c) \ {p} /\ (p \in Failed(c)' <=> HasFailed(r, c))
         /\ (p \in Called(c) <=> HasCalled(proc[p], c)) /\ (p \in Owing(c) <=> Owes(proc[p], c))
         /\ (p \in Failed(c) <=> HasFailed(proc[p], c))
<1>1. proc'[p] = r /\ \A q \in Processes \ {p} : proc'[q] = proc[q]
  BY DEF RunTypes
<1> QED BY <1>1 DEF Called, Owing, Failed

LEMMA RunTyped ==
  ASSUME RunTypes, NEW p \in Processes, NEW r \in Runs, WellRun(r), proc' = [proc EXCEPT ![p] = r]
  PROVE  proc' \in [Processes -> Runs] /\ \A q \in Processes : WellRun(proc'[q])
  BY DEF RunTypes

\* In none of the counts.
Uncounted(r) == r.seen => r.at = "sample" /\ r.left # OnlyError

LEMMA UncountedKeeps ==
  ASSUME InvocationInv, NEW p \in Processes, NEW r \in Runs, WellRun(r),
         proc' = [proc EXCEPT ![p] = r], Uncounted(proc[p]), Uncounted(r),
         UNCHANGED <<calls, errors, exits, failures>>, troubles' \in Nat, lost' \in BOOLEAN,
         UNCHANGED <<troubles, lost>> \/ (troubles' # 0 /\ lost')
  PROVE  InvocationInv'
<1>1. RunTypes'
  BY RunTyped DEF InvocationInv, RunTypes
<1>2. ASSUME NEW c \in Names PROVE Counted(c)'
  <2>1. WellRun(proc[p])
    BY DEF InvocationInv, RunTypes
  <2>2. ~HasCalled(proc[p], c) /\ ~Owes(proc[p], c) /\ ~HasFailed(proc[p], c)
    BY <2>1 DEF Uncounted, WellRun, HasCalled, Owes, HasFailed
  <2>3. ~HasCalled(r, c) /\ ~Owes(r, c) /\ ~HasFailed(r, c)
    BY DEF Uncounted, WellRun, HasCalled, Owes, HasFailed
  <2>4. Called(c)' = Called(c) /\ Owing(c)' = Owing(c) /\ Failed(c)' = Failed(c)
    <3>1. RunTypes
      BY DEF InvocationInv
    <3>2. Called(c)' \ {p} = Called(c) \ {p} /\ p \notin Called(c)' /\ p \notin Called(c)
      BY <2>2, <2>3, <3>1, OneMoved
    <3>3. Owing(c)' \ {p} = Owing(c) \ {p} /\ p \notin Owing(c)' /\ p \notin Owing(c)
      BY <2>2, <2>3, <3>1, OneMoved
    <3>4. Failed(c)' \ {p} = Failed(c) \ {p} /\ p \notin Failed(c)' /\ p \notin Failed(c)
      BY <2>2, <2>3, <3>1, OneMoved
    <3> QED BY <3>2, <3>3, <3>4
  <2> QED BY <2>4 DEF InvocationInv, Counted
<1> QED BY <1>1, <1>2 DEF InvocationInv

LEMMA AwayIsARun == Away \in Runs /\ WellRun(Away) /\ Uncounted(Away) /\ ~Away.seen
  BY DEF Away, Runs, WellRun, Uncounted

\* What a run is before its first sample, and what it is when dispatch returns.
LEMMA Unseen ==
  ASSUME RunTypes, NEW p \in Processes, proc[p].at \notin {"sample", "exit"}
  PROVE  /\ proc[p] \in Runs /\ ~proc[p].seen /\ Uncounted(proc[p])
         /\ \A code \in {0, 1} : Returned(p, code) \in Runs /\ WellRun(Returned(p, code))
                                   /\ Uncounted(Returned(p, code))
<1>1. proc[p] \in Runs /\ ~proc[p].seen
  BY DEF RunTypes, WellRun
<1>2. ASSUME NEW code \in {0, 1}
      PROVE  /\ Returned(p, code) \in Runs /\ ~Returned(p, code).seen
             /\ Returned(p, code).at = "record"
  BY <1>1 DEF Returned, Runs
<1> QED BY <1>1, <1>2 DEF WellRun, Uncounted

LEMMA BeforeSamplesKeep ==
  ASSUME InvocationInv, NEW p \in Processes,
         \/ BeginRun(p) \/ NoContainer(p) \/ RunInContainer(p) \/ Unknown(p) \/ CheckGit(p)
         \/ Parse(p) \/ Confine(p) \/ Work(p)
  PROVE  InvocationInv'
<1>t. RunTypes /\ troubles \in Nat /\ lost \in BOOLEAN
  BY DEF InvocationInv, RunTypes
<1>u. UNCHANGED <<troubles, lost, calls, errors, exits, failures>>
  BY DEF BeginRun, NoContainer, RunInContainer, Unknown, CheckGit, Parse, Confine, Work, SamplesUnchanged
<1>1. proc[p].at \notin {"sample", "exit"}
  <2>1. BeginRun(p) => proc[p].at = "away"
    <3>1. BeginRun(p) => proc[p] = Away
      BY DEF BeginRun
    <3>2. Away.at = "away"
      BY DEF Away
    <3> QED BY <3>1, <3>2
  <2>2. NoContainer(p) \/ RunInContainer(p) \/ Unknown(p) \/ CheckGit(p) => proc[p].at = "dispatch"
    BY DEF NoContainer, RunInContainer, Unknown, CheckGit
  <2>3. Parse(p) \/ Confine(p) \/ Work(p) => proc[p].at \in {"parse", "confine", "work"}
    BY DEF Parse, Confine, Work
  <2> QED BY <2>1, <2>2, <2>3
<1>2. proc[p] \in Runs /\ ~proc[p].seen /\ Uncounted(proc[p])
  BY <1>t, <1>1, Unseen
<1>r. ASSUME NEW code \in {0, 1}, Continues(p, Returned(p, code))
      PROVE  \E r \in Runs : WellRun(r) /\ Uncounted(r) /\ proc' = [proc EXCEPT ![p] = r]
  <2>1. Returned(p, code) \in Runs /\ WellRun(Returned(p, code)) /\ Uncounted(Returned(p, code))
    BY <1>t, <1>1, Unseen
  <2>2. proc' = [proc EXCEPT ![p] = Returned(p, code)]
    BY <1>r DEF Continues
  <2> QED BY <2>1, <2>2
<1>3. \E r \in Runs : WellRun(r) /\ Uncounted(r) /\ proc' = [proc EXCEPT ![p] = r]
  <2>1. CASE BeginRun(p)
    <3>1. PICK c \in Typed : proc' = [proc EXCEPT ![p] = [Away EXCEPT !.at = "dispatch", !.command = c]]
      BY <2>1 DEF BeginRun
    <3>2. /\ [Away EXCEPT !.at = "dispatch", !.command = c] \in Runs
          /\ ~[Away EXCEPT !.at = "dispatch", !.command = c].seen
          /\ [Away EXCEPT !.at = "dispatch", !.command = c].at = "dispatch"
      BY DEF Away, Runs
    <3> QED BY <3>1, <3>2 DEF WellRun, Uncounted
  <2>2. CASE NoContainer(p)
    BY <2>2, <1>r DEF NoContainer
  <2>3. CASE RunInContainer(p)
    <3>1. PICK c \in Typed : proc' = [proc EXCEPT ![p] = [proc[p] EXCEPT !.command = c, !.outer = TRUE]]
      BY <2>3 DEF RunInContainer, Continues
    <3>2. /\ [proc[p] EXCEPT !.command = c, !.outer = TRUE] \in Runs
          /\ ~[proc[p] EXCEPT !.command = c, !.outer = TRUE].seen
          /\ [proc[p] EXCEPT !.command = c, !.outer = TRUE].at = proc[p].at
      BY <1>2 DEF Runs
    <3> QED BY <1>1, <3>1, <3>2 DEF WellRun, Uncounted
  <2>4. CASE Unknown(p)
    BY <2>4, <1>r DEF Unknown
  <2>5. CASE CheckGit(p)
    <3>1. CASE Continues(p, Returned(p, 1))
      BY <3>1, <1>r
    <3>2. CASE Continues(p, [proc[p] EXCEPT !.at = "parse"])
      <4>1. /\ [proc[p] EXCEPT !.at = "parse"] \in Runs
            /\ ~[proc[p] EXCEPT !.at = "parse"].seen /\ [proc[p] EXCEPT !.at = "parse"].at = "parse"
        BY <1>2 DEF Runs
      <4> QED BY <3>2, <4>1 DEF Continues, WellRun, Uncounted
    <3> QED BY <2>5, <3>1, <3>2 DEF CheckGit
  <2>6. CASE Parse(p)
    <3>1. CASE Continues(p, Returned(p, 0)) \/ Continues(p, Returned(p, 1))
      BY <3>1, <1>r
    <3>2. CASE \E at \in {"confine", "work"}, e \in BOOLEAN :
                 Continues(p, [proc[p] EXCEPT !.at = at, !.elsewhere = e])
      <4>1. PICK at \in {"confine", "work"}, e \in BOOLEAN :
              proc' = [proc EXCEPT ![p] = [proc[p] EXCEPT !.at = at, !.elsewhere = e]]
        BY <3>2 DEF Continues
      <4>2. /\ [proc[p] EXCEPT !.at = at, !.elsewhere = e] \in Runs
            /\ ~[proc[p] EXCEPT !.at = at, !.elsewhere = e].seen
            /\ [proc[p] EXCEPT !.at = at, !.elsewhere = e].at = at
        BY <1>2 DEF Runs
      <4> QED BY <4>1, <4>2 DEF WellRun, Uncounted
    <3>3. \/ Continues(p, Returned(p, 0)) \/ Continues(p, Returned(p, 1))
          \/ \E at \in {"confine", "work"}, e \in BOOLEAN :
               Continues(p, [proc[p] EXCEPT !.at = at, !.elsewhere = e])
      BY <2>6 DEF Parse
    <3> QED BY <3>1, <3>2, <3>3
  <2>7. CASE Confine(p)
    <3>1. PICK b : proc' = [proc EXCEPT ![p] = [proc[p] EXCEPT !.at = "work", !.confined = b]] /\ b \in BOOLEAN
      BY <2>7 DEF Confine, Continues
    <3>2. /\ [proc[p] EXCEPT !.at = "work", !.confined = b] \in Runs
          /\ ~[proc[p] EXCEPT !.at = "work", !.confined = b].seen
          /\ [proc[p] EXCEPT !.at = "work", !.confined = b].at = "work"
      BY <1>2, <3>1 DEF Runs
    <3> QED BY <3>1, <3>2 DEF WellRun, Uncounted
  <2>8. CASE Work(p)
    BY <2>8, <1>r DEF Work
  <2> QED BY <2>1, <2>2, <2>3, <2>4, <2>5, <2>6, <2>7, <2>8
<1> QED BY <1>t, <1>u, <1>2, <1>3, UncountedKeeps

LEMMA OpenKeeps ==
  ASSUME InvocationInv, NEW p \in Processes, OpenUsage(p)
  PROVE  InvocationInv'
<1>t. RunTypes /\ troubles \in Nat /\ lost \in BOOLEAN
  BY DEF InvocationInv, RunTypes
<1>1. /\ proc[p].at = "record" /\ UNCHANGED <<calls, errors, exits, failures>>
      /\ proc[p] \in Runs /\ ~proc[p].seen /\ Uncounted(proc[p])
  BY <1>t, Unseen DEF OpenUsage
<1> DEFINE skip == [proc[p] EXCEPT !.at = "exit"]
           next == [proc[p] EXCEPT !.at = "sample", !.left = Samples(p), !.seen = TRUE]
<1>2. /\ skip \in Runs /\ ~skip.seen /\ skip.at = "exit"
  BY <1>1 DEF Runs
<1>3. next \in Runs /\ next.seen /\ next.at = "sample" /\ next.left = Samples(p) /\ next.code = proc[p].code
  BY <1>1, SamplesAre DEF Runs
<1>4. WellRun(skip) /\ Uncounted(skip)
  BY <1>2 DEF WellRun, Uncounted
<1>5. WellRun(next) /\ Uncounted(next)
  BY <1>3, SamplesAre, SampleLists DEF WellRun, Uncounted
<1>6. \/ proc' = [proc EXCEPT ![p] = skip] /\ UNCHANGED <<troubles, lost>>
      \/ proc' = [proc EXCEPT ![p] = next] /\ UNCHANGED <<troubles, lost>>
      \/ proc' = [proc EXCEPT ![p] = skip] /\ troubles' = troubles + 1 /\ lost' = TRUE
  BY DEF OpenUsage, Continues, Trouble
<1> HIDE DEF skip, next
<1>7. CASE proc' = [proc EXCEPT ![p] = skip] /\ UNCHANGED <<troubles, lost>>
  BY <1>t, <1>1, <1>2, <1>4, <1>7, UncountedKeeps
<1>8. CASE proc' = [proc EXCEPT ![p] = next] /\ UNCHANGED <<troubles, lost>>
  BY <1>t, <1>1, <1>3, <1>5, <1>8, UncountedKeeps
<1>9. CASE proc' = [proc EXCEPT ![p] = skip] /\ troubles' = troubles + 1 /\ lost' = TRUE
  <2>1. troubles' \in Nat /\ troubles' # 0
    BY <1>t, <1>9
  <2> QED BY <1>1, <1>2, <1>4, <1>9, <2>1, UncountedKeeps
<1> QED BY <1>6, <1>7, <1>8, <1>9

\* The counts of a command after one process has moved.
LEMMA CountsMoved ==
  ASSUME RunTypes, NEW p \in Processes, NEW r, proc' = [proc EXCEPT ![p] = r], NEW c, Counted(c)
  PROVE  /\ IsFiniteSet(Called(c)') /\ IsFiniteSet(Owing(c)') /\ IsFiniteSet(Failed(c)')
         /\ Cardinality(Called(c)) \in Nat /\ Cardinality(Called(c)') \in Nat
         /\ Cardinality(Owing(c)) \in Nat /\ Cardinality(Owing(c)') \in Nat
         /\ Cardinality(Failed(c)) \in Nat /\ Cardinality(Failed(c)') \in Nat
         /\ Cardinality(Called(c)') + (IF HasCalled(proc[p], c) THEN 1 ELSE 0)
              = Cardinality(Called(c)) + (IF HasCalled(r, c) THEN 1 ELSE 0)
         /\ Cardinality(Owing(c)') + (IF Owes(proc[p], c) THEN 1 ELSE 0)
              = Cardinality(Owing(c)) + (IF Owes(r, c) THEN 1 ELSE 0)
         /\ Cardinality(Failed(c)') + (IF HasFailed(proc[p], c) THEN 1 ELSE 0)
              = Cardinality(Failed(c)) + (IF HasFailed(r, c) THEN 1 ELSE 0)
<1>1. IsFiniteSet(Called(c)) /\ IsFiniteSet(Owing(c)) /\ IsFiniteSet(Failed(c))
  BY DEF Counted
<1>2. /\ Called(c)' \ {p} = Called(c) \ {p} /\ (p \in Called(c)' <=> HasCalled(r, c))
      /\ (p \in Called(c) <=> HasCalled(proc[p], c))
  BY OneMoved
<1>3. /\ Owing(c)' \ {p} = Owing(c) \ {p} /\ (p \in Owing(c)' <=> Owes(r, c))
      /\ (p \in Owing(c) <=> Owes(proc[p], c))
  BY OneMoved
<1>4. /\ Failed(c)' \ {p} = Failed(c) \ {p} /\ (p \in Failed(c)' <=> HasFailed(r, c))
      /\ (p \in Failed(c) <=> HasFailed(proc[p], c))
  BY OneMoved
<1>5. /\ IsFiniteSet(Called(c)') /\ Cardinality(Called(c)) \in Nat /\ Cardinality(Called(c)') \in Nat
      /\ Cardinality(Called(c)') + (IF HasCalled(proc[p], c) THEN 1 ELSE 0)
           = Cardinality(Called(c)) + (IF HasCalled(r, c) THEN 1 ELSE 0)
  BY <1>1, <1>2, Recounted
<1>6. /\ IsFiniteSet(Owing(c)') /\ Cardinality(Owing(c)) \in Nat /\ Cardinality(Owing(c)') \in Nat
      /\ Cardinality(Owing(c)') + (IF Owes(proc[p], c) THEN 1 ELSE 0)
           = Cardinality(Owing(c)) + (IF Owes(r, c) THEN 1 ELSE 0)
  BY <1>1, <1>3, Recounted
<1>7. /\ IsFiniteSet(Failed(c)') /\ Cardinality(Failed(c)) \in Nat /\ Cardinality(Failed(c)') \in Nat
      /\ Cardinality(Failed(c)') + (IF HasFailed(proc[p], c) THEN 1 ELSE 0)
           = Cardinality(Failed(c)) + (IF HasFailed(r, c) THEN 1 ELSE 0)
  BY <1>1, <1>4, Recounted
<1> QED BY <1>5, <1>6, <1>7

LEMMA RecordKeeps ==
  ASSUME InvocationInv, NEW p \in Processes, RecordSample(p)
  PROVE  InvocationInv'
<1> DEFINE s == proc[p].left
           cmd0 == proc[p].command
           r == [proc[p] EXCEPT !.left = Tail(@), !.at = IF Len(proc[p].left) = 1 THEN "exit" ELSE @]
<1>t. /\ RunTypes /\ troubles \in Nat /\ lost \in BOOLEAN /\ proc[p] \in Runs
      /\ calls \in [Names -> Nat] /\ errors \in [Names -> Nat]
      /\ exits \in [Names -> Nat] /\ failures \in [Names -> Nat]
  BY DEF InvocationInv, RunTypes
<1>1. /\ proc[p].at = "sample" /\ proc[p].seen /\ s \in {OnlyCall, OnlyError, CallAndError}
      /\ proc[p].code = 0 <=> s = OnlyCall
  BY <1>t DEF RecordSample, RunTypes, WellRun
<1>2. proc' = [proc EXCEPT ![p] = r] /\ UNCHANGED <<exits, failures>>
  BY DEF RecordSample, Continues
<1>3. /\ Tail(s) = IF s = CallAndError THEN OnlyError ELSE <<>>
      /\ Head(s) = IF s = OnlyError THEN ErrorSample ELSE CallSample
      /\ Len(s) = IF s = CallAndError THEN 2 ELSE 1
  BY <1>1, SampleLists
<1>4. /\ r \in Runs /\ r.command = cmd0 /\ r.seen /\ r.code = proc[p].code
      /\ s = CallAndError => r.at = "sample" /\ r.left = OnlyError
      /\ s # CallAndError => r.at = "exit"
  <2>1. CASE s = CallAndError
    <3>1. Tail(s) = OnlyError /\ ~(Len(s) = 1)
      BY <1>3, <2>1
    <3>2. r = [proc[p] EXCEPT !.left = OnlyError, !.at = @]
      BY <3>1, Zenon
    <3> QED BY <1>t, <1>1, <2>1, <3>2 DEF Runs
  <2>2. CASE s # CallAndError
    <3>1. r = [proc[p] EXCEPT !.left = <<>>, !.at = "exit"]
      BY <1>3, <2>2
    <3> QED BY <1>t, <1>1, <2>2, <3>1 DEF Runs
  <2> QED BY <2>1, <2>2
<1>5. WellRun(r)
  BY <1>1, <1>4, SampleLists DEF WellRun
<1>6. \/ /\ UNCHANGED <<troubles, lost>>
         /\ Head(s) = "call" => calls' = [calls EXCEPT ![cmd0] = @ + 1] /\ UNCHANGED errors
         /\ Head(s) # "call" => errors' = [errors EXCEPT ![cmd0] = @ + 1] /\ UNCHANGED calls
      \/ troubles' = troubles + 1 /\ lost' = TRUE /\ UNCHANGED <<calls, errors>>
  BY DEF RecordSample, Trouble
<1> HIDE DEF r
<1>7. \/ /\ UNCHANGED <<troubles, lost>>
         /\ s # OnlyError => calls' = [calls EXCEPT ![cmd0] = @ + 1] /\ UNCHANGED errors
         /\ s = OnlyError => errors' = [errors EXCEPT ![cmd0] = @ + 1] /\ UNCHANGED calls
      \/ troubles' \in Nat /\ troubles' # 0 /\ lost' = TRUE /\ UNCHANGED <<calls, errors>>
  <2>1. s = OnlyError <=> Head(s) # "call"
    BY <1>3, SamplesAre DEF CallSample
  <2> QED BY <1>t, <1>6, <2>1
<1>8. RunTypes'
  <2>1. proc' \in [Processes -> Runs] /\ \A q \in Processes : WellRun(proc'[q])
    BY <1>t, <1>2, <1>4, <1>5, RunTyped
  <2>2. calls' \in [Names -> Nat] /\ errors' \in [Names -> Nat]
    BY <1>t, <1>7
  <2>3. troubles' \in Nat /\ lost' \in BOOLEAN
    BY <1>t, <1>7
  <2> QED BY <1>t, <1>2, <2>1, <2>2, <2>3 DEF RunTypes
<1>9. ASSUME NEW c \in Names PROVE Counted(c)'
  <2>1. Counted(c)
    BY DEF InvocationInv
  <2>2. /\ HasCalled(proc[p], c) <=> c = cmd0 /\ s = OnlyError
        /\ Owes(proc[p], c) <=> c = cmd0 /\ s = OnlyError
        /\ ~HasFailed(proc[p], c)
    BY <1>1 DEF HasCalled, Owes, HasFailed
  <2>3. /\ HasCalled(r, c) <=> c = cmd0
        /\ Owes(r, c) <=> c = cmd0 /\ s = CallAndError
        /\ HasFailed(r, c) <=> c = cmd0 /\ s = OnlyError
    BY <1>1, <1>4, SampleLists DEF HasCalled, Owes, HasFailed
  <2>4. IsFiniteSet(Called(c)') /\ IsFiniteSet(Owing(c)') /\ IsFiniteSet(Failed(c)')
    BY <1>t, <1>2, <2>1, CountsMoved
  <2> DEFINE nc == Cardinality(Called(c))  nc1 == Cardinality(Called(c)')
             no == Cardinality(Owing(c))  no1 == Cardinality(Owing(c)')
             nf == Cardinality(Failed(c))  nf1 == Cardinality(Failed(c)')
  <2>5. /\ nc \in Nat /\ nc1 \in Nat /\ no \in Nat /\ no1 \in Nat /\ nf \in Nat /\ nf1 \in Nat
        /\ nc1 + (IF HasCalled(proc[p], c) THEN 1 ELSE 0) = nc + (IF HasCalled(r, c) THEN 1 ELSE 0)
        /\ no1 + (IF Owes(proc[p], c) THEN 1 ELSE 0) = no + (IF Owes(r, c) THEN 1 ELSE 0)
        /\ nf1 + (IF HasFailed(proc[p], c) THEN 1 ELSE 0) = nf + (IF HasFailed(r, c) THEN 1 ELSE 0)
    BY <1>t, <1>2, <2>1, CountsMoved
  <2>6. /\ ~lost => errors[c] + no <= calls[c]
        /\ troubles = 0 => calls[c] = exits[c] + nc /\ errors[c] = failures[c] + nf
    BY <2>1 DEF Counted
  <2> HIDE DEF nc, nc1, no, no1, nf, nf1
  <2>7. /\ ~lost' => errors'[c] + no1 <= calls'[c]
        /\ troubles' = 0 => calls'[c] = exits'[c] + nc1 /\ errors'[c] = failures'[c] + nf1
    <3>1. CASE c # cmd0
      <4>1. nc1 = nc /\ no1 = no /\ nf1 = nf
        BY <2>2, <2>3, <2>5, <3>1
      <4>2. calls'[c] = calls[c] /\ errors'[c] = errors[c]
        BY <1>t, <1>7, <3>1
      <4> QED BY <1>2, <1>7, <2>6, <4>1, <4>2
    <3>2. CASE c = cmd0 /\ lost' /\ troubles' # 0
      BY <3>2
    <3>3. CASE c = cmd0 /\ UNCHANGED <<troubles, lost>> /\ s = OnlyError /\ ~(lost' /\ troubles' # 0)
      <4>1. nc1 = nc /\ no1 + 1 = no /\ nf1 = nf + 1
        BY <2>2, <2>3, <2>5, <3>3, SampleLists
      <4>2. calls'[c] = calls[c] /\ errors'[c] = errors[c] + 1
        BY <1>t, <1>7, <3>3
      <4> QED BY <1>t, <1>2, <2>5, <2>6, <3>3, <4>1, <4>2
    <3>4. CASE c = cmd0 /\ UNCHANGED <<troubles, lost>> /\ s # OnlyError /\ ~(lost' /\ troubles' # 0)
      <4>1. nc1 = nc + 1 /\ no1 <= no + 1 /\ nf1 = nf
        BY <2>2, <2>3, <2>5, <3>4
      <4>2. calls'[c] = calls[c] + 1 /\ errors'[c] = errors[c]
        BY <1>t, <1>7, <3>4
      <4> QED BY <1>t, <1>2, <2>5, <2>6, <3>4, <4>1, <4>2
    <3> QED BY <1>7, <3>1, <3>2, <3>3, <3>4
  <2> QED BY <2>4, <2>7 DEF Counted, nc1, no1, nf1
<1> QED BY <1>8, <1>9 DEF InvocationInv

LEMMA OneMore ==
  ASSUME NEW f \in [Names -> Nat], NEW k
  PROVE  [f EXCEPT ![k] = @ + 1] \in [Names -> Nat]
<1>1. CASE k \in Names
  BY <1>1
<1>2. CASE k \notin Names
  BY <1>2
<1> QED BY <1>1, <1>2

LEMMA ExitKeeps ==
  ASSUME InvocationInv, NEW p \in Processes, ExitRun(p)
  PROVE  InvocationInv'
<1> DEFINE cmd0 == proc[p].command
           r == IF proc[p].outer
                THEN [Away EXCEPT !.at = "record", !.command = Podman, !.code = proc[p].code]
                ELSE Away
<1>t. /\ RunTypes /\ troubles \in Nat /\ lost \in BOOLEAN /\ proc[p] \in Runs
      /\ calls \in [Names -> Nat] /\ errors \in [Names -> Nat]
      /\ exits \in [Names -> Nat] /\ failures \in [Names -> Nat]
  BY DEF InvocationInv, RunTypes
<1>1. /\ proc[p].at = "exit" /\ proc' = [proc EXCEPT ![p] = r]
      /\ exits' = IF proc[p].seen THEN [exits EXCEPT ![cmd0] = @ + 1] ELSE exits
      /\ failures' = IF proc[p].seen /\ proc[p].code # 0 THEN [failures EXCEPT ![cmd0] = @ + 1] ELSE failures
      /\ UNCHANGED <<troubles, lost, calls, errors>>
  BY DEF ExitRun, Continues
<1>2. r \in Runs /\ ~r.seen /\ r.at # "sample"
  <2>1. CASE proc[p].outer
    <3>1. proc[p].code \in {0, 1}
      BY <1>t DEF Runs
    <3>2. /\ [Away EXCEPT !.at = "record", !.command = Podman, !.code = proc[p].code] \in Runs
          /\ ~[Away EXCEPT !.at = "record", !.command = Podman, !.code = proc[p].code].seen
          /\ [Away EXCEPT !.at = "record", !.command = Podman, !.code = proc[p].code].at = "record"
      BY <3>1 DEF Away, Runs
    <3> QED BY <2>1, <3>2
  <2>2. CASE ~proc[p].outer
    <3>1. Away.at # "sample"
      BY DEF Away
    <3> QED BY <2>2, <3>1, AwayIsARun
  <2> QED BY <2>1, <2>2
<1> HIDE DEF r
<1>3. WellRun(r)
  BY <1>2 DEF WellRun
<1>4. RunTypes'
  <2>1. proc' \in [Processes -> Runs] /\ \A q \in Processes : WellRun(proc'[q])
    BY <1>t, <1>1, <1>2, <1>3, RunTyped
  <2>2. exits' \in [Names -> Nat]
    <3>1. [exits EXCEPT ![cmd0] = @ + 1] \in [Names -> Nat]
      BY <1>t, OneMore
    <3> QED BY <1>t, <1>1, <3>1, Zenon
  <2>3. failures' \in [Names -> Nat]
    <3>1. [failures EXCEPT ![cmd0] = @ + 1] \in [Names -> Nat]
      BY <1>t, OneMore
    <3> QED BY <1>t, <1>1, <3>1, Zenon
  <2> QED BY <1>t, <1>1, <2>1, <2>2, <2>3 DEF RunTypes
<1>5. ASSUME NEW c \in Names PROVE Counted(c)'
  <2>1. Counted(c)
    BY DEF InvocationInv
  <2>2. /\ HasCalled(proc[p], c) <=> c = cmd0 /\ proc[p].seen
        /\ HasFailed(proc[p], c) <=> c = cmd0 /\ proc[p].seen /\ proc[p].code # 0
        /\ ~Owes(proc[p], c)
    BY <1>1 DEF HasCalled, Owes, HasFailed
  <2>3. ~HasCalled(r, c) /\ ~Owes(r, c) /\ ~HasFailed(r, c)
    BY <1>2 DEF HasCalled, Owes, HasFailed
  <2>4. IsFiniteSet(Called(c)') /\ IsFiniteSet(Owing(c)') /\ IsFiniteSet(Failed(c)')
    BY <1>t, <1>1, <2>1, CountsMoved
  <2> DEFINE nc == Cardinality(Called(c))  nc1 == Cardinality(Called(c)')
             no == Cardinality(Owing(c))  no1 == Cardinality(Owing(c)')
             nf == Cardinality(Failed(c))  nf1 == Cardinality(Failed(c)')
  <2>5. /\ nc \in Nat /\ nc1 \in Nat /\ no \in Nat /\ no1 \in Nat /\ nf \in Nat /\ nf1 \in Nat
        /\ nc1 + (IF HasCalled(proc[p], c) THEN 1 ELSE 0) = nc + (IF HasCalled(r, c) THEN 1 ELSE 0)
        /\ no1 + (IF Owes(proc[p], c) THEN 1 ELSE 0) = no + (IF Owes(r, c) THEN 1 ELSE 0)
        /\ nf1 + (IF HasFailed(proc[p], c) THEN 1 ELSE 0) = nf + (IF HasFailed(r, c) THEN 1 ELSE 0)
    BY <1>t, <1>1, <2>1, CountsMoved
  <2>6. /\ ~lost => errors[c] + no <= calls[c]
        /\ troubles = 0 => calls[c] = exits[c] + nc /\ errors[c] = failures[c] + nf
    BY <2>1 DEF Counted
  <2> HIDE DEF nc, nc1, no, no1, nf, nf1
  <2>7. /\ no1 = no
        /\ exits'[c] + nc1 = exits[c] + nc /\ failures'[c] + nf1 = failures[c] + nf
    <3>1. no1 = no
      BY <2>2, <2>3, <2>5
    <3>2. exits'[c] + nc1 = exits[c] + nc
      <4>1. CASE c = cmd0 /\ proc[p].seen
        BY <1>t, <1>1, <2>2, <2>3, <2>5, <4>1
      <4>2. CASE ~(c = cmd0 /\ proc[p].seen)
        BY <1>t, <1>1, <2>2, <2>3, <2>5, <4>2
      <4> QED BY <4>1, <4>2
    <3>3. failures'[c] + nf1 = failures[c] + nf
      <4>1. CASE c = cmd0 /\ proc[p].seen /\ proc[p].code # 0
        BY <1>t, <1>1, <2>2, <2>3, <2>5, <4>1
      <4>2. CASE ~(c = cmd0 /\ proc[p].seen /\ proc[p].code # 0)
        BY <1>t, <1>1, <2>2, <2>3, <2>5, <4>2
      <4> QED BY <4>1, <4>2
    <3> QED BY <3>1, <3>2, <3>3
  <2>8. /\ ~lost' => errors'[c] + no1 <= calls'[c]
        /\ troubles' = 0 => calls'[c] = exits'[c] + nc1 /\ errors'[c] = failures'[c] + nf1
    BY <1>1, <2>6, <2>7
  <2> QED BY <2>4, <2>8 DEF Counted, nc1, no1, nf1
<1> QED BY <1>4, <1>5 DEF InvocationInv

LEMMA KilledKeeps ==
  ASSUME InvocationInv, NEW p \in Processes, Killed(p)
  PROVE  InvocationInv'
<1>t. RunTypes /\ troubles \in Nat
  BY DEF InvocationInv, RunTypes
<1>1. /\ proc' = [proc EXCEPT ![p] = Away] /\ troubles' = troubles + 1
      /\ UNCHANGED <<lost, calls, errors, exits, failures>>
  BY DEF Killed, Trouble, Continues
<1>2. RunTypes'
  <2>1. proc' \in [Processes -> Runs] /\ \A q \in Processes : WellRun(proc'[q])
    BY <1>t, <1>1, AwayIsARun, RunTyped
  <2> QED BY <1>t, <1>1, <2>1 DEF RunTypes
<1>3. ASSUME NEW c \in Names PROVE Counted(c)'
  <2>1. Counted(c) /\ errors[c] \in Nat /\ calls[c] \in Nat
    BY DEF InvocationInv, RunTypes
  <2>2. ~Owes(Away, c)
    BY DEF Owes, Away
  <2>3. IsFiniteSet(Called(c)') /\ IsFiniteSet(Owing(c)') /\ IsFiniteSet(Failed(c)')
    BY <1>t, <1>1, <2>1, CountsMoved
  <2>4. /\ Cardinality(Owing(c)) \in Nat /\ Cardinality(Owing(c)') \in Nat
        /\ Cardinality(Owing(c)') + (IF Owes(proc[p], c) THEN 1 ELSE 0)
             = Cardinality(Owing(c)) + (IF Owes(Away, c) THEN 1 ELSE 0)
    BY <1>t, <1>1, <2>1, CountsMoved
  <2>5. Cardinality(Owing(c)') <= Cardinality(Owing(c))
    BY <2>2, <2>4
  <2>6. ~lost => errors[c] + Cardinality(Owing(c)) <= calls[c]
    BY <2>1 DEF Counted
  <2>7. ~lost' => errors'[c] + Cardinality(Owing(c)') <= calls'[c]
    BY <1>1, <2>1, <2>4, <2>5, <2>6
  <2>8. troubles' # 0
    BY <1>t, <1>1
  <2> QED BY <2>3, <2>7, <2>8 DEF Counted
<1> QED BY <1>2, <1>3 DEF InvocationInv

LEMMA InvocationStart == InvocationInit => InvocationInv
<1> SUFFICES ASSUME InvocationInit PROVE InvocationInv
  OBVIOUS
<1>1. RunTypes
  BY AwayIsARun DEF InvocationInit, RunTypes
<1>2. ASSUME NEW c \in Names PROVE Counted(c)
  <2>1. \A p \in Processes : ~HasCalled(proc[p], c) /\ ~Owes(proc[p], c) /\ ~HasFailed(proc[p], c)
    BY DEF InvocationInit, Away, HasCalled, Owes, HasFailed
  <2>2. Called(c) = {} /\ Owing(c) = {} /\ Failed(c) = {}
    BY <2>1 DEF Called, Owing, Failed
  <2> QED BY <2>2, FS_EmptySet DEF InvocationInit, Counted
<1> QED BY <1>1, <1>2 DEF InvocationInv

LEMMA InvocationStep == InvocationInv /\ [InvocationNext]_invocationVars => InvocationInv'
<1> SUFFICES ASSUME InvocationInv, [InvocationNext]_invocationVars PROVE InvocationInv'
  OBVIOUS
<1>1. CASE UNCHANGED invocationVars
  BY <1>1 DEF invocationVars, InvocationInv, RunTypes, Counted, Called, Owing, Failed
<1> QED BY <1>1, BeforeSamplesKeep, OpenKeeps, RecordKeeps, ExitKeeps, KilledKeeps DEF InvocationNext

(* What `wkp usage' tells of a subcommand: never more failures than calls, and *)
(* when no sample was lost and nothing killed, the exits there were            *)
(* (record_invocation after dispatch, nested in containers or not).            *)
THEOREM UsageLogIsExact == InvocationSpec => []FailuresAreCalls
<1>1. InvocationInv => FailuresAreCalls
  <2> SUFFICES ASSUME InvocationInv, NEW c \in Names
               PROVE  /\ ~lost => errors[c] <= calls[c]
                      /\ troubles = 0 /\ (\A p \in Processes : proc[p] = Away) =>
                           calls[c] = exits[c] /\ errors[c] = failures[c]
    BY DEF FailuresAreCalls
  <2>1. /\ Counted(c) /\ errors[c] \in Nat /\ calls[c] \in Nat
        /\ exits[c] \in Nat /\ failures[c] \in Nat
    BY DEF InvocationInv, RunTypes
  <2>2. Cardinality(Owing(c)) \in Nat
    BY <2>1, FS_CardinalityType DEF Counted
  <2>3. ~lost => errors[c] <= calls[c]
    BY <2>1, <2>2 DEF Counted
  <2>4. ASSUME troubles = 0, \A p \in Processes : proc[p] = Away
        PROVE  calls[c] = exits[c] /\ errors[c] = failures[c]
    <3>1. Called(c) = {} /\ Failed(c) = {}
      BY <2>4, AwayIsARun DEF Called, Failed, HasCalled, HasFailed
    <3>2. Cardinality(Called(c)) = 0 /\ Cardinality(Failed(c)) = 0
      BY <3>1, FS_EmptySet
    <3> QED BY <2>1, <2>4, <3>2 DEF Counted
  <2> QED BY <2>3, <2>4
<1> QED BY <1>1, InvocationStart, InvocationStep, PTL DEF InvocationSpec

-----------------------------------------------------------------------------
(* Questions to the index.                                                    *)

LEMMA LeastOf ==
  ASSUME NEW S, S \subseteq Nat, S # {}
  PROVE  \E x \in S : \A y \in S : x <= y
<1> DEFINE R == OpToRel(<, Nat)
<1>1. \E x \in S : \A y \in S : ~(<<y, x>> \in R)
  BY NatLessThanWellFounded, WFMin
<1>2. \A x, y \in Nat : <<y, x>> \in R <=> y < x
  BY DEF OpToRel
<1> HIDE DEF R
<1>3. PICK x \in S : \A y \in S : ~(<<y, x>> \in R)
  BY <1>1
<1>4. \A y \in S : ~(y < x)
  BY <1>2, <1>3
<1>5. \A y \in S : x <= y
  BY <1>4
<1> QED BY <1>5

\* What a rule for each step makes of a, one step after the other.
Iterates(g, n, a, step) ==
  /\ DOMAIN g = 0 .. n /\ g[0] = a
  /\ \A k \in 1 .. n : g[k] = step[k][g[k - 1]]

LEMMA IterateExists ==
  ASSUME NEW S, NEW a \in S, NEW n \in Nat, NEW step \in [1 .. n -> [S -> S]]
  PROVE  \E g \in [0 .. n -> S] : Iterates(g, n, a, step)
<1> DEFINE Ok(m) == \E g \in [0 .. m -> S] : Iterates(g, m, a, step)
           Bad == {m \in 0 .. n : ~Ok(m)}
<1>1. Ok(0)
  <2>1. [k \in 0 .. 0 |-> a] \in [0 .. 0 -> S] /\ Iterates([k \in 0 .. 0 |-> a], 0, a, step)
    BY DEF Iterates
  <2> QED BY <2>1
<1>2. ASSUME NEW m \in 1 .. n, Ok(m - 1) PROVE Ok(m)
  <2>1. PICK g \in [0 .. m - 1 -> S] : Iterates(g, m - 1, a, step)
    BY <1>2
  <2> DEFINE f == [k \in 0 .. m |-> IF k = m THEN step[m][g[m - 1]] ELSE g[k]]
  <2>2. step[m][g[m - 1]] \in S
    <3>1. g[m - 1] \in S /\ step[m] \in [S -> S]
      BY <2>1
    <3> QED BY <3>1
  <2>3. f \in [0 .. m -> S]
    BY <2>1, <2>2
  <2>4. f[0] = a
    BY <2>1 DEF Iterates
  <2>5. \A k \in 1 .. m : f[k] = step[k][f[k - 1]]
    BY <2>1 DEF Iterates
  <2>6. Iterates(f, m, a, step)
    BY <2>3, <2>4, <2>5 DEF Iterates
  <2> QED BY <2>3, <2>6
<1>3. Bad = {}
  <2> SUFFICES ASSUME Bad # {} PROVE FALSE
    OBVIOUS
  <2>1. Bad \subseteq Nat
    OBVIOUS
  <2> HIDE DEF Ok
  <2>2. PICK m \in Bad : \A y \in Bad : m <= y
    <3> HIDE DEF Bad
    <3> QED BY <2>1, LeastOf
  <2>3. m \in 1 .. n /\ m - 1 \notin Bad
    BY <1>1, <2>2
  <2>4. Ok(m - 1)
    BY <2>3
  <2> QED BY <1>2, <2>2, <2>3, <2>4
<1>4. Ok(n)
  <2> HIDE DEF Ok
  <2> QED BY <1>3
<1> QED BY <1>4

\* ... and are the only such sequence.
-----------------------------------------------------------------------------
(* The tokens of an answer. *)

\* A list of answers, as far as its tokens go.
Hits == [path : Paths, tier : 0 .. 2, tokens : Nat, hop : Nat]
HasTokens(hits) == hits \in Seq(Hits)

LEMMA HitsAre ==
  ASSUME NEW hits, HasTokens(hits)
  PROVE  /\ Len(hits) \in Nat /\ DOMAIN hits = 1 .. Len(hits)
         /\ \A i \in 1 .. Len(hits) : hits[i] \in Hits /\ hits[i].tokens \in Nat
<1>1. Len(hits) \in Nat /\ DOMAIN hits = 1 .. Len(hits)
  BY LenProperties DEF HasTokens
<1>2. \A i \in 1 .. Len(hits) : hits[i] \in Hits
  BY ElementOfSeq DEF HasTokens
<1>3. \A h \in Hits : h.tokens \in Nat
  BY DEF Hits
<1> QED BY <1>1, <1>2, <1>3

Adding(hits) == [k \in 1 .. Len(hits) |-> [x \in Nat |-> x + hits[k].tokens]]

LEMMA SpentIs ==
  ASSUME NEW hits, HasTokens(hits)
  PROVE  \E g \in [0 .. Len(hits) -> Nat] :
           Iterates(g, Len(hits), 0, Adding(hits)) /\ Spent(hits) = g[Len(hits)]
<1> DEFINE n == Len(hits)
           Sums(total) == total = [i \in 0 .. n |-> IF i = 0 THEN 0 ELSE total[i - 1] + hits[i].tokens]
<1>1. n \in Nat /\ \A i \in 1 .. n : hits[i].tokens \in Nat
  BY HitsAre
<1>2. Adding(hits) \in [1 .. n -> [Nat -> Nat]]
  BY <1>1 DEF Adding
<1>3. PICK g \in [0 .. n -> Nat] : Iterates(g, n, 0, Adding(hits))
  BY <1>1, <1>2, IterateExists
<1>4. Sums(g)
  <2>1. \A k \in 1 .. n : g[k] = g[k - 1] + hits[k].tokens
    <3> SUFFICES ASSUME NEW k \in 1 .. n PROVE g[k] = g[k - 1] + hits[k].tokens
      OBVIOUS
    <3>1. g[k] = Adding(hits)[k][g[k - 1]]
      BY <1>3 DEF Iterates
    <3>2. g[k - 1] \in Nat
      <4>1. k - 1 \in 0 .. n
        BY <1>1
      <4> QED BY <1>3, <4>1
    <3>3. Adding(hits)[k] = [x \in Nat |-> x + hits[k].tokens]
      BY DEF Adding
    <3> QED BY <3>1, <3>2, <3>3
  <2>2. \A k \in 0 .. n : g[k] = IF k = 0 THEN 0 ELSE g[k - 1] + hits[k].tokens
    BY <2>1, <1>1, <1>3 DEF Iterates
  <2> QED BY <2>2
<1>5. PICK total : total = CHOOSE t : Sums(t)
  OBVIOUS
<1>6. Sums(total)
  <2> HIDE DEF Sums
  <2> QED BY <1>4, <1>5
<1>7. Spent(hits) = total[n]
  BY <1>5 DEF Spent
<1>8. \A k \in 1 .. n : total[k] = total[k - 1] + hits[k].tokens
  BY <1>6
<1>9. \A k \in 0 .. n : total[k] = g[k]
  <2> DEFINE Bad == {k \in 0 .. n : total[k] # g[k]}
  <2> SUFFICES ASSUME Bad # {} PROVE FALSE
    OBVIOUS
  <2>1. Bad \subseteq Nat
    OBVIOUS
  <2>2. PICK k \in Bad : \A y \in Bad : k <= y
    <3> HIDE DEF Bad
    <3> QED BY <2>1, LeastOf
  <2>3. total[0] = 0 /\ g[0] = 0
    BY <1>3, <1>6, <1>1 DEF Iterates
  <2>4. k \in 1 .. n /\ k - 1 \notin Bad /\ k - 1 \in 0 .. n
    BY <2>2, <2>3, <1>1
  <2>5. g[k] = g[k - 1] + hits[k].tokens
    BY <2>4, <1>4, <1>1
  <2> QED BY <1>8, <2>2, <2>4, <2>5
<1> QED BY <1>1, <1>3, <1>7, <1>9

LEMMA CutIs ==
  ASSUME NEW S, NEW q \in Seq(S), NEW n \in Nat
  PROVE  /\ Cut(q, n) \in Seq(S)
         /\ Len(Cut(q, n)) = IF n < Len(q) THEN n ELSE Len(q)
         /\ \A i \in 1 .. Len(Cut(q, n)) : i \in 1 .. Len(q) /\ Cut(q, n)[i] = q[i]
<1> DEFINE m == IF n < Len(q) THEN n ELSE Len(q)
<1>1. Len(q) \in Nat /\ m \in 0 .. Len(q) /\ \A i \in 1 .. m : q[i] \in S
  BY LenProperties, ElementOfSeq
<1>2. Cut(q, n) = SubSeq(q, 1, m)
  BY DEF Cut
<1> HIDE DEF m
<1>3. /\ SubSeq(q, 1, m) \in Seq(S)
      /\ Len(SubSeq(q, 1, m)) = IF 1 <= m THEN m - 1 + 1 ELSE 0
      /\ \A i \in 1 .. m - 1 + 1 : SubSeq(q, 1, m)[i] = q[1 + i - 1]
  BY <1>1, SubSeqProperties
<1>4. Len(SubSeq(q, 1, m)) = m /\ \A i \in 1 .. m : SubSeq(q, 1, m)[i] = q[i]
  BY <1>1, <1>3
<1> QED BY <1>1, <1>2, <1>3, <1>4 DEF m

LEMMA SpentOfCut ==
  ASSUME NEW hits, HasTokens(hits)
  PROVE  \E g \in [0 .. Len(hits) -> Nat] :
           /\ g[0] = 0
           /\ \A k \in 1 .. Len(hits) : g[k] = g[k - 1] + hits[k].tokens
           /\ \A k \in 0 .. Len(hits) : Spent(Cut(hits, k)) = g[k]
<1>1. Len(hits) \in Nat /\ \A i \in 1 .. Len(hits) : hits[i].tokens \in Nat
  BY HitsAre
<1>2. PICK g \in [0 .. Len(hits) -> Nat] : Iterates(g, Len(hits), 0, Adding(hits))
  BY SpentIs
<1>3. \A k \in 1 .. Len(hits) : g[k] = g[k - 1] + hits[k].tokens
  <2> SUFFICES ASSUME NEW k \in 1 .. Len(hits) PROVE g[k] = g[k - 1] + hits[k].tokens
    OBVIOUS
  <2>1. g[k] = Adding(hits)[k][g[k - 1]]
    BY <1>2 DEF Iterates
  <2>2. g[k - 1] \in Nat
    <3>1. k - 1 \in 0 .. Len(hits)
      BY <1>1
    <3> QED BY <1>2, <3>1
  <2>3. Adding(hits)[k] = [x \in Nat |-> x + hits[k].tokens]
    BY DEF Adding
  <2> QED BY <2>1, <2>2, <2>3
<1>4. ASSUME NEW k \in 0 .. Len(hits) PROVE Spent(Cut(hits, k)) = g[k]
  <2>1. HasTokens(Cut(hits, k)) /\ Len(Cut(hits, k)) = k /\ \A i \in 1 .. k : Cut(hits, k)[i] = hits[i]
    BY <1>1, CutIs DEF HasTokens
  <2>2. PICK h \in [0 .. k -> Nat] : Iterates(h, k, 0, Adding(Cut(hits, k))) /\ Spent(Cut(hits, k)) = h[k]
    BY <2>1, SpentIs
  <2>3. \A i \in 1 .. k : Adding(hits)[i] = Adding(Cut(hits, k))[i]
    <3> SUFFICES ASSUME NEW i \in 1 .. k PROVE Adding(hits)[i] = Adding(Cut(hits, k))[i]
      OBVIOUS
    <3>1. i \in 1 .. Len(hits) /\ i \in 1 .. Len(Cut(hits, k)) /\ Cut(hits, k)[i] = hits[i]
      BY <1>1, <2>1
    <3>2. Adding(hits)[i] = [x \in Nat |-> x + hits[i].tokens]
      BY <3>1 DEF Adding
    <3>3. Adding(Cut(hits, k))[i] = [x \in Nat |-> x + Cut(hits, k)[i].tokens]
      BY <3>1 DEF Adding
    <3> QED BY <3>1, <3>2, <3>3
  <2>4. Iterates(g, Len(hits), 0, Adding(hits)) /\ Iterates(h, k, 0, Adding(Cut(hits, k)))
    BY <1>2, <2>2
  <2>5. \A i \in 0 .. k : g[i] = h[i]
    <3> DEFINE Bad == {i \in 0 .. k : g[i] # h[i]}
    <3>1. Bad = {}
      <4> SUFFICES ASSUME Bad # {} PROVE FALSE
        OBVIOUS
      <4>1. Bad \subseteq Nat
        OBVIOUS
      <4>2. PICK i \in Bad : \A y \in Bad : i <= y
        <5> HIDE DEF Bad
        <5> QED BY <4>1, LeastOf
      <4>3. i \in 0 .. k /\ g[i] # h[i]
        BY <4>2
      <4>4. i # 0
        BY <2>4, <4>3 DEF Iterates
      <4>5. i - 1 \in 0 .. k /\ i \in 1 .. k /\ i \in 1 .. Len(hits)
        BY <1>1, <4>3, <4>4
      <4>6. i - 1 \notin Bad
        BY <4>2, <4>5
      <4>7. g[i - 1] = h[i - 1]
        BY <4>5, <4>6
      <4>8. g[i] = Adding(hits)[i][g[i - 1]] /\ h[i] = Adding(Cut(hits, k))[i][h[i - 1]]
        BY <2>4, <4>5 DEF Iterates
      <4>9. Adding(hits)[i] = Adding(Cut(hits, k))[i]
        BY <2>3, <4>5
      <4> QED BY <4>3, <4>7, <4>8, <4>9
    <3> QED BY <3>1
  <2> QED BY <1>1, <2>2, <2>5
<1>5. g[0] = 0
  BY <1>2 DEF Iterates
<1> QED BY <1>3, <1>4, <1>5

\* apply_budget keeps a prefix that fits, and stops before one that does not.
LEMMA BudgetKeepsAPrefix ==
  ASSUME NEW hits, HasTokens(hits), NEW budget \in Nat
  PROVE  \E m \in 0 .. Len(hits) :
           /\ ApplyBudget(hits, budget) = Cut(hits, m)
           /\ Len(Cut(hits, m)) = m
           /\ m > 1 => Spent(Cut(hits, m)) <= budget
           /\ m < Len(hits) => m > 0 /\ Spent(Cut(hits, m)) + hits[m + 1].tokens > budget
<1>1. Len(hits) \in Nat /\ DOMAIN hits = 1 .. Len(hits) /\ \A i \in 1 .. Len(hits) : hits[i].tokens \in Nat
  BY HitsAre
<1>2. PICK g \in [0 .. Len(hits) -> Nat] :
           /\ g[0] = 0
           /\ \A k \in 1 .. Len(hits) : g[k] = g[k - 1] + hits[k].tokens
           /\ \A k \in 0 .. Len(hits) : Spent(Cut(hits, k)) = g[k]
  BY SpentOfCut
<1> DEFINE fits == {n \in DOMAIN hits : n = 1 \/ Spent(Cut(hits, n)) <= budget}
           Over == {n \in 1 .. Len(hits) + 1 : n \notin fits}
<1>3. fits = {n \in 1 .. Len(hits) : n = 1 \/ g[n] <= budget}
  BY <1>1, <1>2
<1>4. PICK o \in Over : \A y \in Over : o <= y
  <2>1. Len(hits) + 1 \in Over
    BY <1>1
  <2>2. Over \subseteq Nat
    OBVIOUS
  <2> HIDE DEF Over
  <2> QED BY <2>1, <2>2, LeastOf
<1>5. o \in 1 .. Len(hits) + 1 /\ o - 1 \in 0 .. Len(hits)
  BY <1>1, <1>4
<1>6. \A n \in 1 .. o - 1 : n \in fits
  BY <1>1, <1>4, <1>5
<1>7. \A n \in fits : n < o
  <2> DEFINE Late == {n \in fits : n >= o}
  <2> SUFFICES ASSUME Late # {} PROVE FALSE
    BY <1>1, <1>5
  <2>1. PICK n \in Late : \A y \in Late : n <= y
    <3>1. Late \subseteq Nat
      BY <1>1
    <3> HIDE DEF Late
    <3> QED BY <3>1, LeastOf
  <2>2. n > o /\ n \in 2 .. Len(hits) /\ n - 1 \in 1 .. Len(hits) /\ n - 1 >= o
    BY <1>1, <1>4, <1>5, <2>1
  <2>3. n - 1 \notin fits
    BY <2>1, <2>2
  <2>4. g[n] = g[n - 1] + hits[n].tokens /\ g[n] \in Nat /\ g[n - 1] \in Nat /\ hits[n].tokens \in Nat
    BY <1>1, <1>2, <2>2
  <2>5. g[n] <= budget /\ ~(g[n - 1] <= budget)
    <3>1. n \in fits /\ n # 1
      BY <2>1, <2>2
    <3> HIDE DEF fits
    <3> QED BY <1>3, <2>2, <2>3, <3>1
  <2> QED BY <2>4, <2>5
<1>8. fits = 1 .. o - 1
  BY <1>1, <1>5, <1>6, <1>7
<1>9. Cardinality(fits) = o - 1
  <2>1. Cardinality(1 .. o - 1) = IF 1 > o - 1 THEN 0 ELSE o - 1 - 1 + 1
    BY <1>5, FS_Interval
  <2> HIDE DEF fits
  <2> QED BY <1>5, <1>8, <2>1
<1>10. ApplyBudget(hits, budget) = Cut(hits, o - 1)
  BY <1>9 DEF ApplyBudget
<1>11. Len(Cut(hits, o - 1)) = o - 1
  BY <1>1, <1>5, CutIs DEF HasTokens
<1>12. o - 1 > 1 => Spent(Cut(hits, o - 1)) <= budget
  BY <1>5, <1>6
<1>13. o - 1 < Len(hits) => o - 1 > 0 /\ Spent(Cut(hits, o - 1)) + hits[o].tokens > budget
  <2> SUFFICES ASSUME o - 1 < Len(hits) PROVE o - 1 > 0 /\ Spent(Cut(hits, o - 1)) + hits[o].tokens > budget
    OBVIOUS
  <2>1. o \notin fits /\ o \in 1 .. Len(hits)
    BY <1>4, <1>5, <1>1
  <2>2. o # 1 /\ ~(g[o] <= budget)
    <3> HIDE DEF fits
    <3> QED BY <1>3, <2>1
  <2>3. g[o] = g[o - 1] + hits[o].tokens /\ g[o] \in Nat /\ Spent(Cut(hits, o - 1)) = g[o - 1]
    <3>1. o \in 1 .. Len(hits) /\ o \in 0 .. Len(hits) /\ o - 1 \in 0 .. Len(hits)
      BY <1>1, <1>5, <2>1
    <3> HIDE DEF fits
    <3> QED BY <1>2, <3>1
  <2> QED BY <1>5, <2>2, <2>3
<1>14. o - 1 + 1 = o
  BY <1>5
<1> QED BY <1>5, <1>10, <1>11, <1>12, <1>13, <1>14

-----------------------------------------------------------------------------
(* Orders and walks. *)

AnyRow == [tier : 0 .. 2, tokens : Nat, score : Nat, near : Nat, gone : BOOLEAN]

IndexTyped ==
  /\ items \in [Paths -> AnyRow]
  /\ itemEdges \in [Paths -> SUBSET Paths]

\* A list, as a sequence or as a function from its positions.
LEMMA ListIs ==
  ASSUME NEW S, NEW n \in Nat, NEW q \in [1 .. n -> S]
  PROVE  q \in Seq(S) /\ Len(q) = n /\ DOMAIN q = 1 .. n
<1>1. q \in Seq(S)
  OBVIOUS
<1> QED BY <1>1, LenProperties

LEMMA RankedIs ==
  ASSUME NEW S, IsFiniteSet(S), NEW weight, NEW q \in Ranked(S, weight)
  PROVE  /\ q \in Seq(S) /\ Len(q) = Cardinality(S) /\ Len(q) \in Nat /\ DOMAIN q = 1 .. Len(q)
         /\ \A i, j \in 1 .. Len(q) : i # j => q[i] # q[j]
         /\ \A p \in S : \E i \in 1 .. Len(q) : q[i] = p
<1> DEFINE n == Cardinality(S)
<1>1. n \in Nat
  BY FS_CardinalityType
<1>2. q \in [1 .. n -> S] /\ \A i, j \in DOMAIN q : i < j => q[i] # q[j]
  BY DEF Ranked
<1>3. q \in Seq(S) /\ Len(q) = n /\ DOMAIN q = 1 .. n
  BY <1>1, <1>2, ListIs
<1>4. \A i, j \in 1 .. n : i # j => q[i] # q[j]
  <2> SUFFICES ASSUME NEW i \in 1 .. n, NEW j \in 1 .. n, i # j PROVE q[i] # q[j]
    OBVIOUS
  <2>1. i < j \/ j < i
    BY <1>1
  <2> QED BY <1>2, <1>3, <2>1
<1>5. IsFiniteSet(1 .. n) /\ Cardinality(1 .. n) = n
  BY <1>1, FS_Interval
<1>6. q \in Injection(1 .. n, S)
  BY <1>2, <1>4 DEF Injection, IsInjective
<1>7. q \in Surjection(1 .. n, S)
  BY <1>5, <1>6, FS_Injection
<1>8. \A p \in S : \E i \in 1 .. n : q[i] = p
  BY <1>7 DEF Surjection
<1> QED BY <1>1, <1>3, <1>4, <1>8

LEMMA ReachIs ==
  ASSUME IndexTyped, NEW p \in Paths, NEW n \in Nat
  PROVE  /\ Reach(p, n) \in [0 .. n -> SUBSET Paths]
         /\ Reach(p, n)[0] = {p}
         /\ \A k \in 1 .. n : Reach(p, n)[k] = UNION {itemEdges[q] : q \in Reach(p, n)[k - 1]}
<1> DEFINE Levels(level) ==
             level = [k \in 0 .. n |-> IF k = 0 THEN {p} ELSE UNION {itemEdges[q] : q \in level[k - 1]}]
           over == [k \in 1 .. n |-> [X \in SUBSET Paths |-> UNION {itemEdges[q] : q \in X}]]
<1>1. over \in [1 .. n -> [SUBSET Paths -> SUBSET Paths]]
  BY DEF IndexTyped
<1>2. {p} \in SUBSET Paths
  OBVIOUS
<1>3. PICK g \in [0 .. n -> SUBSET Paths] : Iterates(g, n, {p}, over)
  <2> HIDE DEF over
  <2> QED BY <1>1, <1>2, IterateExists
<1>4. \A k \in 1 .. n : g[k] = UNION {itemEdges[q] : q \in g[k - 1]}
  <2> SUFFICES ASSUME NEW k \in 1 .. n PROVE g[k] = UNION {itemEdges[q] : q \in g[k - 1]}
    OBVIOUS
  <2>1. g[k] = over[k][g[k - 1]]
    <3> HIDE DEF over
    <3> QED BY <1>3 DEF Iterates
  <2>2. g[k - 1] \in SUBSET Paths
    BY <1>3
  <2> QED BY <2>1, <2>2
<1>5. Levels(g)
  <2>1. g[0] = {p}
    BY <1>3 DEF Iterates
  <2>2. \A k \in 0 .. n : g[k] = IF k = 0 THEN {p} ELSE UNION {itemEdges[q] : q \in g[k - 1]}
    BY <1>4, <2>1
  <2> QED BY <1>3, <2>2
<1>6. PICK level : level = CHOOSE t : Levels(t)
  OBVIOUS
<1>7. Levels(level)
  <2> HIDE DEF Levels
  <2> QED BY <1>5, <1>6
<1>8. Reach(p, n) = level
  BY <1>6 DEF Reach
<1>9. /\ DOMAIN level = 0 .. n /\ level[0] = {p}
      /\ \A k \in 1 .. n : level[k] = UNION {itemEdges[q] : q \in level[k - 1]}
  BY <1>7
<1>10. level = g
  <2> DEFINE Bad == {k \in 0 .. n : level[k] # g[k]}
  <2>1. Bad = {}
    <3> SUFFICES ASSUME Bad # {} PROVE FALSE
      OBVIOUS
    <3>1. Bad \subseteq Nat
      OBVIOUS
    <3>2. PICK k \in Bad : \A y \in Bad : k <= y
      <4> HIDE DEF Bad
      <4> QED BY <3>1, LeastOf
    <3>3. k # 0
      BY <3>2, <1>9, <1>5
    <3>4. k \in 1 .. n /\ k - 1 \in 0 .. n /\ k - 1 \notin Bad
      BY <3>2, <3>3
    <3>5. level[k - 1] = g[k - 1]
      BY <3>4
    <3> QED BY <1>4, <1>9, <3>2, <3>4, <3>5
  <2>2. level = [k \in 0 .. n |-> level[k]]
    BY <1>7
  <2> QED BY <2>1, <2>2
<1> QED BY <1>3, <1>4, <1>8, <1>9, <1>10

LEMMA NeighboursAre ==
  ASSUME IndexTyped, NEW seed \in Paths, NEW n \in Nat, NEW p \in Neighbours(seed, n)
  PROVE  p \in InIndex /\ p # seed /\ HopOf(seed, p, n) \in 1 .. n
<1> DEFINE At == {k \in 0 .. n : p \in Reach(seed, n)[k]}
<1>1. p \in InIndex /\ p # seed /\ At # {}
  BY DEF Neighbours
<1>2. PICK k \in At : \A l \in At : k <= l
  <2>1. At \subseteq Nat
    OBVIOUS
  <2> HIDE DEF At
  <2> QED BY <1>1, <2>1, LeastOf
<1>3. k \in 0 .. n /\ p \in Reach(seed, n)[k] /\ \A l \in 0 .. k - 1 : p \notin Reach(seed, n)[l]
  BY <1>2
<1>4. HopOf(seed, p, n) \in 0 .. n /\ p \in Reach(seed, n)[HopOf(seed, p, n)]
  BY <1>3 DEF HopOf
<1>5. p \notin Reach(seed, n)[0]
  BY <1>1, ReachIs
<1> QED BY <1>1, <1>4, <1>5

\* Two edges are within reach.
LEMMA TwoEdges ==
  ASSUME IndexTyped, NEW seed \in Paths, NEW n \in Nat, n >= 2, NEW p \in InIndex, p # seed,
         \/ p \in itemEdges[seed]
         \/ \E q \in itemEdges[seed] : p \in itemEdges[q]
  PROVE  p \in Neighbours(seed, n)
<1>1. Reach(seed, n)[1] = itemEdges[seed]
  <2>1. Reach(seed, n)[1] = UNION {itemEdges[q] : q \in Reach(seed, n)[1 - 1]}
    BY ReachIs
  <2>2. Reach(seed, n)[1 - 1] = {seed}
    BY ReachIs
  <2> QED BY <2>1, <2>2
<1>2. Reach(seed, n)[2] = UNION {itemEdges[q] : q \in Reach(seed, n)[2 - 1]}
  BY ReachIs
<1>3. p \in Reach(seed, n)[1] \/ p \in Reach(seed, n)[2]
  BY <1>1, <1>2
<1> QED BY <1>3 DEF Neighbours

\* No item twice, and each as the index has it now.
Distinct(hits) == \A i, j \in 1 .. Len(hits) : i # j => hits[i].path # hits[j].path
UpToDate(hits) ==
  \A i \in 1 .. Len(hits) :
    /\ hits[i].path \in InIndex
    /\ hits[i].tier = items[hits[i].path].tier /\ hits[i].tokens = items[hits[i].path].tokens

LEMMA PathsAre ==
  ASSUME NEW hits, HasTokens(hits)
  PROVE  PathsOf(hits) = {hits[i].path : i \in 1 .. Len(hits)}
  BY HitsAre DEF PathsOf

MadeOf(hits, n, q, hop) == hits = [i \in 1 .. n |-> HitOf(q[i], hop[i])]

OneEach(q, n) == \A i, j \in 1 .. n : i # j => q[i] # q[j]
Listed(hits, n, q, hop) ==
  /\ HasTokens(hits) /\ Len(hits) = n /\ Distinct(hits) /\ UpToDate(hits)
  /\ \A i \in 1 .. n : hits[i].path = q[i] /\ hits[i].hop = hop[i]

LEMMA HitsOfList ==
  ASSUME IndexTyped, NEW n \in Nat, NEW q \in [1 .. n -> InIndex], NEW hop \in [1 .. n -> Nat],
         NEW hits, MadeOf(hits, n, q, hop), OneEach(q, n)
  PROVE  Listed(hits, n, q, hop)
<1>1. \A p \in InIndex : p \in Paths /\ items[p] \in AnyRow
  BY DEF InIndex, IndexTyped
<1>2. ASSUME NEW i \in 1 .. n
      PROVE  /\ hits[i] \in Hits /\ hits[i].path = q[i] /\ hits[i].hop = hop[i]
             /\ hits[i].tier = items[q[i]].tier /\ hits[i].tokens = items[q[i]].tokens
  <2>1. hits[i] = [path |-> q[i], tier |-> items[q[i]].tier, tokens |-> items[q[i]].tokens, hop |-> hop[i]]
    BY DEF HitOf, MadeOf
  <2>2. q[i] \in Paths /\ items[q[i]].tier \in 0 .. 2 /\ items[q[i]].tokens \in Nat
    BY <1>1 DEF AnyRow
  <2> QED BY <2>1, <2>2 DEF Hits
<1>3. hits \in [1 .. n -> Hits]
  BY <1>2 DEF MadeOf
<1>4. HasTokens(hits) /\ Len(hits) = n
  BY <1>3, ListIs DEF HasTokens
<1>5. Distinct(hits)
  BY <1>2, <1>4 DEF Distinct, OneEach
<1>6. UpToDate(hits)
  BY <1>2, <1>4 DEF UpToDate
<1> QED BY <1>2, <1>4, <1>5, <1>6 DEF Listed

LEMMA WalksAre ==
  ASSUME RetrievalSetting, IndexTyped, NEW seed \in Paths, NEW depth \in Nat,
         NEW S, S \subseteq Neighbours(seed, depth), NEW hits \in Walks(seed, S, depth)
  PROVE  /\ HasTokens(hits) /\ Distinct(hits) /\ UpToDate(hits) /\ Len(hits) <= Unlimited
         /\ PathsOf(hits) = S
         /\ \A i \in 1 .. Len(hits) : hits[i].hop >= 1
<1> DEFINE hop == [p \in S |-> HopOf(seed, p, depth)]
           weight == [p \in S |-> 10 * (depth - hop[p]) + 2 - items[p].tier]
<1>1. S \subseteq InIndex /\ S \subseteq Paths
  BY NeighboursAre DEF InIndex
<1>2. IsFiniteSet(S) /\ Cardinality(S) \in Nat /\ Cardinality(S) <= Unlimited
  <2>1. IsFiniteSet(S) /\ Cardinality(S) <= Cardinality(Paths)
    BY <1>1, FS_Subset DEF RetrievalSetting
  <2>2. Cardinality(Paths) \in Nat /\ Cardinality(S) \in Nat
    BY <2>1, FS_CardinalityType DEF RetrievalSetting
  <2> QED BY <2>1, <2>2 DEF RetrievalSetting
<1>3. PICK q \in Ranked(S, weight) : hits = [i \in DOMAIN q |-> HitOf(q[i], hop[q[i]])]
  BY DEF Walks
<1> HIDE DEF weight
<1>4. /\ q \in Seq(S) /\ Len(q) = Cardinality(S) /\ DOMAIN q = 1 .. Cardinality(S)
      /\ \A i, j \in 1 .. Cardinality(S) : i # j => q[i] # q[j]
      /\ \A p \in S : \E i \in 1 .. Cardinality(S) : q[i] = p
  BY <1>2, RankedIs
<1>5. q \in [1 .. Cardinality(S) -> S]
  BY <1>4, LenProperties
<1> DEFINE hops == [i \in 1 .. Cardinality(S) |-> hop[q[i]]]
<1>6. \A p \in S : hop[p] \in Nat /\ hop[p] >= 1
  BY NeighboursAre
<1>7. hops \in [1 .. Cardinality(S) -> Nat] /\ \A i \in 1 .. Cardinality(S) : hops[i] >= 1
  BY <1>5, <1>6
<1>8. MadeOf(hits, Cardinality(S), q, hops)
  BY <1>3, <1>4 DEF MadeOf
<1>9. q \in [1 .. Cardinality(S) -> InIndex]
  BY <1>1, <1>5
<1> HIDE DEF hop, hops
<1>10. /\ HasTokens(hits) /\ Len(hits) = Cardinality(S) /\ Distinct(hits) /\ UpToDate(hits)
       /\ \A i \in 1 .. Cardinality(S) : hits[i].path = q[i] /\ hits[i].hop = hops[i]
  <2>1. OneEach(q, Cardinality(S))
    BY <1>4 DEF OneEach
  <2>2. Listed(hits, Cardinality(S), q, hops)
    BY <1>2, <1>7, <1>8, <1>9, <2>1, HitsOfList
  <2> QED BY <2>2 DEF Listed
<1>11. PathsOf(hits) = S
  <2>1. PathsOf(hits) = {hits[i].path : i \in 1 .. Cardinality(S)}
    BY <1>10, PathsAre
  <2>2. \A i \in 1 .. Cardinality(S) : hits[i].path = q[i] /\ q[i] \in S
    BY <1>5, <1>10
  <2> QED BY <1>4, <2>1, <2>2
<1> QED BY <1>2, <1>7, <1>10, <1>11

\* What the words of a question find: within the tier and the limit.
LEMMA WordHitsAre ==
  ASSUME RetrievalSetting, IndexTyped, ask.question \in Questions, NEW hits \in WordHits
  PROVE  /\ HasTokens(hits) /\ Distinct(hits) /\ UpToDate(hits)
         /\ \A i \in 1 .. Len(hits) : hits[i].tier <= ask.question.tier /\ hits[i].hop = 0
         /\ ask.question.kind = "hybrid" => Len(hits) <= FuseLimit
         /\ ask.question.kind \notin {"hybrid", "context"} => Len(hits) <= ask.question.limit
<1> DEFINE found == {p \in InIndex : items[p].score > 0 /\ items[p].tier <= ask.question.tier}
           limit == CASE ask.question.kind = "context" -> TopHits
                      [] ask.question.kind = "hybrid"  -> FuseLimit
                      [] OTHER                         -> ask.question.limit
<1>1. ask.question.limit \in Nat /\ limit \in Nat
  BY DEF Questions, RetrievalSetting
<1>2. /\ ask.question.kind = "hybrid" => limit = FuseLimit
      /\ ask.question.kind \notin {"hybrid", "context"} => limit = ask.question.limit
  OBVIOUS
<1>3. found \subseteq Paths /\ IsFiniteSet(found) /\ found \subseteq InIndex
  BY FS_Subset DEF RetrievalSetting, InIndex
<1>4. PICK q \in Ranked(found, [p \in Paths |-> items[p].score]) :
           hits = [i \in DOMAIN Cut(q, limit) |-> HitOf(q[i], 0)]
  BY DEF WordHits
<1> HIDE DEF limit
<1>5. /\ q \in Seq(found)
      /\ \A i, j \in 1 .. Len(q) : i # j => q[i] # q[j]
  <2> HIDE DEF found
  <2> QED BY <1>3, <1>4, RankedIs
<1>6. /\ Cut(q, limit) \in Seq(found)
      /\ Len(Cut(q, limit)) = IF limit < Len(q) THEN limit ELSE Len(q)
      /\ \A i \in 1 .. Len(Cut(q, limit)) : i \in 1 .. Len(q) /\ Cut(q, limit)[i] = q[i]
  <2> HIDE DEF found
  <2> QED BY <1>1, <1>5, CutIs
<1> DEFINE n == Len(Cut(q, limit))
<1>7. /\ n \in Nat /\ n <= limit /\ DOMAIN Cut(q, limit) = 1 .. n
      /\ Cut(q, limit) \in [1 .. n -> found]
  <2> HIDE DEF found
  <2>1. Len(q) \in Nat
    BY <1>5, LenProperties
  <2> QED BY <1>1, <1>6, <2>1, LenProperties
<1>8. Cut(q, limit) \in [1 .. n -> InIndex] /\ \A i, j \in 1 .. n : i # j => Cut(q, limit)[i] # Cut(q, limit)[j]
  BY <1>3, <1>5, <1>6, <1>7
<1> DEFINE none == [j \in 1 .. n |-> 0]
<1>9. MadeOf(hits, n, Cut(q, limit), none)
  BY <1>4, <1>6, <1>7 DEF MadeOf
<1>10. none \in [1 .. n -> Nat] /\ \A i \in 1 .. n : none[i] = 0
  OBVIOUS
<1> HIDE DEF n, none
<1>11. /\ HasTokens(hits) /\ Len(hits) = n /\ Distinct(hits) /\ UpToDate(hits)
       /\ \A i \in 1 .. n : hits[i].path = Cut(q, limit)[i] /\ hits[i].hop = none[i]
  <2>1. OneEach(Cut(q, limit), n)
    BY <1>8 DEF OneEach
  <2>2. Listed(hits, n, Cut(q, limit), none)
    BY <1>7, <1>8, <1>9, <1>10, <2>1, HitsOfList
  <2> QED BY <2>2 DEF Listed
<1>12. \A i \in 1 .. n : hits[i].tier <= ask.question.tier
  BY <1>7, <1>11 DEF UpToDate
<1> QED BY <1>2, <1>7, <1>10, <1>11, <1>12

-----------------------------------------------------------------------------
(* The fusion. *)

Both(lists, p) == \A l \in {1, 2} : \E i \in DOMAIN lists[l] : lists[l][i] = p
Either(lists, p) == \E l \in {1, 2} : \E i \in DOMAIN lists[l] : lists[l][i] = p
ShortLists(lists) == \A l \in {1, 2} : lists[l] \in Seq(Paths) /\ Len(lists[l]) <= FuseLimit

LEMMA RankIs ==
  ASSUME NEW q \in Seq(Paths), NEW p, \E i \in DOMAIN q : q[i] = p
  PROVE  Rank(q, p) \in 1 .. Len(q) /\ q[Rank(q, p)] = p
  BY LenProperties DEF Rank

\* Both ranks are at most K + 1, so two reciprocals are more than one.
LEMMA TwoOutweighOne ==
  ASSUME NEW K \in Nat, NEW a \in 1 .. K + 1, NEW b \in 1 .. K + 1, NEW c \in Nat, c >= 1
  PROVE  (K + a) * (K + b) < ((K + a) + (K + b)) * (K + c)
<1>1. PICK A \in Nat, B \in Nat, C \in Nat : A = K + a /\ B = K + b /\ C = K + c
  OBVIOUS
<1>2. A >= 1 /\ B >= 1 /\ A < 2 * C /\ B < 2 * C
  BY <1>1
<1>3. A * B < A * (2 * C) /\ B * A < B * (2 * C)
  BY <1>2
<1>4. A * (2 * C) = 2 * (A * C) /\ B * (2 * C) = 2 * (B * C) /\ B * A = A * B
  OBVIOUS
<1>5. (A + B) * C = A * C + B * C /\ A * C \in Nat /\ B * C \in Nat /\ A * B \in Nat
  OBVIOUS
<1>6. A * B < (A + B) * C
  BY <1>3, <1>4, <1>5
<1> QED BY <1>1, <1>6

LEMMA BothOutrank ==
  ASSUME RetrievalSetting, NEW lists, ShortLists(lists), NEW p, NEW q,
         Both(lists, p), Either(lists, q), ~Both(lists, q)
  PROVE  ~AtLeast(FusedScore(lists, q), FusedScore(lists, p))
<1> DEFINE K == RankConstant
           a == Rank(lists[1], p)
           b == Rank(lists[2], p)
<1>1. K \in Nat /\ FuseLimit \in Nat /\ FuseLimit <= K + 1
  BY DEF RetrievalSetting
<1>2. \A l \in {1, 2} : lists[l] \in Seq(Paths) /\ Len(lists[l]) \in Nat /\ Len(lists[l]) <= FuseLimit
  BY LenProperties DEF ShortLists
<1>3. a \in 1 .. K + 1 /\ b \in 1 .. K + 1
  <2>1. a \in 1 .. Len(lists[1]) /\ b \in 1 .. Len(lists[2])
    BY <1>2, RankIs DEF Both
  <2> QED BY <1>1, <1>2, <2>1
<1>4. FusedScore(lists, p) = <<1 * (K + b) + 1 * (K + a), (K + a) * (K + b)>>
  BY DEF FusedScore, Sum2, Both
<1>5. PICK c \in Nat : c >= 1 /\ (\/ FusedScore(lists, q) = <<1 * 1 + 0 * (K + c), (K + c) * 1>>
                                  \/ FusedScore(lists, q) = <<0 * (K + c) + 1 * 1, 1 * (K + c)>>)
  <2>1. CASE \E i \in DOMAIN lists[1] : lists[1][i] = q
    <3>1. ~\E i \in DOMAIN lists[2] : lists[2][i] = q
      BY <2>1 DEF Both
    <3>2. Rank(lists[1], q) \in 1 .. Len(lists[1])
      BY <1>2, <2>1, RankIs
    <3>3. Rank(lists[1], q) \in Nat /\ Rank(lists[1], q) >= 1
      BY <1>2, <3>2
    <3>4. FusedScore(lists, q) = <<1 * 1 + 0 * (K + Rank(lists[1], q)), (K + Rank(lists[1], q)) * 1>>
      BY <2>1, <3>1 DEF FusedScore, Sum2
    <3> QED BY <3>3, <3>4
  <2>2. CASE ~\E i \in DOMAIN lists[1] : lists[1][i] = q
    <3>1. \E i \in DOMAIN lists[2] : lists[2][i] = q
      BY <2>2 DEF Either
    <3>2. Rank(lists[2], q) \in 1 .. Len(lists[2])
      BY <1>2, <3>1, RankIs
    <3>3. Rank(lists[2], q) \in Nat /\ Rank(lists[2], q) >= 1
      BY <1>2, <3>2
    <3>4. FusedScore(lists, q) = <<0 * (K + Rank(lists[2], q)) + 1 * 1, 1 * (K + Rank(lists[2], q))>>
      BY <2>2, <3>1 DEF FusedScore, Sum2
    <3> QED BY <3>3, <3>4
  <2> QED BY <2>1, <2>2
<1> HIDE DEF K, a, b
<1>6. FusedScore(lists, q) = <<1, K + c>>
  BY <1>1, <1>5
<1>7. (K + a) * (K + b) < ((K + a) + (K + b)) * (K + c)
  BY <1>1, <1>3, <1>5, TwoOutweighOne
<1>8. FusedScore(lists, p) = <<(K + a) + (K + b), (K + a) * (K + b)>>
  <2>1. 1 * (K + b) + 1 * (K + a) = (K + a) + (K + b)
    BY <1>1, <1>3
  <2> QED BY <1>4, <2>1
<1>9. (K + a) * (K + b) \in Int /\ ((K + a) + (K + b)) * (K + c) \in Int
  BY <1>1, <1>3, <1>5
<1>10. ~(1 * ((K + a) * (K + b)) >= ((K + a) + (K + b)) * (K + c))
  BY <1>7, <1>9
<1> QED BY <1>6, <1>8, <1>10 DEF AtLeast

-----------------------------------------------------------------------------
(* The questions. *)

Ats == {"idle", "words", "seeds", "embeddings", "vectors", "fused", "done"}
Asks == [at : Ats, question : Questions, hits : Seq(Hits), words : Seq(Hits), todo : Seq(Paths),
         near : SUBSET Paths, lists : Seq(Paths) \X Seq(Paths), quiet : BOOLEAN]

RetrievalTypes == IndexTyped /\ during \in [Paths -> SUBSET AnyRow] /\ ask \in Asks

\* The item was in the index, and within the tier, at some moment of the question.
Seen(p) == \E r \in during[p] : ~r.gone /\ r.tier <= ask.question.tier
Proper(hits) == Distinct(hits) /\ \A i \in 1 .. Len(hits) : Seen(hits[i].path)

ItemsAreSeen == ask.at # "idle" => \A p \in Paths : items[p] \in during[p]
HitsAreProper == (ask.at = "idle" => ask.hits = <<>>) /\ Proper(ask.hits)
WordsAreShort == ask.at = "embeddings" => Len(ask.hits) <= FuseLimit
ListsAreShort ==
  ask.at \in {"vectors", "fused"} =>
    /\ ShortLists(ask.lists)
    /\ \A l \in {1, 2} : \A i \in 1 .. Len(ask.lists[l]) : Seen(ask.lists[l][i])
TodoIsRanked ==
  ask.at = "fused" =>
    /\ Proper(ask.words)
    /\ \A i, j \in 1 .. Len(ask.todo) : i < j =>
         /\ ask.todo[i] # ask.todo[j]
         /\ AtLeast(FusedScore(ask.lists, ask.todo[i]), FusedScore(ask.lists, ask.todo[j]))
    /\ \A i \in 1 .. Len(ask.todo) :
         /\ Seen(ask.todo[i]) /\ Either(ask.lists, ask.todo[i])
         /\ \A k \in 1 .. Len(ask.hits) : ask.hits[k].path # ask.todo[i]

AskInv ==
  /\ RetrievalTypes /\ ItemsAreSeen /\ HitsAreProper /\ WordsAreShort /\ ListsAreShort /\ TodoIsRanked
  /\ AnswersKeepTheRequest

IndexStays == UNCHANGED <<items, itemEdges, during, updates>>

LEMMA IndexStaysTyped ==
  ASSUME AskInv, IndexStays
  PROVE  /\ IndexTyped' /\ during' \in [Paths -> SUBSET AnyRow]
         /\ \A p \in Paths : items'[p] = items[p] /\ during'[p] = during[p]
         /\ InIndex' = InIndex
  BY DEF AskInv, RetrievalTypes, IndexTyped, IndexStays, InIndex

LEMMA AskTyped ==
  ASSUME AskInv
  PROVE  /\ ask.at \in Ats /\ ask.question \in Questions
         /\ HasTokens(ask.hits) /\ HasTokens(ask.words)
         /\ ask.todo \in Seq(Paths) /\ ask.near \in SUBSET Paths
         /\ ask.lists \in Seq(Paths) \X Seq(Paths) /\ ask.quiet \in BOOLEAN
         /\ ask = [at |-> ask.at, question |-> ask.question, hits |-> ask.hits, words |-> ask.words,
                   todo |-> ask.todo, near |-> ask.near, lists |-> ask.lists, quiet |-> ask.quiet]
  BY DEF AskInv, RetrievalTypes, Asks, HasTokens

LEMMA UpToDateIsSeen ==
  ASSUME AskInv, ask.at # "idle", NEW hits, HasTokens(hits), UpToDate(hits),
         \A i \in 1 .. Len(hits) : hits[i].tier <= ask.question.tier
  PROVE  \A i \in 1 .. Len(hits) : Seen(hits[i].path)
<1> SUFFICES ASSUME NEW i \in 1 .. Len(hits) PROVE Seen(hits[i].path)
  OBVIOUS
<1> DEFINE p == hits[i].path
<1>1. p \in InIndex /\ items[p].tier <= ask.question.tier
  BY DEF UpToDate
<1>2. p \in Paths /\ ~items[p].gone /\ items[p] \in during[p]
  BY <1>1 DEF InIndex, AskInv, ItemsAreSeen
<1> QED BY <1>1, <1>2 DEF Seen

\* What a question is answered with: the prefix of a proper list.
LEMMA AnswerKeeps ==
  ASSUME RetrievalSetting, AskInv, IndexStays, NEW hits, HasTokens(hits), Proper(hits),
         ask.question.kind # "context" => Len(hits) <= ask.question.limit, ask' = Answer(hits),
         ask.at # "idle"
  PROVE  AskInv'
<1>1. ask.question \in Questions /\ ask.question.budget \in Nat /\ ask.question.limit \in Nat
  BY AskTyped DEF Questions
<1>2. PICK m \in 0 .. Len(hits) :
           /\ ApplyBudget(hits, ask.question.budget) = Cut(hits, m)
           /\ Len(Cut(hits, m)) = m
           /\ m > 1 => Spent(Cut(hits, m)) <= ask.question.budget
           /\ m < Len(hits) => m > 0 /\ Spent(Cut(hits, m)) + hits[m + 1].tokens > ask.question.budget
  BY <1>1, BudgetKeepsAPrefix
<1> DEFINE kept == Cut(hits, m)
<1>3. /\ ask'.at = "done" /\ ask'.question = ask.question /\ ask'.hits = kept
      /\ ask'.words = ask.words /\ ask'.todo = ask.todo /\ ask'.near = ask.near
      /\ ask'.lists = ask.lists /\ ask'.quiet = ask.quiet
      /\ ask' = [ask EXCEPT !.at = "done", !.hits = kept]
  BY <1>2, AskTyped DEF Answer
<1>4. Len(hits) \in Nat /\ m \in Nat
  BY <1>2, HitsAre
<1>5. /\ HasTokens(kept) /\ Len(kept) = m
      /\ \A i \in 1 .. m : i \in 1 .. Len(hits) /\ kept[i] = hits[i]
  BY <1>2, <1>4, CutIs DEF HasTokens
<1> HIDE DEF kept
<1>6. ask' \in Asks
  BY <1>3, <1>5, AskTyped DEF Asks, HasTokens, Ats
<1>7. RetrievalTypes'
  BY <1>6, IndexStaysTyped DEF RetrievalTypes
<1>8. Distinct(kept) /\ \A i \in 1 .. m : Seen(kept[i].path)
  BY <1>5, <1>4 DEF Proper, Distinct
<1>9. \A i \in 1 .. m : kept[i] \in Hits /\ kept[i].path \in Paths
  BY <1>5, HitsAre DEF Hits
<1>10. \A i \in 1 .. m : Seen(kept[i].path)'
  BY <1>3, <1>8, <1>9, IndexStaysTyped DEF Seen
<1>11. HitsAreProper'
  BY <1>3, <1>5, <1>8, <1>10 DEF HitsAreProper, Proper, Distinct
<1>12. ItemsAreSeen'
  BY IndexStaysTyped DEF ItemsAreSeen, AskInv
<1>13. WordsAreShort' /\ ListsAreShort' /\ TodoIsRanked'
  BY <1>3 DEF WordsAreShort, ListsAreShort, TodoIsRanked
<1>14. AnswersKeepTheRequest'
  <2>1. DOMAIN kept = 1 .. m
    BY <1>5, HitsAre
  <2>2. \A i, j \in DOMAIN kept : i # j => kept[i].path # kept[j].path
    BY <1>5, <1>8, <2>1 DEF Distinct
  <2>3. \A p \in PathsOf(kept) : \E r \in during'[p] : ~r.gone /\ r.tier <= ask'.question.tier
    BY <1>10, <2>1 DEF PathsOf, Seen
  <2>4. Len(kept) > 1 => Spent(kept) <= ask'.question.budget
    BY <1>2, <1>3, <1>5 DEF kept
  <2>5. ask'.question.kind # "context" => Len(kept) <= ask'.question.limit
    BY <1>1, <1>2, <1>3, <1>4, <1>5
  <2> QED BY <1>3, <2>2, <2>3, <2>4, <2>5 DEF AnswersKeepTheRequest, Done
<1> QED BY <1>7, <1>11, <1>12, <1>13, <1>14 DEF AskInv

LEMMA AskKeeps ==
  ASSUME RetrievalSetting, AskInv, NEW line \in CommandLines, Ask(line.command, line.given)
  PROVE  AskInv'
<1> DEFINE q == QuestionOf(line.command, line.given)
<1>1. q \in Questions
  BY DEF RetrievalSetting
<1> HIDE DEF q
<1>2. /\ ask.at = "idle" /\ ask' = [ask EXCEPT !.question = q, !.at = "words", !.quiet = TRUE]
      /\ during' = [p \in Paths |-> {items[p]}]
      /\ items' = items /\ itemEdges' = itemEdges
  BY DEF Ask, q
<1>3. ask'.at = "words" /\ ask'.hits = <<>> /\ ask' \in Asks
  BY <1>1, <1>2, AskTyped DEF Asks, Ats, HasTokens, AskInv, HitsAreProper
<1>4. RetrievalTypes'
  BY <1>2, <1>3 DEF AskInv, RetrievalTypes, IndexTyped
<1>5. ItemsAreSeen' /\ HitsAreProper'
  BY <1>2, <1>3 DEF ItemsAreSeen, HitsAreProper, Proper, Distinct
<1>6. WordsAreShort' /\ ListsAreShort' /\ TodoIsRanked' /\ AnswersKeepTheRequest'
  BY <1>3 DEF WordsAreShort, ListsAreShort, TodoIsRanked, AnswersKeepTheRequest, Done
<1> QED BY <1>4, <1>5, <1>6 DEF AskInv

\* The words found are proper answers.
LEMMA WordHitsProper ==
  ASSUME RetrievalSetting, AskInv, ask.at # "idle", NEW hits \in WordHits
  PROVE  HasTokens(hits) /\ Proper(hits)
<1>1. IndexTyped /\ ask.question \in Questions
  BY AskTyped DEF AskInv, RetrievalTypes
<1>2. /\ HasTokens(hits) /\ Distinct(hits) /\ UpToDate(hits)
      /\ \A i \in 1 .. Len(hits) : hits[i].tier <= ask.question.tier
  BY <1>1, WordHitsAre
<1>3. \A i \in 1 .. Len(hits) : Seen(hits[i].path)
  BY <1>2, UpToDateIsSeen
<1> QED BY <1>2, <1>3 DEF Proper

LEMMA SearchKeeps ==
  ASSUME RetrievalSetting, AskInv, Search
  PROVE  AskInv'
<1>1. ask.at = "words" /\ ask.question.kind \in {"search", "prompt"} /\ IndexStays
  BY DEF Search, Asked, IndexStays
<1>2. PICK hits \in WordHits : ask' = Answer(hits)
  BY DEF Search
<1>3. HasTokens(hits) /\ Proper(hits)
  BY <1>1, <1>2, WordHitsProper
<1>4. IndexTyped /\ ask.question \in Questions
  BY AskTyped DEF AskInv, RetrievalTypes
<1>5. Len(hits) <= ask.question.limit
  BY <1>1, <1>2, <1>4, WordHitsAre
<1> QED BY <1>1, <1>2, <1>3, <1>5, AnswerKeeps

LEMMA TraverseFromKeeps ==
  ASSUME RetrievalSetting, AskInv, TraverseFrom
  PROVE  AskInv'
<1> DEFINE q == ask.question
<1>1. ask.at = "words" /\ q.kind = "traverse" /\ IndexStays
  BY DEF TraverseFrom, Asked, IndexStays
<1>2. IndexTyped /\ q \in Questions
  BY AskTyped DEF AskInv, RetrievalTypes
<1>3. q.start \in Paths /\ q.tier = 2 /\ q.limit = Unlimited /\ q.depth \in Nat
  BY <1>1, <1>2 DEF Questions
<1>4. PICK hits \in Walks(q.start, Neighbours(q.start, q.depth), q.depth) : ask' = Answer(hits)
  BY DEF TraverseFrom
<1>5. HasTokens(hits) /\ Distinct(hits) /\ UpToDate(hits) /\ Len(hits) <= Unlimited
  BY <1>2, <1>3, <1>4, WalksAre
<1>6. \A i \in 1 .. Len(hits) : hits[i].tier <= q.tier
  BY <1>3, <1>5, HitsAre DEF Hits
<1>7. Proper(hits)
  BY <1>1, <1>5, <1>6, UpToDateIsSeen DEF Proper
<1> QED BY <1>1, <1>3, <1>4, <1>5, <1>7, AnswerKeeps

\* A step that leaves the index alone and has neither an answer nor a fused
\* list keeps all but what it says itself of its list of hits.
LEMMA StepKeeps ==
  ASSUME AskInv, IndexStays, ask' \in Asks, ask'.at \notin {"idle", "done", "fused"},
         ask'.question.tier = ask.question.tier, ask.at # "idle",
         NEW hits, ask'.hits = hits, HasTokens(hits), Proper(hits), WordsAreShort', ListsAreShort'
  PROVE  AskInv'
<1>1. RetrievalTypes'
  BY IndexStaysTyped DEF RetrievalTypes
<1>2. ItemsAreSeen'
  BY IndexStaysTyped DEF ItemsAreSeen, AskInv
<1>3. \A i \in 1 .. Len(hits) : Seen(hits[i].path)'
  <2> SUFFICES ASSUME NEW i \in 1 .. Len(hits) PROVE Seen(hits[i].path)'
    OBVIOUS
  <2>1. hits[i].path \in Paths /\ Seen(hits[i].path)
    BY HitsAre DEF Hits, Proper
  <2> QED BY <2>1, IndexStaysTyped DEF Seen
<1>4. HitsAreProper'
  BY <1>3 DEF HitsAreProper, Proper, Distinct
<1>5. TodoIsRanked' /\ AnswersKeepTheRequest'
  BY DEF TodoIsRanked, AnswersKeepTheRequest, Done
<1> QED BY <1>1, <1>2, <1>4, <1>5 DEF AskInv

LEMMA SearchTopicKeeps ==
  ASSUME RetrievalSetting, AskInv, SearchTopic
  PROVE  AskInv'
<1>1. ask.at = "words" /\ IndexStays
  BY DEF SearchTopic, Asked, IndexStays
<1>2. PICK hits \in WordHits :
           ask' = [ask EXCEPT !.at = "seeds", !.hits = hits,
                     !.todo = [i \in DOMAIN Cut(hits, SeedCount) |-> hits[i].path]]
  BY DEF SearchTopic
<1>3. HasTokens(hits) /\ Proper(hits)
  BY <1>1, <1>2, WordHitsProper
<1> DEFINE todo == [i \in DOMAIN Cut(hits, SeedCount) |-> hits[i].path]
<1>4. todo \in Seq(Paths)
  <2>1. /\ HasTokens(Cut(hits, SeedCount))
        /\ \A i \in 1 .. Len(Cut(hits, SeedCount)) : i \in 1 .. Len(hits)
    BY <1>3, CutIs DEF HasTokens, RetrievalSetting
  <2>2. DOMAIN Cut(hits, SeedCount) = 1 .. Len(Cut(hits, SeedCount)) /\ Len(Cut(hits, SeedCount)) \in Nat
    BY <2>1, HitsAre
  <2>3. todo \in [1 .. Len(Cut(hits, SeedCount)) -> Paths]
    BY <1>3, <2>1, <2>2, HitsAre DEF Hits
  <2> QED BY <2>2, <2>3, ListIs
<1> HIDE DEF todo
<1>5. /\ ask'.at = "seeds" /\ ask'.hits = hits /\ ask'.question = ask.question /\ ask' \in Asks
  BY <1>2, <1>3, <1>4, AskTyped DEF Asks, Ats, HasTokens, todo
<1>6. WordsAreShort' /\ ListsAreShort'
  BY <1>5 DEF WordsAreShort, ListsAreShort
<1> QED BY <1>1, <1>3, <1>5, <1>6, StepKeeps

\* The hits of one traversal after those there are: none twice.
LEMMA HitsAppended ==
  ASSUME NEW old, HasTokens(old), NEW new, HasTokens(new), Distinct(old), Distinct(new),
         PathsOf(old) \cap PathsOf(new) = {}
  PROVE  /\ HasTokens(old \o new) /\ Distinct(old \o new)
         /\ Len(old \o new) = Len(old) + Len(new)
         /\ \A i \in 1 .. Len(old) : (old \o new)[i] = old[i]
         /\ \A i \in Len(old) + 1 .. Len(old \o new) :
              i - Len(old) \in 1 .. Len(new) /\ (old \o new)[i] = new[i - Len(old)]
         /\ PathsOf(old \o new) = PathsOf(old) \cup PathsOf(new)
<1>1. Len(old) \in Nat /\ Len(new) \in Nat
  BY HitsAre
<1>2. /\ HasTokens(old \o new) /\ Len(old \o new) = Len(old) + Len(new)
      /\ \A i \in 1 .. Len(old) + Len(new) :
           (old \o new)[i] = IF i <= Len(old) THEN old[i] ELSE new[i - Len(old)]
  BY ConcatProperties DEF HasTokens
<1>3. /\ \A i \in 1 .. Len(old) : (old \o new)[i] = old[i]
      /\ \A i \in Len(old) + 1 .. Len(old \o new) :
              i - Len(old) \in 1 .. Len(new) /\ (old \o new)[i] = new[i - Len(old)]
      /\ \A i \in 1 .. Len(new) : Len(old) + i \in 1 .. Len(old \o new) /\ (old \o new)[Len(old) + i] = new[i]
  BY <1>1, <1>2
<1>4. /\ PathsOf(old) = {old[i].path : i \in 1 .. Len(old)} /\ PathsOf(new) = {new[i].path : i \in 1 .. Len(new)}
      /\ PathsOf(old \o new) = {(old \o new)[i].path : i \in 1 .. Len(old \o new)}
  BY <1>2, PathsAre
<1>5. PathsOf(old \o new) = PathsOf(old) \cup PathsOf(new)
  <2>1. ASSUME NEW i \in 1 .. Len(old \o new) PROVE (old \o new)[i].path \in PathsOf(old) \cup PathsOf(new)
    <3>1. CASE i \in 1 .. Len(old)
      BY <1>3, <1>4, <3>1
    <3>2. CASE i \in Len(old) + 1 .. Len(old \o new)
      BY <1>3, <1>4, <3>2
    <3> QED BY <1>1, <1>2, <3>1, <3>2
  <2>2. ASSUME NEW i \in 1 .. Len(old) PROVE old[i].path \in PathsOf(old \o new)
    <3>1. i \in 1 .. Len(old \o new)
      BY <1>1, <1>2
    <3> QED BY <1>3, <1>4, <3>1
  <2>3. ASSUME NEW i \in 1 .. Len(new) PROVE new[i].path \in PathsOf(old \o new)
    BY <1>3, <1>4
  <2>4. PathsOf(old \o new) \subseteq PathsOf(old) \cup PathsOf(new)
    BY <1>4, <2>1
  <2>5. PathsOf(old) \subseteq PathsOf(old \o new)
    BY <1>4, <2>2
  <2>6. PathsOf(new) \subseteq PathsOf(old \o new)
    BY <1>4, <2>3
  <2> QED BY <2>4, <2>5, <2>6
<1>6. Distinct(old \o new)
  <2> SUFFICES ASSUME NEW i \in 1 .. Len(old \o new), NEW j \in 1 .. Len(old \o new), i # j
               PROVE  (old \o new)[i].path # (old \o new)[j].path
    BY DEF Distinct
  <2>1. CASE i \in 1 .. Len(old) /\ j \in 1 .. Len(old)
    BY <1>3, <2>1 DEF Distinct
  <2>2. CASE i \in 1 .. Len(old) /\ j \in Len(old) + 1 .. Len(old \o new)
    <3>1. (old \o new)[i].path \in PathsOf(old)
      BY <1>3, <1>4, <2>2
    <3>2. (old \o new)[j].path \in PathsOf(new)
      BY <1>3, <1>4, <2>2
    <3> QED BY <3>1, <3>2
  <2>3. CASE j \in 1 .. Len(old) /\ i \in Len(old) + 1 .. Len(old \o new)
    <3>1. (old \o new)[j].path \in PathsOf(old)
      BY <1>3, <1>4, <2>3
    <3>2. (old \o new)[i].path \in PathsOf(new)
      BY <1>3, <1>4, <2>3
    <3> QED BY <3>1, <3>2
  <2>4. CASE i \in Len(old) + 1 .. Len(old \o new) /\ j \in Len(old) + 1 .. Len(old \o new)
    <3>1. i - Len(old) # j - Len(old)
      BY <1>1
    <3> QED BY <1>3, <2>4, <3>1 DEF Distinct
  <2> QED BY <1>1, <1>2, <2>1, <2>2, <2>3, <2>4
<1> QED BY <1>2, <1>3, <1>5, <1>6

LEMMA TraverseKeeps ==
  ASSUME RetrievalSetting, AskInv, Traverse
  PROVE  AskInv'
<1> DEFINE seed == Head(ask.todo)
           new == {p \in Neighbours(seed, Hops) : items[p].tier <= ask.question.tier /\ p \notin PathsOf(ask.hits)}
<1>1. ask.at = "seeds" /\ ask.todo # <<>> /\ IndexStays
  BY DEF Traverse, Asked, IndexStays
<1>2. seed \in Paths /\ Tail(ask.todo) \in Seq(Paths)
  BY <1>1, AskTyped, HeadTailProperties
<1>3. PICK hits \in Walks(seed, new, Hops) : ask' = [ask EXCEPT !.todo = Tail(@), !.hits = @ \o hits]
  BY DEF Traverse
<1>4. IndexTyped /\ new \subseteq Neighbours(seed, Hops) /\ Hops \in Nat
  BY DEF AskInv, RetrievalTypes, RetrievalSetting
<1>5. HasTokens(hits) /\ Distinct(hits) /\ UpToDate(hits) /\ PathsOf(hits) = new
  <2> HIDE DEF seed, new
  <2> QED BY <1>2, <1>3, <1>4, WalksAre
<1>6. \A i \in 1 .. Len(hits) : hits[i].tier <= ask.question.tier
  <2> SUFFICES ASSUME NEW i \in 1 .. Len(hits) PROVE hits[i].tier <= ask.question.tier
    OBVIOUS
  <2>1. hits[i].path \in new
    BY <1>5, PathsAre
  <2> QED BY <1>5, <2>1 DEF UpToDate
<1>7. Proper(hits)
  BY <1>1, <1>5, <1>6, UpToDateIsSeen DEF Proper
<1>8. HasTokens(ask.hits) /\ Proper(ask.hits) /\ PathsOf(ask.hits) \cap PathsOf(hits) = {}
  BY <1>5, AskTyped DEF AskInv, HitsAreProper
<1> HIDE DEF seed, new
<1>9. /\ HasTokens(ask.hits \o hits) /\ Distinct(ask.hits \o hits)
      /\ Len(ask.hits \o hits) = Len(ask.hits) + Len(hits)
      /\ \A i \in 1 .. Len(ask.hits) : (ask.hits \o hits)[i] = ask.hits[i]
      /\ \A i \in Len(ask.hits) + 1 .. Len(ask.hits \o hits) :
           i - Len(ask.hits) \in 1 .. Len(hits) /\ (ask.hits \o hits)[i] = hits[i - Len(ask.hits)]
  BY <1>5, <1>8, HitsAppended DEF Proper
<1>10. Proper(ask.hits \o hits)
  <2> SUFFICES ASSUME NEW i \in 1 .. Len(ask.hits \o hits) PROVE Seen((ask.hits \o hits)[i].path)
    BY <1>9 DEF Proper
  <2>1. Len(ask.hits) \in Nat /\ Len(hits) \in Nat
    BY <1>5, <1>8, HitsAre
  <2>2. CASE i \in 1 .. Len(ask.hits)
    BY <1>8, <1>9, <2>2 DEF Proper
  <2>3. CASE i \in Len(ask.hits) + 1 .. Len(ask.hits \o hits)
    BY <1>7, <1>9, <2>3 DEF Proper
  <2> QED BY <1>9, <2>1, <2>2, <2>3
<1>11. /\ ask'.at = "seeds" /\ ask'.hits = ask.hits \o hits /\ ask'.question = ask.question
       /\ ask' \in Asks
  BY <1>1, <1>2, <1>3, <1>9, AskTyped DEF Asks, Ats, HasTokens
<1>12. WordsAreShort' /\ ListsAreShort'
  BY <1>11 DEF WordsAreShort, ListsAreShort
<1> QED BY <1>1, <1>9, <1>10, <1>11, <1>12, StepKeeps

LEMMA EndContextKeeps ==
  ASSUME RetrievalSetting, AskInv, EndContext
  PROVE  AskInv'
<1>1. ask.at = "seeds" /\ ask.question.kind = "context" /\ IndexStays /\ ask' = Answer(ask.hits)
  BY DEF EndContext, Asked, IndexStays
<1>2. HasTokens(ask.hits) /\ Proper(ask.hits)
  BY AskTyped DEF AskInv, HitsAreProper
<1> QED BY <1>1, <1>2, AnswerKeeps

LEMMA FallBackKeeps ==
  ASSUME RetrievalSetting, AskInv, FallBack
  PROVE  AskInv'
<1>1. /\ ask.at \in {"words", "vectors"} /\ IndexStays
      /\ ask' = [ask EXCEPT !.question.kind = "search", !.at = "words", !.hits = <<>>]
  BY DEF FallBack, IndexStays
<1>2. [ask.question EXCEPT !.kind = "search"] \in Questions
  BY AskTyped DEF Questions
<1>3. /\ ask'.at = "words" /\ ask'.hits = <<>> /\ ask'.question.tier = ask.question.tier
  BY <1>1, AskTyped DEF Questions
<1>4. ask' \in Asks
  <2> DEFINE q == [ask.question EXCEPT !.kind = "search"]
  <2>1. ask' = [ask EXCEPT !.question = q, !.at = "words", !.hits = <<>>]
    BY <1>1, AskTyped
  <2> HIDE DEF q
  <2>2. ask \in Asks /\ <<>> \in Seq(Hits)
    BY DEF AskInv, RetrievalTypes
  <2>3. q \in Questions
    BY <1>2 DEF q
  <2> QED BY <2>1, <2>2, <2>3 DEF Asks, Ats
<1>5. HasTokens(<<>>) /\ Proper(<<>>)
  BY DEF HasTokens, Proper, Distinct
<1>6. WordsAreShort' /\ ListsAreShort'
  BY <1>3 DEF WordsAreShort, ListsAreShort
<1> QED BY <1>1, <1>3, <1>4, <1>5, <1>6, StepKeeps

LEMMA SearchWordsKeeps ==
  ASSUME RetrievalSetting, AskInv, SearchWords
  PROVE  AskInv'
<1>1. ask.at = "words" /\ ask.question.kind = "hybrid" /\ IndexStays
  BY DEF SearchWords, Asked, IndexStays
<1>2. PICK hits \in WordHits : ask' = [ask EXCEPT !.at = "embeddings", !.hits = hits]
  BY DEF SearchWords
<1>3. HasTokens(hits) /\ Proper(hits)
  BY <1>1, <1>2, WordHitsProper
<1>4. Len(hits) <= FuseLimit
  BY <1>1, <1>2, WordHitsAre DEF AskInv, RetrievalTypes, Asks
<1>5. /\ ask'.at = "embeddings" /\ ask'.hits = hits /\ ask'.question = ask.question /\ ask' \in Asks
  BY <1>2, <1>3, AskTyped DEF Asks, Ats, HasTokens
<1>6. WordsAreShort' /\ ListsAreShort'
  BY <1>4, <1>5 DEF WordsAreShort, ListsAreShort
<1> QED BY <1>1, <1>3, <1>5, <1>6, StepKeeps

LEMMA SearchVectorsKeeps ==
  ASSUME RetrievalSetting, AskInv, SearchVectors
  PROVE  AskInv'
<1>1. ask.at = "embeddings" /\ IndexStays
  BY DEF SearchVectors, Asked, IndexStays
<1>2. PICK q \in Ranked(Near, [p \in Paths |-> items[p].near]) :
           ask' = [ask EXCEPT !.at = "vectors", !.near = Near,
                     !.lists = <<[i \in DOMAIN ask.hits |-> ask.hits[i].path], Cut(q, FuseLimit)>>]
  BY DEF SearchVectors
<1> DEFINE words == [i \in DOMAIN ask.hits |-> ask.hits[i].path]
           vectors == Cut(q, FuseLimit)
<1>3. HasTokens(ask.hits) /\ Proper(ask.hits) /\ Len(ask.hits) <= FuseLimit
  BY <1>1, AskTyped DEF AskInv, HitsAreProper, WordsAreShort
<1>4. Len(ask.hits) \in Nat /\ words \in [1 .. Len(ask.hits) -> Paths]
  BY <1>3, HitsAre DEF Hits
<1>5. words \in Seq(Paths) /\ Len(words) = Len(ask.hits)
  <2> HIDE DEF words
  <2> QED BY <1>4, ListIs
<1>6. \A i \in 1 .. Len(words) : Seen(words[i])
  BY <1>3, <1>5, HitsAre DEF Proper
<1>7. Near \subseteq Paths /\ IsFiniteSet(Near)
  BY FS_Subset DEF Near, InIndex, RetrievalSetting
<1>8. q \in Seq(Near)
  BY <1>2, <1>7, RankedIs
<1>9. vectors \in Seq(Near) /\ Len(vectors) <= FuseLimit
  <2>1. FuseLimit \in Nat /\ Len(q) \in Nat
    BY <1>8, LenProperties DEF RetrievalSetting
  <2> QED BY <1>8, <2>1, CutIs
<1>10. vectors \in Seq(Paths) /\ \A i \in 1 .. Len(vectors) : vectors[i] \in Near
  <2> HIDE DEF vectors
  <2> QED BY <1>7, <1>9, SeqMonotonic, ElementOfSeq
<1>11. \A p \in Near : Seen(p)
  <2> SUFFICES ASSUME NEW p \in Near PROVE Seen(p)
    OBVIOUS
  <2>1. p \in Paths /\ ~items[p].gone /\ items[p].tier <= ask.question.tier
    BY DEF Near, InIndex
  <2> QED BY <1>1, <2>1 DEF Seen, AskInv, ItemsAreSeen
<1>12. \A i \in 1 .. Len(vectors) : Seen(vectors[i])
  BY <1>10, <1>11
<1> HIDE DEF words, vectors
<1>13. /\ ask'.at = "vectors" /\ ask'.hits = ask.hits /\ ask'.question = ask.question
       /\ ask'.lists = <<words, vectors>> /\ ask' \in Asks
  <2>1. ask' = [ask EXCEPT !.at = "vectors", !.near = Near, !.lists = <<words, vectors>>]
    BY <1>2 DEF words, vectors
  <2> QED BY <1>5, <1>7, <1>10, <2>1, AskTyped DEF Asks, Ats, HasTokens
<1>14. ask'.lists[1] = words /\ ask'.lists[2] = vectors
  BY <1>13
<1>15. ShortLists(ask'.lists)
  BY <1>3, <1>5, <1>9, <1>10, <1>14 DEF ShortLists
<1>16. \A p \in Paths : Seen(p) => Seen(p)'
  BY <1>1, <1>13, IndexStaysTyped DEF Seen
<1>17. \A l \in {1, 2} : \A i \in 1 .. Len(ask'.lists[l]) : Seen(ask'.lists[l][i])
  BY <1>6, <1>12, <1>14
<1>18. ListsAreShort'
  <2> SUFFICES ASSUME NEW l \in {1, 2}, NEW i \in 1 .. Len(ask'.lists[l])
               PROVE  Seen(ask.lists[l][i])'
    BY <1>15 DEF ListsAreShort, ShortLists
  <2>1. ask'.lists[l] \in Seq(Paths)
    BY <1>5, <1>10, <1>14
  <2>2. PICK p \in Paths : p = ask'.lists[l][i]
    BY <2>1, ElementOfSeq
  <2>3. Seen(p)
    BY <1>17, <2>2
  <2>4. Seen(p)'
    BY <1>16, <2>3
  <2> QED BY <2>2, <2>4 DEF Seen
<1>19. WordsAreShort'
  BY <1>13 DEF WordsAreShort
<1> QED BY <1>1, <1>3, <1>13, <1>18, <1>19, StepKeeps

\* What a fused list must be, for the lists and the hits there are.
Queue(todo, lists, hits) ==
  /\ \A i, j \in 1 .. Len(todo) : i < j =>
       todo[i] # todo[j] /\ AtLeast(FusedScore(lists, todo[i]), FusedScore(lists, todo[j]))
  /\ \A i \in 1 .. Len(todo) :
       /\ Seen(todo[i]) /\ Either(lists, todo[i])
       /\ \A k \in 1 .. Len(hits) : hits[k].path # todo[i]

\* A step that leaves the index alone, to a fused list.
LEMMA FusedKeeps ==
  ASSUME AskInv, IndexStays, ask' \in Asks, ask'.at = "fused", ask.at # "idle",
         ask'.question = ask.question, ask.at \in {"vectors", "fused"}, ask'.lists = ask.lists,
         NEW hits, ask'.hits = hits, HasTokens(hits), Proper(hits),
         NEW words, ask'.words = words, HasTokens(words), Proper(words),
         NEW todo, ask'.todo = todo, todo \in Seq(Paths), Queue(todo, ask.lists, hits)
  PROVE  AskInv'
<1>1. RetrievalTypes'
  BY IndexStaysTyped DEF RetrievalTypes
<1>2. ItemsAreSeen'
  BY IndexStaysTyped DEF ItemsAreSeen, AskInv
<1>3. \A p \in Paths : Seen(p) => Seen(p)'
  BY IndexStaysTyped DEF Seen
<1>4. ASSUME NEW h, HasTokens(h), Proper(h) PROVE Proper(h)'
  <2>1. \A i \in 1 .. Len(h) : h[i].path \in Paths
    BY <1>4, HitsAre DEF Hits
  <2> QED BY <1>3, <1>4, <2>1 DEF Proper, Distinct
<1>5. HitsAreProper'
  <2>1. Proper(hits)'
    BY <1>4
  <2> QED BY <2>1 DEF HitsAreProper
<1>6. \A i \in 1 .. Len(todo) : Seen(todo[i])'
  BY <1>3, ElementOfSeq DEF Queue
<1>7. ListsAreShort'
  <2>1. ShortLists(ask.lists) /\ \A l \in {1, 2} : \A i \in 1 .. Len(ask.lists[l]) : Seen(ask.lists[l][i])
    BY DEF AskInv, ListsAreShort
  <2>2. \A l \in {1, 2} : \A i \in 1 .. Len(ask.lists[l]) : ask.lists[l][i] \in Paths
    BY <2>1, ElementOfSeq DEF ShortLists
  <2> QED BY <1>3, <2>1, <2>2 DEF ListsAreShort
<1>8. TodoIsRanked'
  <2>1. Proper(words)'
    BY <1>4
  <2> QED BY <1>6, <2>1 DEF TodoIsRanked, Queue
<1>9. WordsAreShort' /\ AnswersKeepTheRequest'
  BY DEF WordsAreShort, AnswersKeepTheRequest, Done
<1> QED BY <1>1, <1>2, <1>5, <1>7, <1>8, <1>9 DEF AskInv

LEMMA FuseKeeps ==
  ASSUME RetrievalSetting, AskInv, Fuse
  PROVE  AskInv'
<1> DEFINE S == {p \in Paths : InList(p, 1) \/ InList(p, 2)}
<1>1. ask.at = "vectors" /\ IndexStays
  BY DEF Fuse, Asked, IndexStays
<1>2. PICK q \in FusedOrders :
           ask' = [ask EXCEPT !.at = "fused", !.todo = q, !.words = ask.hits, !.hits = <<>>]
  BY DEF Fuse
<1>3. /\ q \in Ranked(S, [p \in Paths |-> 0])
      /\ \A i, j \in DOMAIN q : i < j => AtLeast(FusedScore(ask.lists, q[i]), FusedScore(ask.lists, q[j]))
  BY DEF FusedOrders
<1>4. IsFiniteSet(S) /\ S \subseteq Paths
  BY FS_Subset DEF RetrievalSetting
<1>5. \A p \in S : Either(ask.lists, p)
  BY DEF InList, Either
<1>6. \A p \in S : Seen(p)
  <2>1. /\ \A l \in {1, 2} : ask.lists[l] \in Seq(Paths)
        /\ \A l \in {1, 2} : \A i \in 1 .. Len(ask.lists[l]) : Seen(ask.lists[l][i])
    BY <1>1 DEF AskInv, ListsAreShort, ShortLists
  <2>2. \A l \in {1, 2} : \A i \in DOMAIN ask.lists[l] : Seen(ask.lists[l][i])
    BY <2>1, LenProperties
  <2> QED BY <1>5, <2>2 DEF Either
<1> HIDE DEF S
<1>7. /\ q \in Seq(S) /\ DOMAIN q = 1 .. Len(q) /\ Len(q) \in Nat
      /\ \A i, j \in 1 .. Len(q) : i # j => q[i] # q[j]
  BY <1>3, <1>4, RankedIs
<1>8. q \in Seq(Paths) /\ \A i \in 1 .. Len(q) : q[i] \in S
  BY <1>4, <1>7, SeqMonotonic, ElementOfSeq
<1>9. HasTokens(<<>>) /\ Proper(<<>>) /\ Len(<<>>) = 0
  BY DEF HasTokens, Proper, Distinct
<1>10. HasTokens(ask.hits) /\ Proper(ask.hits)
  BY AskTyped DEF AskInv, HitsAreProper
<1>11. /\ ask'.at = "fused" /\ ask'.todo = q /\ ask'.words = ask.hits /\ ask'.hits = <<>>
       /\ ask'.question = ask.question /\ ask'.lists = ask.lists /\ ask' \in Asks
  BY <1>2, <1>8, <1>9, AskTyped DEF Asks, Ats, HasTokens
<1>12. Queue(q, ask.lists, <<>>)
  <2>1. \A i, j \in 1 .. Len(q) : i < j =>
          q[i] # q[j] /\ AtLeast(FusedScore(ask.lists, q[i]), FusedScore(ask.lists, q[j]))
    BY <1>3, <1>7
  <2> QED BY <1>5, <1>6, <1>8, <1>9, <2>1 DEF Queue
<1> QED BY <1>1, <1>8, <1>9, <1>10, <1>11, <1>12, FusedKeeps

LEMMA FetchMetadataKeeps ==
  ASSUME RetrievalSetting, AskInv, FetchMetadata
  PROVE  AskInv'
<1>1. ask.at = "fused" /\ ask.todo # <<>> /\ IndexStays
  BY DEF FetchMetadata, Asked, IndexStays
<1> DEFINE p == Head(ask.todo)
           word == {i \in DOMAIN ask.words : ask.words[i].path = p}
           hit == IF word # {} THEN {ask.words[i] : i \in word}
                  ELSE IF p \in InIndex THEN {HitOf(p, 0)} ELSE {}
<1>2. ask' = [ask EXCEPT !.todo = Tail(@), !.hits = IF hit = {} THEN @ ELSE Append(@, CHOOSE h \in hit : TRUE)]
  BY DEF FetchMetadata
<1>3. /\ p \in Paths /\ Tail(ask.todo) \in Seq(Paths) /\ Len(ask.todo) \in Nat \ {0} /\ p = ask.todo[1]
      /\ Len(Tail(ask.todo)) = Len(ask.todo) - 1
      /\ \A i \in 1 .. Len(Tail(ask.todo)) : Tail(ask.todo)[i] = ask.todo[i + 1]
  BY <1>1, AskTyped, HeadTailProperties, EmptySeq
<1>4. /\ HasTokens(ask.hits) /\ Proper(ask.hits) /\ HasTokens(ask.words) /\ Proper(ask.words)
      /\ Queue(ask.todo, ask.lists, ask.hits)
  BY <1>1, AskTyped DEF AskInv, HitsAreProper, TodoIsRanked, Queue
<1>5. \A h \in hit : h \in Hits /\ h.path = p
  <2>1. CASE word # {}
    BY <1>4, <2>1, HitsAre
  <2>2. CASE word = {}
    <3>1. p \in InIndex => HitOf(p, 0) \in Hits /\ HitOf(p, 0).path = p
      BY <1>3 DEF HitOf, Hits, AskInv, RetrievalTypes, IndexTyped, AnyRow
    <3> QED BY <2>2, <3>1
  <2> QED BY <2>1, <2>2
<1> HIDE DEF p, word, hit
<1>6. Len(ask.hits) \in Nat /\ \A k \in 1 .. Len(ask.hits) : ask.hits[k].path # p
  <2>1. 1 \in 1 .. Len(ask.todo)
    BY <1>3
  <2> QED BY <1>3, <1>4, <2>1, HitsAre DEF Queue
<1>7. Seen(p)
  <2>1. 1 \in 1 .. Len(ask.todo)
    BY <1>3
  <2> QED BY <1>3, <1>4, <2>1 DEF Queue
<1>8. PICK hits : /\ ask'.hits = hits /\ HasTokens(hits) /\ Proper(hits)
                  /\ \A k \in 1 .. Len(hits) : hits[k].path = p \/ \E i \in 1 .. Len(ask.hits) : hits[k].path = ask.hits[i].path
  <2>1. CASE hit = {}
    <3>1. ask'.hits = ask.hits
      BY <1>2, <2>1, AskTyped
    <3> QED BY <1>4, <3>1
  <2>2. CASE hit # {}
    <3>1. PICK h \in hit : ask'.hits = Append(ask.hits, h)
      BY <1>2, <2>2, AskTyped
    <3>2. h \in Hits /\ h.path = p
      BY <1>5
    <3>3. /\ HasTokens(Append(ask.hits, h)) /\ Len(Append(ask.hits, h)) = Len(ask.hits) + 1
          /\ \A i \in 1 .. Len(ask.hits) : Append(ask.hits, h)[i] = ask.hits[i]
          /\ Append(ask.hits, h)[Len(ask.hits) + 1] = h
      BY <1>4, <3>2, AppendProperties DEF HasTokens
    <3> DEFINE new == Append(ask.hits, h)
    <3>4. \A i \in 1 .. Len(new) : i \in 1 .. Len(ask.hits) \/ i = Len(ask.hits) + 1
      BY <1>6, <3>3
    <3>5. Distinct(new)
      <4> SUFFICES ASSUME NEW i \in 1 .. Len(new), NEW j \in 1 .. Len(new), i # j PROVE new[i].path # new[j].path
        BY DEF Distinct
      <4>1. CASE i \in 1 .. Len(ask.hits) /\ j \in 1 .. Len(ask.hits)
        BY <1>4, <3>3, <4>1 DEF Proper, Distinct
      <4>2. CASE i = Len(ask.hits) + 1 /\ j \in 1 .. Len(ask.hits)
        BY <1>6, <3>2, <3>3, <4>2
      <4>3. CASE j = Len(ask.hits) + 1 /\ i \in 1 .. Len(ask.hits)
        BY <1>6, <3>2, <3>3, <4>3
      <4> QED BY <3>4, <4>1, <4>2, <4>3
    <3>6. \A i \in 1 .. Len(new) : Seen(new[i].path)
      BY <1>4, <1>7, <3>2, <3>3, <3>4 DEF Proper
    <3>7. \A k \in 1 .. Len(new) : new[k].path = p \/ \E i \in 1 .. Len(ask.hits) : new[k].path = ask.hits[i].path
      BY <3>2, <3>3, <3>4
    <3> QED BY <3>1, <3>3, <3>5, <3>6, <3>7 DEF Proper
  <2> QED BY <2>1, <2>2
<1>9. /\ ask'.at = "fused" /\ ask'.todo = Tail(ask.todo) /\ ask'.words = ask.words
      /\ ask'.question = ask.question /\ ask'.lists = ask.lists
  BY <1>1, <1>2, AskTyped
<1>10. ask' \in Asks
  <2>1. ask' = [ask EXCEPT !.todo = Tail(ask.todo), !.hits = hits]
    BY <1>2, <1>8, AskTyped
  <2> QED BY <1>3, <1>8, <2>1, AskTyped DEF Asks, HasTokens
<1>11. Queue(Tail(ask.todo), ask.lists, hits)
  <2> DEFINE rest == Tail(ask.todo)
  <2>1. \A i \in 1 .. Len(rest) : i + 1 \in 1 .. Len(ask.todo) /\ rest[i] = ask.todo[i + 1]
    BY <1>3
  <2>2. \A i, j \in 1 .. Len(rest) : i < j => i + 1 < j + 1
    BY <1>3
  <2> HIDE DEF rest
  <2>3. \A i, j \in 1 .. Len(rest) : i < j =>
          rest[i] # rest[j] /\ AtLeast(FusedScore(ask.lists, rest[i]), FusedScore(ask.lists, rest[j]))
    BY <1>4, <2>1, <2>2 DEF Queue
  <2>4. \A i \in 1 .. Len(rest) : Seen(rest[i]) /\ Either(ask.lists, rest[i]) /\ rest[i] # p
    <3> SUFFICES ASSUME NEW i \in 1 .. Len(rest)
                 PROVE  Seen(rest[i]) /\ Either(ask.lists, rest[i]) /\ rest[i] # p
      OBVIOUS
    <3>1. 1 \in 1 .. Len(ask.todo) /\ 1 < i + 1
      BY <1>3
    <3> QED BY <1>3, <1>4, <2>1, <3>1 DEF Queue
  <2>5. \A i \in 1 .. Len(rest) : \A k \in 1 .. Len(hits) : hits[k].path # rest[i]
    <3> SUFFICES ASSUME NEW i \in 1 .. Len(rest), NEW k \in 1 .. Len(hits) PROVE hits[k].path # rest[i]
      OBVIOUS
    <3>1. \A l \in 1 .. Len(ask.hits) : ask.hits[l].path # rest[i]
      BY <1>4, <2>1 DEF Queue
    <3> QED BY <1>8, <2>4, <3>1
  <2> QED BY <2>3, <2>4, <2>5 DEF Queue, rest
<1> QED BY <1>1, <1>3, <1>4, <1>8, <1>9, <1>10, <1>11, FusedKeeps

LEMMA EndHybridKeeps ==
  ASSUME RetrievalSetting, AskInv, EndHybrid
  PROVE  AskInv'
<1> DEFINE hits == Cut(ask.hits, ask.question.limit)
<1>1. ask.at = "fused" /\ IndexStays /\ ask' = Answer(hits)
  BY DEF EndHybrid, Asked, IndexStays
<1>2. HasTokens(ask.hits) /\ Proper(ask.hits) /\ ask.question.limit \in Nat /\ Len(ask.hits) \in Nat
  BY AskTyped, HitsAre DEF AskInv, HitsAreProper, Questions
<1>3. /\ HasTokens(hits) /\ Len(hits) <= ask.question.limit
      /\ \A i \in 1 .. Len(hits) : i \in 1 .. Len(ask.hits) /\ hits[i] = ask.hits[i]
  BY <1>2, CutIs DEF HasTokens
<1>4. Proper(hits)
  BY <1>2, <1>3 DEF Proper, Distinct
<1> QED BY <1>1, <1>3, <1>4, AnswerKeeps

\* An index run commits under the question.
LEMMA ReindexKeeps ==
  ASSUME RetrievalSetting, AskInv, NEW p \in Paths, Reindex(p)
  PROVE  AskInv'
<1>1. PICK row \in Rows \union {NotIndexed} : items' = [items EXCEPT ![p] = row]
  BY DEF Reindex
<1>2. /\ ask.at \notin {"idle", "done"} /\ ask' = [ask EXCEPT !.quiet = FALSE]
      /\ itemEdges' \in {itemEdges, [itemEdges EXCEPT ![p] = {}]}
      /\ during' = [during EXCEPT ![p] = @ \union {items'[p]}]
  BY DEF Reindex
<1>3. /\ ask'.at = ask.at /\ ask'.question = ask.question /\ ask'.hits = ask.hits
      /\ ask'.words = ask.words /\ ask'.todo = ask.todo /\ ask'.lists = ask.lists /\ ask' \in Asks
  BY <1>2, AskTyped DEF Asks, HasTokens
<1>4. IndexTyped /\ during \in [Paths -> SUBSET AnyRow]
  BY DEF AskInv, RetrievalTypes
<1>5. row \in AnyRow
  <2>1. CASE row \in Rows
    BY <2>1 DEF RetrievalSetting, AnyRow
  <2>2. CASE row = NotIndexed
    BY <2>2 DEF NotIndexed, AnyRow
  <2> QED BY <2>1, <2>2
<1>6. /\ items' \in [Paths -> AnyRow] /\ items'[p] = row
      /\ \A o \in Paths \ {p} : items'[o] = items[o]
  BY <1>1, <1>4, <1>5 DEF IndexTyped
<1>7. itemEdges' \in [Paths -> SUBSET Paths]
  BY <1>2, <1>4 DEF IndexTyped
<1>8. /\ during' \in [Paths -> SUBSET AnyRow] /\ items'[p] \in during'[p]
      /\ \A o \in Paths : during[o] \subseteq during'[o]
  BY <1>2, <1>4, <1>5, <1>6
<1>9. RetrievalTypes'
  BY <1>3, <1>6, <1>7, <1>8 DEF RetrievalTypes, IndexTyped
<1>10. ItemsAreSeen'
  <2> SUFFICES ASSUME NEW o \in Paths PROVE items'[o] \in during'[o]
    BY DEF ItemsAreSeen
  <2>1. CASE o = p
    BY <1>8, <2>1
  <2>2. CASE o # p
    BY <1>2, <1>6, <1>8, <2>2 DEF AskInv, ItemsAreSeen
  <2> QED BY <2>1, <2>2
<1>11. \A o \in Paths : Seen(o) => Seen(o)'
  BY <1>3, <1>8 DEF Seen
<1>12. \A hits : HasTokens(hits) /\ Proper(hits) =>
         \A i \in 1 .. Len(hits) : hits[i].path \in Paths /\ Seen(hits[i].path)
  <2> SUFFICES ASSUME NEW hits, HasTokens(hits), Proper(hits), NEW i \in 1 .. Len(hits)
               PROVE  hits[i].path \in Paths /\ Seen(hits[i].path)
    OBVIOUS
  <2> QED BY HitsAre DEF Hits, Proper
<1>13. HitsAreProper'
  <2>1. Proper(ask.hits) /\ (ask.at = "idle" => ask.hits = <<>>)
    BY DEF AskInv, HitsAreProper
  <2>2. \A i \in 1 .. Len(ask.hits) : ask.hits[i].path \in Paths /\ Seen(ask.hits[i].path)
    BY <1>12, <2>1, AskTyped
  <2>3. \A i \in 1 .. Len(ask'.hits) : \E o \in Paths : o = ask'.hits[i].path /\ Seen(o)'
    BY <1>3, <1>11, <2>2
  <2>4. \A i \in 1 .. Len(ask'.hits) : Seen(ask.hits[i].path)'
    BY <2>3 DEF Seen
  <2> QED BY <1>3, <2>1, <2>4 DEF HitsAreProper, Proper, Distinct
<1>14. WordsAreShort'
  BY <1>3 DEF AskInv, WordsAreShort
<1>15. ListsAreShort'
  <2> SUFFICES ASSUME ask.at \in {"vectors", "fused"}
               PROVE  /\ ShortLists(ask.lists)
                      /\ \A l \in {1, 2} : \A i \in 1 .. Len(ask'.lists[l]) : Seen(ask.lists[l][i])'
    BY <1>3 DEF ListsAreShort, ShortLists
  <2>1. ShortLists(ask.lists) /\ \A l \in {1, 2} : \A i \in 1 .. Len(ask.lists[l]) : Seen(ask.lists[l][i])
    BY DEF AskInv, ListsAreShort
  <2> SUFFICES ASSUME NEW l \in {1, 2}, NEW i \in 1 .. Len(ask'.lists[l])
               PROVE  Seen(ask.lists[l][i])'
    BY <2>1
  <2>2. PICK o \in Paths : o = ask.lists[l][i]
    BY <1>3, <2>1, ElementOfSeq DEF ShortLists
  <2>3. Seen(o)'
    BY <1>3, <1>11, <2>1, <2>2
  <2> QED BY <1>3, <2>2, <2>3 DEF Seen
<1>16. TodoIsRanked'
  <2> SUFFICES ASSUME ask.at = "fused"
               PROVE  TodoIsRanked'
    BY <1>3 DEF TodoIsRanked
  <2>1. /\ Proper(ask.words)
        /\ \A i, j \in 1 .. Len(ask.todo) : i < j =>
             /\ ask.todo[i] # ask.todo[j]
             /\ AtLeast(FusedScore(ask.lists, ask.todo[i]), FusedScore(ask.lists, ask.todo[j]))
        /\ \A i \in 1 .. Len(ask.todo) :
             /\ Seen(ask.todo[i]) /\ Either(ask.lists, ask.todo[i])
             /\ \A k \in 1 .. Len(ask.hits) : ask.hits[k].path # ask.todo[i]
    BY DEF AskInv, TodoIsRanked
  <2>2. \A i \in 1 .. Len(ask.words) : ask.words[i].path \in Paths /\ Seen(ask.words[i].path)
    BY <1>12, <2>1, AskTyped
  <2>3. \A i \in 1 .. Len(ask'.words) : \E o \in Paths : o = ask'.words[i].path /\ Seen(o)'
    BY <1>3, <1>11, <2>2
  <2>4. \A i \in 1 .. Len(ask'.words) : Seen(ask.words[i].path)'
    BY <2>3 DEF Seen
  <2>5. Proper(ask.words)'
    BY <1>3, <2>1, <2>4 DEF Proper, Distinct
  <2>6. \A i \in 1 .. Len(ask'.todo) : \E o \in Paths : o = ask'.todo[i] /\ Seen(o)'
    <3> SUFFICES ASSUME NEW i \in 1 .. Len(ask.todo)
                 PROVE  \E o \in Paths : o = ask.todo[i] /\ Seen(o)'
      BY <1>3
    <3>1. ask.todo[i] \in Paths
      BY AskTyped, ElementOfSeq
    <3> QED BY <1>11, <2>1, <3>1
  <2>7. \A i \in 1 .. Len(ask'.todo) : Seen(ask.todo[i])'
    BY <2>6 DEF Seen
  <2> QED BY <1>3, <2>1, <2>5, <2>7 DEF TodoIsRanked
<1>17. AnswersKeepTheRequest'
  BY <1>2, <1>3 DEF AnswersKeepTheRequest, Done
<1> QED BY <1>9, <1>10, <1>13, <1>14, <1>15, <1>16, <1>17 DEF AskInv

LEMMA RetrievalStarts ==
  ASSUME RetrievalSetting, RetrievalInit
  PROVE  AskInv
<1>1. /\ ask.at = "idle" /\ ask.question = QuestionOf("search", <<>>)
      /\ ask.hits = <<>> /\ ask.words = <<>> /\ ask.todo = <<>> /\ ask.near = {}
      /\ ask.lists = <<<<>>, <<>>>> /\ ask.quiet = TRUE
  BY DEF RetrievalInit
<1>2. QuestionOf("search", <<>>) \in Questions
  <2> DEFINE first == QuestionOf("search", <<>>)
  <2>1. DOMAIN <<>> = {}
    OBVIOUS
  <2>2. first = [kind |-> "search", tier |-> 2, budget |-> Unlimited,
                 limit |-> Unlimited, start |-> "", depth |-> Hops]
    BY <2>1 DEF QuestionOf, Option
  <2> HIDE DEF first
  <2>3. Unlimited \in Nat /\ Hops \in Nat
    BY DEF RetrievalSetting
  <2>4. first \in [kind : {"search", "prompt", "context", "traverse", "hybrid"}, tier : Nat,
                   budget : Nat, limit : Nat, start : Paths \cup {""}, depth : Nat]
    BY <2>2, <2>3
  <2>5. first.kind # "traverse"
    BY <2>2
  <2>6. first \in Questions
    BY <2>4, <2>5 DEF Questions
  <2> QED BY <2>6 DEF first
<1>3. ask \in Asks
  <2> DEFINE first == QuestionOf("search", <<>>)
  <2>1. ask = [at |-> "idle", question |-> first, hits |-> <<>>, words |-> <<>>, todo |-> <<>>,
               near |-> {}, lists |-> <<<<>>, <<>>>>, quiet |-> TRUE]
    BY DEF RetrievalInit
  <2>2. first \in Questions
    BY <1>2
  <2> HIDE DEF first
  <2>3. <<>> \in Seq(Hits) /\ <<>> \in Seq(Paths)
    OBVIOUS
  <2>4. <<<<>>, <<>>>> \in Seq(Paths) \X Seq(Paths)
    BY <2>3
  <2> QED BY <2>1, <2>2, <2>3, <2>4 DEF Asks, Ats
<1>4. \A r \in Rows \union {NotIndexed} : r \in AnyRow
  <2>1. NotIndexed \in AnyRow
    BY DEF NotIndexed, AnyRow
  <2>2. \A r \in Rows : r \in AnyRow
    BY DEF RetrievalSetting, AnyRow
  <2> QED BY <2>1, <2>2
<1>5. IndexTyped /\ during \in [Paths -> SUBSET AnyRow]
  BY <1>4 DEF RetrievalInit, IndexTyped, RetrievalSetting
<1>6. RetrievalTypes
  BY <1>3, <1>5 DEF RetrievalTypes
<1>7. HitsAreProper
  BY <1>1 DEF HitsAreProper, Proper, Distinct
<1> QED BY <1>1, <1>6, <1>7
        DEF AskInv, ItemsAreSeen, WordsAreShort, ListsAreShort, TodoIsRanked,
            AnswersKeepTheRequest, Done

LEMMA RetrievalSteps ==
  ASSUME RetrievalSetting, AskInv, [RetrievalNext]_retrievalVars
  PROVE  AskInv'
<1>1. CASE \E line \in CommandLines : Ask(line.command, line.given)
  BY <1>1, AskKeeps
<1>2. CASE Search
  BY <1>2, SearchKeeps
<1>3. CASE TraverseFrom
  BY <1>3, TraverseFromKeeps
<1>4. CASE SearchTopic
  BY <1>4, SearchTopicKeeps
<1>5. CASE Traverse
  BY <1>5, TraverseKeeps
<1>6. CASE EndContext
  BY <1>6, EndContextKeeps
<1>7. CASE FallBack
  BY <1>7, FallBackKeeps
<1>8. CASE SearchWords
  BY <1>8, SearchWordsKeeps
<1>9. CASE SearchVectors
  BY <1>9, SearchVectorsKeeps
<1>10. CASE Fuse
  BY <1>10, FuseKeeps
<1>11. CASE FetchMetadata
  BY <1>11, FetchMetadataKeeps
<1>12. CASE EndHybrid
  BY <1>12, EndHybridKeeps
<1>13. CASE \E p \in Paths : Reindex(p)
  BY <1>13, ReindexKeeps
<1>14. CASE UNCHANGED retrievalVars
  <2>1. items' = items /\ itemEdges' = itemEdges /\ during' = during /\ ask' = ask
    BY <1>14 DEF retrievalVars
  <2>2. RetrievalTypes' /\ ItemsAreSeen'
    BY <2>1 DEF AskInv, RetrievalTypes, IndexTyped, ItemsAreSeen
  <2>3. HitsAreProper' /\ WordsAreShort' /\ ListsAreShort'
    BY <2>1 DEF AskInv, HitsAreProper, WordsAreShort, ListsAreShort, Proper, Distinct, Seen
  <2>4. TodoIsRanked' /\ AnswersKeepTheRequest'
    BY <2>1 DEF AskInv, TodoIsRanked, AnswersKeepTheRequest, Proper, Distinct, Seen, Done, PathsOf
  <2> QED BY <2>2, <2>3, <2>4 DEF AskInv
<1> QED BY <1>1, <1>2, <1>3, <1>4, <1>5, <1>6, <1>7, <1>8, <1>9, <1>10, <1>11, <1>12, <1>13, <1>14
        DEF RetrievalNext

LEMMA RetrievalKeepsAskInv == RetrievalSpec => []AskInv
<1>1. RetrievalInit => AskInv
  BY RetrievalStarts, RetrievalAssumption
<1>2. AskInv /\ [RetrievalNext]_retrievalVars => AskInv'
  BY RetrievalSteps, RetrievalAssumption
<1> QED BY <1>1, <1>2, PTL DEF RetrievalSpec

(* However the index changes between the SQL statements of one question, what *)
(* search, hybrid search, context, traverse and the prompt hook print names   *)
(* no item twice, names only items that were within the asked tier at some    *)
(* moment of the question, and keeps to its limit and its budget: for every   *)
(* set of items, links, token estimates and options (search.rs:20-27).        *)
THEOREM AnswersAreAsAsked == RetrievalSpec => []AnswersKeepTheRequest
<1>1. AskInv => AnswersKeepTheRequest
  BY DEF AskInv
<1> QED BY <1>1, RetrievalKeepsAskInv, PTL

\* In a fused list a path with both signals stands before one with a single one.
LEMMA BothComeFirst ==
  ASSUME RetrievalSetting, AskInv
  PROVE  BothSignalsFirst
<1> SUFFICES ASSUME ask.at = "fused", NEW i \in DOMAIN ask.todo, NEW j \in DOMAIN ask.todo,
                    InList(ask.todo[j], 1) /\ InList(ask.todo[j], 2),
                    ~(InList(ask.todo[i], 1) /\ InList(ask.todo[i], 2))
             PROVE  j < i
  BY DEF BothSignalsFirst
<1> DEFINE p == ask.todo[j]
           q == ask.todo[i]
<1>1. Len(ask.todo) \in Nat /\ DOMAIN ask.todo = 1 .. Len(ask.todo)
  BY AskTyped, LenProperties
<1>2. /\ ShortLists(ask.lists) /\ Either(ask.lists, q)
      /\ i < j => AtLeast(FusedScore(ask.lists, q), FusedScore(ask.lists, p))
  BY <1>1 DEF AskInv, ListsAreShort, TodoIsRanked
<1>3. \A r, l : l \in {1, 2} => (InList(r, l) <=> \E k \in DOMAIN ask.lists[l] : ask.lists[l][k] = r)
  BY DEF InList
<1>4. Both(ask.lists, p) /\ ~Both(ask.lists, q)
  BY <1>3 DEF Both
<1>5. ~AtLeast(FusedScore(ask.lists, q), FusedScore(ask.lists, p))
  BY <1>2, <1>4, BothOutrank
<1>6. i # j
  BY <1>4
<1> QED BY <1>1, <1>2, <1>5, <1>6

(* While both rank lists are cut below K + 2 entries, a path found by the     *)
(* words and by the vectors is placed before every path found by one of them  *)
(* alone, whatever the ranks (embed.rs:56-58).                                *)
THEOREM BothSignalsOutrank == RetrievalSpec => []BothSignalsFirst
<1>1. AskInv => BothSignalsFirst
  BY BothComeFirst, RetrievalAssumption
<1> QED BY <1>1, RetrievalKeepsAskInv, PTL


-----------------------------------------------------------------------------
(* Context, while no index run interferes: the hits are the words' and then   *)
(* the walks'; of the best of the words' hits, the first are walked already   *)
(* and the rest are still to do.                                              *)

Beside(p, q) == q \in itemEdges[p] \/ \E o \in itemEdges[p] : q \in itemEdges[o]
Walked(hits, p) ==
  \A q \in InIndex :
    items[q].tier <= ask.question.tier /\ q # p /\ Beside(p, q) => q \in PathsOf(hits)

WordsThenWalks(hits, w) ==
  \A i \in 1 .. Len(hits) : (i <= w => hits[i].hop = 0) /\ (i > w => hits[i].hop >= 1)

Seeds(w) == IF SeedCount < w THEN SeedCount ELSE w

Progress(hits, todo, w, k) ==
  /\ WordsThenWalks(hits, w)
  /\ k + Len(todo) = Seeds(w)
  /\ \A i \in 1 .. Len(todo) : todo[i] = hits[k + i].path
  /\ \A i \in 1 .. k : Walked(hits, hits[i].path)

SeedsWalked ==
  ask.at = "seeds" /\ ask.quiet =>
    /\ UpToDate(ask.hits)
    /\ \E w \in 0 .. Len(ask.hits), k \in Nat : Progress(ask.hits, ask.todo, w, k)

ContextInv == AskInv /\ SeedsWalked /\ NeighboursAreNotMissed

LEMMA ProgressKept ==
  ASSUME IndexStays, ask'.question = ask.question, NEW hits, ask'.hits = hits, NEW todo, ask'.todo = todo,
         UpToDate(hits), NEW w \in 0 .. Len(hits), NEW k \in Nat, Progress(hits, todo, w, k)
  PROVE  SeedsWalked'
<1>1. items' = items /\ itemEdges' = itemEdges /\ InIndex' = InIndex
  BY DEF IndexStays, InIndex
<1>2. UpToDate(ask.hits)'
  BY <1>1 DEF UpToDate
<1>3. \A i \in 1 .. k : Walked(ask.hits, ask.hits[i].path)'
  BY <1>1 DEF Progress, Walked, Beside, PathsOf
<1>4. Progress(ask.hits, ask.todo, w, k)'
  BY <1>3 DEF Progress, WordsThenWalks, Seeds
<1> QED BY <1>2, <1>4 DEF SeedsWalked

LEMMA SearchTopicStarts ==
  ASSUME RetrievalSetting, ContextInv, SearchTopic
  PROVE  SeedsWalked'
<1>1. ask.at = "words" /\ IndexStays /\ AskInv
  BY DEF SearchTopic, Asked, IndexStays, ContextInv
<1>2. PICK hits \in WordHits :
           ask' = [ask EXCEPT !.at = "seeds", !.hits = hits,
                     !.todo = [i \in DOMAIN Cut(hits, SeedCount) |-> hits[i].path]]
  BY DEF SearchTopic
<1> DEFINE best == Cut(hits, SeedCount)
           todo == [i \in DOMAIN best |-> hits[i].path]
<1>3. IndexTyped /\ ask.question \in Questions
  BY <1>1, AskTyped DEF AskInv, RetrievalTypes
<1>4. HasTokens(hits) /\ UpToDate(hits) /\ \A i \in 1 .. Len(hits) : hits[i].hop = 0
  BY <1>2, <1>3, WordHitsAre
<1>5. Len(hits) \in Nat /\ SeedCount \in Nat
  BY <1>4, HitsAre DEF RetrievalSetting
<1>6. HasTokens(best) /\ Len(best) = Seeds(Len(hits))
  BY <1>4, <1>5, CutIs DEF HasTokens, Seeds
<1>7. DOMAIN best = 1 .. Len(best) /\ Len(best) \in Nat
  BY <1>6, HitsAre
<1> HIDE DEF best
<1>8. Len(todo) = Seeds(Len(hits)) /\ \A i \in 1 .. Len(todo) : todo[i] = hits[0 + i].path
  <2>1. todo \in [1 .. Len(best) -> {hits[i].path : i \in 1 .. Len(best)}]
    BY <1>7
  <2>2. Len(todo) = Len(best)
    <3> HIDE DEF todo
    <3> QED BY <1>7, <2>1, ListIs
  <2>3. \A i \in 1 .. Len(best) : todo[i] = hits[i].path
    BY <1>7
  <2>4. \A i \in 1 .. Len(best) : 0 + i = i
    BY <1>7
  <2> QED BY <1>6, <2>2, <2>3, <2>4
<1>9. /\ ask'.at = "seeds" /\ ask'.hits = hits /\ ask'.todo = todo /\ ask'.question = ask.question
      /\ ask'.quiet = ask.quiet
  BY <1>1, <1>2, AskTyped DEF best
<1> HIDE DEF todo
<1>10. WordsThenWalks(hits, Len(hits))
  BY <1>4, <1>5 DEF WordsThenWalks
<1>11. Seeds(Len(hits)) \in Nat
  BY <1>5 DEF Seeds
<1>12. Progress(hits, todo, Len(hits), 0)
  BY <1>8, <1>10, <1>11 DEF Progress
<1>13. Len(hits) \in 0 .. Len(hits) /\ 0 \in Nat
  BY <1>5
<1> QED BY <1>1, <1>4, <1>9, <1>12, <1>13, ProgressKept

LEMMA TraverseProceeds ==
  ASSUME RetrievalSetting, ContextInv, Traverse, ask.quiet
  PROVE  SeedsWalked'
<1> DEFINE seed == Head(ask.todo)
           new == {p \in Neighbours(seed, Hops) : items[p].tier <= ask.question.tier /\ p \notin PathsOf(ask.hits)}
<1>1. ask.at = "seeds" /\ ask.todo # <<>> /\ IndexStays /\ AskInv
  BY DEF Traverse, Asked, IndexStays, ContextInv
<1>2. PICK hits \in Walks(seed, new, Hops) : ask' = [ask EXCEPT !.todo = Tail(@), !.hits = @ \o hits]
  BY DEF Traverse
<1>3. /\ UpToDate(ask.hits)
      /\ \E w \in 0 .. Len(ask.hits), k \in Nat : Progress(ask.hits, ask.todo, w, k)
  BY <1>1 DEF ContextInv, SeedsWalked
<1>4. PICK w \in 0 .. Len(ask.hits), k \in Nat : Progress(ask.hits, ask.todo, w, k)
  BY <1>3
<1>5. /\ ask.todo \in Seq(Paths) /\ HasTokens(ask.hits) /\ Distinct(ask.hits) /\ ask.question \in Questions
  BY <1>1, AskTyped DEF AskInv, HitsAreProper, Proper
<1>6. /\ Len(ask.todo) \in Nat /\ Len(ask.todo) >= 1 /\ seed = ask.todo[1] /\ seed \in Paths
      /\ Tail(ask.todo) \in Seq(Paths) /\ Len(Tail(ask.todo)) = Len(ask.todo) - 1
      /\ \A i \in 1 .. Len(ask.todo) - 1 : Tail(ask.todo)[i] = ask.todo[i + 1]
  <2>1. Len(ask.todo) \in Nat /\ Len(ask.todo) >= 1
    BY <1>1, <1>5, EmptySeq, LenProperties
  <2>2. seed = ask.todo[1] /\ seed \in Paths
    BY <1>1, <1>5, HeadTailProperties, <2>1, ElementOfSeq
  <2> QED BY <1>1, <1>5, <2>1, <2>2, HeadTailProperties
<1>7. Len(ask.hits) \in Nat /\ w \in Nat /\ SeedCount \in Nat /\ k + 1 \in 1 .. w /\ k + 1 \in 1 .. Len(ask.hits)
  <2>1. Len(ask.hits) \in Nat /\ w \in 0 .. Len(ask.hits) /\ SeedCount \in Nat
    BY <1>5, HitsAre DEF RetrievalSetting
  <2>2. k + Len(ask.todo) <= w
    BY <1>4, <2>1 DEF Progress, Seeds
  <2> QED BY <1>6, <2>1, <2>2
<1>8. seed = ask.hits[k + 1].path
  BY <1>4, <1>6 DEF Progress
<1>9. IndexTyped /\ new \subseteq Neighbours(seed, Hops) /\ Hops \in Nat /\ Hops >= 2
  BY <1>1 DEF AskInv, RetrievalTypes, RetrievalSetting
<1>10. /\ HasTokens(hits) /\ Distinct(hits) /\ UpToDate(hits) /\ PathsOf(hits) = new
       /\ \A i \in 1 .. Len(hits) : hits[i].hop >= 1
  <2> HIDE DEF seed, new
  <2> QED BY <1>2, <1>6, <1>9, WalksAre
<1>11. PathsOf(ask.hits) \cap PathsOf(hits) = {}
  BY <1>10
<1>12. \A p \in InIndex : items[p].tier <= ask.question.tier /\ p # seed /\ Beside(seed, p)
                          => p \in PathsOf(ask.hits) \/ p \in PathsOf(hits)
  <2> SUFFICES ASSUME NEW p \in InIndex, items[p].tier <= ask.question.tier, p # seed, Beside(seed, p),
                      p \notin PathsOf(ask.hits)
               PROVE  p \in PathsOf(hits)
    OBVIOUS
  <2>1. p \in Neighbours(seed, Hops)
    <3> HIDE DEF seed
    <3> QED BY <1>6, <1>9, TwoEdges DEF Beside
  <2> QED BY <1>10, <2>1
<1> DEFINE all == ask.hits \o hits
           rest == Tail(ask.todo)
<1> HIDE DEF seed, new
<1>13. /\ HasTokens(all) /\ Len(all) = Len(ask.hits) + Len(hits) /\ Len(hits) \in Nat
       /\ \A i \in 1 .. Len(ask.hits) : all[i] = ask.hits[i]
       /\ \A i \in Len(ask.hits) + 1 .. Len(all) :
            i - Len(ask.hits) \in 1 .. Len(hits) /\ all[i] = hits[i - Len(ask.hits)]
       /\ PathsOf(all) = PathsOf(ask.hits) \cup PathsOf(hits)
  BY <1>5, <1>10, <1>11, HitsAppended, HitsAre
<1>14. /\ ask'.hits = all /\ ask'.todo = rest /\ ask'.question = ask.question
  BY <1>1, <1>2, AskTyped
<1> HIDE DEF all, rest
<1>15. UpToDate(all)
  <2> SUFFICES ASSUME NEW i \in 1 .. Len(all)
               PROVE  /\ all[i].path \in InIndex
                      /\ all[i].tier = items[all[i].path].tier /\ all[i].tokens = items[all[i].path].tokens
    BY DEF UpToDate
  <2>1. CASE i \in 1 .. Len(ask.hits)
    BY <1>3, <1>13, <2>1 DEF UpToDate
  <2>2. CASE i \in Len(ask.hits) + 1 .. Len(all)
    <3>1. PICK j \in 1 .. Len(hits) : all[i] = hits[j]
      BY <1>13, <2>2
    <3>2. /\ hits[j].path \in InIndex
          /\ hits[j].tier = items[hits[j].path].tier /\ hits[j].tokens = items[hits[j].path].tokens
      BY <1>10 DEF UpToDate
    <3> QED BY <3>1, <3>2
  <2> QED BY <1>7, <1>13, <2>1, <2>2
<1>16. WordsThenWalks(all, w)
  <2> SUFFICES ASSUME NEW i \in 1 .. Len(all)
               PROVE  (i <= w => all[i].hop = 0) /\ (i > w => all[i].hop >= 1)
    BY DEF WordsThenWalks
  <2>1. CASE i \in 1 .. Len(ask.hits)
    BY <1>4, <1>13, <2>1 DEF Progress, WordsThenWalks
  <2>2. CASE i \in Len(ask.hits) + 1 .. Len(all)
    <3>1. all[i].hop >= 1
      BY <1>10, <1>13, <2>2
    <3>2. i > w
      BY <1>7, <2>2
    <3> QED BY <1>7, <2>2, <3>1, <3>2
  <2> QED BY <1>7, <1>13, <2>1, <2>2
<1>17. \A i \in 1 .. k + 1 : Walked(all, all[i].path)
  <2> SUFFICES ASSUME NEW i \in 1 .. k + 1 PROVE Walked(all, ask.hits[i].path)
    BY <1>7, <1>13
  <2>1. CASE i = k + 1
    <3>1. ask.hits[i].path = seed
      BY <1>8, <2>1
    <3> QED BY <1>12, <1>13, <3>1 DEF Walked
  <2>2. CASE i \in 1 .. k
    <3>1. Walked(ask.hits, ask.hits[i].path)
      BY <1>4, <2>2 DEF Progress
    <3> QED BY <1>13, <3>1 DEF Walked
  <2> QED BY <2>1, <2>2
<1>18. /\ Seeds(w) \in Nat /\ Seeds(w) <= w /\ Len(rest) \in Nat
       /\ (k + 1) + Len(rest) = Seeds(w)
  <2>1. Seeds(w) \in Nat /\ Seeds(w) <= w
    BY <1>7 DEF Seeds
  <2>2. k + Len(ask.todo) = Seeds(w)
    BY <1>4 DEF Progress
  <2>3. Len(rest) = Len(ask.todo) - 1 /\ Len(rest) \in Nat
    BY <1>6 DEF rest
  <2>4. Len(ask.todo) \in Nat /\ Len(ask.todo) = Len(rest) + 1
    BY <1>6, <2>3
  <2>5. (k + 1) + Len(rest) = k + Len(ask.todo)
    <3>1. PICK n \in Nat : n = Len(rest)
      BY <2>3
    <3>2. Len(ask.todo) = n + 1
      BY <2>4, <3>1
    <3>3. (k + 1) + n = k + (n + 1)
      OBVIOUS
    <3> QED BY <3>1, <3>2, <3>3
  <2> QED BY <2>1, <2>2, <2>3, <2>5
<1>19. \A i \in 1 .. Len(rest) : rest[i] = all[(k + 1) + i].path
  <2> SUFFICES ASSUME NEW i \in 1 .. Len(rest) PROVE rest[i] = all[(k + 1) + i].path
    OBVIOUS
  <2>1. i + 1 \in 1 .. Len(ask.todo) /\ rest[i] = ask.todo[i + 1]
    BY <1>6 DEF rest
  <2>2. ask.todo[i + 1] = ask.hits[k + (i + 1)].path
    BY <1>4, <2>1 DEF Progress
  <2>3. k + (i + 1) = (k + 1) + i /\ (k + 1) + i \in 1 .. Len(ask.hits)
    <3>1. i \in Nat /\ 1 <= i /\ i <= Len(rest)
      BY <1>18
    <3>2. (k + 1) + i <= w /\ w <= Len(ask.hits)
      BY <1>7, <1>18, <3>1
    <3> QED BY <1>7, <3>1, <3>2
  <2> QED BY <1>13, <2>1, <2>2, <2>3
<1>20. Progress(all, rest, w, k + 1)
  BY <1>16, <1>17, <1>18, <1>19 DEF Progress
<1>21. w \in 0 .. Len(all) /\ k + 1 \in Nat
  BY <1>7, <1>13
<1> QED BY <1>1, <1>14, <1>15, <1>20, <1>21, ProgressKept

LEMMA EndContextReachesThem ==
  ASSUME RetrievalSetting, ContextInv, EndContext
  PROVE  NeighboursAreNotMissed'
<1> DEFINE full == ask.hits
           budget == ask.question.budget
<1>1. ask.at = "seeds" /\ ask.todo = <<>> /\ IndexStays /\ ask' = Answer(full) /\ AskInv
  BY DEF EndContext, Asked, IndexStays, ContextInv
<1>2. budget \in Nat /\ HasTokens(full) /\ Distinct(full)
  BY <1>1, AskTyped DEF AskInv, HitsAreProper, Proper, Questions
<1>3. PICK m \in 0 .. Len(full) :
           /\ ApplyBudget(full, budget) = Cut(full, m)
           /\ Len(Cut(full, m)) = m
           /\ m > 1 => Spent(Cut(full, m)) <= budget
           /\ m < Len(full) => m > 0 /\ Spent(Cut(full, m)) + full[m + 1].tokens > budget
  BY <1>2, BudgetKeepsAPrefix
<1> DEFINE kept == Cut(full, m)
<1>4. ask'.hits = kept /\ ask'.question = ask.question /\ ask'.quiet = ask.quiet
  BY <1>1, <1>3, AskTyped DEF Answer
<1>5. Len(full) \in Nat /\ m \in Nat /\ SeedCount \in Nat
  BY <1>2, <1>3, HitsAre DEF RetrievalSetting
<1>6. /\ HasTokens(kept) /\ Len(kept) = m
      /\ \A i \in 1 .. m : i \in 1 .. Len(full) /\ kept[i] = full[i]
  <2>1. full \in Seq(Hits) /\ Len(kept) = m
    BY <1>2, <1>3 DEF HasTokens
  <2>2. kept \in Seq(Hits) /\ \A i \in 1 .. Len(kept) : i \in 1 .. Len(full) /\ kept[i] = full[i]
    <3> HIDE DEF full
    <3> QED BY <1>5, <2>1, CutIs
  <2> QED BY <2>1, <2>2 DEF HasTokens
<1>7. DOMAIN kept = 1 .. m /\ PathsOf(kept) = {kept[i].path : i \in 1 .. m}
  BY <1>6, HitsAre, PathsAre
<1>8. m < Len(full) => Spent(kept) + full[m + 1].tokens > budget
  BY <1>3
<1> HIDE DEF kept
<1> SUFFICES ASSUME ask.quiet, NEW i \in 1 .. SeedCount, NEW p \in InIndex, i \in 1 .. m,
                    kept[i].hop = 0, items[p].tier <= ask.question.tier, Beside(kept[i].path, p)
             PROVE  \/ p \in PathsOf(kept)
                    \/ \E q \in InIndex \ PathsOf(kept) : Spent(kept) + items[q].tokens > budget
  <2>1. items' = items /\ itemEdges' = itemEdges /\ InIndex' = InIndex
    BY <1>1 DEF IndexStays, InIndex
  <2>2. PathsOf(ask.hits)' = PathsOf(kept) /\ Spent(ask.hits)' = Spent(kept)
    BY <1>4
  <2> QED BY <1>4, <1>7, <2>1, <2>2 DEF NeighboursAreNotMissed, Beside
<1>9. /\ UpToDate(full)
      /\ \E w \in 0 .. Len(full), k \in Nat : Progress(full, ask.todo, w, k)
  BY <1>1 DEF ContextInv, SeedsWalked
<1>10. PICK w \in 0 .. Len(full), k \in Nat : Progress(full, ask.todo, w, k)
  BY <1>9
<1>11. CASE m < Len(full)
  <2> DEFINE q == full[m + 1].path
  <2>1. m + 1 \in 1 .. Len(full)
    BY <1>5, <1>11
  <2>2. q \in InIndex /\ items[q].tokens = full[m + 1].tokens
    BY <1>9, <2>1 DEF UpToDate
  <2>3. q \notin PathsOf(kept)
    <3> SUFFICES ASSUME NEW j \in 1 .. m, kept[j].path = q PROVE FALSE
      BY <1>7
    <3>1. j \in 1 .. Len(full) /\ full[j].path = full[m + 1].path /\ j # m + 1
      BY <1>5, <1>6
    <3> QED BY <1>2, <2>1, <3>1 DEF Distinct
  <2> QED BY <1>8, <1>11, <2>2, <2>3
<1>12. CASE m = Len(full)
  <2>1. k = Seeds(w)
    <3>1. k + Len(ask.todo) = Seeds(w)
      BY <1>10 DEF Progress
    <3>2. Len(ask.todo) = 0
      BY <1>1
    <3> QED BY <3>1, <3>2
  <2>2. kept[i] = full[i] /\ i \in 1 .. Len(full)
    BY <1>6
  <2>3. i <= w
    <3>1. i > w => full[i].hop >= 1
      BY <1>10, <2>2 DEF Progress, WordsThenWalks
    <3>2. full[i].hop = 0
      BY <2>2
    <3> QED BY <1>5, <2>2, <3>1, <3>2
  <2>4. i \in 1 .. k
    BY <1>5, <2>1, <2>3 DEF Seeds
  <2>5. Walked(full, full[i].path)
    BY <1>10, <2>4 DEF Progress
  <2>6. p # full[i].path => p \in PathsOf(full)
    BY <2>2, <2>5 DEF Walked
  <2>7. PathsOf(full) = {full[j].path : j \in 1 .. m}
    BY <1>2, <1>12, PathsAre
  <2>8. p \in PathsOf(full)
    BY <2>2, <2>6, <2>7
  <2>9. PICK j \in 1 .. m : p = full[j].path
    BY <2>7, <2>8
  <2> QED BY <1>6, <1>7, <2>9
<1> QED BY <1>3, <1>5, <1>11, <1>12

\* The other questions end with an answer of another kind, or have none yet.
LEMMA OtherKinds ==
  ASSUME ask'.at \notin {"seeds", "done"} \/ (ask'.at = "done" /\ ask'.question.kind # "context")
  PROVE  SeedsWalked' /\ NeighboursAreNotMissed'
  BY DEF SeedsWalked, NeighboursAreNotMissed, Done

LEMMA OtherAnswers ==
  ASSUME AskInv, NEW hits, ask' = Answer(hits), ask.question.kind # "context"
  PROVE  SeedsWalked' /\ NeighboursAreNotMissed'
<1>1. ask'.at = "done" /\ ask'.question = ask.question
  BY AskTyped DEF Answer
<1> QED BY <1>1, OtherKinds

LEMMA ContextSteps ==
  ASSUME RetrievalSetting, ContextInv, [RetrievalNext]_retrievalVars
  PROVE  ContextInv'
<1>1. AskInv /\ AskInv'
  BY RetrievalSteps DEF ContextInv
<1> SUFFICES SeedsWalked' /\ NeighboursAreNotMissed'
  BY <1>1 DEF ContextInv
<1>2. CASE \E line \in CommandLines : Ask(line.command, line.given)
  <2>1. ask'.at = "words"
    BY <1>1, <1>2, AskTyped DEF Ask
  <2> QED BY <2>1, OtherKinds
<1>3. CASE Search
  <2>1. PICK hits \in WordHits : ask' = Answer(hits)
    BY <1>3 DEF Search
  <2>2. ask.question.kind # "context"
    BY <1>3 DEF Search, Asked
  <2> QED BY <1>1, <2>1, <2>2, OtherAnswers
<1>4. CASE TraverseFrom
  <2>1. \E hits : ask' = Answer(hits)
    BY <1>4 DEF TraverseFrom
  <2>2. ask.question.kind # "context"
    BY <1>4 DEF TraverseFrom, Asked
  <2> QED BY <1>1, <2>1, <2>2, OtherAnswers
<1>5. CASE SearchTopic
  <2>1. ask'.at = "seeds"
    BY <1>1, <1>5, AskTyped DEF SearchTopic
  <2>2. NeighboursAreNotMissed'
    BY <2>1 DEF NeighboursAreNotMissed, Done
  <2> QED BY <1>5, <2>2, SearchTopicStarts
<1>6. CASE Traverse
  <2>1. ask'.at = "seeds" /\ ask'.quiet = ask.quiet
    BY <1>1, <1>6, AskTyped DEF Traverse, Asked
  <2>2. NeighboursAreNotMissed'
    BY <2>1 DEF NeighboursAreNotMissed, Done
  <2>3. CASE ask.quiet
    BY <1>6, <2>2, <2>3, TraverseProceeds
  <2>4. CASE ~ask.quiet
    BY <2>1, <2>2, <2>4 DEF SeedsWalked
  <2> QED BY <2>3, <2>4
<1>7. CASE EndContext
  <2>1. ask'.at = "done"
    BY <1>1, <1>7, AskTyped DEF EndContext, Answer
  <2> QED BY <1>7, <2>1, EndContextReachesThem DEF SeedsWalked
<1>8. CASE FallBack
  <2>1. ask'.at = "words"
    BY <1>1, <1>8, AskTyped DEF FallBack
  <2> QED BY <2>1, OtherKinds
<1>9. CASE SearchWords
  <2>1. ask'.at = "embeddings"
    BY <1>1, <1>9, AskTyped DEF SearchWords
  <2> QED BY <2>1, OtherKinds
<1>10. CASE SearchVectors
  <2>1. ask'.at = "vectors"
    BY <1>1, <1>10, AskTyped DEF SearchVectors
  <2> QED BY <2>1, OtherKinds
<1>11. CASE Fuse
  <2>1. ask'.at = "fused"
    BY <1>1, <1>11, AskTyped DEF Fuse
  <2> QED BY <2>1, OtherKinds
<1>12. CASE FetchMetadata
  <2>1. ask.at = "fused"
    BY <1>12 DEF FetchMetadata, Asked
  <2>2. ask'.at = "fused"
    BY <1>1, <1>12, <2>1, AskTyped DEF FetchMetadata
  <2> QED BY <2>2, OtherKinds
<1>13. CASE EndHybrid
  <2>1. \E hits : ask' = Answer(hits)
    BY <1>13 DEF EndHybrid
  <2>2. ask.question.kind # "context"
    BY <1>13 DEF EndHybrid, Asked
  <2> QED BY <1>1, <2>1, <2>2, OtherAnswers
<1>14. CASE \E p \in Paths : Reindex(p)
  <2>1. ask.at # "done" /\ ask' = [ask EXCEPT !.quiet = FALSE]
    BY <1>14 DEF Reindex
  <2>2. ask'.quiet = FALSE
    BY <1>1, <2>1, AskTyped
  <2> QED BY <2>2 DEF SeedsWalked, NeighboursAreNotMissed
<1>15. CASE UNCHANGED retrievalVars
  <2>1. items' = items /\ itemEdges' = itemEdges /\ ask' = ask
    BY <1>15 DEF retrievalVars
  <2>2. InIndex' = InIndex
    BY <2>1 DEF InIndex
  <2>3. NeighboursAreNotMissed'
    BY <2>1, <2>2 DEF ContextInv, NeighboursAreNotMissed, Done, PathsOf
  <2>4. SeedsWalked'
    <3> SUFFICES ASSUME ask.at = "seeds" /\ ask.quiet PROVE SeedsWalked'
      BY <2>1 DEF SeedsWalked
    <3>1. UpToDate(ask.hits) /\ \E w \in 0 .. Len(ask.hits), k \in Nat : Progress(ask.hits, ask.todo, w, k)
      BY DEF ContextInv, SeedsWalked
    <3>2. IndexStays
      <4>1. during' = during /\ updates' = updates
        BY <1>15 DEF retrievalVars
      <4> QED BY <2>1, <4>1 DEF IndexStays
    <3> QED BY <2>1, <3>1, <3>2, ProgressKept
  <2> QED BY <2>3, <2>4
<1> QED BY <1>2, <1>3, <1>4, <1>5, <1>6, <1>7, <1>8, <1>9, <1>10, <1>11, <1>12, <1>13, <1>14, <1>15
        DEF RetrievalNext

(* While no index run interferes, context leaves out no item within two edges *)
(* of one of its best hits unless the budget is spent on what it kept: for    *)
(* every link structure, cycles and links to what is not indexed included     *)
(* (context() in search.rs, and the recursive walk it asks for).              *)
THEOREM NeighboursAreReached == RetrievalSpec => []NeighboursAreNotMissed
<1>1. RetrievalInit => ContextInv
  <2> SUFFICES ASSUME RetrievalInit PROVE ContextInv
    OBVIOUS
  <2>1. AskInv
    BY RetrievalStarts, RetrievalAssumption
  <2>2. ask.at = "idle"
    BY DEF RetrievalInit
  <2> QED BY <2>1, <2>2 DEF ContextInv, SeedsWalked, NeighboursAreNotMissed, Done
<1>2. ContextInv /\ [RetrievalNext]_retrievalVars => ContextInv'
  BY ContextSteps, RetrievalAssumption
<1>3. ContextInv => NeighboursAreNotMissed
  BY DEF ContextInv
<1> QED BY <1>1, <1>2, <1>3, PTL DEF RetrievalSpec

-----------------------------------------------------------------------------
(* Frontmatter: sequences put together from pieces.                          *)

\* The pieces put together so far, and what each piece makes of them.
Grows(seqs, S) == [k \in 1 .. Len(seqs) |-> [q \in Seq(S) |-> q \o seqs[k]]]

LEMMA FlattenIs ==
  ASSUME NEW S, NEW seqs \in Seq(Seq(S))
  PROVE  \E g \in [0 .. Len(seqs) -> Seq(S)] :
           /\ g[0] = <<>>
           /\ \A k \in 1 .. Len(seqs) : g[k] = g[k - 1] \o seqs[k]
           /\ FlattenSeq(seqs) = g[Len(seqs)]
<1> DEFINE n == Len(seqs)
           Glued(f) == f = [i \in 1 .. n |-> IF i = 1 THEN seqs[i] ELSE f[i - 1] \o seqs[i]]
<1>1. n \in Nat /\ DOMAIN seqs = 1 .. n /\ \A i \in 1 .. n : seqs[i] \in Seq(S)
  BY LenProperties, ElementOfSeq
<1>2. <<>> \in Seq(S)
  BY EmptySeq
<1>3. Grows(seqs, S) \in [1 .. n -> [Seq(S) -> Seq(S)]]
  <2> SUFFICES ASSUME NEW k \in 1 .. n, NEW q \in Seq(S) PROVE q \o seqs[k] \in Seq(S)
    BY DEF Grows
  <2>1. seqs[k] \in Seq(S)
    BY <1>1
  <2> QED BY <2>1, ConcatProperties
<1>4. PICK g \in [0 .. n -> Seq(S)] : Iterates(g, n, <<>>, Grows(seqs, S))
  BY <1>1, <1>2, <1>3, IterateExists
<1>5. ASSUME NEW k \in 1 .. n PROVE g[k - 1] \in Seq(S) /\ g[k] = g[k - 1] \o seqs[k]
  <2>1. k - 1 \in 0 .. n
    BY <1>1
  <2>2. g[k - 1] \in Seq(S)
    BY <1>4, <2>1
  <2>3. g[k] = Grows(seqs, S)[k][g[k - 1]]
    BY <1>4 DEF Iterates
  <2>4. Grows(seqs, S)[k] = [q \in Seq(S) |-> q \o seqs[k]]
    BY DEF Grows
  <2> QED BY <2>2, <2>3, <2>4
<1>6. g[0] = <<>>
  BY <1>4 DEF Iterates
<1>9. ASSUME n # 0 PROVE 1 \in 1 .. n /\ seqs[1] \in Seq(S) /\ g[1] = seqs[1]
  <2>1. 1 \in 1 .. n /\ 1 - 1 = 0
    BY <1>1, <1>9
  <2>2. g[1] = g[1 - 1] \o seqs[1] /\ seqs[1] \in Seq(S)
    BY <1>1, <1>5, <2>1
  <2>3. <<>> \o seqs[1] = seqs[1]
    BY <2>2, ConcatEmptySeq
  <2> QED BY <1>6, <2>1, <2>2, <2>3
<1>7. CASE n = 0
  <2>1. seqs = <<>>
    BY <1>7, EmptySeq
  <2>2. FlattenSeq(seqs) = seqs
    BY <1>7 DEF FlattenSeq
  <2> QED BY <1>4, <1>5, <1>6, <1>7, <2>1, <2>2
<1>8. CASE n # 0
  <2>1. Glued([i \in 1 .. n |-> g[i]])
    <3> DEFINE f == [i \in 1 .. n |-> g[i]]
    <3>1. ASSUME NEW i \in 1 .. n PROVE f[i] = IF i = 1 THEN seqs[i] ELSE f[i - 1] \o seqs[i]
      <4>1. CASE i = 1
        <5> QED BY <1>8, <1>9, <4>1
      <4>2. CASE i # 1
        <5>1. i - 1 \in 1 .. n
          BY <1>1, <4>2
        <5> QED BY <1>5, <4>2, <5>1
      <4> QED BY <4>1, <4>2
    <3>2. f = [i \in 1 .. n |-> IF i = 1 THEN seqs[i] ELSE f[i - 1] \o seqs[i]]
      BY <3>1
    <3> QED BY <3>2
  <2>2. PICK flatten : flatten = CHOOSE f : Glued(f)
    OBVIOUS
  <2>3. Glued(flatten)
    <3> HIDE DEF Glued
    <3> QED BY <2>1, <2>2
  <2>4. FlattenSeq(seqs) = flatten[n]
    BY <1>8, <2>2 DEF FlattenSeq
  <2>5. flatten[1] = seqs[1] /\ \A k \in 2 .. n : flatten[k] = flatten[k - 1] \o seqs[k]
    <3>1. \A k \in 1 .. n : flatten[k] = IF k = 1 THEN seqs[k] ELSE flatten[k - 1] \o seqs[k]
      BY <2>3
    <3>2. 1 \in 1 .. n /\ \A k \in 2 .. n : k \in 1 .. n /\ k # 1
      BY <1>1, <1>8
    <3> HIDE DEF Glued
    <3> QED BY <3>1, <3>2
  <2>6. \A k \in 1 .. n : flatten[k] = g[k]
    <3> DEFINE Bad == {k \in 1 .. n : flatten[k] # g[k]}
    <3> SUFFICES ASSUME Bad # {} PROVE FALSE
      OBVIOUS
    <3>1. Bad \subseteq Nat
      OBVIOUS
    <3>2. PICK k \in Bad : \A y \in Bad : k <= y
      <4> HIDE DEF Bad
      <4> QED BY <3>1, LeastOf
    <3>4. g[1] = seqs[1]
      BY <1>8, <1>9
    <3>3. k \in 1 .. n /\ k # 1
      BY <2>5, <3>2, <3>4
    <3>5. k \in 2 .. n /\ k - 1 \in 1 .. n /\ k - 1 \notin Bad
      <4>1. k \in 2 .. n /\ k - 1 \in 1 .. n /\ ~(k <= k - 1)
        BY <1>1, <3>3
      <4>2. k - 1 \notin Bad
        <5> HIDE DEF Bad
        <5> QED BY <3>2, <4>1
      <4> QED BY <4>1, <4>2
    <3>6. flatten[k - 1] = g[k - 1]
      BY <3>5
    <3> QED BY <1>5, <2>5, <3>2, <3>5, <3>6
  <2>7. n \in 1 .. n
    BY <1>1, <1>8
  <2>8. FlattenSeq(seqs) = g[n]
    BY <2>4, <2>6, <2>7
  <2> HIDE DEF Glued
  <2> QED BY <1>4, <1>5, <1>6, <2>8
<1> QED BY <1>7, <1>8

LEMMA FlattenTyped ==
  ASSUME NEW S, NEW seqs \in Seq(Seq(S))
  PROVE  FlattenSeq(seqs) \in Seq(S)
<1>1. Len(seqs) \in Nat /\ Len(seqs) \in 0 .. Len(seqs)
  BY LenProperties
<1>2. PICK g \in [0 .. Len(seqs) -> Seq(S)] : FlattenSeq(seqs) = g[Len(seqs)]
  BY FlattenIs
<1> QED BY <1>1, <1>2

\* The pieces that are there, one element each, in their order: which piece each
\* element of the whole comes from.
Placed(pos, whole, seqs, k) ==
  /\ pos \in [1 .. Len(whole) -> 1 .. k]
  /\ \A i, j \in 1 .. Len(whole) : i < j => pos[i] < pos[j]
  /\ \A i \in 1 .. Len(whole) : seqs[pos[i]] # <<>> /\ whole[i] = seqs[pos[i]][1]
  /\ \A m \in 1 .. k : seqs[m] # <<>> => \E i \in 1 .. Len(whole) : pos[i] = m

LEMMA NextPiece ==
  ASSUME NEW S, NEW seqs \in Seq(Seq(S)), NEW k \in 1 .. Len(seqs), Len(seqs[k]) <= 1,
         NEW q \in Seq(S), NEW pos, Placed(pos, q, seqs, k - 1)
  PROVE  \E p : Placed(p, q \o seqs[k], seqs, k)
<1>1. Len(seqs) \in Nat /\ k \in Nat /\ k > 0 /\ seqs[k] \in Seq(S) /\ Len(q) \in Nat /\ Len(seqs[k]) \in Nat
  BY LenProperties, ElementOfSeq
<1>4. seqs[k] # <<>> => Len(seqs[k]) = 1
  <2>1. Len(seqs[k]) = 0 => seqs[k] = <<>>
    BY <1>1, EmptySeq
  <2>2. Len(seqs[k]) = 0 \/ Len(seqs[k]) = 1
    <3>1. \A x \in Nat : x <= 1 => x = 0 \/ x = 1
      OBVIOUS
    <3> QED BY <1>1, <3>1
  <2> QED BY <2>1, <2>2
<1>5. /\ Len(q \o seqs[k]) = Len(q) + Len(seqs[k])
      /\ \A i \in 1 .. Len(q) + Len(seqs[k]) : (q \o seqs[k])[i] = IF i <= Len(q) THEN q[i] ELSE seqs[k][i - Len(q)]
  BY <1>1, ConcatProperties
<1>2. CASE seqs[k] = <<>>
  <2>1. q \o seqs[k] = q
    BY <1>2, ConcatEmptySeq
  <2>2. pos \in [1 .. Len(q) -> 1 .. k]
    BY <1>1 DEF Placed
  <2>3. \A m \in 1 .. k : seqs[m] # <<>> => m \in 1 .. k - 1
    BY <1>1, <1>2
  <2>4. Placed(pos, q, seqs, k)
    BY <2>2, <2>3 DEF Placed
  <2> QED BY <2>1, <2>4
<1>3. CASE seqs[k] # <<>>
  <2> DEFINE n == Len(q)
             whole == q \o seqs[k]
             p == [i \in 1 .. n + 1 |-> IF i = n + 1 THEN k ELSE pos[i]]
  <2>1. Len(seqs[k]) = 1
    BY <1>3, <1>4
  <2>2. Len(whole) = n + 1
    BY <1>5, <2>1
  <2>3. \A i \in 1 .. n + 1 : whole[i] = IF i <= n THEN q[i] ELSE seqs[k][i - n]
    BY <1>5, <2>1
  <2>4. n \in Nat /\ n + 1 - n = 1 /\ 1 .. n + 1 = (1 .. n) \union {n + 1} /\ \A i \in 1 .. n : i <= n /\ i # n + 1
    BY <1>1
  <2>5. whole[n + 1] = seqs[k][1] /\ \A i \in 1 .. n : whole[i] = q[i]
    <3>1. n + 1 \in 1 .. n + 1 /\ ~(n + 1 <= n)
      BY <1>1
    <3>2. whole[n + 1] = IF n + 1 <= n THEN q[n + 1] ELSE seqs[k][n + 1 - n]
      <4> HIDE DEF whole, n
      <4> QED BY <2>3, <2>4, <3>1
    <3> HIDE DEF whole, n
    <3> QED BY <2>3, <2>4, <3>1, <3>2
  <2>6. p[n + 1] = k /\ \A i \in 1 .. n : p[i] = pos[i] /\ pos[i] \in 1 .. k - 1
    BY <2>4 DEF Placed
  <2> HIDE DEF whole, n
  <2>7. p \in [1 .. Len(whole) -> 1 .. k]
    <3>1. \A i \in 1 .. n + 1 : p[i] \in 1 .. k
      <4>1. k \in 1 .. k /\ \A x \in 1 .. k - 1 : x \in 1 .. k
        BY <1>1
      <4> HIDE DEF p
      <4> QED BY <2>4, <2>6, <4>1
    <3> QED BY <2>2, <3>1
  <2>8. \A i, j \in 1 .. n + 1 : i < j => p[i] < p[j]
    <3> SUFFICES ASSUME NEW i \in 1 .. n + 1, NEW j \in 1 .. n + 1, i < j PROVE p[i] < p[j]
      OBVIOUS
    <3>1. i \in 1 .. n
      BY <2>4
    <3>2. p[i] = pos[i] /\ pos[i] \in 1 .. k - 1
      BY <2>6, <3>1
    <3>3. CASE j = n + 1
      BY <1>1, <2>6, <3>2, <3>3
    <3>4. CASE j \in 1 .. n
      <4>1. pos[i] < pos[j]
        BY <3>1, <3>4 DEF Placed, n
      <4> QED BY <2>6, <3>2, <3>4, <4>1
    <3> QED BY <2>4, <3>3, <3>4
  <2>9. \A i \in 1 .. n + 1 : seqs[p[i]] # <<>> /\ whole[i] = seqs[p[i]][1]
    <3>1. \A i \in 1 .. n : seqs[pos[i]] # <<>> /\ q[i] = seqs[pos[i]][1]
      BY DEF Placed, n
    <3> HIDE DEF p
    <3> QED BY <1>3, <2>4, <2>5, <2>6, <3>1
  <2>10. \A m \in 1 .. k : seqs[m] # <<>> => \E i \in 1 .. n + 1 : p[i] = m
    <3> SUFFICES ASSUME NEW m \in 1 .. k, seqs[m] # <<>> PROVE \E i \in 1 .. n + 1 : p[i] = m
      OBVIOUS
    <3>1. CASE m = k
      BY <2>4, <2>6, <3>1
    <3>2. CASE m # k
      <4>1. m \in 1 .. k - 1
        BY <1>1, <3>2
      <4>2. PICK i \in 1 .. n : pos[i] = m
        BY <4>1 DEF Placed, n
      <4> HIDE DEF p
      <4> QED BY <2>4, <2>6, <4>2
    <3> QED BY <3>1, <3>2
  <2> HIDE DEF p
  <2>11. Placed(p, whole, seqs, k)
    BY <2>2, <2>7, <2>8, <2>9, <2>10 DEF Placed
  <2> QED BY <2>11 DEF whole
<1> QED BY <1>2, <1>3

LEMMA PiecesInOrder ==
  ASSUME NEW S, NEW seqs \in Seq(Seq(S)), \A m \in 1 .. Len(seqs) : Len(seqs[m]) <= 1
  PROVE  \E pos : Placed(pos, FlattenSeq(seqs), seqs, Len(seqs))
<1>1. PICK g \in [0 .. Len(seqs) -> Seq(S)] :
           /\ g[0] = <<>>
           /\ \A k \in 1 .. Len(seqs) : g[k] = g[k - 1] \o seqs[k]
           /\ FlattenSeq(seqs) = g[Len(seqs)]
  BY FlattenIs
<1>2. Len(seqs) \in Nat
  BY LenProperties
<1> DEFINE Bad == {k \in 0 .. Len(seqs) : ~ \E pos : Placed(pos, g[k], seqs, k)}
<1>3. Bad = {}
  <2> SUFFICES ASSUME Bad # {} PROVE FALSE
    OBVIOUS
  <2>1. Bad \subseteq Nat
    BY <1>2
  <2>2. PICK k \in Bad : \A y \in Bad : k <= y
    <3> HIDE DEF Bad
    <3> QED BY <2>1, LeastOf
  <2>3. k # 0
    <3>1. Len(g[0]) = 0
      BY <1>1, EmptySeq
    <3>2. Placed([i \in 1 .. 0 |-> i], g[0], seqs, 0)
      BY <3>1 DEF Placed
    <3> QED BY <2>2, <3>2
  <2>4. k \in 1 .. Len(seqs) /\ k - 1 \in 0 .. Len(seqs) /\ ~(k <= k - 1)
    BY <1>2, <2>2, <2>3
  <2>5. k - 1 \notin Bad
    <3> HIDE DEF Bad
    <3> QED BY <2>2, <2>4
  <2>6. PICK pos : Placed(pos, g[k - 1], seqs, k - 1)
    BY <2>4, <2>5
  <2>7. g[k - 1] \in Seq(S) /\ g[k] = g[k - 1] \o seqs[k]
    BY <1>1, <2>4
  <2>8. \E p : Placed(p, g[k - 1] \o seqs[k], seqs, k)
    BY <2>4, <2>6, <2>7, NextPiece
  <2> QED BY <2>2, <2>7, <2>8
<1>4. Len(seqs) \in 0 .. Len(seqs)
  BY <1>2
<1> QED BY <1>1, <1>3, <1>4

-----------------------------------------------------------------------------
(* Frontmatter: what a block of lines is parsed to.                          *)

LinesTyped ==
  /\ Len(lines) \in Nat /\ DOMAIN lines = 1 .. Len(lines)
  /\ \A i \in DOMAIN lines : IsLine(lines[i])

LEMMA LatestIs ==
  ASSUME NEW n \in Nat, NEW S, S \subseteq 1 .. n, S # {}
  PROVE  Latest(S) \in S /\ \A j \in S : j <= Latest(S)
<1> DEFINE Left == {n - i : i \in S}
<1>1. Left \subseteq Nat /\ Left # {}
  <2>1. \A i \in S : n - i \in Nat
    OBVIOUS
  <2>2. PICK i \in S : TRUE
    OBVIOUS
  <2>3. n - i \in Left
    BY <2>2
  <2> QED BY <2>1, <2>3
<1>2. PICK x \in Left : \A y \in Left : x <= y
  <2> HIDE DEF Left
  <2> QED BY <1>1, LeastOf
<1>3. PICK i \in S : x = n - i
  BY <1>2
<1>4. \A j \in S : j <= i
  <2> SUFFICES ASSUME NEW j \in S PROVE j <= i
    OBVIOUS
  <2>1. n - i <= n - j
    BY <1>2, <1>3
  <2> QED BY SMT, <2>1
<1>5. \E k \in S : \A j \in S : j <= k
  BY <1>4
<1> QED BY <1>5 DEF Latest

Scalars == AllFields \ Lists

LEMMA FieldNames ==
  /\ Debugged \cap Lists = {} /\ Provenance \cap Lists = {}
  /\ "provenance" \notin AllFields /\ "-" \notin AllFields
  /\ Debugged \subseteq Scalars /\ Provenance \subseteq Scalars
  /\ Lists \subseteq AllFields
BY DEF Enums, Lists, Debugged, TextFields, Provenance, AllFields, Bare, Scalars

NullWords == {"null", ""}

LEMMA UnquotedTyped ==
  ASSUME NEW text \in ItemTexts
  PROVE  Unquoted(text) \in ItemTexts
<1>1. ASSUME NEW t \in ItemTexts, NEW end PROVE Without(t, end) \in ItemTexts
  <2>1. CASE WrappedIn(t, end)
    <3>1. t.around \in Seq({"quotes", "space"}) /\ t.around # <<>>
      BY <2>1 DEF WrappedIn, ItemTexts
    <3>2. Tail(t.around) \in Seq({"quotes", "space"})
      BY <3>1
    <3>3. [t EXCEPT !.around = Tail(t.around)] \in ItemTexts
      BY <3>2 DEF ItemTexts
    <3>4. Without(t, end) = [t EXCEPT !.around = Tail(t.around)]
      BY <2>1 DEF Without
    <3> QED BY <3>3, <3>4
  <2> QED BY <2>1 DEF Without
<1>2. Without(text, "space") \in ItemTexts
  BY <1>1
<1> QED BY <1>1, <1>2 DEF Unquoted

\* An absent field, or a text that does not say so.
IsText(v) == v = Null \/ (v \in ItemTexts /\ ~ IsOneOf(v, NullWords))

LEMMA ReadTyped ==
  ASSUME NEW v \in {Blank, Null} \union ItemTexts
  PROVE  IsText(ReadText(v))
<1>1. CASE v \in {Blank, Null}
  BY <1>1 DEF ReadText, IsText
<1>2. CASE v \notin {Blank, Null}
  <2>1. Unquoted(v) \in ItemTexts
    BY <1>2, UnquotedTyped
  <2> QED BY <1>2, <2>1 DEF ReadText, IsText, NullWords
<1> QED BY <1>1, <1>2

\* What is written in quotes is read as it was, but for its backslashes.
LEMMA ReadQuoted ==
  ASSUME NEW text \in ItemTexts, ~ IsOneOf(text, NullWords)
  PROVE  /\ Quoted(Escaped(text)) \in ItemTexts
         /\ ReadText(Quoted(Escaped(text))) = Escaped(text)
<1> DEFINE e == Escaped(text)
           q == Quoted(e)
<1>1. PICK w \in STRING, a \in Seq({"quotes", "space"}), n \in Nat, k \in Nat :
        text = [word |-> w, around |-> a, quotes |-> n, slashes |-> k]
  BY DEF ItemTexts
<1>2. e = [word |-> w, around |-> a, quotes |-> n, slashes |-> 2 * k + n] /\ 2 * k + n \in Nat
  <2>1. text.slashes = k /\ text.quotes = n
    BY <1>1
  <2>2. PICK m : m = 2 * k + n
    OBVIOUS
  <2>3. e = [text EXCEPT !.slashes = m]
    BY <2>1, <2>2 DEF Escaped
  <2>4. e = [word |-> w, around |-> a, quotes |-> n, slashes |-> m]
    BY <1>1, <2>3
  <2>5. 2 * k + n \in Nat
    OBVIOUS
  <2> QED BY <2>2, <2>4, <2>5
<1> HIDE DEF e
<1>3. q = [word |-> w, around |-> <<"quotes">> \o a, quotes |-> n, slashes |-> 2 * k + n]
  <2>1. PICK b : b = <<"quotes">> \o a
    OBVIOUS
  <2>2. e.around = a
    BY <1>2
  <2>3. q = [e EXCEPT !.around = b]
    BY <2>1, <2>2 DEF Quoted
  <2>4. PICK m : m = 2 * k + n
    OBVIOUS
  <2>5. e = [word |-> w, around |-> a, quotes |-> n, slashes |-> m]
    BY <1>2, <2>4
  <2>6. q = [word |-> w, around |-> b, quotes |-> n, slashes |-> m]
    BY <2>3, <2>5
  <2> QED BY <2>1, <2>4, <2>6
<1> HIDE DEF q
<1>4. /\ <<"quotes">> \o a \in Seq({"quotes", "space"}) /\ <<"quotes">> \o a # <<>>
      /\ Head(<<"quotes">> \o a) = "quotes" /\ Tail(<<"quotes">> \o a) = a
  OBVIOUS
<1>5. q \in ItemTexts
  BY <1>2, <1>3, <1>4 DEF ItemTexts
<1>6. q \notin {Blank, Null}
  BY <1>5, NothingIsNoText
<1>7. Without(q, "space") = q
  BY <1>3, <1>4 DEF Without, WrappedIn
<1>8. Without(q, "quotes") = e
  <2>1. WrappedIn(q, "quotes")
    BY <1>3, <1>4 DEF WrappedIn
  <2>2. Without(q, "quotes") = [q EXCEPT !.around = a]
    BY <1>3, <1>4, <2>1 DEF Without
  <2> QED BY <1>2, <1>3, <2>2
<1>9. ~ IsOneOf(e, NullWords)
  <2>1. w \in NullWords /\ a = <<>> /\ n = 0 => k # 0
    BY <1>1 DEF IsOneOf
  <2>2. n = 0 /\ k # 0 => 2 * k + n # 0
    BY <1>1
  <2> QED BY <1>2, <2>1, <2>2 DEF IsOneOf
<1>10. ReadText(q) = e
  BY <1>6, <1>7, <1>8, <1>9 DEF ReadText, Unquoted, NullWords
<1> QED BY <1>5, <1>10 DEF e, q

LEMMA ScalarTyped ==
  ASSUME LinesTyped, NEW f \in Scalars
  PROVE  IsText(Scalar(f))
<1>1. CASE LinesAbout(f) = {}
  BY <1>1 DEF Scalar, IsText
<1>2. CASE LinesAbout(f) # {}
  <2> DEFINE i == Latest(LinesAbout(f))
  <2>1. LinesAbout(f) \subseteq 1 .. Len(lines) /\ Len(lines) \in Nat
    BY DEF LinesTyped, LinesAbout
  <2>2. i \in LinesAbout(f)
    BY <1>2, <2>1, LatestIs
  <2>3. IsLine(lines[i]) /\ lines[i].key = f
    BY <2>2 DEF LinesTyped, LinesAbout
  <2>4. f \notin Lists \union {"-"}
    BY FieldNames DEF Scalars
  <2>5. lines[i].value \in {Blank, Null} \union ItemTexts
    BY <2>3, <2>4 DEF IsLine
  <2> QED BY <1>2, <2>5, ReadTyped DEF Scalar
<1> QED BY <1>1, <1>2

LEMMA OneIsASeq ==
  ASSUME NEW S, NEW w \in S
  PROVE  <<w>> \in Seq(S)
OBVIOUS

LEMMA ItemsTyped ==
  ASSUME NEW list \in Seq(Seq(ItemTexts))
  PROVE  ItemsOf(list) \in Seq(Seq(ItemTexts)) /\ (list = <<>> => ItemsOf(list) = <<>>)
<1> DEFINE Piece(n) == IF IsEmpty(ItemOf(list[n])) THEN <<>> ELSE <<ItemOf(list[n])>>
           all == [n \in DOMAIN list |-> Piece(n)]
<1>1. Len(list) \in Nat /\ DOMAIN list = 1 .. Len(list) /\ \A n \in 1 .. Len(list) : list[n] \in Seq(ItemTexts)
  BY LenProperties, ElementOfSeq
<1>2. ASSUME NEW n \in 1 .. Len(list) PROVE Piece(n) \in Seq(Seq(ItemTexts))
  <2>1. ItemOf(list[n]) \in Seq(ItemTexts)
    <3>1. list[n] \in Seq(ItemTexts)
      BY <1>1
    <3>2. CASE Len(list[n]) = 1
      <4>1. list[n][1] \in ItemTexts
        BY <3>1, <3>2
      <4>2. Unquoted(list[n][1]) \in ItemTexts
        BY <4>1, UnquotedTyped
      <4>3. <<Unquoted(list[n][1])>> \in Seq(ItemTexts)
        BY <4>2, OneIsASeq
      <4> QED BY <3>2, <4>3 DEF ItemOf
    <3>3. CASE Len(list[n]) # 1
      BY <3>1, <3>3 DEF ItemOf
    <3> QED BY <3>2, <3>3
  <2>2. <<ItemOf(list[n])>> \in Seq(Seq(ItemTexts)) /\ <<>> \in Seq(Seq(ItemTexts))
    BY <2>1, OneIsASeq, EmptySeq
  <2> QED BY <2>2
<1>3. all \in Seq(Seq(Seq(ItemTexts)))
  <2> HIDE DEF Piece
  <2> QED BY <1>1, <1>2, IsASeq
<1>4. FlattenSeq(all) \in Seq(Seq(ItemTexts))
  <2> HIDE DEF all
  <2> QED BY <1>3, FlattenTyped
<1>5. ASSUME list = <<>> PROVE FlattenSeq(all) = <<>>
  <2>1. all = <<>>
    BY <1>5
  <2>2. FlattenSeq(<<>>) = <<>>
    BY DEF FlattenSeq
  <2> QED BY <2>1, <2>2
<1>6. ItemsOf(list) = FlattenSeq(all)
  BY DEF ItemsOf
<1> HIDE DEF all
<1> QED BY <1>4, <1>5, <1>6

LEMMA ListTyped ==
  ASSUME LinesTyped, NEW f \in Lists
  PROVE  ListOf(f) \in Seq(Seq(ItemTexts))
<1> DEFINE says == {i \in DOMAIN lines : lines[i].key = f /\ lines[i].indent = 0}
           i == Latest(says)
<1>0. <<>> \in Seq(Seq(ItemTexts))
  BY EmptySeq
<1>1. CASE says = {}
  BY <1>0, <1>1 DEF ListOf
<1>2. CASE says # {}
  <2>1. says \subseteq 1 .. Len(lines) /\ Len(lines) \in Nat
    BY DEF LinesTyped
  <2>2. i \in says
    <3> HIDE DEF says
    <3> QED BY <1>2, <2>1, LatestIs
  <2>3. IsLine(lines[i]) /\ lines[i].key = f
    BY <2>2 DEF LinesTyped
  <2>4. lines[i].value \in {Blank, Null} \union Seq(Seq(ItemTexts))
    BY <2>3 DEF IsLine
  <2>5. Dashes(i) \in Seq(Seq(ItemTexts))
    <3> DEFINE Piece(k) == IF k \in Children(i) /\ lines[k].key = "-" THEN <<lines[k].value>> ELSE <<>>
    <3>1. ASSUME NEW k \in 1 .. Len(lines) PROVE Piece(k) \in Seq(Seq(ItemTexts))
      <4>1. k \in DOMAIN lines
        BY DEF LinesTyped
      <4>2. lines[k].key = "-" => lines[k].value \in Seq(ItemTexts)
        BY <4>1 DEF LinesTyped, IsLine
      <4>3. \A v \in Seq(ItemTexts) : <<v>> \in Seq(Seq(ItemTexts))
        OBVIOUS
      <4> QED BY <1>0, <4>2, <4>3
    <3>2. [k \in DOMAIN lines |-> Piece(k)] \in Seq(Seq(Seq(ItemTexts)))
      <4>1. DOMAIN lines = 1 .. Len(lines) /\ Len(lines) \in Nat
        BY DEF LinesTyped
      <4> HIDE DEF Piece
      <4> QED BY <3>1, <4>1, IsASeq
    <3>3. FlattenSeq([k \in DOMAIN lines |-> Piece(k)]) \in Seq(Seq(ItemTexts))
      <4> HIDE DEF Piece
      <4> QED BY <3>2, FlattenTyped
    <3> QED BY <3>3 DEF Dashes
  <2>6. ListOf(f) = CASE lines[i].value = Blank -> ItemsOf(Dashes(i))
                      [] lines[i].value = Null  -> <<>>
                      [] OTHER                  -> ItemsOf(lines[i].value)
    BY <1>2 DEF ListOf
  <2> HIDE DEF i
  <2>7. lines[i].value \notin {Blank, Null} => ItemsOf(lines[i].value) \in Seq(Seq(ItemTexts))
    BY <2>4, ItemsTyped
  <2>8. ItemsOf(Dashes(i)) \in Seq(Seq(ItemTexts))
    BY <2>5, ItemsTyped
  <2> QED BY <1>0, <2>6, <2>7, <2>8
<1> QED BY <1>1, <1>2

\* What a block is parsed to.
IsParsed(fm) ==
  /\ \A f \in Scalars : IsText(fm[f])
  /\ \A f \in Lists : fm[f] \in Seq(Seq(ItemTexts))

LEMMA ParsedIs ==
  ASSUME LinesTyped
  PROVE  IsParsed(ParseBlock)
<1>1. ASSUME NEW f \in Scalars PROVE IsText(ParseBlock[f])
  <2>1. f \in AllFields /\ f \notin Lists
    BY DEF Scalars
  <2>2. ParseBlock[f] = Scalar(f)
    BY <2>1 DEF ParseBlock
  <2> QED BY <2>2, ScalarTyped
<1>2. ASSUME NEW f \in Lists PROVE ParseBlock[f] \in Seq(Seq(ItemTexts))
  <2>1. f \in AllFields
    BY FieldNames
  <2>2. ParseBlock[f] = ListOf(f)
    BY <2>1 DEF ParseBlock
  <2> QED BY <2>2, ListTyped
<1> QED BY <1>1, <1>2 DEF IsParsed

-----------------------------------------------------------------------------
(* Frontmatter: the lines a block is rendered to.                            *)

Keys == AllFields \union {"provenance"}

LEMMA OrderIs ==
  /\ Len(Order) = 15 /\ DOMAIN Order = 1 .. 15
  /\ \A n \in 1 .. 15 : Order[n] \in Keys
  /\ \A f \in Keys : \E n \in 1 .. 15 : Order[n] = f
  /\ \A m, n \in 1 .. 15 : Order[m] = Order[n] => m = n
  /\ Order[6] = "provenance"
  /\ \A n \in 1 .. 15 : Order[n] \in Provenance <=> n \in 7 .. 9
<1>1. Len(Order) = 15 /\ DOMAIN Order = 1 .. 15
  BY DEF Order
<1>2. /\ Order[1] = "title" /\ Order[2] = "type" /\ Order[3] = "scope" /\ Order[4] = "workspace"
      /\ Order[5] = "visibility" /\ Order[6] = "provenance" /\ Order[7] = "actor" /\ Order[8] = "session"
      /\ Order[9] = "source" /\ Order[10] = "confidence" /\ Order[11] = "expires" /\ Order[12] = "tokens"
      /\ Order[13] = "tags" /\ Order[14] = "refs" /\ Order[15] = "updated"
  BY DEF Order
<1>3. \A n \in 1 .. 15 : n \in {1, 2, 3, 4, 5, 6, 7, 8, 9, 10, 11, 12, 13, 14, 15}
  OBVIOUS
<1>4. Keys = {"title", "type", "scope", "workspace", "visibility", "provenance", "actor", "session",
              "source", "confidence", "expires", "tokens", "tags", "refs", "updated"}
  BY DEF Keys, AllFields, TextFields, Bare, Provenance, Enums, Lists
<1>5. \A n \in 1 .. 15 : Order[n] \in Keys
  BY <1>2, <1>3, <1>4
<1>6. \A f \in Keys : \E n \in 1 .. 15 : Order[n] = f
  BY <1>2, <1>4
<1>7. \A m, n \in 1 .. 15 : Order[m] = Order[n] => m = n
  BY <1>2, <1>3
<1>8. \A n \in 1 .. 15 : Order[n] \in Provenance <=> n \in 7 .. 9
  BY <1>2, <1>3 DEF Provenance
<1> QED BY <1>1, <1>2, <1>5, <1>6, <1>7, <1>8

LEMMA JoinedIs ==
  ASSUME NEW list \in Seq(Seq(ItemTexts))
  PROVE  Joined(list) \in Seq(Seq(ItemTexts)) /\ (list = <<>> => Joined(list) = <<>>)
<1> DEFINE Words(n) == [m \in DOMAIN list[n] |-> <<list[n][m]>>]
           all == [n \in DOMAIN list |-> Words(n)]
<1>1. Len(list) \in Nat /\ DOMAIN list = 1 .. Len(list) /\ \A n \in 1 .. Len(list) : list[n] \in Seq(ItemTexts)
  BY LenProperties, ElementOfSeq
<1>2. ASSUME NEW n \in 1 .. Len(list) PROVE Words(n) \in Seq(Seq(ItemTexts))
  <2>1. list[n] \in Seq(ItemTexts)
    BY <1>1
  <2>2. /\ Len(list[n]) \in Nat /\ DOMAIN list[n] = 1 .. Len(list[n])
        /\ \A m \in 1 .. Len(list[n]) : list[n][m] \in ItemTexts
    BY <2>1, LenProperties, ElementOfSeq
  <2>3. \A w \in ItemTexts : <<w>> \in Seq(ItemTexts)
    BY OneIsASeq
  <2>4. \A m \in 1 .. Len(list[n]) : <<list[n][m]>> \in Seq(ItemTexts)
    BY <2>2, <2>3
  <2> QED BY <2>2, <2>4, IsASeq
<1>3. all \in Seq(Seq(Seq(ItemTexts)))
  <2> HIDE DEF Words
  <2> QED BY <1>1, <1>2, IsASeq
<1>4. FlattenSeq(all) \in Seq(Seq(ItemTexts))
  <2> HIDE DEF all
  <2> QED BY <1>3, FlattenTyped
<1>5. ASSUME list = <<>> PROVE FlattenSeq(all) = <<>>
  <2>1. all = <<>>
    BY <1>5
  <2>2. FlattenSeq(<<>>) = <<>>
    BY DEF FlattenSeq
  <2> QED BY <2>1, <2>2
<1>6. Joined(list) = FlattenSeq(all)
  BY DEF Joined
<1> HIDE DEF all
<1> QED BY <1>4, <1>5, <1>6

LEMMA WrittenIs ==
  ASSUME NEW fm, IsParsed(fm), NEW f \in Scalars, fm[f] # Null
  PROVE  Written(fm, f) \in ItemTexts
<1>1. fm[f] \in ItemTexts /\ ~ IsOneOf(fm[f], NullWords)
  BY DEF IsParsed, IsText
<1>2. Quoted(Escaped(fm[f])) \in ItemTexts
  BY <1>1, ReadQuoted
<1> QED BY <1>1, <1>2 DEF Written

\* A line of f, one for each field that is there, under provenance: for three of them.
LEMMA LineForIs ==
  ASSUME NEW fm, IsParsed(fm), NEW f \in Keys
  PROVE  /\ LineFor(fm, f) # <<>> =>
              \E l : /\ LineFor(fm, f) = <<l>> /\ IsLine(l) /\ l.key = f
                     /\ l.indent = IF f \in Provenance THEN 1 ELSE 0
                     /\ f = "provenance" => l.value = Blank
                     /\ f \in Scalars => l.value = Written(fm, f) /\ l.value \in ItemTexts
                     /\ f \in Lists => l.value = Joined(fm[f])
         /\ f \in Provenance /\ LineFor(fm, f) # <<>> => LineFor(fm, "provenance") # <<>>
         /\ f \in Scalars => (LineFor(fm, f) = <<>> <=> fm[f] = Null)
         /\ f \in Lists => (LineFor(fm, f) = <<>> <=> fm[f] = <<>>)
<1>0. \A l : <<l>> # <<>>
  OBVIOUS
<1>1. CASE f = "provenance"
  <2>1. f \notin Scalars /\ f \notin Lists /\ f \notin Provenance /\ f # "-"
    BY <1>1, FieldNames DEF Scalars
  <2>2. LineFor(fm, f) = IF HasProvenance(fm) THEN <<Top(f, Blank)>> ELSE <<>>
    BY <1>1, <2>1 DEF LineFor
  <2>3. IsLine(Top(f, Blank))
    BY <2>1 DEF IsLine, Top
  <2>4. Top(f, Blank).key = f /\ Top(f, Blank).indent = 0 /\ Top(f, Blank).value = Blank
    BY DEF Top
  <2> QED BY <2>1, <2>2, <2>3, <2>4
<1>2. CASE f \in Lists
  <2>1. f \notin Scalars /\ f # "provenance" /\ f \notin Provenance /\ f # "-"
    BY <1>2, FieldNames DEF Scalars
  <2>2. LineFor(fm, f) = IF fm[f] = <<>> THEN <<>> ELSE <<Top(f, Joined(fm[f]))>>
    BY <1>2, <2>1 DEF LineFor
  <2>3. fm[f] \in Seq(Seq(ItemTexts))
    BY <1>2 DEF IsParsed
  <2>4. Joined(fm[f]) \in Seq(Seq(ItemTexts))
    BY <2>3, JoinedIs
  <2> DEFINE l == Top(f, Joined(fm[f]))
  <2>5. l.key = f /\ l.indent = 0 /\ l.value = Joined(fm[f])
    BY DEF Top
  <2> HIDE DEF l
  <2>6. IsLine(l)
    BY <1>2, <2>1, <2>4, <2>5 DEF IsLine
  <2>7. LineFor(fm, f) = IF fm[f] = <<>> THEN <<>> ELSE <<l>>
    BY <2>2 DEF l
  <2> QED BY <1>0, <2>1, <2>5, <2>6, <2>7
<1>3. CASE f \in Scalars
  <2>1. f \notin Lists /\ f # "provenance" /\ f # "-"
    BY <1>3, FieldNames DEF Scalars
  <2> DEFINE l == IF f \in Provenance THEN Below(f, Written(fm, f)) ELSE Top(f, Written(fm, f))
  <2>2. LineFor(fm, f) = IF fm[f] = Null THEN <<>> ELSE <<l>>
    BY <2>1 DEF LineFor
  <2>3. l.key = f /\ l.indent = (IF f \in Provenance THEN 1 ELSE 0) /\ l.value = Written(fm, f)
    BY DEF Top, Below
  <2> HIDE DEF l
  <2>4. fm[f] # Null => l.value \in ItemTexts /\ IsLine(l)
    BY <1>3, <2>1, <2>3, WrittenIs DEF IsLine
  <2>5. f \in Provenance /\ fm[f] # Null => HasProvenance(fm)
    BY DEF HasProvenance
  <2>6. LineFor(fm, "provenance") = IF HasProvenance(fm) THEN <<Top("provenance", Blank)>> ELSE <<>>
    BY FieldNames DEF LineFor
  <2> QED BY <1>0, <1>3, <2>1, <2>2, <2>3, <2>4, <2>5, <2>6
<1> QED BY <1>1, <1>2, <1>3 DEF Keys, Scalars

\* A line for each field that is there and none else, those of the provenance right
\* below provenance:.
Shown(block, fm) ==
  /\ Len(block) \in Nat /\ DOMAIN block = 1 .. Len(block)
  /\ \A i \in 1 .. Len(block) : block[i].key \in Keys /\ LineFor(fm, block[i].key) = <<block[i]>>
  /\ \A i, j \in 1 .. Len(block) : block[i].key = block[j].key => i = j
  /\ \A f \in Keys : LineFor(fm, f) # <<>> => \E i \in 1 .. Len(block) : block[i].key = f
  /\ \A i \in 1 .. Len(block) : block[i].key \in Provenance =>
       \E j \in 1 .. i - 1 : /\ block[j].key = "provenance"
                             /\ \A k \in j + 1 .. i : block[k].key \in Provenance

LEMMA Rendered ==
  ASSUME NEW fm, IsParsed(fm)
  PROVE  Shown(Render(fm), fm)
<1> DEFINE S == {LineFor(fm, f)[1] : f \in Keys}
           seqs == [n \in DOMAIN Order |-> LineFor(fm, Order[n])]
           L == Render(fm)
<1>1. ASSUME NEW f \in Keys
      PROVE  /\ LineFor(fm, f) \in Seq(S) /\ Len(LineFor(fm, f)) <= 1
             /\ LineFor(fm, f) # <<>> => LineFor(fm, f) = <<LineFor(fm, f)[1]>> /\ LineFor(fm, f)[1].key = f
  <2>1. CASE LineFor(fm, f) = <<>>
    <3> HIDE DEF S
    <3> QED BY <2>1, EmptySeq
  <2>2. CASE LineFor(fm, f) # <<>>
    <3>1. PICK l : LineFor(fm, f) = <<l>> /\ l.key = f
      BY <2>2, LineForIs
    <3>2. LineFor(fm, f)[1] = l
      BY <3>1
    <3>3. l \in S
      BY <3>2
    <3> HIDE DEF S
    <3>4. <<l>> \in Seq(S)
      BY <3>3, OneIsASeq
    <3>5. Len(<<l>>) = 1
      OBVIOUS
    <3> QED BY <3>1, <3>2, <3>4, <3>5
  <2> QED BY <2>1, <2>2
<1>2. seqs \in Seq(Seq(S)) /\ Len(seqs) = 15 /\ \A n \in 1 .. 15 : seqs[n] = LineFor(fm, Order[n])
  <2>1. seqs = [n \in 1 .. 15 |-> LineFor(fm, Order[n])]
    BY OrderIs
  <2>2. \A n \in 1 .. 15 : LineFor(fm, Order[n]) \in Seq(S)
    <3> HIDE DEF S
    <3> QED BY <1>1, OrderIs
  <2>3. seqs \in [1 .. 15 -> Seq(S)]
    <3> HIDE DEF S
    <3> QED BY <2>1, <2>2
  <2> HIDE DEF S, seqs
  <2>4. seqs \in Seq(Seq(S))
    <3>1. \A n \in 1 .. 15 : seqs[n] \in Seq(S)
      BY <2>3
    <3>2. [n \in 1 .. 15 |-> seqs[n]] \in Seq(Seq(S))
      BY <3>1, IsASeq
    <3> QED BY <2>3, <3>2
  <2>5. Len(seqs) = 15
    BY <2>3
  <2> QED BY <2>1, <2>4, <2>5
<1>3. L = FlattenSeq(seqs)
  BY DEF Render
<1>4. ASSUME NEW m \in 1 .. 15 PROVE Len(seqs[m]) <= 1
  <2>1. Order[m] \in Keys
    BY OrderIs
  <2>2. Len(LineFor(fm, Order[m])) <= 1
    BY <1>1, <2>1
  <2> HIDE DEF S, seqs
  <2> QED BY <1>2, <2>2
<1> HIDE DEF S, seqs, L
<1>5. PICK pos : Placed(pos, L, seqs, 15)
  BY <1>2, <1>3, <1>4, PiecesInOrder
<1>6. L \in Seq(S)
  BY <1>2, <1>3, FlattenTyped
<1>7. Len(L) \in Nat /\ DOMAIN L = 1 .. Len(L)
  BY <1>6, LenProperties
<1>8. ASSUME NEW i \in 1 .. Len(L)
      PROVE  /\ pos[i] \in 1 .. 15 /\ L[i].key = Order[pos[i]] /\ L[i].key \in Keys
             /\ LineFor(fm, L[i].key) = <<L[i]>>
  <2>1. pos[i] \in 1 .. 15 /\ seqs[pos[i]] # <<>> /\ L[i] = seqs[pos[i]][1]
    BY <1>5 DEF Placed
  <2>2. Order[pos[i]] \in Keys /\ seqs[pos[i]] = LineFor(fm, Order[pos[i]])
    BY <1>2, <2>1, OrderIs
  <2>3. LineFor(fm, Order[pos[i]]) = <<L[i]>> /\ L[i].key = Order[pos[i]]
    BY <1>1, <2>1, <2>2
  <2> QED BY <2>1, <2>2, <2>3
<1>9. \A i, j \in 1 .. Len(L) : i < j => pos[i] < pos[j]
  BY <1>5 DEF Placed
<1>10. ASSUME NEW i \in 1 .. Len(L), NEW j \in 1 .. Len(L), L[i].key = L[j].key PROVE i = j
  <2>1. pos[i] = pos[j]
    <3>1. pos[i] \in 1 .. 15 /\ pos[j] \in 1 .. 15 /\ Order[pos[i]] = Order[pos[j]]
      BY <1>8, <1>10
    <3>2. \A m, n \in 1 .. 15 : Order[m] = Order[n] => m = n
      BY OrderIs
    <3> QED BY <3>1, <3>2
  <2>2. ~(i < j) /\ ~(j < i)
    <3>1. pos[i] \in 1 .. 15
      BY <1>8
    <3>2. ~(pos[i] < pos[j]) /\ ~(pos[j] < pos[i])
      BY <2>1, <3>1
    <3> QED BY <1>9, <3>2
  <2> QED BY <1>7, <2>2
<1>11. ASSUME NEW f \in Keys, LineFor(fm, f) # <<>> PROVE \E i \in 1 .. Len(L) : L[i].key = f
  <2>1. PICK n \in 1 .. 15 : Order[n] = f
    BY OrderIs
  <2>2. seqs[n] # <<>>
    BY <1>2, <1>11, <2>1
  <2>3. PICK i \in 1 .. Len(L) : pos[i] = n
    BY <1>5, <2>2 DEF Placed
  <2> QED BY <1>8, <2>1, <2>3
<1>12. ASSUME NEW i \in 1 .. Len(L), L[i].key \in Provenance
       PROVE  \E j \in 1 .. i - 1 : /\ L[j].key = "provenance"
                                    /\ \A k \in j + 1 .. i : L[k].key \in Provenance
  <2>1. pos[i] \in 7 .. 9
    BY <1>8, <1>12, OrderIs
  <2>2. LineFor(fm, L[i].key) # <<>>
    <3>1. LineFor(fm, L[i].key) = <<L[i]>>
      BY <1>8
    <3> QED BY <3>1
  <2>3. LineFor(fm, "provenance") # <<>> /\ "provenance" \in Keys
    BY <1>8, <1>12, <2>2, LineForIs DEF Keys
  <2>4. PICK j \in 1 .. Len(L) : L[j].key = "provenance"
    BY <1>11, <2>3
  <2>5. pos[j] = 6
    <3>1. Order[pos[j]] = Order[6] /\ pos[j] \in 1 .. 15 /\ 6 \in 1 .. 15
      BY <1>8, <2>4, OrderIs
    <3> QED BY <3>1, OrderIs
  <2>6. j < i
    <3>1. i = j \/ i < j \/ j < i
      BY <1>7
    <3>2. ~(i < j) /\ i # j
      BY <1>9, <2>1, <2>5
    <3> QED BY <3>1, <3>2
  <2>7. ASSUME NEW k \in j + 1 .. i PROVE L[k].key \in Provenance
    <3>1. k \in 1 .. Len(L) /\ j < k /\ (k = i \/ k < i)
      BY <1>7
    <3>2. pos[k] \in 1 .. 15 /\ pos[j] < pos[k] /\ (k = i \/ pos[k] < pos[i])
      BY <1>8, <1>9, <3>1
    <3>3. pos[k] \in 7 .. 9
      <4>1. pos[i] \in Int /\ pos[k] \in Int /\ pos[i] <= 9 /\ 6 < pos[k] /\ (k = i \/ pos[k] < pos[i])
        BY <2>1, <2>5, <3>2
      <4> QED BY <2>1, <4>1
    <3>4. Order[pos[k]] \in Provenance
      BY <3>2, <3>3, OrderIs
    <3> QED BY <1>8, <3>1, <3>4
  <2>8. j \in 1 .. i - 1
    BY <1>7, <2>6
  <2> QED BY <2>4, <2>7, <2>8
<1> QED BY <1>7, <1>8, <1>10, <1>11, <1>12 DEF Shown, L

LEMMA ShownIsTyped ==
  ASSUME NEW fm, IsParsed(fm), NEW block, Shown(block, fm), NEW i \in 1 .. Len(block)
  PROVE  /\ IsLine(block[i]) /\ block[i].indent = IF block[i].key \in Provenance THEN 1 ELSE 0
         /\ block[i].key = "provenance" => block[i].value = Blank
         /\ block[i].key \in Scalars =>
              block[i].value = Written(fm, block[i].key) /\ block[i].value \in ItemTexts
         /\ block[i].key \in Lists => block[i].value = Joined(fm[block[i].key])
<1> DEFINE f == block[i].key
<1>1. f \in Keys /\ LineFor(fm, f) = <<block[i]>>
  BY DEF Shown
<1>2. LineFor(fm, f) # <<>>
  BY <1>1
<1> HIDE DEF f
<1>3. PICK l : /\ LineFor(fm, f) = <<l>> /\ IsLine(l) /\ l.key = f
               /\ l.indent = IF f \in Provenance THEN 1 ELSE 0
               /\ f = "provenance" => l.value = Blank
               /\ f \in Scalars => l.value = Written(fm, f) /\ l.value \in ItemTexts
               /\ f \in Lists => l.value = Joined(fm[f])
  BY <1>1, <1>2, LineForIs
<1>4. l = block[i]
  BY <1>1, <1>3
<1> QED BY <1>3, <1>4 DEF f

-----------------------------------------------------------------------------
(* Frontmatter: what is parsed of the block that was rendered.                *)

LEMMA ShownLines ==
  ASSUME NEW fm, IsParsed(fm), Shown(lines', fm)
  PROVE  LinesTyped'
<1>1. Len(lines') \in Nat /\ DOMAIN lines' = 1 .. Len(lines')
  BY DEF Shown
<1>2. \A i \in 1 .. Len(lines') : IsLine(lines'[i])
  BY ShownIsTyped
<1> QED BY <1>1, <1>2 DEF LinesTyped, IsLine

\* A field of the provenance is announced.
LEMMA BelowProvenance ==
  ASSUME NEW fm, IsParsed(fm), Shown(lines', fm), NEW i \in 1 .. Len(lines'), lines'[i].key \in Provenance
  PROVE  ChildOf(i, "provenance")'
<1>1. Len(lines') \in Nat
  BY DEF Shown
<1>2. PICK j \in 1 .. i - 1 : /\ lines'[j].key = "provenance"
                              /\ \A k \in j + 1 .. i : lines'[k].key \in Provenance
  BY DEF Shown
<1>3. lines'[i].indent = 1
  BY ShownIsTyped
<1>4. j \in 1 .. Len(lines') /\ \A k \in j + 1 .. i : k \in 1 .. Len(lines')
  BY <1>1
<1>5. "provenance" \notin Provenance
  BY FieldNames DEF AllFields
<1>6. lines'[j].indent = 0 /\ lines'[j].value = Blank
  BY <1>2, <1>4, <1>5, ShownIsTyped
<1>7. \A k \in j + 1 .. i : lines'[k].indent = 1
  BY <1>2, <1>4, ShownIsTyped
<1>8. \A k \in j + 1 .. i : lines'[k].indent > 0
  BY <1>7
<1>9. j \in Owner(i)'
  BY <1>2, <1>6, <1>8 DEF Owner
<1> QED BY <1>2, <1>3, <1>6, <1>9 DEF ChildOf

LEMMA LatestOfOne ==
  ASSUME NEW i \in Nat
  PROVE  Latest({i}) = i
<1>1. \E x \in {i} : \A j \in {i} : j <= x
  OBVIOUS
<1> QED BY <1>1 DEF Latest

LEMMA ScalarAfter ==
  ASSUME NEW fm, IsParsed(fm), Shown(lines', fm), NEW f \in Scalars
  PROVE  Scalar(f)' = IF fm[f] = Null THEN Null ELSE ReadText(Written(fm, f))
<1>1. f \in Keys /\ (LineFor(fm, f) = <<>> <=> fm[f] = Null)
  BY LineForIs DEF Keys, Scalars
<1>2. DOMAIN lines' = 1 .. Len(lines') /\ Len(lines') \in Nat
  BY DEF Shown
<1>3. CASE fm[f] = Null
  <2>1. ASSUME NEW i \in 1 .. Len(lines'), lines'[i].key = f PROVE FALSE
    <3>1. LineFor(fm, f) = <<lines'[i]>>
      BY <2>1 DEF Shown
    <3> QED BY <1>1, <1>3, <3>1
  <2>2. LinesAbout(f)' = {}
    BY <1>2, <2>1 DEF LinesAbout
  <2> QED BY <1>3, <2>2 DEF Scalar
<1>4. CASE fm[f] # Null
  <2>1. PICK i \in 1 .. Len(lines') : lines'[i].key = f
    BY <1>1, <1>4 DEF Shown
  <2>2. /\ lines'[i].indent = IF f \in Provenance THEN 1 ELSE 0
        /\ lines'[i].value = Written(fm, f) /\ lines'[i].value \in ItemTexts
    BY <2>1, ShownIsTyped
  <2>3. lines'[i].value # Blank
    BY <2>2, NothingIsNoText
  <2>4. i \in LinesAbout(f)'
    <3>1. CASE f \in Provenance
      <4>1. ChildOf(i, "provenance")'
        BY <2>1, <3>1, BelowProvenance
      <4> QED BY <1>2, <2>1, <3>1, <4>1 DEF LinesAbout
    <3>2. CASE f \notin Provenance
      BY <1>2, <2>1, <2>2, <2>3, <3>2 DEF LinesAbout
    <3> QED BY <3>1, <3>2
  <2>5. \A k \in LinesAbout(f)' : k \in 1 .. Len(lines') /\ lines'[k].key = f
    BY <1>2 DEF LinesAbout
  <2>6. \A k \in LinesAbout(f)' : k = i
    BY <2>1, <2>5 DEF Shown
  <2>7. LinesAbout(f)' = {i}
    BY <2>4, <2>6
  <2>8. Latest(LinesAbout(f)') = i
    BY <2>7, LatestOfOne
  <2>9. Scalar(f)' = ReadText(lines'[i].value)
    BY <2>4, <2>8 DEF Scalar
  <2> QED BY <1>4, <2>2, <2>9
<1> QED BY <1>3, <1>4

LEMMA ListAfter ==
  ASSUME NEW fm, IsParsed(fm), Shown(lines', fm), NEW f \in Lists
  PROVE  ListOf(f)' = ItemsOf(Joined(fm[f]))
<1>1. f \in Keys /\ (LineFor(fm, f) = <<>> <=> fm[f] = <<>>)
  BY LineForIs, FieldNames DEF Keys
<1>2. DOMAIN lines' = 1 .. Len(lines') /\ Len(lines') \in Nat
  BY DEF Shown
<1>3. Joined(fm[f]) \in Seq(Seq(ItemTexts)) /\ (fm[f] = <<>> => Joined(fm[f]) = <<>>)
  <2>1. fm[f] \in Seq(Seq(ItemTexts))
    BY DEF IsParsed
  <2> QED BY <2>1, JoinedIs
<1> DEFINE says == {i \in DOMAIN lines' : lines'[i].key = f /\ lines'[i].indent = 0}
<1>4. /\ says = {} => ListOf(f)' = <<>>
      /\ says # {} /\ lines'[Latest(says)].value # Blank /\ lines'[Latest(says)].value # Null =>
           ListOf(f)' = ItemsOf(lines'[Latest(says)].value)
  BY DEF ListOf
<1>5. CASE fm[f] = <<>>
  <2>1. ASSUME NEW i \in 1 .. Len(lines'), lines'[i].key = f PROVE FALSE
    <3>1. LineFor(fm, f) = <<lines'[i]>>
      BY <2>1 DEF Shown
    <3> QED BY <1>1, <1>5, <3>1
  <2>2. says = {}
    BY <1>2, <2>1
  <2>3. Joined(fm[f]) = <<>> /\ ItemsOf(<<>>) = <<>>
    BY <1>3, <1>5, ItemsTyped
  <2> HIDE DEF says
  <2> QED BY <1>4, <2>2, <2>3
<1>6. CASE fm[f] # <<>>
  <2>1. PICK i \in 1 .. Len(lines') : lines'[i].key = f
    BY <1>1, <1>6 DEF Shown
  <2>2. lines'[i].indent = 0 /\ lines'[i].value = Joined(fm[f])
    BY <2>1, ShownIsTyped, FieldNames
  <2>3. \A k \in says : k = i
    BY <1>2, <2>1 DEF Shown
  <2>4. says = {i}
    BY <1>2, <2>1, <2>2, <2>3
  <2>5. Latest(says) = i
    BY <2>4, LatestOfOne
  <2>6. lines'[i].value # Blank /\ lines'[i].value # Null
    BY <1>3, <2>2, NothingIsNoText
  <2>7. says # {}
    BY <2>4
  <2> HIDE DEF says
  <2> QED BY <1>4, <2>2, <2>5, <2>6, <2>7
<1> QED BY <1>5, <1>6

LEMMA FieldAfter ==
  ASSUME NEW fm, IsParsed(fm), Shown(lines', fm), NEW f \in AllFields
  PROVE  ParseBlock'[f] = Rewritten(fm, f)
<1>1. ParseBlock'[f] = IF f \in Lists THEN ListOf(f)' ELSE Scalar(f)'
  BY DEF ParseBlock
<1>2. CASE f \in Lists
  BY <1>1, <1>2, ListAfter, FieldNames DEF Rewritten
<1>3. CASE f \notin Lists
  <2>1. f \in Scalars
    BY <1>3 DEF Scalars
  <2>2. Scalar(f)' = IF fm[f] = Null THEN Null ELSE ReadText(Written(fm, f))
    BY <2>1, ScalarAfter
  <2>3. ReadText(Null) = Null
    BY DEF ReadText
  <2>4. CASE f \in Debugged /\ fm[f] # Null
    <3>1. fm[f] \in ItemTexts /\ ~ IsOneOf(fm[f], NullWords)
      BY <2>1, <2>4 DEF IsParsed, IsText
    <3>2. ReadText(Quoted(Escaped(fm[f]))) = Escaped(fm[f])
      BY <3>1, ReadQuoted
    <3> QED BY <1>1, <1>3, <2>2, <2>4, <3>2 DEF Written, Rewritten
  <2>5. CASE f \notin Debugged \/ fm[f] = Null
    BY <1>1, <1>3, <2>2, <2>3, <2>5 DEF Written, Rewritten
  <2> QED BY <2>4, <2>5
<1> QED BY <1>2, <1>3

(* However the first block is disordered, repeats itself or says things in    *)
(* the wrong place, a merge that writes it back loses and invents no field of *)
(* its own: a second reading finds each as Rewritten says of the first - a    *)
(* title, date, actor or session whole but for its backslashes, everything    *)
(* else without the spaces and the pair of quotes at its ends, absent if that *)
(* says null, and a list parted at its commas.                                *)
THEOREM RewritesKeepItems == FrontmatterSpec => RewriteKeepsTheItem
<1>1. FrontmatterInit => LinesTyped
  <2> SUFFICES ASSUME FrontmatterInit PROVE LinesTyped
    OBVIOUS
  <2>1. PICK n \in 0 .. MaxLines : lines \in [1 .. n -> SampleLines]
    BY DEF FrontmatterInit
  <2> QED BY <2>1, SamplesAreLines DEF LinesTyped
<1>2. ASSUME LinesTyped, Rewrite
      PROVE  LinesTyped' /\ \A f \in AllFields : ParseBlock'[f] = Rewritten(ParseBlock, f)
  <2>1. PICK fm : fm = ParseBlock
    OBVIOUS
  <2>2. IsParsed(fm)
    BY <1>2, <2>1, ParsedIs
  <2>3. lines' = Render(fm)
    BY <1>2, <2>1 DEF Rewrite
  <2>4. Shown(lines', fm)
    BY <2>2, <2>3, Rendered
  <2>5. LinesTyped'
    BY <2>2, <2>4, ShownLines
  <2> QED BY <2>1, <2>2, <2>4, <2>5, FieldAfter
<1>3. LinesTyped /\ [Rewrite]_frontmatterVars =>
        LinesTyped' /\ [lines' # lines => \A f \in AllFields : ParseBlock'[f] = Rewritten(ParseBlock, f)]_lines
  <2>1. CASE UNCHANGED frontmatterVars
    BY <2>1 DEF frontmatterVars, LinesTyped
  <2> QED BY <1>2, <2>1
<1> QED BY <1>1, <1>3, PTL DEF FrontmatterSpec, RewriteKeepsTheItem

=============================================================================
