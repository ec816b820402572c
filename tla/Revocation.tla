---------------------------- MODULE Revocation ----------------------------
(***************************************************************************)
(* Force-closing the open connections of a revoked device: the mTLS        *)
(* handshake (hub_ca.rs), the accept path that registers a connection      *)
(* (front_door.rs), the in-memory ConnectionRegistry and its LISTEN        *)
(* subscriber (connection_registry.rs), the per-request check of           *)
(* handle_git_http (http.rs), and the two control-plane transactions that  *)
(* send a NOTIFY (control_plane/mod.rs).                                   *)
(*                                                                         *)
(* A connection is a slot of Conn; a closed slot may be used again once    *)
(* the request handler it started, if any, has finished (a handler runs on *)
(* the blocking pool and outlives its connection).                         *)
(***************************************************************************)
EXTENDS Devices, Naturals, Sequences

CONSTANTS
  Conn,      \* connection slots
  ResetAll,  \* the RESET_ALL_PAYLOAD "*"
  MaxResets  \* bound: how many times an operator runs reset-all-connections

ASSUME ResetAssumption == ResetAll \notin Serial /\ ResetAll # NoSerial
ASSUME BoundAssumption == MaxResets \in Nat

VARIABLES
  conn,        \* "closed", "verified" (handshake done, not yet accepted) or "open"
  presented,   \* the serial of the peer certificate of the slot's connection
  request,     \* the slot's handler: "idle", "received" or "serving"
  registry,    \* ConnectionRegistry.connections: serial -> ids of live entries
  cancelled,   \* connections whose CancellationToken has been cancelled
  subscriber,  \* program counter of the listen_for_revocations thread
  session,     \* does that thread's Postgres session exist, with LISTEN done?
  inbox,       \* notifications delivered to that session and not yet taken
  todo,        \* sweep_revoked: serials of the snapshot not yet queried
  hit,         \* sweep_revoked: serial found revoked, not yet closed
  resets,      \* rows of connection_reset_events
  late,        \* history: slots whose request arrived after the revocation
  due          \* history: connections the running sweep has to close

connVars == <<conn, presented, request, registry, cancelled>>
subscriberVars == <<subscriber, session, inbox, todo, hit>>
historyVars == <<late, due>>
vars == <<deviceVars, connVars, subscriberVars, resets, historyVars>>

Payload == Serial \cup {ResetAll}

TypeOK ==
  /\ DevicesTypeOK
  /\ conn \in [Conn -> {"closed", "verified", "open"}]
  /\ presented \in [Conn -> Serial \cup {NoSerial}]
  /\ request \in [Conn -> {"idle", "received", "serving"}]
  /\ registry \in [Serial -> SUBSET Conn]
  /\ cancelled \subseteq Conn
  /\ subscriber \in {"disconnected", "waiting", "handled", "sweeping"}
  /\ session \in BOOLEAN
  /\ inbox \in Seq(Payload)
  /\ todo \subseteq Serial
  /\ hit \in Serial \cup {NoSerial}
  /\ resets \in 0 .. MaxResets
  /\ late \subseteq Conn
  /\ due \subseteq Conn

Init ==
  /\ DevicesInit
  /\ conn = [c \in Conn |-> "closed"]
  /\ presented = [c \in Conn |-> NoSerial]
  /\ request = [c \in Conn |-> "idle"]
  /\ registry = [s \in Serial |-> {}]
  /\ cancelled = {}
  /\ subscriber = "disconnected"
  /\ session = FALSE
  /\ inbox = <<>>
  /\ todo = {}
  /\ hit = NoSerial
  /\ resets = 0
  /\ late = {}
  /\ due = {}

-----------------------------------------------------------------------------
(* The control plane: enrolment, revocation, reset-all.                    *)

(***************************************************************************)
(* pg_notify at commit: only a session that is already listening gets it.  *)
(***************************************************************************)
Notify(payload) ==
  inbox' = IF session THEN Append(inbox, payload) ELSE inbox

RegisterDevice(d) ==
  /\ RegisterRow(d)
  /\ UNCHANGED <<connVars, subscriberVars, resets, historyVars>>

(***************************************************************************)
(* Enrolment as the front door sees it: a device's certificate is signed   *)
(* and recorded (the steps in between are Enrollment's subject).           *)
(***************************************************************************)
IssueDeviceCertificate(d, s) ==
  /\ Fresh(s)
  /\ RecordCertificate(d, s)
  /\ UNCHANGED <<connVars, subscriberVars, resets, historyVars>>

(***************************************************************************)
(* revoke_device: the UPDATE and the NOTIFY of the row's current serial    *)
(* commit together; a row without a certificate notifies nobody, and a row *)
(* already revoked changes nothing.                                        *)
(***************************************************************************)
RevokeDevice_NullNotified(d) ==  \* fault: notifies with a NULL serial
  /\ RevokeRow(d)
  /\ Notify(certSerial[d])
  /\ UNCHANGED <<connVars, subscriber, session, todo, hit, resets, historyVars>>

RevokeDevice(d) ==
  /\ RevokeRow(d)
  /\ IF certSerial[d] = NoSerial THEN UNCHANGED inbox ELSE Notify(certSerial[d])
  /\ UNCHANGED <<connVars, subscriber, session, todo, hit, resets, historyVars>>

(***************************************************************************)
(* reset_all_connections: the audit row and the NOTIFY commit together.    *)
(***************************************************************************)
ResetAllConnections ==
  /\ resets < MaxResets
  /\ resets' = resets + 1
  /\ Notify(ResetAll)
  /\ UNCHANGED <<deviceVars, connVars, subscriber, session, todo, hit, historyVars>>

-----------------------------------------------------------------------------
(* The front door: handshake, registration, requests, teardown.            *)

(***************************************************************************)
(* verify_client_cert: a certificate the CA signed is presented, and the   *)
(* lookup finds its row unrevoked.  The connection is not registered yet.  *)
(***************************************************************************)
VerifyClientCert(c, s) ==
  /\ conn[c] = "closed" /\ request[c] = "idle"
  /\ Admits(s)
  /\ conn' = [conn EXCEPT ![c] = "verified"]
  /\ presented' = [presented EXCEPT ![c] = s]
  /\ UNCHANGED <<deviceVars, request, registry, cancelled, subscriberVars, resets,
                 historyVars>>

(***************************************************************************)
(* A handshake without a client certificate: client_auth_mandatory is      *)
(* false, and such a connection is never registered.                       *)
(***************************************************************************)
AcceptWithoutCert(c) ==
  /\ conn[c] = "closed" /\ request[c] = "idle"
  /\ conn' = [conn EXCEPT ![c] = "open"]
  /\ presented' = [presented EXCEPT ![c] = NoSerial]
  /\ UNCHANGED <<deviceVars, request, registry, cancelled, subscriberVars, resets,
                 historyVars>>

(***************************************************************************)
(* PeerCertAcceptor::accept after the handshake: ConnectionRegistry::      *)
(* register, and the stream is wrapped with the fresh token.               *)
(***************************************************************************)
Register(c) ==
  /\ conn[c] = "verified"
  /\ conn' = [conn EXCEPT ![c] = "open"]
  /\ registry' = [registry EXCEPT ![presented[c]] = @ \cup {c}]
  /\ UNCHANGED <<deviceVars, presented, request, cancelled, subscriberVars, resets,
                 historyVars>>

AbandonHandshake(c) ==
  /\ conn[c] = "verified"
  /\ conn' = [conn EXCEPT ![c] = "closed"]
  /\ UNCHANGED <<deviceVars, presented, request, registry, cancelled, subscriberVars,
                 resets, historyVars>>

(***************************************************************************)
(* A request is read off the connection: poll_read fails on a cancelled    *)
(* token, and HTTP/1.1 serves one request of a connection at a time.       *)
(***************************************************************************)
ReceiveRequest(c) ==
  /\ conn[c] = "open" /\ c \notin cancelled
  /\ request[c] = "idle"
  /\ request' = [request EXCEPT ![c] = "received"]
  /\ late' = IF presented[c] \in Condemned THEN late \cup {c} ELSE late \ {c}
  /\ UNCHANGED <<deviceVars, conn, presented, registry, cancelled, subscriberVars,
                 resets, due>>

(***************************************************************************)
(* handle_git_http up to the proxy call: a certificate is present, its row *)
(* is found and is not revoked.  The handler runs detached from the        *)
(* connection, so it may be doing this after the connection is gone.       *)
(***************************************************************************)
AuthorizeRequest_HandshakeTrusted(c) ==  \* fault: leaves the check to the handshake
  /\ request[c] = "received"
  /\ presented[c] # NoSerial
  /\ request' = [request EXCEPT ![c] = "serving"]
  /\ UNCHANGED <<deviceVars, conn, presented, registry, cancelled, subscriberVars,
                 resets, historyVars>>

AuthorizeRequest(c) ==
  /\ request[c] = "received"
  /\ presented[c] # NoSerial
  /\ Admits(presented[c])
  /\ request' = [request EXCEPT ![c] = "serving"]
  /\ UNCHANGED <<deviceVars, conn, presented, registry, cancelled, subscriberVars,
                 resets, historyVars>>

(***************************************************************************)
(* handle_git_http's other answers (401, 404, 405, 500), and every answer  *)
(* of the enrolment routes.                                                *)
(***************************************************************************)
AnswerWithoutServing(c) ==
  /\ request[c] = "received"
  /\ request' = [request EXCEPT ![c] = "idle"]
  /\ UNCHANGED <<deviceVars, conn, presented, registry, cancelled, subscriberVars,
                 resets, historyVars>>

(***************************************************************************)
(* proxy_to_tenant_pod has returned.                                       *)
(***************************************************************************)
FinishRequest(c) ==
  /\ request[c] = "serving"
  /\ request' = [request EXCEPT ![c] = "idle"]
  /\ UNCHANGED <<deviceVars, conn, presented, registry, cancelled, subscriberVars,
                 resets, historyVars>>

(***************************************************************************)
(* The CancellableStream is dropped: ConnectionGuard::drop deregisters     *)
(* exactly this connection's id.                                           *)
(***************************************************************************)
DropStream_WholeEntry(c) ==  \* fault: removes the serial's entry, siblings included
  /\ conn[c] = "open"
  /\ conn' = [conn EXCEPT ![c] = "closed"]
  /\ registry' = [s \in Serial |-> IF s = presented[c] THEN {} ELSE registry[s]]
  /\ cancelled' = cancelled \ {c}
  /\ due' = due \ {c}
  /\ UNCHANGED <<deviceVars, presented, request, subscriberVars, resets, late>>

DropStream(c) ==
  /\ conn[c] = "open"
  /\ conn' = [conn EXCEPT ![c] = "closed"]
  /\ registry' = [s \in Serial |->
                    IF s = presented[c] THEN registry[s] \ {c} ELSE registry[s]]
  /\ cancelled' = cancelled \ {c}
  /\ due' = due \ {c}
  /\ UNCHANGED <<deviceVars, presented, request, subscriberVars, resets, late>>

PeerCloses(c) == c \notin cancelled /\ DropStream(c)

(***************************************************************************)
(* poll_cancelled fails the next poll of the stream, which ends it.        *)
(***************************************************************************)
ForceClosed(c) == c \in cancelled /\ DropStream(c)

(***************************************************************************)
(* The front door process dies and starts again: the registry, the         *)
(* connections and the handlers were all in memory.                        *)
(***************************************************************************)
Restart ==
  /\ conn' = [c \in Conn |-> "closed"]
  /\ presented' = [c \in Conn |-> NoSerial]
  /\ request' = [c \in Conn |-> "idle"]
  /\ registry' = [s \in Serial |-> {}]
  /\ cancelled' = {}
  /\ subscriber' = "disconnected"
  /\ session' = FALSE
  /\ inbox' = <<>>
  /\ todo' = {}
  /\ hit' = NoSerial
  /\ late' = {}
  /\ due' = {}
  /\ UNCHANGED <<deviceVars, resets>>

-----------------------------------------------------------------------------
(* ConnectionRegistry::close_device and close_all: drop the entries and    *)
(* cancel every token they held.                                           *)

CloseDevice_FirstOnly(s) ==  \* fault: closes one connection of the device
  LET gone == IF registry[s] = {} THEN {} ELSE {CHOOSE c \in registry[s] : TRUE} IN
  /\ registry' = [registry EXCEPT ![s] = @ \ gone]
  /\ cancelled' = cancelled \cup gone

CloseDevice_NoCancel(s) ==  \* fault: drops the entries and forgets the tokens
  /\ registry' = [registry EXCEPT ![s] = {}]
  /\ UNCHANGED cancelled

CloseDevice(s) ==
  /\ registry' = [registry EXCEPT ![s] = {}]
  /\ cancelled' = cancelled \cup registry[s]

CloseAll ==
  /\ registry' = [s \in Serial |-> {}]
  /\ cancelled' = cancelled \cup UNION {registry[s] : s \in Serial}

-----------------------------------------------------------------------------
(* The listen_for_revocations thread.                                      *)

ConnectAndListen ==
  /\ subscriber = "disconnected"
  /\ subscriber' = "waiting"
  /\ session' = TRUE
  /\ inbox' = <<>>
  /\ UNCHANGED <<deviceVars, connVars, todo, hit, resets, historyVars>>

(***************************************************************************)
(* timeout_iter(..).next() is Some: take one notification and act on it.   *)
(***************************************************************************)
HandleNotification_AlwaysAll ==  \* fault: every payload closes everything
  /\ subscriber = "waiting"
  /\ inbox # <<>>
  /\ CloseAll
  /\ inbox' = Tail(inbox)
  /\ subscriber' = "handled"
  /\ UNCHANGED <<deviceVars, conn, presented, request, session, todo, hit, resets,
                 historyVars>>

HandleNotification_NoSweep ==  \* fault: goes back to waiting without a sweep
  /\ subscriber = "waiting"
  /\ inbox # <<>>
  /\ IF Head(inbox) = ResetAll THEN CloseAll ELSE CloseDevice(Head(inbox))
  /\ inbox' = Tail(inbox)
  /\ UNCHANGED <<deviceVars, conn, presented, request, subscriber, session, todo, hit,
                 resets, historyVars>>

HandleNotification ==
  /\ subscriber = "waiting"
  /\ inbox # <<>>
  /\ IF Head(inbox) = ResetAll THEN CloseAll ELSE CloseDevice(Head(inbox))
  /\ inbox' = Tail(inbox)
  /\ subscriber' = "handled"
  /\ UNCHANGED <<deviceVars, conn, presented, request, session, todo, hit, resets,
                 historyVars>>

(***************************************************************************)
(* timeout_iter(..).next() is None (30 s without a notification) or an     *)
(* error (the session is gone): run_listen_loop returns, and its caller    *)
(* sleeps RECONNECT_DELAY before it connects again.                        *)
(***************************************************************************)
LeaveListenLoop ==
  /\ subscriber = "waiting"
  /\ inbox = <<>>
  /\ subscriber' = "disconnected"
  /\ session' = FALSE
  /\ UNCHANGED <<deviceVars, connVars, inbox, todo, hit, resets, historyVars>>

(***************************************************************************)
(* sweep_revoked: snapshot the serials that have an open connection ...    *)
(***************************************************************************)
BeginSweep ==
  /\ subscriber = "handled"
  /\ subscriber' = "sweeping"
  /\ todo' = {s \in Serial : registry[s] # {}}
  /\ due' = UNION {registry[s] : s \in {r \in Serial : RowRevoked(r)}}
  /\ UNCHANGED <<deviceVars, connVars, session, inbox, hit, resets, late>>

(***************************************************************************)
(* ... query each one; a failed query (no session) counts as not revoked   *)
(***************************************************************************)
SweepQuery_StopAtFirst(s) ==  \* fault: the first revoked serial ends the sweep
  /\ subscriber = "sweeping" /\ hit = NoSerial
  /\ s \in todo
  /\ todo' = IF RowRevoked(s) THEN {} ELSE todo \ {s}
  /\ hit' = IF session /\ RowRevoked(s) THEN s ELSE NoSerial
  /\ UNCHANGED <<deviceVars, connVars, subscriber, session, inbox, resets, historyVars>>

SweepQuery(s) ==
  /\ subscriber = "sweeping" /\ hit = NoSerial
  /\ s \in todo
  /\ todo' = todo \ {s}
  /\ hit' = IF session /\ RowRevoked(s) THEN s ELSE NoSerial
  /\ UNCHANGED <<deviceVars, connVars, subscriber, session, inbox, resets, historyVars>>

(***************************************************************************)
(* ... and close the ones found revoked.                                   *)
(***************************************************************************)
SweepClose ==
  /\ subscriber = "sweeping" /\ hit # NoSerial
  /\ CloseDevice(hit)
  /\ hit' = NoSerial
  /\ UNCHANGED <<deviceVars, conn, presented, request, subscriber, session, inbox, todo,
                 resets, historyVars>>

EndSweep ==
  /\ subscriber = "sweeping" /\ hit = NoSerial /\ todo = {}
  /\ subscriber' = "waiting"
  /\ due' = {}
  /\ UNCHANGED <<deviceVars, connVars, session, inbox, todo, hit, resets, late>>

(***************************************************************************)
(* Postgres or the network drops the session: what the client has already  *)
(* buffered stays, the rest is lost.                                       *)
(***************************************************************************)
LoseSession ==
  /\ session
  /\ session' = FALSE
  /\ \E n \in 0 .. Len(inbox) : inbox' = SubSeq(inbox, 1, n)
  /\ UNCHANGED <<deviceVars, connVars, subscriber, todo, hit, resets, historyVars>>

-----------------------------------------------------------------------------
ControlPlane ==
  \/ \E d \in Device : RegisterDevice(d) \/ RevokeDevice(d)
  \/ \E d \in Device, s \in Serial : IssueDeviceCertificate(d, s)
  \/ ResetAllConnections

Handler(c) == AuthorizeRequest(c) \/ AnswerWithoutServing(c) \/ FinishRequest(c)

Connection(c) ==
  \/ \E s \in Serial : VerifyClientCert(c, s)
  \/ AcceptWithoutCert(c)
  \/ Register(c)
  \/ AbandonHandshake(c)
  \/ ReceiveRequest(c)
  \/ PeerCloses(c)
  \/ ForceClosed(c)

Subscriber ==
  \/ ConnectAndListen
  \/ HandleNotification
  \/ LeaveListenLoop
  \/ BeginSweep
  \/ \E s \in Serial : SweepQuery(s)
  \/ SweepClose
  \/ EndSweep

FaultFreeNext ==
  \/ ControlPlane
  \/ \E c \in Conn : Connection(c) \/ Handler(c)
  \/ Subscriber

Next == FaultFreeNext \/ LoseSession \/ Restart

Spec == Init /\ [][Next]_vars

(***************************************************************************)
(* The subscriber is one thread in an endless loop, the executor polls the *)
(* accept future and a stream whose token woke it, and a handler runs to   *)
(* its end.  Nothing obliges a client, an operator or a failure to act.    *)
(***************************************************************************)
Fairness ==
  /\ WF_vars(Subscriber)
  /\ \A c \in Conn :
       WF_vars(Register(c)) /\ WF_vars(ForceClosed(c)) /\ WF_vars(Handler(c))

(***************************************************************************)
(* The system on a day when nothing breaks: no session is lost and the     *)
(* front door does not restart.                                            *)
(***************************************************************************)
FaultFreeSpec == Init /\ [][FaultFreeNext]_vars /\ Fairness
-----------------------------------------------------------------------------
(* Properties.                                                             *)

Live(c) == conn[c] = "open" /\ c \notin cancelled

InInbox(p) == \E i \in 1 .. Len(inbox) : inbox[i] = p

(***************************************************************************)
(* The registry holds exactly the live connections, each under its own     *)
(* serial: whatever order registrations, closes, drops and restarts come   *)
(* in, a sibling connection never loses its entry and no entry outlives    *)
(* its connection (register, deregister, close_device, close_all).         *)
(***************************************************************************)
RegistryExact ==
  \A s \in Serial : registry[s] = {c \in Conn : Live(c) /\ presented[c] = s}

(***************************************************************************)
(* A token is cancelled only for cause: its connection presented a         *)
(* certificate of a revoked device, or an operator has put a reset-all on  *)
(* record (revoke_device, reset_all_connections, close_all's comment).     *)
(***************************************************************************)
CancelledForCause ==
  \A c \in cancelled : presented[c] \in Condemned \/ resets > 0

(***************************************************************************)
(* A request that arrives after its device was revoked is never proxied to *)
(* the tenant's pod, even on a connection that was opened before and never *)
(* closed (the second check in handle_git_http).                           *)
(***************************************************************************)
NoServiceAfterRevocation ==
  \A c \in Conn : request[c] = "serving" => c \notin late

(***************************************************************************)
(* While its session lives, one sweep reaches every connection that was    *)
(* registered and revoked when it started: it is closed, or its serial is  *)
(* still to be looked at, unless the row's certificate has been replaced   *)
(* meanwhile (sweep_revoked).                                              *)
(***************************************************************************)
SweepMissesNothing ==
  \A c \in due :
    session /\ RowRevoked(presented[c]) =>
      c \in cancelled \/ presented[c] \in todo \cup {hit}

(***************************************************************************)
(* While no fault breaks the session, a notification that has reached it   *)
(* closes every connection it names (HandleNotification, the token,        *)
(* poll_cancelled).                                                        *)
(***************************************************************************)
NotificationHonoured ==
  \A c \in Conn :
    (\E s \in Serial : c \in registry[s] /\ (InInbox(s) \/ InInbox(ResetAll)))
      ~> conn[c] = "closed"

(***************************************************************************)
(* While no fault breaks the session, any notification, whoever it is for, *)
(* makes the subscriber close what the registry holds for a device found   *)
(* revoked, unless the row's certificate is replaced first                 *)
(* (sweep_revoked).                                                        *)
(***************************************************************************)
AnyNotificationSweeps ==
  \A c \in Conn :
    (inbox # <<>> /\ \E s \in Serial : c \in registry[s] /\ RowRevoked(s))
      ~> (conn[c] = "closed" \/ ~RowRevoked(presented[c]))

(***************************************************************************)
(* The registry, the tokens, the notifications and the sweep implement     *)
(* Sessions: the live connections are the open, certificate-bearing ones   *)
(* whose token is not cancelled, the ordered ones those whose token is.    *)
(***************************************************************************)
Pairs(S) == {<<c, presented[c]>> : c \in S}

LiveSessions == Pairs({c \in Conn : Live(c) /\ presented[c] # NoSerial})

Abstract == INSTANCE Sessions WITH
  live <- LiveSessions, ordered <- Pairs(cancelled),
  condemned <- Condemned, audited <- resets

ImplementsSessions == Abstract!Spec

(***************************************************************************)
(* connection_registry.rs:32-34: "A periodic fallback sweep, piggybacking  *)
(* on that same subscriber's own reconnect loop, covers the case where the *)
(* LISTEN connection was down when the NOTIFY fired": the open connection  *)
(* of a revoked device is closed eventually.                               *)
(***************************************************************************)
RevokedConnectionCloses ==
  \A c \in Conn : (conn[c] = "open" /\ presented[c] \in Condemned) ~> conn[c] = "closed"
=============================================================================
