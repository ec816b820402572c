-------------------------- MODULE RevocationProofs --------------------------
(***************************************************************************)
(* Machine-checked theorems about Revocation, for any sets of devices,     *)
(* serials and connections and any number of reset-alls.                   *)
(***************************************************************************)
EXTENDS Revocation, SequenceTheorems, TLAPS

USE SerialAssumption, ResetAssumption, BoundAssumption

-----------------------------------------------------------------------------
(* Every step, by name: the case split all the invariance proofs share.    *)

(***************************************************************************)
(* A step of Next is a step of one of the named actions.                   *)
(***************************************************************************)
LEMMA NextCases ==
  ASSUME Next
  PROVE  \/ \E d \in Device : RegisterDevice(d)
         \/ \E d \in Device : RevokeDevice(d)
         \/ \E d \in Device, s \in Serial : IssueDeviceCertificate(d, s)
         \/ ResetAllConnections
         \/ \E c \in Conn, s \in Serial : VerifyClientCert(c, s)
         \/ \E c \in Conn : AcceptWithoutCert(c)
         \/ \E c \in Conn : Register(c)
         \/ \E c \in Conn : AbandonHandshake(c)
         \/ \E c \in Conn : ReceiveRequest(c)
         \/ \E c \in Conn : AuthorizeRequest(c)
         \/ \E c \in Conn : AnswerWithoutServing(c)
         \/ \E c \in Conn : FinishRequest(c)
         \/ \E c \in Conn : DropStream(c)
         \/ ConnectAndListen
         \/ HandleNotification
         \/ LeaveListenLoop
         \/ BeginSweep
         \/ \E s \in Serial : SweepQuery(s)
         \/ SweepClose
         \/ EndSweep
         \/ LoseSession
         \/ Restart
BY DEF Next, FaultFreeNext, ControlPlane, Connection, Handler, Subscriber, PeerCloses,
       ForceClosed

(***************************************************************************)
(* The empty front door has the right types.                               *)
(***************************************************************************)
LEMMA InitTypeOK ==
  ASSUME Init
  PROVE  TypeOK
<1> USE DEF Init, DevicesInit, Payload
<1>1. DevicesTypeOK
  BY DEF DevicesTypeOK
<1>2. inbox \in Seq(Payload)
  BY EmptySeq
<1>3. /\ conn \in [Conn -> {"closed", "verified", "open"}]
      /\ presented \in [Conn -> Serial \cup {NoSerial}]
      /\ request \in [Conn -> {"idle", "received", "serving"}]
      /\ registry \in [Serial -> SUBSET Conn]
  OBVIOUS
<1>4. /\ subscriber \in {"disconnected", "waiting", "handled", "sweeping"}
      /\ session \in BOOLEAN
      /\ hit \in Serial \cup {NoSerial}
      /\ cancelled \subseteq Conn /\ todo \subseteq Serial
      /\ late \subseteq Conn /\ due \subseteq Conn
  OBVIOUS
<1>5. resets \in 0 .. MaxResets
  OBVIOUS
<1>. QED
  BY <1>1, <1>2, <1>3, <1>4, <1>5 DEF TypeOK

(***************************************************************************)
(* Every operation preserves the types.                                    *)
(***************************************************************************)
LEMMA TypeStep ==
  ASSUME TypeOK, [Next]_vars
  PROVE  TypeOK'
<1> USE DEF TypeOK, DevicesTypeOK, Payload, deviceVars, connVars, subscriberVars,
            historyVars
<1>1. CASE UNCHANGED vars
  BY <1>1 DEF vars
<1>2. CASE \E d \in Device : RegisterDevice(d)
  BY <1>2 DEF RegisterDevice, RegisterRow
<1>3. CASE \E d \in Device : RevokeDevice(d)
  <2> PICK d \in Device : RevokeDevice(d)
    BY <1>3
  <2> USE DEF RevokeDevice, RevokeRow, Notify
  <2>1. inbox' \in Seq(Payload)
    <3>1. CASE certSerial[d] = NoSerial
      BY <3>1
    <3>2. CASE certSerial[d] # NoSerial
      <4>1. certSerial[d] \in Payload /\ inbox \in Seq(Payload)
        BY <3>2
      <4>2. inbox' \in {inbox, Append(inbox, certSerial[d])}
        BY <3>2
      <4> HIDE DEF Payload
      <4>3. Append(inbox, certSerial[d]) \in Seq(Payload)
        BY <4>1
      <4>. QED  BY <4>1, <4>2, <4>3
    <3>. QED  BY <3>1, <3>2
  <2>2. DevicesTypeOK'
    OBVIOUS
  <2>. QED  BY <2>1, <2>2
<1>4. CASE \E d \in Device, s \in Serial : IssueDeviceCertificate(d, s)
  BY <1>4 DEF IssueDeviceCertificate, RecordCertificate, Fresh
<1>5. CASE ResetAllConnections
  BY <1>5 DEF ResetAllConnections, Notify
<1>6. CASE \E c \in Conn, s \in Serial : VerifyClientCert(c, s)
  BY <1>6 DEF VerifyClientCert
<1>7. CASE \E c \in Conn : AcceptWithoutCert(c)
  BY <1>7 DEF AcceptWithoutCert
<1>8. CASE \E c \in Conn : Register(c)
  <2> PICK c \in Conn : Register(c)
    BY <1>8
  <2>1. registry' \in [Serial -> SUBSET Conn]
    BY DEF Register
  <2>. QED  BY <2>1 DEF Register
<1>9. CASE \E c \in Conn : AbandonHandshake(c)
  BY <1>9 DEF AbandonHandshake
<1>10. CASE \E c \in Conn : ReceiveRequest(c)
  BY <1>10 DEF ReceiveRequest
<1>11. CASE \E c \in Conn : AuthorizeRequest(c)
  BY <1>11 DEF AuthorizeRequest
<1>12. CASE \E c \in Conn : AnswerWithoutServing(c)
  BY <1>12 DEF AnswerWithoutServing
<1>13. CASE \E c \in Conn : FinishRequest(c)
  BY <1>13 DEF FinishRequest
<1>14. CASE \E c \in Conn : DropStream(c)
  BY <1>14 DEF DropStream
<1>15. CASE ConnectAndListen
  BY <1>15 DEF ConnectAndListen
<1>16. CASE HandleNotification
  <2>1. inbox' \in Seq(Payload)
    <3>1. inbox \in Seq(Payload) /\ inbox # <<>> /\ inbox' = Tail(inbox)
      BY <1>16 DEF HandleNotification
    <3> HIDE DEF Payload
    <3>. QED  BY <3>1
  <2>2. registry' \in [Serial -> SUBSET Conn] /\ cancelled' \subseteq Conn
    <3>1. CASE CloseAll
      BY <3>1 DEF CloseAll
    <3>2. CASE Head(inbox) \in Serial /\ CloseDevice(Head(inbox))
      BY <3>2 DEF CloseDevice
    <3>3. Head(inbox) \in Payload
      <4>1. inbox \in Seq(Payload) /\ inbox # <<>>
        BY <1>16 DEF HandleNotification
      <4> HIDE DEF Payload
      <4>. QED  BY <4>1
    <3>. QED  BY <1>16, <3>1, <3>2, <3>3 DEF HandleNotification
  <2>. QED  BY <1>16, <2>1, <2>2 DEF HandleNotification
<1>17. CASE LeaveListenLoop
  BY <1>17 DEF LeaveListenLoop
<1>18. CASE BeginSweep
  BY <1>18 DEF BeginSweep
<1>19. CASE \E s \in Serial : SweepQuery(s)
  BY <1>19 DEF SweepQuery
<1>20. CASE SweepClose
  BY <1>20 DEF SweepClose, CloseDevice
<1>21. CASE EndSweep
  BY <1>21 DEF EndSweep
<1>22. CASE LoseSession
  <2>1. PICK n \in 0 .. Len(inbox) : inbox' = SubSeq(inbox, 1, n)
    BY <1>22 DEF LoseSession
  <2>2. inbox' \in Seq(Payload)
    BY <2>1, SubSeqProperties
  <2>. QED  BY <1>22, <2>2 DEF LoseSession
<1>23. CASE Restart
  <2>1. inbox' \in Seq(Payload)
    BY <1>23, EmptySeq DEF Restart
  <2>2. /\ conn' \in [Conn -> {"closed", "verified", "open"}]
        /\ presented' \in [Conn -> Serial \cup {NoSerial}]
        /\ request' \in [Conn -> {"idle", "received", "serving"}]
        /\ registry' \in [Serial -> SUBSET Conn]
    BY <1>23 DEF Restart
  <2>. QED  BY <1>23, <2>1, <2>2 DEF Restart
<1>. QED
  BY NextCases, <1>1, <1>2, <1>3, <1>4, <1>5, <1>6, <1>7, <1>8, <1>9, <1>10, <1>11,
     <1>12, <1>13, <1>14, <1>15, <1>16, <1>17, <1>18, <1>19, <1>20, <1>21, <1>22, <1>23

-----------------------------------------------------------------------------
(* Which actions touch which variables.                                    *)

(***************************************************************************)
(* Only the control plane's own operations write the devices table.        *)
(***************************************************************************)
LEMMA DeviceFrame ==
  ASSUME [Next]_vars
  PROVE  \/ UNCHANGED <<registered, revoked, certSerial, minted>>
         \/ \E d \in Device : RegisterDevice(d)
         \/ \E d \in Device : RevokeDevice(d)
         \/ \E d \in Device, s \in Serial : IssueDeviceCertificate(d, s)
<1> USE DEF vars, deviceVars, connVars, subscriberVars, historyVars
<1>1. CASE UNCHANGED vars
  BY <1>1
<1>2. CASE Next
  BY <1>2, NextCases DEF ResetAllConnections, VerifyClientCert, AcceptWithoutCert,
     Register, AbandonHandshake, ReceiveRequest, AuthorizeRequest, AnswerWithoutServing,
     FinishRequest, DropStream, ConnectAndListen, HandleNotification, LeaveListenLoop,
     BeginSweep, SweepQuery, SweepClose, EndSweep, LoseSession, Restart
<1>. QED  BY <1>1, <1>2

(***************************************************************************)
(* Who changes a connection, its registry entry or its token.              *)
(***************************************************************************)
LEMMA ConnectionFrame ==
  ASSUME [Next]_vars
  PROVE  \/ UNCHANGED <<conn, presented, registry, cancelled>>
         \/ \E c \in Conn, s \in Serial : VerifyClientCert(c, s)
         \/ \E c \in Conn : AcceptWithoutCert(c)
         \/ \E c \in Conn : Register(c)
         \/ \E c \in Conn : AbandonHandshake(c)
         \/ \E c \in Conn : DropStream(c)
         \/ HandleNotification
         \/ SweepClose
         \/ Restart
<1> USE DEF vars, deviceVars, connVars, subscriberVars, historyVars
<1>1. CASE UNCHANGED vars
  BY <1>1
<1>2. CASE Next
  BY <1>2, NextCases DEF RegisterDevice, RevokeDevice, IssueDeviceCertificate,
     ResetAllConnections, ReceiveRequest, AuthorizeRequest, AnswerWithoutServing,
     FinishRequest, ConnectAndListen, LeaveListenLoop, BeginSweep, SweepQuery, EndSweep,
     LoseSession
<1>. QED  BY <1>1, <1>2

-----------------------------------------------------------------------------
(* The devices table.                                                      *)

(***************************************************************************)
(* The CA's record agrees with the table: the serial a row holds was       *)
(* minted for it, and no two devices were ever given the same serial.      *)
(***************************************************************************)
MintedOK ==
  /\ \A d \in Device : certSerial[d] # NoSerial => <<d, certSerial[d]>> \in minted
  /\ \A d, e \in Device, s \in Serial : <<d, s>> \in minted /\ <<e, s>> \in minted => d = e

(***************************************************************************)
(* No step breaks that agreement: a serial is drawn fresh.                 *)
(***************************************************************************)
LEMMA MintedStep ==
  ASSUME TypeOK, MintedOK, [Next]_vars
  PROVE  MintedOK'
<1> USE DEF TypeOK, DevicesTypeOK
<1>1. CASE UNCHANGED <<registered, revoked, certSerial, minted>>
  BY <1>1 DEF MintedOK
<1>2. CASE \E d \in Device : RegisterDevice(d)
  BY <1>2 DEF RegisterDevice, RegisterRow, MintedOK
<1>3. CASE \E d \in Device : RevokeDevice(d)
  BY <1>3 DEF RevokeDevice, RevokeRow, MintedOK
<1>4. CASE \E d \in Device, s \in Serial : IssueDeviceCertificate(d, s)
  <2> PICK d \in Device, s \in Serial : IssueDeviceCertificate(d, s)
    BY <1>4
  <2> USE DEF IssueDeviceCertificate, RecordCertificate, Fresh
  <2>1. \A e \in Device : certSerial'[e] # NoSerial => <<e, certSerial'[e]>> \in minted'
    BY DEF MintedOK
  <2>2. \A e, f \in Device, r \in Serial :
          <<e, r>> \in minted' /\ <<f, r>> \in minted' => e = f
    BY DEF MintedOK
  <2>. QED  BY <2>1, <2>2 DEF MintedOK
<1>. QED  BY <1>1, <1>2, <1>3, <1>4, DeviceFrame

(***************************************************************************)
(* A serial the sweep finds revoked belongs to a revoked device.           *)
(***************************************************************************)
LEMMA RowRevokedCondemned ==
  ASSUME TypeOK, MintedOK, NEW s \in Serial, RowRevoked(s)
  PROVE  s \in Condemned
BY DEF TypeOK, DevicesTypeOK, MintedOK, RowRevoked, FindByCertSerial, Condemned

(***************************************************************************)
(* A serial whose row admits it does not belong to a revoked device.       *)
(***************************************************************************)
LEMMA AdmittedNotCondemned ==
  ASSUME TypeOK, MintedOK, NEW s \in Serial, Admits(s)
  PROVE  s \notin Condemned
BY DEF TypeOK, DevicesTypeOK, MintedOK, Admits, FindByCertSerial, Condemned

(***************************************************************************)
(* Revocation is for good: no step takes a serial off the condemned ones.  *)
(***************************************************************************)
LEMMA CondemnedGrows ==
  ASSUME TypeOK, [Next]_vars
  PROVE  Condemned \subseteq Condemned'
<1>1. revoked \subseteq revoked' /\ minted \subseteq minted'
  BY DeviceFrame DEF RegisterDevice, RegisterRow, RevokeDevice, RevokeRow,
     IssueDeviceCertificate, RecordCertificate, Fresh
<1>. QED  BY <1>1 DEF Condemned

(***************************************************************************)
(* A revoked device's serial that its row no longer holds is never held by *)
(* a revoked row again: serials are not drawn twice.                       *)
(***************************************************************************)
LEMMA ReplacedStaysReplaced ==
  ASSUME TypeOK, MintedOK, [Next]_vars, NEW s \in Condemned, ~RowRevoked(s)
  PROVE  ~RowRevoked(s)'
<1> USE DEF TypeOK, DevicesTypeOK, RowRevoked, FindByCertSerial, Condemned
<1>1. CASE UNCHANGED <<registered, revoked, certSerial, minted>>
  BY <1>1
<1>2. CASE \E d \in Device : RegisterDevice(d)
  BY <1>2 DEF RegisterDevice, RegisterRow
<1>3. CASE \E d \in Device : RevokeDevice(d)
  <2> PICK d \in Device : RevokeDevice(d)
    BY <1>3
  <2>1. PICK e \in revoked : <<e, s>> \in minted
    OBVIOUS
  <2>2. /\ d \in registered \ revoked
        /\ revoked' = revoked \cup {d}
        /\ UNCHANGED <<registered, certSerial>>
    BY DEF RevokeDevice, RevokeRow
  <2>3. certSerial[d] # s
    BY <2>1, <2>2 DEF MintedOK
  <2>. QED  BY <2>2, <2>3
<1>4. CASE \E d \in Device, r \in Serial : IssueDeviceCertificate(d, r)
  <2> PICK d \in Device, r \in Serial : IssueDeviceCertificate(d, r)
    BY <1>4
  <2> USE DEF IssueDeviceCertificate, RecordCertificate, Fresh
  <2>1. r # s
    OBVIOUS
  <2>2. revoked' = revoked /\ registered' = registered
    OBVIOUS
  <2>3. \A e \in registered : certSerial'[e] = s => certSerial[e] = s
    BY <2>1
  <2>. QED  BY <2>2, <2>3
<1>. QED  BY <1>1, <1>2, <1>3, <1>4, DeviceFrame

-----------------------------------------------------------------------------
(* The connection registry.                                                *)

(***************************************************************************)
(* A token can only be cancelled while its connection is open, and a       *)
(* handshake that has verified a certificate knows its serial.             *)
(***************************************************************************)
ConnOK ==
  /\ \A c \in cancelled : conn[c] = "open" /\ presented[c] \in Serial
  /\ \A c \in Conn : conn[c] = "verified" => presented[c] \in Serial

(***************************************************************************)
(* What a step of HandleNotification or SweepClose does to the registry.   *)
(***************************************************************************)
LEMMA ClosingSteps ==
  ASSUME TypeOK, HandleNotification \/ SweepClose
  PROVE  /\ UNCHANGED <<conn, presented>>
         /\ CloseAll \/ \E s \in Serial : CloseDevice(s)
<1> USE DEF TypeOK, Payload
<1>1. CASE HandleNotification
  <2>1. Head(inbox) \in Payload
    BY <1>1, HeadTailProperties DEF HandleNotification
  <2>. QED  BY <1>1, <2>1 DEF HandleNotification
<1>2. CASE SweepClose
  BY <1>2 DEF SweepClose
<1>. QED  BY <1>1, <1>2

(***************************************************************************)
(* ConnOK is preserved: close_device only cancels what is registered, and  *)
(* what is registered is open.                                             *)
(***************************************************************************)
LEMMA ConnStep ==
  ASSUME TypeOK, ConnOK, RegistryExact, [Next]_vars
  PROVE  ConnOK'
<1> USE DEF TypeOK, ConnOK
<1>1. CASE UNCHANGED <<conn, presented, registry, cancelled>>
  BY <1>1
<1>2. CASE \E c \in Conn, s \in Serial : VerifyClientCert(c, s)
  BY <1>2 DEF VerifyClientCert
<1>3. CASE \E c \in Conn : AcceptWithoutCert(c)
  BY <1>3 DEF AcceptWithoutCert
<1>4. CASE \E c \in Conn : Register(c)
  BY <1>4 DEF Register
<1>5. CASE \E c \in Conn : AbandonHandshake(c)
  BY <1>5 DEF AbandonHandshake
<1>6. CASE \E c \in Conn : DropStream(c)
  BY <1>6 DEF DropStream
<1>7. CASE HandleNotification \/ SweepClose
  <2>1. \A s \in Serial : \A c \in registry[s] : conn[c] = "open" /\ presented[c] = s
    BY DEF RegistryExact, Live
  <2>. QED  BY <1>7, <2>1, ClosingSteps DEF CloseAll, CloseDevice
<1>8. CASE Restart
  BY <1>8 DEF Restart
<1>. QED  BY <1>1, <1>2, <1>3, <1>4, <1>5, <1>6, <1>7, <1>8, ConnectionFrame

(***************************************************************************)
(* RegistryExact is preserved by every step, in any order of registration, *)
(* closing, dropping and restarting.                                       *)
(***************************************************************************)
LEMMA RegistryStep ==
  ASSUME TypeOK, ConnOK, RegistryExact, [Next]_vars
  PROVE  RegistryExact'
<1> USE DEF TypeOK, RegistryExact, Live
<1>1. CASE UNCHANGED <<conn, presented, registry, cancelled>>
  BY <1>1
<1>2. CASE \E c \in Conn, s \in Serial : VerifyClientCert(c, s)
  BY <1>2 DEF VerifyClientCert
<1>3. CASE \E c \in Conn : AcceptWithoutCert(c)
  BY <1>3 DEF AcceptWithoutCert
<1>4. CASE \E c \in Conn : Register(c)
  <2> PICK c \in Conn : Register(c)
    BY <1>4
  <2>1. c \notin cancelled /\ presented[c] \in Serial
    BY DEF Register, ConnOK
  <2> SUFFICES ASSUME NEW s \in Serial
               PROVE  registry'[s] = {k \in Conn : /\ conn'[k] = "open"
                                                   /\ k \notin cancelled'
                                                   /\ presented'[k] = s}
    OBVIOUS
  <2>2. CASE s = presented[c]
    BY <2>1, <2>2 DEF Register
  <2>3. CASE s # presented[c]
    BY <2>1, <2>3 DEF Register
  <2>. QED  BY <2>2, <2>3
<1>5. CASE \E c \in Conn : AbandonHandshake(c)
  BY <1>5 DEF AbandonHandshake
<1>6. CASE \E c \in Conn : DropStream(c)
  <2> PICK c \in Conn : DropStream(c)
    BY <1>6
  <2> SUFFICES ASSUME NEW s \in Serial
               PROVE  registry'[s] = {k \in Conn : /\ conn'[k] = "open"
                                                   /\ k \notin cancelled'
                                                   /\ presented'[k] = s}
    OBVIOUS
  <2>1. registry'[s] = registry[s] \ {c}
    BY DEF DropStream
  <2>. QED  BY <2>1 DEF DropStream
<1>7. CASE HandleNotification \/ SweepClose
  <2> SUFFICES ASSUME NEW s \in Serial
               PROVE  registry'[s] = {k \in Conn : /\ conn'[k] = "open"
                                                   /\ k \notin cancelled'
                                                   /\ presented'[k] = s}
    OBVIOUS
  <2>1. CASE CloseAll
    BY <1>7, <2>1, ClosingSteps DEF CloseAll
  <2>2. CASE \E r \in Serial : CloseDevice(r)
    BY <1>7, <2>2, ClosingSteps DEF CloseDevice
  <2>. QED  BY <1>7, <2>1, <2>2, ClosingSteps
<1>8. CASE Restart
  BY <1>8 DEF Restart
<1>. QED  BY <1>1, <1>2, <1>3, <1>4, <1>5, <1>6, <1>7, <1>8, ConnectionFrame

-----------------------------------------------------------------------------
(* Closing only for cause.                                                 *)

(***************************************************************************)
(* The payloads there is cause to act on: the condemned serials, and "*"   *)
(* once a reset-all is on record.                                          *)
(***************************************************************************)
Justified == Condemned \cup {p \in {ResetAll} : resets > 0}

(***************************************************************************)
(* Whatever the subscriber still has to act on is justified already: every *)
(* notification in its queue, and the serial the sweep is about to close.  *)
(***************************************************************************)
CauseOK ==
  /\ \A i \in 1 .. Len(inbox) : inbox[i] \in Justified
  /\ hit # NoSerial => hit \in Condemned

(***************************************************************************)
(* What was justified stays so: revocations and audit rows are not undone. *)
(***************************************************************************)
LEMMA JustifiedForever ==
  ASSUME TypeOK, [Next]_vars
  PROVE  Justified \subseteq Justified'
<1>1. resets' = resets \/ resets' = resets + 1
  <2> USE DEF vars, deviceVars, connVars, subscriberVars, historyVars
  <2>1. CASE UNCHANGED vars
    BY <2>1
  <2>2. CASE Next
    BY <2>2, NextCases DEF RegisterDevice, RevokeDevice, IssueDeviceCertificate,
       ResetAllConnections, VerifyClientCert, AcceptWithoutCert, Register,
       AbandonHandshake, ReceiveRequest, AuthorizeRequest, AnswerWithoutServing,
       FinishRequest, DropStream, ConnectAndListen, HandleNotification, LeaveListenLoop,
       BeginSweep, SweepQuery, SweepClose, EndSweep, LoseSession, Restart
  <2>. QED  BY <2>1, <2>2
<1>2. resets > 0 => resets' > 0
  BY <1>1 DEF TypeOK
<1>. QED  BY <1>2, CondemnedGrows DEF Justified

(***************************************************************************)
(* Who writes the subscriber's queue and the sweep's finding.              *)
(***************************************************************************)
LEMMA QueueFrame ==
  ASSUME [Next]_vars
  PROVE  \/ UNCHANGED <<inbox, hit>>
         \/ \E d \in Device : RevokeDevice(d)
         \/ ResetAllConnections
         \/ ConnectAndListen
         \/ HandleNotification
         \/ \E s \in Serial : SweepQuery(s)
         \/ SweepClose
         \/ LoseSession
         \/ Restart
<1> USE DEF vars, deviceVars, connVars, subscriberVars, historyVars
<1>1. CASE UNCHANGED vars
  BY <1>1
<1>2. CASE Next
  BY <1>2, NextCases DEF RegisterDevice, IssueDeviceCertificate, VerifyClientCert,
     AcceptWithoutCert, Register, AbandonHandshake, ReceiveRequest, AuthorizeRequest,
     AnswerWithoutServing, FinishRequest, DropStream, LeaveListenLoop, BeginSweep,
     EndSweep
<1>. QED  BY <1>1, <1>2

(***************************************************************************)
(* A queue of justified entries that gains at most a justified one.        *)
(***************************************************************************)
LEMMA NotifyJustified ==
  ASSUME TypeOK, [Next]_vars, NEW p \in Payload, Notify(p), p \in Justified',
         \A i \in 1 .. Len(inbox) : inbox[i] \in Justified
  PROVE  \A i \in 1 .. Len(inbox') : inbox'[i] \in Justified'
<1> SUFFICES ASSUME NEW i \in 1 .. Len(inbox')
             PROVE  inbox'[i] \in Justified'
  OBVIOUS
<1> inbox \in Seq(Payload)
  BY DEF TypeOK
<1>1. CASE ~session
  BY <1>1, JustifiedForever DEF Notify
<1>2. CASE session
  <2>1. inbox' = Append(inbox, p)
    BY <1>2 DEF Notify
  <2>2. CASE i \in 1 .. Len(inbox)
    BY <2>1, <2>2, AppendProperties, JustifiedForever
  <2>3. CASE i = Len(inbox) + 1
    BY <2>1, <2>3, AppendProperties
  <2>. QED  BY <2>1, <2>2, <2>3, AppendProperties, LenProperties
<1>. QED  BY <1>1, <1>2

(***************************************************************************)
(* CauseOK is preserved: revoke_device notifies the serial of the row it   *)
(* has just revoked, reset_all_connections records before it notifies, and *)
(* the sweep acts only on a row it read as revoked.                        *)
(***************************************************************************)
LEMMA CauseStep ==
  ASSUME TypeOK, MintedOK, CauseOK, [Next]_vars
  PROVE  CauseOK'
<1> inbox \in Seq(Payload)
  BY DEF TypeOK
<1>a. ASSUME UNCHANGED hit PROVE (hit # NoSerial => hit \in Condemned)'
  BY <1>a, CondemnedGrows DEF CauseOK
<1>b. ASSUME UNCHANGED inbox PROVE (\A i \in 1 .. Len(inbox) : inbox[i] \in Justified)'
  BY <1>b, JustifiedForever DEF CauseOK
<1>1. CASE UNCHANGED <<inbox, hit>>
  BY <1>1, <1>a, <1>b DEF CauseOK
<1>2. CASE \E d \in Device : RevokeDevice(d)
  <2> PICK d \in Device : RevokeDevice(d)
    BY <1>2
  <2>1. UNCHANGED hit
    BY DEF RevokeDevice
  <2>2. CASE certSerial[d] = NoSerial
    <3>1. UNCHANGED inbox
      BY <2>2 DEF RevokeDevice
    <3>. QED  BY <2>1, <3>1, <1>a, <1>b DEF CauseOK
  <2>3. CASE certSerial[d] # NoSerial
    <3> DEFINE s == certSerial[d]
    <3>1. s \in Serial /\ <<d, s>> \in minted
      BY <2>3 DEF TypeOK, DevicesTypeOK, MintedOK
    <3>2. s \in Justified'
      BY <3>1 DEF RevokeDevice, RevokeRow, Condemned, Justified
    <3>3. Notify(s) /\ s \in Payload
      BY <2>3, <3>1 DEF RevokeDevice, Payload
    <3> HIDE DEF s
    <3>4. (\A i \in 1 .. Len(inbox) : inbox[i] \in Justified)'
      BY <3>2, <3>3, NotifyJustified DEF CauseOK
    <3>. QED  BY <2>1, <3>4, <1>a DEF CauseOK
  <2>. QED  BY <2>2, <2>3
<1>3. CASE ResetAllConnections
  <2>1. UNCHANGED hit /\ Notify(ResetAll) /\ ResetAll \in Payload
    BY <1>3 DEF ResetAllConnections, Payload
  <2>2. ResetAll \in Justified'
    BY <1>3 DEF ResetAllConnections, Justified, TypeOK
  <2>3. (\A i \in 1 .. Len(inbox) : inbox[i] \in Justified)'
    BY <2>1, <2>2, NotifyJustified DEF CauseOK
  <2>. QED  BY <2>1, <2>3, <1>a DEF CauseOK
<1>4. CASE ConnectAndListen
  BY <1>4, <1>a DEF ConnectAndListen, CauseOK
<1>5. CASE HandleNotification
  <2>1. UNCHANGED hit /\ inbox' = Tail(inbox) /\ inbox # <<>>
    BY <1>5 DEF HandleNotification
  <2>2. \A i \in 1 .. Len(inbox') : i + 1 \in 1 .. Len(inbox) /\ inbox'[i] = inbox[i + 1]
    BY <2>1, HeadTailProperties, LenProperties
  <2>. QED  BY <2>1, <2>2, <1>a, JustifiedForever DEF CauseOK
<1>6. CASE \E s \in Serial : SweepQuery(s)
  <2> PICK s \in Serial : SweepQuery(s)
    BY <1>6
  <2>1. UNCHANGED inbox
    BY DEF SweepQuery, subscriberVars
  <2>2. hit' # NoSerial => hit' \in Condemned'
    BY RowRevokedCondemned, CondemnedGrows DEF SweepQuery
  <2>. QED  BY <2>1, <2>2, <1>b DEF CauseOK
<1>7. CASE SweepClose
  BY <1>7, <1>b DEF SweepClose, CauseOK
<1>8. CASE LoseSession
  <2>1. UNCHANGED hit
    BY <1>8 DEF LoseSession
  <2>2. PICK n \in 0 .. Len(inbox) : inbox' = SubSeq(inbox, 1, n)
    BY <1>8 DEF LoseSession
  <2>3. \A i \in 1 .. Len(inbox') : i \in 1 .. Len(inbox) /\ inbox'[i] = inbox[i]
    BY <2>2, SubSeqProperties, LenProperties, ElementOfSeq
  <2>. QED  BY <2>1, <2>3, <1>a, JustifiedForever DEF CauseOK
<1>9. CASE Restart
  BY <1>9 DEF Restart, CauseOK
<1>. QED
  BY <1>1, <1>2, <1>3, <1>4, <1>5, <1>6, <1>7, <1>8, <1>9, QueueFrame

(***************************************************************************)
(* CancelledForCause is preserved.                                         *)
(***************************************************************************)
LEMMA CancelledStep ==
  ASSUME TypeOK, ConnOK, RegistryExact, CauseOK, CancelledForCause, [Next]_vars
  PROVE  CancelledForCause'
<1> USE DEF TypeOK, CancelledForCause
<1>0. /\ Condemned \subseteq Condemned'
      /\ resets > 0 => resets' > 0
  BY CondemnedGrows, JustifiedForever DEF Justified, Condemned
<1>1. CASE UNCHANGED <<conn, presented, registry, cancelled>>
  BY <1>0, <1>1
<1>2. CASE \E c \in Conn, s \in Serial : VerifyClientCert(c, s)
  BY <1>0, <1>2 DEF VerifyClientCert, ConnOK
<1>3. CASE \E c \in Conn : AcceptWithoutCert(c)
  BY <1>0, <1>3 DEF AcceptWithoutCert, ConnOK
<1>4. CASE \E c \in Conn : Register(c)
  BY <1>0, <1>4 DEF Register
<1>5. CASE \E c \in Conn : AbandonHandshake(c)
  BY <1>0, <1>5 DEF AbandonHandshake
<1>6. CASE \E c \in Conn : DropStream(c)
  BY <1>0, <1>6 DEF DropStream
<1>7. CASE HandleNotification
  <2>1. Head(inbox) \in Justified
    BY <1>7, HeadTailProperties, LenProperties DEF HandleNotification, CauseOK
  <2>2. CASE Head(inbox) = ResetAll
    <3>1. resets > 0
      BY <2>1, <2>2 DEF Justified, Condemned
    <3>. QED  BY <1>0, <3>1
  <2>3. CASE Head(inbox) # ResetAll
    <3> DEFINE s == Head(inbox)
    <3>1. s \in Condemned /\ s \in Serial
      BY <2>1, <2>3 DEF Justified, Condemned
    <3>2. CloseDevice(s) /\ UNCHANGED presented
      BY <1>7, <2>3 DEF HandleNotification
    <3> HIDE DEF s
    <3>3. \A c \in registry[s] : presented[c] = s
      BY <3>1 DEF RegistryExact
    <3>. QED  BY <1>0, <3>1, <3>2, <3>3 DEF CloseDevice
  <2>. QED  BY <2>2, <2>3
<1>8. CASE SweepClose
  <2>1. hit \in Condemned /\ hit \in Serial /\ CloseDevice(hit) /\ UNCHANGED presented
    BY <1>8 DEF SweepClose, CauseOK
  <2>2. \A c \in registry[hit] : presented[c] = hit
    BY <2>1 DEF RegistryExact
  <2>. QED  BY <1>0, <2>1, <2>2 DEF CloseDevice
<1>9. CASE Restart
  BY <1>9 DEF Restart
<1>. QED
  BY <1>1, <1>2, <1>3, <1>4, <1>5, <1>6, <1>7, <1>8, <1>9, ConnectionFrame

-----------------------------------------------------------------------------
(* No service after revocation.                                            *)

(***************************************************************************)
(* A request that arrived late belongs to a condemned certificate for as   *)
(* long as its handler runs, and it is never served.                       *)
(***************************************************************************)
LateOK ==
  /\ \A c \in late : request[c] # "idle" => presented[c] \in Condemned
  /\ NoServiceAfterRevocation

(***************************************************************************)
(* Who changes a handler, the serial it answers for, or the history of it. *)
(***************************************************************************)
LEMMA RequestFrame ==
  ASSUME [Next]_vars
  PROVE  \/ UNCHANGED <<request, presented, late>>
         \/ \E c \in Conn, s \in Serial : VerifyClientCert(c, s)
         \/ \E c \in Conn : AcceptWithoutCert(c)
         \/ \E c \in Conn : ReceiveRequest(c)
         \/ \E c \in Conn : AuthorizeRequest(c)
         \/ \E c \in Conn : AnswerWithoutServing(c)
         \/ \E c \in Conn : FinishRequest(c)
         \/ Restart
<1> USE DEF vars, deviceVars, connVars, subscriberVars, historyVars
<1>1. CASE UNCHANGED vars
  BY <1>1
<1>2. CASE Next
  BY <1>2, NextCases DEF RegisterDevice, RevokeDevice, IssueDeviceCertificate,
     ResetAllConnections, Register, AbandonHandshake, DropStream, ConnectAndListen,
     HandleNotification, LeaveListenLoop, BeginSweep, SweepQuery, SweepClose, EndSweep,
     LoseSession
<1>. QED  BY <1>1, <1>2

(***************************************************************************)
(* LateOK is preserved: handle_git_http's lookup finds the row of the      *)
(* certificate, which is the revoked one if any device holding that serial *)
(* is revoked, because serials are minted once.                            *)
(***************************************************************************)
LEMMA LateStep ==
  ASSUME TypeOK, MintedOK, LateOK, [Next]_vars
  PROVE  LateOK'
<1> USE DEF TypeOK, LateOK, NoServiceAfterRevocation
<1>0. Condemned \subseteq Condemned'
  BY CondemnedGrows
<1>1. CASE UNCHANGED <<request, presented, late>>
  BY <1>0, <1>1
<1>2. CASE \E c \in Conn, s \in Serial : VerifyClientCert(c, s)
  BY <1>0, <1>2 DEF VerifyClientCert, historyVars
<1>3. CASE \E c \in Conn : AcceptWithoutCert(c)
  BY <1>0, <1>3 DEF AcceptWithoutCert, historyVars
<1>4. CASE \E c \in Conn : ReceiveRequest(c)
  BY <1>0, <1>4 DEF ReceiveRequest
<1>5. CASE \E c \in Conn : AuthorizeRequest(c)
  <2> PICK c \in Conn : AuthorizeRequest(c)
    BY <1>5
  <2>1. /\ request[c] = "received" /\ presented[c] \in Serial /\ Admits(presented[c])
        /\ request' = [request EXCEPT ![c] = "serving"]
        /\ UNCHANGED <<presented, late>>
    BY DEF AuthorizeRequest, historyVars
  <2>2. presented[c] \notin Condemned
    BY <2>1, AdmittedNotCondemned
  <2>3. c \notin late
    BY <2>1, <2>2
  <2>. QED  BY <1>0, <2>1, <2>3
<1>6. CASE \E c \in Conn : AnswerWithoutServing(c)
  BY <1>0, <1>6 DEF AnswerWithoutServing, historyVars
<1>7. CASE \E c \in Conn : FinishRequest(c)
  BY <1>0, <1>7 DEF FinishRequest, historyVars
<1>8. CASE Restart
  BY <1>8 DEF Restart
<1>. QED  BY <1>1, <1>2, <1>3, <1>4, <1>5, <1>6, <1>7, <1>8, RequestFrame

-----------------------------------------------------------------------------
(* The sweep.                                                              *)

(***************************************************************************)
(* What a sweep has to close is an open connection of a revoked device,    *)
(* and outside a sweep there is nothing left to close.                     *)
(***************************************************************************)
SweepOK ==
  /\ subscriber # "sweeping" => due = {}
  /\ \A c \in due : conn[c] = "open" /\ presented[c] \in Condemned
  /\ SweepMissesNothing

(***************************************************************************)
(* Who changes the sweep, the session it queries over, the connections it  *)
(* is about, or their tokens.                                              *)
(***************************************************************************)
LEMMA SweepFrame ==
  ASSUME [Next]_vars
  PROVE  \/ UNCHANGED <<conn, presented, cancelled, subscriber, session, todo, hit, due>>
         \/ \E c \in Conn, s \in Serial : VerifyClientCert(c, s)
         \/ \E c \in Conn : AcceptWithoutCert(c)
         \/ \E c \in Conn : Register(c)
         \/ \E c \in Conn : AbandonHandshake(c)
         \/ \E c \in Conn : DropStream(c)
         \/ ConnectAndListen
         \/ HandleNotification
         \/ LeaveListenLoop
         \/ BeginSweep
         \/ \E s \in Serial : SweepQuery(s)
         \/ SweepClose
         \/ EndSweep
         \/ LoseSession
         \/ Restart
<1> USE DEF vars, deviceVars, connVars, subscriberVars, historyVars
<1>1. CASE UNCHANGED vars
  BY <1>1
<1>2. CASE Next
  BY <1>2, NextCases DEF RegisterDevice, RevokeDevice, IssueDeviceCertificate,
     ResetAllConnections, ReceiveRequest, AuthorizeRequest, AnswerWithoutServing,
     FinishRequest
<1>. QED  BY <1>1, <1>2

(***************************************************************************)
(* What SweepOK asks of one connection of the running sweep.               *)
(***************************************************************************)
Swept(c) ==
  /\ conn[c] = "open"
  /\ presented[c] \in Condemned
  /\ session /\ RowRevoked(presented[c]) =>
       c \in cancelled \/ presented[c] \in todo \cup {hit}

(***************************************************************************)
(* A connection of the sweep stays accounted for, in a step that keeps it  *)
(* open and takes its serial off the sweep's list only when it cancels the *)
(* token or has read the row as not revoked.                               *)
(***************************************************************************)
LEMMA SweptStep ==
  ASSUME TypeOK, MintedOK, [Next]_vars, NEW c \in Conn, Swept(c),
         conn'[c] = conn[c], presented'[c] = presented[c],
         session' => session,
         c \in cancelled => c \in cancelled',
         session /\ RowRevoked(presented[c]) /\ presented[c] \in todo \cup {hit} =>
           c \in cancelled' \/ presented[c] \in todo' \cup {hit'}
  PROVE  Swept(c)'
<1>1. conn'[c] = "open" /\ presented'[c] \in Condemned'
  BY CondemnedGrows DEF Swept
<1>2. ASSUME session', RowRevoked(presented[c])'
      PROVE  c \in cancelled' \/ presented'[c] \in todo' \cup {hit'}
  <2> PICK s \in Condemned : s = presented[c]
    BY DEF Swept
  <2>1. ~RowRevoked(s) => ~RowRevoked(s)'
    BY ReplacedStaysReplaced
  <2>2. RowRevoked(presented[c])
    BY <1>2, <2>1 DEF RowRevoked, FindByCertSerial
  <2>. QED  BY <1>2, <2>2 DEF Swept
<1>. QED  BY <1>1, <1>2 DEF Swept

(***************************************************************************)
(* SweepOK is preserved: the list of serials is read from the registry     *)
(* when the sweep starts, only the sweep takes a serial off it, and a      *)
(* session lost in a sweep is not replaced before the sweep has ended.     *)
(***************************************************************************)
LEMMA SweepStep ==
  ASSUME TypeOK, MintedOK, ConnOK, RegistryExact, SweepOK, [Next]_vars
  PROVE  SweepOK'
<1> due \subseteq Conn /\ cancelled \subseteq Conn
  BY DEF TypeOK
<1>a. \A c \in due : Swept(c) /\ subscriber = "sweeping"
  BY DEF SweepOK, SweepMissesNothing, Swept
<1>b. ASSUME \A c \in due' : c \in Conn /\ Swept(c)',
             subscriber' # "sweeping" => due' = {}
      PROVE  SweepOK'
  BY <1>b DEF SweepOK, SweepMissesNothing, Swept
<1>1. CASE UNCHANGED <<conn, presented, cancelled, subscriber, session, todo, hit, due>>
  BY <1>1, <1>a, <1>b, SweptStep DEF SweepOK
<1>2. CASE \E c \in Conn, s \in Serial : VerifyClientCert(c, s)
  <2> PICK c \in Conn, s \in Serial : VerifyClientCert(c, s)
    BY <1>2
  <2>1. /\ UNCHANGED <<cancelled, subscriber, session, todo, hit, due>>
        /\ \A k \in due : conn'[k] = conn[k] /\ presented'[k] = presented[k]
    BY <1>a DEF VerifyClientCert, Swept, TypeOK, subscriberVars, historyVars
  <2>. QED  BY <2>1, <1>a, <1>b, SweptStep DEF SweepOK
<1>3. CASE \E c \in Conn : AcceptWithoutCert(c)
  <2> PICK c \in Conn : AcceptWithoutCert(c)
    BY <1>3
  <2>1. /\ UNCHANGED <<cancelled, subscriber, session, todo, hit, due>>
        /\ \A k \in due : conn'[k] = conn[k] /\ presented'[k] = presented[k]
    BY <1>a DEF AcceptWithoutCert, Swept, TypeOK, subscriberVars, historyVars
  <2>. QED  BY <2>1, <1>a, <1>b, SweptStep DEF SweepOK
<1>4. CASE \E c \in Conn : Register(c) \/ AbandonHandshake(c)
  <2> PICK c \in Conn : Register(c) \/ AbandonHandshake(c)
    BY <1>4
  <2>1. /\ UNCHANGED <<presented, cancelled, subscriber, session, todo, hit, due>>
        /\ \A k \in due : conn'[k] = conn[k]
    BY <1>a DEF Register, AbandonHandshake, Swept, TypeOK, subscriberVars, historyVars
  <2>. QED  BY <2>1, <1>a, <1>b, SweptStep DEF SweepOK
<1>5. CASE \E c \in Conn : DropStream(c)
  <2> PICK c \in Conn : DropStream(c)
    BY <1>5
  <2>1. /\ UNCHANGED <<presented, subscriber, session, todo, hit>>
        /\ due' = due \ {c} /\ cancelled' = cancelled \ {c}
        /\ \A k \in due' : conn'[k] = conn[k]
    BY DEF DropStream, TypeOK, subscriberVars
  <2>2. \A k \in due' : Swept(k)'
    BY <2>1, <1>a, SweptStep
  <2>. QED  BY <2>1, <2>2, <1>b DEF SweepOK
<1>6. CASE ConnectAndListen \/ HandleNotification \/ LeaveListenLoop
  <2>1. due' = {}
    BY <1>6, <1>a DEF ConnectAndListen, HandleNotification, LeaveListenLoop, historyVars
  <2>. QED  BY <2>1, <1>b
<1>7. CASE BeginSweep
  <2>1. \A c \in due' : conn'[c] = "open" /\ presented'[c] \in todo' /\ presented'[c] \in Condemned'
    <3> SUFFICES ASSUME NEW c \in due'
                 PROVE  conn'[c] = "open" /\ presented'[c] \in todo' /\ presented'[c] \in Condemned'
      OBVIOUS
    <3>1. PICK s \in Serial : RowRevoked(s) /\ c \in registry[s]
      BY <1>7 DEF BeginSweep
    <3>2. c \in Conn /\ conn[c] = "open" /\ presented[c] = s
      BY <3>1 DEF RegistryExact, Live
    <3>3. s \in Condemned'
      BY <3>1, RowRevokedCondemned, CondemnedGrows
    <3>. QED  BY <1>7, <3>1, <3>2, <3>3 DEF BeginSweep, connVars
  <2>2. due' \subseteq Conn
    BY <1>7 DEF BeginSweep, TypeOK
  <2>3. subscriber' = "sweeping"
    BY <1>7 DEF BeginSweep
  <2>. QED  BY <2>1, <2>2, <2>3, <1>b DEF Swept
<1>8. CASE \E s \in Serial : SweepQuery(s)
  <2> PICK s \in Serial : SweepQuery(s)
    BY <1>8
  <2>1. /\ UNCHANGED <<conn, presented, cancelled, subscriber, session, due>>
        /\ hit = NoSerial /\ todo' = todo \ {s}
        /\ session /\ RowRevoked(s) => hit' = s
    BY DEF SweepQuery, connVars, historyVars
  <2>2. \A c \in due : Swept(c)'
    <3> SUFFICES ASSUME NEW c \in due PROVE Swept(c)'
      OBVIOUS
    <3>1. presented[c] # NoSerial
      BY <1>a DEF Swept, Condemned
    <3>2. ASSUME session, RowRevoked(presented[c]), presented[c] \in todo \cup {hit}
          PROVE  presented[c] \in todo' \cup {hit'}
      BY <3>1, <3>2, <2>1
    <3>. QED  BY <2>1, <3>2, <1>a, SweptStep
  <2>. QED  BY <2>1, <2>2, <1>b DEF SweepOK
<1>9. CASE SweepClose
  <2>1. /\ UNCHANGED <<conn, presented, subscriber, session, todo, due>>
        /\ hit \in Serial /\ hit' = NoSerial
        /\ cancelled' = cancelled \cup registry[hit]
    BY <1>9 DEF SweepClose, CloseDevice, TypeOK, historyVars
  <2>2. \A c \in due : Swept(c)'
    <3> SUFFICES ASSUME NEW c \in due PROVE Swept(c)'
      OBVIOUS
    <3>1. presented[c] = hit => c \in cancelled'
      BY <2>1, <1>a DEF RegistryExact, Live, Swept
    <3>. QED  BY <2>1, <3>1, <1>a, SweptStep
  <2>. QED  BY <2>1, <2>2, <1>b DEF SweepOK
<1>10. CASE EndSweep \/ Restart
  <2>1. due' = {}
    BY <1>10 DEF EndSweep, Restart
  <2>. QED  BY <2>1, <1>b
<1>11. CASE LoseSession
  <2>1. UNCHANGED <<conn, presented, cancelled, subscriber, todo, hit, due>> /\ ~session'
    BY <1>11 DEF LoseSession, connVars, historyVars
  <2>. QED  BY <2>1, <1>a, <1>b, SweptStep DEF SweepOK
<1>. QED
  BY <1>1, <1>2, <1>3, <1>4, <1>5, <1>6, <1>7, <1>8, <1>9, <1>10, <1>11, SweepFrame

-----------------------------------------------------------------------------
(* The inductive invariant and the theorems.                               *)

IInv ==
  /\ TypeOK
  /\ MintedOK
  /\ ConnOK
  /\ RegistryExact
  /\ CauseOK
  /\ CancelledForCause
  /\ LateOK
  /\ SweepOK

(***************************************************************************)
(* IInv holds in every reachable state.                                    *)
(***************************************************************************)
THEOREM Invariance == Spec => []IInv
<1>1. Init => IInv
  <2> SUFFICES ASSUME Init PROVE IInv
    OBVIOUS
  <2>1. TypeOK
    BY InitTypeOK
  <2>2. MintedOK /\ ConnOK /\ RegistryExact /\ CancelledForCause
    BY DEF Init, DevicesInit, MintedOK, ConnOK, RegistryExact, Live, CancelledForCause
  <2>3. CauseOK /\ LateOK /\ SweepOK
    BY DEF Init, CauseOK, LateOK, NoServiceAfterRevocation, SweepOK, SweepMissesNothing
  <2>. QED  BY <2>1, <2>2, <2>3 DEF IInv
<1>2. IInv /\ [Next]_vars => IInv'
  <2> SUFFICES ASSUME IInv, [Next]_vars PROVE IInv'
    OBVIOUS
  <2>. QED
    BY TypeStep, MintedStep, ConnStep, RegistryStep, CauseStep, CancelledStep, LateStep,
       SweepStep DEF IInv
<1>. QED  BY <1>1, <1>2, PTL DEF Spec

(***************************************************************************)
(* Type correctness (TypeOK): no operation writes a value its column, map  *)
(* or queue cannot hold; in particular a NULL serial is never notified.    *)
(***************************************************************************)
THEOREM TypeCorrect == Spec => []TypeOK
<1>1. IInv => TypeOK
  BY DEF IInv
<1>. QED  BY <1>1, Invariance, PTL

(***************************************************************************)
(* RegistryExact: the in-memory registry holds exactly the live            *)
(* connections, under the serials they presented.                          *)
(***************************************************************************)
THEOREM RegistryCorrect == Spec => []RegistryExact
<1>1. IInv => RegistryExact
  BY DEF IInv
<1>. QED  BY <1>1, Invariance, PTL

(***************************************************************************)
(* CancelledForCause: nobody is disconnected unless the device is revoked  *)
(* or a reset-all is on record.                                            *)
(***************************************************************************)
THEOREM CancellationJustified == Spec => []CancelledForCause
<1>1. IInv => CancelledForCause
  BY DEF IInv
<1>. QED  BY <1>1, Invariance, PTL

(***************************************************************************)
(* NoServiceAfterRevocation: handle_git_http never proxies a request that  *)
(* arrived after the revocation of its device.                             *)
(***************************************************************************)
THEOREM RevokedNeverServed == Spec => []NoServiceAfterRevocation
<1>1. IInv => NoServiceAfterRevocation
  BY DEF IInv, LateOK
<1>. QED  BY <1>1, Invariance, PTL

(***************************************************************************)
(* SweepMissesNothing: a sweep with a live session accounts for every      *)
(* connection it found registered and revoked.                             *)
(***************************************************************************)
THEOREM SweepComplete == Spec => []SweepMissesNothing
<1>1. IInv => SweepMissesNothing
  BY DEF IInv, SweepOK
<1>. QED  BY <1>1, Invariance, PTL

-----------------------------------------------------------------------------
(* Revocation implements Sessions.                                         *)

(***************************************************************************)
(* The abstract sessions, as a tuple.                                      *)
(***************************************************************************)
SessionPairs == <<LiveSessions, Pairs(cancelled)>>

(***************************************************************************)
(* When no connection opens, closes or is cancelled, the abstract sessions *)
(* are what they were.                                                     *)
(***************************************************************************)
LEMMA SessionsUnchanged ==
  ASSUME UNCHANGED <<conn, presented, registry, cancelled>>
  PROVE  UNCHANGED SessionPairs
BY DEF SessionPairs, LiveSessions, Pairs, Live

(***************************************************************************)
(* A step that leaves the sessions alone is a revocation or a new          *)
(* certificate (Condemn), an audit row (Audit), or nothing at all.         *)
(***************************************************************************)
LEMMA QuietStep ==
  ASSUME TypeOK, [Next]_vars, UNCHANGED SessionPairs
  PROVE  [Abstract!Next]_(Abstract!sessionVars)
<1> USE DEF Abstract!Next, Abstract!sessionVars, SessionPairs
<1>1. CASE ResetAllConnections
  <2>1. UNCHANGED Condemned
    BY <1>1 DEF ResetAllConnections, deviceVars, Condemned
  <2>. QED  BY <1>1, <2>1 DEF ResetAllConnections, Abstract!Audit
<1>2. CASE UNCHANGED resets
  <2>1. Condemned \subseteq Condemned' /\ Condemned' \in SUBSET Serial
    BY CondemnedGrows DEF Condemned
  <2>. QED  BY <1>2, <2>1 DEF Abstract!Condemn
<1>3. UNCHANGED resets \/ ResetAllConnections
  <2> USE DEF vars, deviceVars, connVars, subscriberVars, historyVars
  <2>1. CASE UNCHANGED vars
    BY <2>1
  <2>2. CASE Next
    BY <2>2, NextCases DEF RegisterDevice, RevokeDevice, IssueDeviceCertificate,
       VerifyClientCert, AcceptWithoutCert, Register, AbandonHandshake, ReceiveRequest,
       AuthorizeRequest, AnswerWithoutServing, FinishRequest, DropStream,
       ConnectAndListen, HandleNotification, LeaveListenLoop, BeginSweep, SweepQuery,
       SweepClose, EndSweep, LoseSession, Restart
  <2>. QED  BY <2>1, <2>2
<1>. QED  BY <1>1, <1>2, <1>3

(***************************************************************************)
(* close_device orders every live connection of the serial and no other.   *)
(***************************************************************************)
LEMMA CloseDeviceClosesAll ==
  ASSUME TypeOK, RegistryExact, NEW s \in Serial, CloseDevice(s),
         UNCHANGED <<conn, presented>>
  PROVE  LET closing == {l \in LiveSessions : l[2] = s}
         IN  /\ LiveSessions' = LiveSessions \ closing
             /\ Pairs(cancelled)' = Pairs(cancelled) \cup closing
<1> DEFINE closing == {l \in LiveSessions : l[2] = s}
<1>1. \A c \in Conn : c \in registry[s] <=> Live(c) /\ presented[c] = s
  BY DEF RegistryExact
<1>2. LiveSessions' = LiveSessions \ closing
  BY <1>1 DEF CloseDevice, LiveSessions, Pairs, Live
<1>3. Pairs(cancelled)' = Pairs(cancelled) \cup closing
  <2>1. closing = {<<c, presented[c]>> : c \in registry[s]}
    BY <1>1 DEF LiveSessions, Pairs, RegistryExact
  <2>. QED  BY <2>1 DEF CloseDevice, Pairs
<1>. QED  BY <1>2, <1>3

(***************************************************************************)
(* close_all orders every live connection that presented a certificate.    *)
(***************************************************************************)
LEMMA CloseAllClosesAll ==
  ASSUME TypeOK, RegistryExact, CloseAll, UNCHANGED <<conn, presented>>
  PROVE  /\ LiveSessions' = LiveSessions \ LiveSessions
         /\ Pairs(cancelled)' = Pairs(cancelled) \cup LiveSessions
<1> DEFINE all == {c \in Conn : Live(c) /\ presented[c] # NoSerial}
<1>1. UNION {registry[s] : s \in Serial} = all
  BY DEF RegistryExact, TypeOK
<1>2. cancelled' = cancelled \cup all
  BY <1>1 DEF CloseAll
<1>3. LiveSessions' = LiveSessions \ LiveSessions
  BY <1>2 DEF LiveSessions, Pairs, Live
<1>4. Pairs(cancelled)' = Pairs(cancelled) \cup LiveSessions
  BY <1>2 DEF LiveSessions, Pairs
<1>. QED  BY <1>3, <1>4

(***************************************************************************)
(* Every step is a step of Sessions or leaves its variables unchanged.     *)
(***************************************************************************)
LEMMA SimulatesSessions ==
  ASSUME IInv, [Next]_vars
  PROVE  [Abstract!Next]_(Abstract!sessionVars)
<1> TypeOK /\ ConnOK /\ RegistryExact /\ CauseOK
  BY DEF IInv
<1> cancelled \subseteq Conn
  BY DEF TypeOK
<1>1. CASE UNCHANGED <<conn, presented, registry, cancelled>>
  BY <1>1, SessionsUnchanged, QuietStep
<1>2. CASE \E c \in Conn :
             \/ \E s \in Serial : VerifyClientCert(c, s)
             \/ AcceptWithoutCert(c)
             \/ AbandonHandshake(c)
  <2> PICK c \in Conn : \/ \E s \in Serial : VerifyClientCert(c, s)
                        \/ AcceptWithoutCert(c)
                        \/ AbandonHandshake(c)
    BY <1>2
  <2>1. /\ UNCHANGED cancelled
        /\ conn[c] # "open"
        /\ \A k \in Conn \ {c} : conn'[k] = conn[k] /\ presented'[k] = presented[k]
        /\ conn'[c] = "open" => presented'[c] = NoSerial
    BY DEF VerifyClientCert, AcceptWithoutCert, AbandonHandshake, TypeOK
  <2>2. c \notin cancelled
    BY <2>1 DEF ConnOK
  <2>3. UNCHANGED LiveSessions
    <3>1. {k \in Conn : Live(k) /\ presented[k] # NoSerial}'
            = {k \in Conn : Live(k) /\ presented[k] # NoSerial}
      BY <2>1 DEF Live
    <3>2. \A k \in Conn : Live(k) => presented'[k] = presented[k]
      BY <2>1 DEF Live
    <3>. QED  BY <3>1, <3>2 DEF LiveSessions, Pairs
  <2>4. UNCHANGED Pairs(cancelled)
    BY <2>1, <2>2 DEF Pairs
  <2>. QED  BY <2>3, <2>4, QuietStep DEF SessionPairs
<1>3. CASE \E c \in Conn : Register(c)
  <2> PICK c \in Conn : Register(c)
    BY <1>3
  <2> DEFINE s == presented[c]
  <2>1. s \in Serial /\ c \notin cancelled /\ conn[c] = "verified"
    BY DEF Register, ConnOK
  <2>2. LiveSessions' = LiveSessions \cup {<<c, s>>}
    BY <2>1 DEF Register, LiveSessions, Pairs, Live, TypeOK
  <2>3. \A r \in Serial : <<c, r>> \notin LiveSessions \cup Pairs(cancelled)
    BY <2>1 DEF LiveSessions, Pairs, Live
  <2>4. UNCHANGED <<Pairs(cancelled), Condemned, resets>>
    BY DEF Register, deviceVars, Condemned, Pairs
  <2> HIDE DEF s
  <2>. QED  BY <2>1, <2>2, <2>3, <2>4 DEF Abstract!Next, Abstract!Open
<1>4. CASE \E c \in Conn : DropStream(c)
  <2> PICK c \in Conn : DropStream(c)
    BY <1>4
  <2> DEFINE s == presented[c]
  <2>1. /\ \A k \in Conn : (conn'[k] = "open" /\ k \notin cancelled')
                            <=> (conn[k] = "open" /\ k \notin cancelled /\ k # c)
        /\ cancelled' = cancelled \ {c}
    BY DEF DropStream, TypeOK
  <2>2. UNCHANGED <<presented, Condemned, resets>>
    BY DEF DropStream, deviceVars, Condemned
  <2>3. CASE c \in cancelled
    <3>1. s \in Serial /\ <<c, s>> \in Pairs(cancelled)
      BY <2>3 DEF ConnOK, Pairs
    <3>2. Pairs(cancelled)' = Pairs(cancelled) \ {<<c, s>>}
      BY <2>1, <2>2 DEF Pairs
    <3>3. UNCHANGED LiveSessions
      BY <2>1, <2>2, <2>3 DEF LiveSessions, Pairs, Live
    <3> HIDE DEF s
    <3>. QED  BY <2>2, <3>1, <3>2, <3>3 DEF Abstract!Next, Abstract!Gone
  <2>4. CASE c \notin cancelled /\ s # NoSerial
    <3>1. s \in Serial /\ <<c, s>> \in LiveSessions
      BY <2>4 DEF DropStream, LiveSessions, Pairs, Live, TypeOK
    <3>2. LiveSessions' = LiveSessions \ {<<c, s>>}
      BY <2>1, <2>2 DEF LiveSessions, Pairs, Live
    <3>3. UNCHANGED Pairs(cancelled)
      BY <2>1, <2>2, <2>4 DEF Pairs
    <3> HIDE DEF s
    <3>. QED  BY <2>2, <3>1, <3>2, <3>3 DEF Abstract!Next, Abstract!Leave
  <2>5. CASE c \notin cancelled /\ s = NoSerial
    <3>1. UNCHANGED LiveSessions
      BY <2>1, <2>2, <2>5 DEF LiveSessions, Pairs, Live
    <3>2. UNCHANGED Pairs(cancelled)
      BY <2>1, <2>2, <2>5 DEF Pairs
    <3>. QED  BY <3>1, <3>2, QuietStep DEF SessionPairs
  <2>. QED  BY <2>3, <2>4, <2>5
<1>5. CASE HandleNotification
  <2>1. Head(inbox) \in Justified
    BY <1>5, HeadTailProperties, LenProperties DEF HandleNotification, CauseOK, TypeOK
  <2>2. UNCHANGED <<conn, presented, Condemned, resets>>
    BY <1>5 DEF HandleNotification, deviceVars, Condemned
  <2>3. CASE Head(inbox) = ResetAll
    <3>1. resets > 0
      BY <2>1, <2>3 DEF Justified, Condemned
    <3>2. CloseAll
      BY <1>5, <2>3 DEF HandleNotification
    <3>. QED
      BY <2>2, <3>1, <3>2, CloseAllClosesAll
      DEF Abstract!Next, Abstract!CloseEverything, Abstract!Order
  <2>4. CASE Head(inbox) # ResetAll
    <3>1. PICK s \in Condemned : s \in Serial /\ s = Head(inbox)
      BY <2>1, <2>4 DEF Justified, Condemned
    <3>2. CloseDevice(s)
      BY <1>5, <2>4, <3>1 DEF HandleNotification
    <3>. QED
      BY <2>2, <3>1, <3>2, CloseDeviceClosesAll
      DEF Abstract!Next, Abstract!CloseCertificate, Abstract!Order
  <2>. QED  BY <2>3, <2>4
<1>6. CASE SweepClose
  <2>1. PICK s \in Condemned : s \in Serial /\ s = hit
    BY <1>6 DEF SweepClose, CauseOK, Condemned
  <2>2. CloseDevice(s) /\ UNCHANGED <<conn, presented, Condemned, resets>>
    BY <1>6, <2>1 DEF SweepClose, deviceVars, Condemned
  <2>. QED
    BY <2>1, <2>2, CloseDeviceClosesAll
    DEF Abstract!Next, Abstract!CloseCertificate, Abstract!Order
<1>7. CASE Restart
  <2>1. /\ LiveSessions' = {} /\ Pairs(cancelled)' = {}
        /\ UNCHANGED <<Condemned, resets>>
    BY <1>7 DEF Restart, LiveSessions, Pairs, Live, deviceVars, Condemned
  <2>. QED  BY <2>1 DEF Abstract!Next, Abstract!Crash
<1>. QED
  BY <1>1, <1>2, <1>3, <1>4, <1>5, <1>6, <1>7, ConnectionFrame

(***************************************************************************)
(* ImplementsSessions: seen through the live connections, the whole        *)
(* machinery only ever opens, drops, or closes with cause and completely.  *)
(***************************************************************************)
THEOREM RevocationImplementsSessions == Spec => ImplementsSessions
<1>1. Init => Abstract!Init
  BY DEF Init, DevicesInit, LiveSessions, Pairs, Live, Condemned, Abstract!Init
<1>2. IInv /\ [Next]_vars => [Abstract!Next]_(Abstract!sessionVars)
  BY SimulatesSessions
<1>. QED
  BY <1>1, <1>2, Invariance, PTL DEF Spec, ImplementsSessions, Abstract!Spec
=============================================================================
