---------------------------- MODULE Enrollment ----------------------------
(***************************************************************************)
(* Device enrolment: the RFC 8628 grants of the hub (grants.rs), the three *)
(* handlers that create, approve and relay them (http.rs), and the device  *)
(* that polls for its certificate (wkp-cli/src/hub_register.rs).           *)
(*                                                                         *)
(* A /verify submission runs on its own blocking thread and its own        *)
(* Postgres connection, and none of its statements share a transaction: a  *)
(* second submission of the same form interleaves with it at every         *)
(* statement, and a failure leaves the statements already made.            *)
(***************************************************************************)
EXTENDS Devices, Naturals

CONSTANTS
  Grant,        \* rows device_grants may come to have
  Submission,   \* /verify submissions that can be in progress at one time
  NoDevice,     \* the NULL of approved_device_id
  MaxFailures   \* bound: submissions cut short by an error or a crash

ASSUME NoDeviceAssumption == NoDevice \notin Device
ASSUME FailureAssumption == MaxFailures \in Nat

VARIABLES
  subject,    \* the key each grant's CSR is for; NoDevice: there is no such row yet
  expired,    \* grants whose ten minutes are over
  approved,   \* the approved_device_id column
  step,       \* where each submission stands
  form,       \* the grant it has found
  seen,       \* approved_device_id of that grant, as it was when it was found
  signed,     \* the serial of the certificate it has signed, not yet recorded
  client,     \* the `wkp hub register` process behind each grant
  held,       \* the serial of the certificate in the device's store
  failures,   \* submissions that have been cut short
  consented,  \* history: grants whose code a human entered in time
  raw         \* history: keys registered by the admin CLI, without a CSR

grantVars == <<subject, expired, approved>>
submissionVars == <<step, form, seen, signed>>
clientVars == <<client, held>>
vars == <<deviceVars, grantVars, submissionVars, clientVars, failures, consented, raw>>

TypeOK ==
  /\ DevicesTypeOK
  /\ subject \in [Grant -> Device \cup {NoDevice}]
  /\ expired \subseteq Grant
  /\ approved \in [Grant -> Device \cup {NoDevice}]
  /\ step \in [Submission -> {"idle", "found", "signed", "registered", "linked"}]
  /\ form \in [Submission -> Grant]
  /\ seen \in [Submission -> Device \cup {NoDevice}]
  /\ signed \in [Submission -> Serial \cup {NoSerial}]
  /\ client \in [Grant -> {"none", "polling", "done", "failed"}]
  /\ held \in [Device -> Serial \cup {NoSerial}]
  /\ failures \in 0 .. MaxFailures
  /\ consented \subseteq Grant
  /\ raw \subseteq registered

Init ==
  /\ DevicesInit
  /\ subject = [g \in Grant |-> NoDevice]
  /\ expired = {}
  /\ approved = [g \in Grant |-> NoDevice]
  /\ step = [v \in Submission |-> "idle"]
  /\ form \in [Submission -> Grant]
  /\ seen = [v \in Submission |-> NoDevice]
  /\ signed = [v \in Submission |-> NoSerial]
  /\ client = [g \in Grant |-> "none"]
  /\ held = [d \in Device |-> NoSerial]
  /\ failures = 0
  /\ consented = {}
  /\ raw = {}

-----------------------------------------------------------------------------
(* Grants and the admin CLI.                                               *)

(***************************************************************************)
(* `wkp hub register` posts its CSR; handle_device_code inserts a pending  *)
(* grant.  The key is kept for good, so a device may well ask again.       *)
(***************************************************************************)
DeviceCode(g, d) ==
  /\ subject[g] = NoDevice
  /\ subject' = [subject EXCEPT ![g] = d]
  /\ client' = [client EXCEPT ![g] = "polling"]
  /\ UNCHANGED <<deviceVars, expired, approved, submissionVars, held, failures,
                 consented, raw>>

(***************************************************************************)
(* DeviceGrant::is_expired becomes true.                                   *)
(***************************************************************************)
Expire(g) ==
  /\ subject[g] # NoDevice /\ g \notin expired
  /\ expired' = expired \cup {g}
  /\ UNCHANGED <<deviceVars, subject, approved, submissionVars, clientVars, failures,
                 consented, raw>>

(***************************************************************************)
(* `wkp-hub device register`: a row from a bare public key.                *)
(***************************************************************************)
RegisterDevice(d) ==
  /\ RegisterRow(d)
  /\ raw' = raw \cup {d}
  /\ UNCHANGED <<grantVars, submissionVars, clientVars, failures, consented>>

(***************************************************************************)
(* `wkp-hub device revoke`, `revoke-id`.                                   *)
(***************************************************************************)
RevokeDevice(d) ==
  /\ RevokeRow(d)
  /\ UNCHANGED <<grantVars, submissionVars, clientVars, failures, consented, raw>>

-----------------------------------------------------------------------------
(* handle_verify_submit, statement by statement.                           *)

(***************************************************************************)
(* find_grant_by_user_code finds the grant, and it is not expired.         *)
(***************************************************************************)
FindGrant_AnyAge(v, g) ==  \* fault: is_expired is not looked at
  /\ step[v] = "idle"
  /\ subject[g] # NoDevice
  /\ step' = [step EXCEPT ![v] = "found"]
  /\ form' = [form EXCEPT ![v] = g]
  /\ seen' = [seen EXCEPT ![v] = approved[g]]
  /\ consented' = IF g \in expired THEN consented ELSE consented \cup {g}
  /\ UNCHANGED <<deviceVars, grantVars, signed, clientVars, failures, raw>>

FindGrant(v, g) ==
  /\ step[v] = "idle"
  /\ subject[g] # NoDevice /\ g \notin expired
  /\ step' = [step EXCEPT ![v] = "found"]
  /\ form' = [form EXCEPT ![v] = g]
  /\ seen' = [seen EXCEPT ![v] = approved[g]]
  /\ consented' = consented \cup {g}
  /\ UNCHANGED <<deviceVars, grantVars, signed, clientVars, failures, raw>>

(***************************************************************************)
(* The submission ends; the certificate it may have signed is forgotten.   *)
(***************************************************************************)
Answer(v) ==
  /\ step' = [step EXCEPT ![v] = "idle"]
  /\ seen' = [seen EXCEPT ![v] = NoDevice]
  /\ signed' = [signed EXCEPT ![v] = NoSerial]
  /\ UNCHANGED form

(***************************************************************************)
(* Approved when the grant was found, and its device has a certificate on  *)
(* file: the page says so and nothing is done.                             *)
(***************************************************************************)
OnFile(v) == seen[v] # NoDevice /\ certSerial[seen[v]] # NoSerial

AlreadyIssued_ApprovedIsEnough(v) ==  \* fault: approved counts as issued
  /\ step[v] = "found" /\ seen[v] # NoDevice
  /\ Answer(v)
  /\ UNCHANGED <<deviceVars, grantVars, clientVars, failures, consented, raw>>

AlreadyIssued(v) ==
  /\ step[v] = "found" /\ OnFile(v)
  /\ Answer(v)
  /\ UNCHANGED <<deviceVars, grantVars, clientVars, failures, consented, raw>>

(***************************************************************************)
(* sign_device_csr: a certificate with a fresh serial, kept in memory.     *)
(***************************************************************************)
SignDeviceCsr(v, s) ==
  /\ step[v] = "found" /\ ~OnFile(v)
  /\ Fresh(s) /\ \A w \in Submission : signed[w] # s
  /\ signed' = [signed EXCEPT ![v] = s]
  /\ step' = [step EXCEPT ![v] = "signed"]
  /\ UNCHANGED <<deviceVars, grantVars, form, seen, clientVars, failures, consented, raw>>

(***************************************************************************)
(* approve_grant on a grant that was approved when it was found: its       *)
(* device, and no write.                                                   *)
(***************************************************************************)
ApproveAgain_Unsigned(v) ==  \* fault: a retry goes on without signing
  /\ step[v] = "found" /\ seen[v] # NoDevice /\ ~OnFile(v)
  /\ step' = [step EXCEPT ![v] = "linked"]
  /\ UNCHANGED <<deviceVars, grantVars, form, seen, signed, clientVars, failures,
                 consented, raw>>

ApproveAgain(v) ==
  /\ step[v] = "signed" /\ seen[v] # NoDevice
  /\ step' = [step EXCEPT ![v] = "linked"]
  /\ UNCHANGED <<deviceVars, grantVars, form, seen, signed, clientVars, failures,
                 consented, raw>>

(***************************************************************************)
(* approve_grant otherwise: register_device's INSERT ...                   *)
(***************************************************************************)
InsertDevice(v) ==
  /\ step[v] = "signed" /\ seen[v] = NoDevice
  /\ RegisterRow(subject[form[v]])
  /\ step' = [step EXCEPT ![v] = "registered"]
  /\ UNCHANGED <<grantVars, form, seen, signed, clientVars, failures, consented, raw>>

(***************************************************************************)
(* ... which the UNIQUE constraint refuses for a key that has a row: the   *)
(* submission is answered 500.                                             *)
(***************************************************************************)
InsertRefused_Adopts(v) ==  \* fault: takes the row that is there for its own
  /\ step[v] = "signed" /\ seen[v] = NoDevice
  /\ subject[form[v]] \in registered
  /\ step' = [step EXCEPT ![v] = "registered"]
  /\ UNCHANGED <<deviceVars, grantVars, form, seen, signed, clientVars, failures,
                 consented, raw>>

InsertRefused(v) ==
  /\ step[v] = "signed" /\ seen[v] = NoDevice
  /\ subject[form[v]] \in registered
  /\ Answer(v)
  /\ UNCHANGED <<deviceVars, grantVars, clientVars, failures, consented, raw>>

(***************************************************************************)
(* ... and the UPDATE that links the grant to its device.                  *)
(***************************************************************************)
LinkGrant(v) ==
  /\ step[v] = "registered"
  /\ approved' = [approved EXCEPT ![form[v]] = subject[form[v]]]
  /\ step' = [step EXCEPT ![v] = "linked"]
  /\ UNCHANGED <<deviceVars, subject, expired, form, seen, signed, clientVars, failures,
                 consented, raw>>

(***************************************************************************)
(* issue_device_certificate records the certificate on the row of the      *)
(* device approve_grant has returned.                                      *)
(***************************************************************************)
DeviceOf(v) == IF seen[v] # NoDevice THEN seen[v] ELSE subject[form[v]]

IssueCertificate(v) ==
  /\ step[v] = "linked"
  /\ RecordCertificate(DeviceOf(v), signed[v])
  /\ Answer(v)
  /\ UNCHANGED <<grantVars, clientVars, failures, consented, raw>>

(***************************************************************************)
(* A statement fails, or the hub dies: the submission ends where it is.    *)
(***************************************************************************)
SubmissionFails(v) ==
  /\ step[v] # "idle"
  /\ failures < MaxFailures
  /\ failures' = failures + 1
  /\ Answer(v)
  /\ UNCHANGED <<deviceVars, grantVars, clientVars, consented, raw>>

-----------------------------------------------------------------------------
(* The device polls handle_device_token.                                   *)

PollUntilApproved_AnyDevice(g) ==  \* fault: the device is not looked up by the grant
  /\ client[g] = "polling"
  /\ g \notin expired
  /\ approved[g] # NoDevice
  /\ \E d \in Device :
       /\ certSerial[d] # NoSerial
       /\ held' = [held EXCEPT ![subject[g]] = certSerial[d]]
  /\ client' = [client EXCEPT ![g] = "done"]
  /\ UNCHANGED <<deviceVars, grantVars, submissionVars, failures, consented, raw>>

PollUntilApproved(g) ==
  /\ client[g] = "polling"
  /\ g \notin expired
  /\ approved[g] # NoDevice /\ certSerial[approved[g]] # NoSerial
  /\ held' = [held EXCEPT ![subject[g]] = certSerial[approved[g]]]
  /\ client' = [client EXCEPT ![g] = "done"]
  /\ UNCHANGED <<deviceVars, grantVars, submissionVars, failures, consented, raw>>

(***************************************************************************)
(* expired_token, the client's own deadline, or a request that fails: the  *)
(* command ends with an error.                                             *)
(***************************************************************************)
GiveUp(g) ==
  /\ client[g] = "polling"
  /\ client' = [client EXCEPT ![g] = "failed"]
  /\ UNCHANGED <<deviceVars, grantVars, submissionVars, held, failures, consented, raw>>

-----------------------------------------------------------------------------
Handle(v) ==
  \/ AlreadyIssued(v)
  \/ \E s \in Serial : SignDeviceCsr(v, s)
  \/ ApproveAgain(v)
  \/ InsertDevice(v)
  \/ InsertRefused(v)
  \/ LinkGrant(v)
  \/ IssueCertificate(v)

Next ==
  \/ \E g \in Grant, d \in Device : DeviceCode(g, d)
  \/ \E g \in Grant : Expire(g) \/ PollUntilApproved(g) \/ GiveUp(g)
  \/ \E d \in Device : RegisterDevice(d) \/ RevokeDevice(d)
  \/ \E v \in Submission, g \in Grant : FindGrant(v, g)
  \/ \E v \in Submission : Handle(v) \/ SubmissionFails(v)

Spec == Init /\ [][Next]_vars

(***************************************************************************)
(* A submission's thread runs to its end, a device that waits polls every  *)
(* five seconds, and a human who has not seen the page say "approved"      *)
(* submits the form again.  Nobody has to start, revoke, expire or fail.   *)
(***************************************************************************)
Fairness ==
  /\ \A v \in Submission : WF_vars(Handle(v))
  /\ \A g \in Grant : WF_vars(PollUntilApproved(g))
  /\ \A g \in Grant : WF_vars(\E v \in Submission : FindGrant(v, g))

LiveSpec == Spec /\ Fairness
-----------------------------------------------------------------------------
(* Properties.                                                             *)

(***************************************************************************)
(* The certificate a device has been handed is its own, recorded on its    *)
(* own row (handle_device_token goes by the grant's device, never by the   *)
(* caller's word).                                                         *)
(***************************************************************************)
OwnCertificate ==
  \A d \in Device : held[d] # NoSerial => <<d, held[d]>> \in minted

(***************************************************************************)
(* No key gets a certificate without a human's consent: whoever else       *)
(* submits, retries or fails meanwhile, a recorded certificate goes back   *)
(* to a code entered before its grant expired (handle_verify_submit).      *)
(***************************************************************************)
ConsentedOnly ==
  \A d \in Device : (\E s \in Serial : <<d, s>> \in minted) =>
    \E g \in consented : subject[g] = d /\ approved[g] = d

(***************************************************************************)
(* A grant is approved for its own key, that key has a row this grant's    *)
(* approval made, and no second grant claims it (approve_grant, UNIQUE     *)
(* public_key).                                                            *)
(***************************************************************************)
ApprovalOwnsRow ==
  \A g \in Grant : approved[g] # NoDevice =>
    /\ approved[g] = subject[g]
    /\ approved[g] \in registered \ raw
    /\ \A h \in Grant : approved[h] = approved[g] => h = g

(***************************************************************************)
(* "approved, but no certificate on file yet -- fall through and finish    *)
(* the job" (http.rs:896): once a grant is linked to its device, errors    *)
(* and double submissions do not keep the certificate from the device that *)
(* goes on polling, unless the grant expires first.                        *)
(***************************************************************************)
JobGetsFinished ==
  \A g \in Grant :
    approved[g] # NoDevice ~> (client[g] # "polling" \/ g \in expired)

(***************************************************************************)
(* http.rs:886-889: a retried /verify submission "must not mint a second   *)
(* certificate": no key ever has two certificates recorded.                *)
(***************************************************************************)
OneCertificate ==
  \A d \in Device, s, t \in Serial : <<d, s>> \in minted /\ <<d, t>> \in minted => s = t
=============================================================================
