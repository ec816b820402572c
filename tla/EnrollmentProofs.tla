------------------------- MODULE EnrollmentProofs --------------------------
(***************************************************************************)
(* Machine-checked theorems about Enrollment, for any sets of devices,     *)
(* serials, grants and submissions and any number of failures.             *)
(***************************************************************************)
EXTENDS Enrollment, TLAPS

USE SerialAssumption, NoDeviceAssumption, FailureAssumption

-----------------------------------------------------------------------------
(* The invariant, part by part.                                            *)

\* Submission v works on a grant it has found.
Busy(v) == step[v] # "idle"

(***************************************************************************)
(* The serial a row holds was recorded for it.                             *)
(***************************************************************************)
RecordOK ==
  \A d \in Device : certSerial[d] # NoSerial => <<d, certSerial[d]>> \in minted

(***************************************************************************)
(* What a submission knows of its grant is true for good: the code was     *)
(* entered in time, and a device it has seen linked is linked.             *)
(***************************************************************************)
FormOK ==
  \A v \in Submission : Busy(v) =>
    /\ form[v] \in consented
    /\ seen[v] # NoDevice => approved[form[v]] = seen[v]

\* A submission signs before it approves.
SignedOK ==
  \A v \in Submission :
    step[v] \in {"signed", "registered", "linked"} => signed[v] \in Serial

\* Submissions and failures only ever concern grants that exist.
GrantOK ==
  /\ \A g \in consented : subject[g] # NoDevice
  /\ \A v \in Submission :
       step[v] = "linked" => approved[form[v]] = subject[form[v]]

\* The submission that has made the row of d, and has not linked it yet.
Holds(v, d) == step[v] = "registered" /\ subject[form[v]] = d

(***************************************************************************)
(* A row between its INSERT and its UPDATE belongs to one submission, and  *)
(* no grant has it.                                                        *)
(***************************************************************************)
HeldOK ==
  /\ \A v \in Submission : step[v] = "registered" =>
       /\ seen[v] = NoDevice
       /\ subject[form[v]] \in registered \ raw
       /\ \A g \in Grant : approved[g] # subject[form[v]]
  /\ \A v, w \in Submission, d \in Device : Holds(v, d) /\ Holds(w, d) => v = w

(***************************************************************************)
(* The invariant: none of the three properties at its end is inductive by  *)
(* itself.                                                                 *)
(***************************************************************************)
IInv ==
  /\ TypeOK
  /\ RecordOK
  /\ FormOK
  /\ SignedOK
  /\ GrantOK
  /\ HeldOK
  /\ ApprovalOwnsRow
  /\ ConsentedOnly
  /\ OwnCertificate

-----------------------------------------------------------------------------
(* Initial states, the case split and the types.                           *)

(***************************************************************************)
(* The hub before its first grant satisfies the invariant.                 *)
(***************************************************************************)
LEMMA InitInvariant ==
  ASSUME Init
  PROVE  IInv
<1> USE DEF Init, DevicesInit
<1>1. TypeOK
  BY DEF TypeOK, DevicesTypeOK
<1>2. RecordOK /\ FormOK /\ SignedOK /\ GrantOK /\ HeldOK
  BY DEF RecordOK, FormOK, Busy, SignedOK, GrantOK, HeldOK, Holds
<1>3. ApprovalOwnsRow /\ ConsentedOnly /\ OwnCertificate
  BY DEF ApprovalOwnsRow, ConsentedOnly, OwnCertificate
<1>. QED  BY <1>1, <1>2, <1>3 DEF IInv

(***************************************************************************)
(* A step of Next is a step of one of the named actions.                   *)
(***************************************************************************)
LEMMA NextCases ==
  ASSUME Next
  PROVE  \/ \E g \in Grant, d \in Device : DeviceCode(g, d)
         \/ \E g \in Grant : Expire(g)
         \/ \E g \in Grant : PollUntilApproved(g)
         \/ \E g \in Grant : GiveUp(g)
         \/ \E d \in Device : RegisterDevice(d)
         \/ \E d \in Device : RevokeDevice(d)
         \/ \E v \in Submission, g \in Grant : FindGrant(v, g)
         \/ \E v \in Submission : AlreadyIssued(v)
         \/ \E v \in Submission, s \in Serial : SignDeviceCsr(v, s)
         \/ \E v \in Submission : ApproveAgain(v)
         \/ \E v \in Submission : InsertDevice(v)
         \/ \E v \in Submission : InsertRefused(v)
         \/ \E v \in Submission : LinkGrant(v)
         \/ \E v \in Submission : IssueCertificate(v)
         \/ \E v \in Submission : SubmissionFails(v)
BY DEF Next, Handle

(***************************************************************************)
(* A submission that has linked its grant records its certificate on the   *)
(* row of the grant's own key.                                             *)
(***************************************************************************)
LEMMA LinkedDevice ==
  ASSUME IInv, NEW v \in Submission, step[v] = "linked"
  PROVE  /\ form[v] \in consented
         /\ DeviceOf(v) \in Device
         /\ subject[form[v]] = DeviceOf(v)
         /\ approved[form[v]] = DeviceOf(v)
         /\ signed[v] \in Serial
<1>1. form[v] \in consented /\ (seen[v] # NoDevice => approved[form[v]] = seen[v])
  BY DEF IInv, FormOK, Busy
<1>2. approved[form[v]] = subject[form[v]] /\ subject[form[v]] # NoDevice
  BY <1>1 DEF IInv, GrantOK
<1>3. DeviceOf(v) = subject[form[v]]
  BY <1>1, <1>2 DEF DeviceOf
<1>4. subject[form[v]] \in Device
  BY <1>2 DEF IInv, TypeOK
<1>. QED  BY <1>1, <1>2, <1>3, <1>4 DEF IInv, SignedOK

(***************************************************************************)
(* Every operation preserves the types.                                    *)
(***************************************************************************)
LEMMA TypeStep ==
  ASSUME IInv, [Next]_vars
  PROVE  TypeOK'
<1>. TypeOK
  BY DEF IInv
<1> USE DEF TypeOK, DevicesTypeOK, deviceVars, grantVars, submissionVars, clientVars
<1>1. CASE UNCHANGED vars
  BY <1>1 DEF vars
<1>2. CASE \E g \in Grant, d \in Device : DeviceCode(g, d)
  BY <1>2 DEF DeviceCode
<1>3. CASE \E g \in Grant : Expire(g)
  BY <1>3 DEF Expire
<1>4. CASE \E g \in Grant : PollUntilApproved(g)
  <2> PICK g \in Grant : PollUntilApproved(g)
    BY <1>4
  <2>1. certSerial[approved[g]] \in Serial \cup {NoSerial}
    BY DEF PollUntilApproved
  <2>2. held' \in [Device -> Serial \cup {NoSerial}]
    BY <2>1 DEF PollUntilApproved
  <2>. QED  BY <2>2 DEF PollUntilApproved
<1>5. CASE \E g \in Grant : GiveUp(g)
  BY <1>5 DEF GiveUp
<1>6. CASE \E d \in Device : RegisterDevice(d)
  BY <1>6 DEF RegisterDevice, RegisterRow
<1>7. CASE \E d \in Device : RevokeDevice(d)
  BY <1>7 DEF RevokeDevice, RevokeRow
<1>8. CASE \E v \in Submission, g \in Grant : FindGrant(v, g)
  BY <1>8 DEF FindGrant
<1>9. CASE \E v \in Submission : AlreadyIssued(v)
  BY <1>9 DEF AlreadyIssued, Answer
<1>10. CASE \E v \in Submission, s \in Serial : SignDeviceCsr(v, s)
  BY <1>10 DEF SignDeviceCsr
<1>11. CASE \E v \in Submission : ApproveAgain(v)
  BY <1>11 DEF ApproveAgain
<1>12. CASE \E v \in Submission : InsertDevice(v)
  <2> PICK v \in Submission : InsertDevice(v)
    BY <1>12
  <2>1. subject[form[v]] \in Device
    BY DEF InsertDevice, IInv, FormOK, Busy, GrantOK
  <2>. QED  BY <2>1 DEF InsertDevice, RegisterRow
<1>13. CASE \E v \in Submission : InsertRefused(v)
  BY <1>13 DEF InsertRefused, Answer
<1>14. CASE \E v \in Submission : LinkGrant(v)
  BY <1>14 DEF LinkGrant
<1>15. CASE \E v \in Submission : IssueCertificate(v)
  <2> PICK v \in Submission : IssueCertificate(v)
    BY <1>15
  <2>1. DeviceOf(v) \in Device /\ signed[v] \in Serial
    BY LinkedDevice DEF IssueCertificate
  <2>. QED  BY <2>1 DEF IssueCertificate, RecordCertificate, Answer
<1>16. CASE \E v \in Submission : SubmissionFails(v)
  BY <1>16 DEF SubmissionFails, Answer
<1>. QED
  BY NextCases, <1>1, <1>2, <1>3, <1>4, <1>5, <1>6, <1>7, <1>8, <1>9, <1>10, <1>11,
     <1>12, <1>13, <1>14, <1>15, <1>16

-----------------------------------------------------------------------------
(* Each part of the invariant, one step further.                           *)

(***************************************************************************)
(* A row's serial is written together with its entry in minted, and        *)
(* minted only grows.                                                      *)
(***************************************************************************)
LEMMA RecordStep ==
  ASSUME IInv, [Next]_vars
  PROVE  RecordOK' /\ minted \subseteq minted'
<1>. TypeOK /\ RecordOK
  BY DEF IInv
<1> USE DEF TypeOK, DevicesTypeOK, RecordOK, deviceVars
<1>1. CASE UNCHANGED <<certSerial, minted>>
  BY <1>1
<1>2. CASE \E v \in Submission : IssueCertificate(v)
  <2> PICK v \in Submission : IssueCertificate(v)
    BY <1>2
  <2>1. DeviceOf(v) \in Device
    BY LinkedDevice DEF IssueCertificate
  <2>. QED  BY <2>1 DEF IssueCertificate, RecordCertificate
<1>3. UNCHANGED <<certSerial, minted>> \/ \E v \in Submission : IssueCertificate(v)
  BY NextCases DEF vars, DeviceCode, Expire, PollUntilApproved, GiveUp, RegisterDevice,
     RegisterRow, RevokeDevice, RevokeRow, FindGrant, AlreadyIssued, SignDeviceCsr,
     ApproveAgain, InsertDevice, InsertRefused, LinkGrant, SubmissionFails
<1>. QED  BY <1>1, <1>2, <1>3

(***************************************************************************)
(* A submission looks at its grant once, and nothing takes back what it    *)
(* has seen: approved is only written where the grant had no device.       *)
(***************************************************************************)
LEMMA FormStep ==
  ASSUME IInv, [Next]_vars
  PROVE  FormOK'
<1>. TypeOK /\ FormOK
  BY DEF IInv
<1> USE DEF TypeOK, FormOK, Busy, grantVars, submissionVars
<1>1. CASE UNCHANGED <<approved, step, form, seen, consented>>
  BY <1>1
<1>2. CASE \E v \in Submission, g \in Grant : FindGrant(v, g)
  BY <1>2 DEF FindGrant
<1>3. CASE \E v \in Submission :
             Answer(v) /\ UNCHANGED <<approved, consented>>
  BY <1>3 DEF Answer
<1>4. CASE \E v \in Submission :
             /\ step[v] # "idle"
             /\ step' \in {[step EXCEPT ![v] = x] : x \in {"signed", "registered", "linked"}}
             /\ UNCHANGED <<approved, form, seen, consented>>
  BY <1>4
<1>5. CASE \E v \in Submission : LinkGrant(v)
  <2> PICK v \in Submission : LinkGrant(v)
    BY <1>5
  <2>1. /\ step[v] = "registered"
        /\ approved' = [approved EXCEPT ![form[v]] = subject[form[v]]]
        /\ step' = [step EXCEPT ![v] = "linked"]
        /\ UNCHANGED <<form, seen, consented>>
    BY DEF LinkGrant
  <2>2. approved[form[v]] = NoDevice
    BY <2>1 DEF IInv, HeldOK, ApprovalOwnsRow
  <2>. QED  BY <2>1, <2>2
<1>6. CASE Next
  BY <1>1, <1>2, <1>3, <1>4, <1>5, <1>6, NextCases DEF DeviceCode, Expire,
     PollUntilApproved, GiveUp, RegisterDevice, RevokeDevice, AlreadyIssued,
     SignDeviceCsr, ApproveAgain, InsertDevice, InsertRefused, IssueCertificate,
     SubmissionFails
<1>. QED  BY <1>1, <1>6 DEF vars

(***************************************************************************)
(* Signing comes before every other write of the handler.                  *)
(***************************************************************************)
LEMMA SignedStep ==
  ASSUME IInv, [Next]_vars
  PROVE  SignedOK'
<1>. TypeOK /\ SignedOK
  BY DEF IInv
<1> USE DEF TypeOK, SignedOK, submissionVars
<1>1. CASE UNCHANGED <<step, signed>>
  BY <1>1
<1>2. CASE \E v \in Submission, g \in Grant : FindGrant(v, g)
  BY <1>2 DEF FindGrant
<1>3. CASE \E v \in Submission : Answer(v)
  BY <1>3 DEF Answer
<1>4. CASE \E v \in Submission, s \in Serial : SignDeviceCsr(v, s)
  BY <1>4 DEF SignDeviceCsr
<1>5. CASE \E v \in Submission :
             /\ step[v] \in {"signed", "registered"}
             /\ step' \in {[step EXCEPT ![v] = x] : x \in {"registered", "linked"}}
             /\ UNCHANGED signed
  BY <1>5
<1>6. CASE Next
  BY <1>1, <1>2, <1>3, <1>4, <1>5, <1>6, NextCases DEF DeviceCode, Expire,
     PollUntilApproved, GiveUp, RegisterDevice, RevokeDevice, AlreadyIssued,
     ApproveAgain, InsertDevice, InsertRefused, LinkGrant, IssueCertificate,
     SubmissionFails
<1>. QED  BY <1>1, <1>6 DEF vars

(***************************************************************************)
(* Keys and approvals of existing grants stay: a key is set once, and a    *)
(* device once approved is not replaced.                                   *)
(***************************************************************************)
LEMMA GrantsStay ==
  ASSUME IInv, [Next]_vars, NEW g \in Grant
  PROVE  /\ subject[g] # NoDevice => subject'[g] = subject[g]
         /\ approved[g] # NoDevice => approved'[g] = approved[g]
         /\ g \in consented => g \in consented'
<1>. TypeOK
  BY DEF IInv
<1> USE DEF TypeOK, grantVars
<1>1. CASE UNCHANGED <<subject, approved, consented>>
  BY <1>1
<1>2. CASE \E h \in Grant, d \in Device : DeviceCode(h, d)
  BY <1>2 DEF DeviceCode
<1>3. CASE \E v \in Submission, h \in Grant : FindGrant(v, h)
  BY <1>3 DEF FindGrant
<1>4. CASE \E v \in Submission : LinkGrant(v)
  <2> PICK v \in Submission : LinkGrant(v)
    BY <1>4
  <2>1. approved[form[v]] = NoDevice
    BY DEF LinkGrant, IInv, HeldOK, ApprovalOwnsRow
  <2>. QED  BY <2>1 DEF LinkGrant
<1>5. CASE Next
  BY <1>1, <1>2, <1>3, <1>4, <1>5, NextCases DEF Expire, PollUntilApproved, GiveUp,
     RegisterDevice, RevokeDevice, AlreadyIssued, SignDeviceCsr, ApproveAgain,
     InsertDevice, InsertRefused, IssueCertificate, SubmissionFails
<1>. QED  BY <1>1, <1>5 DEF vars

(***************************************************************************)
(* A grant is entered only once it exists, and a submission is linked by   *)
(* its own UPDATE or because it has seen an earlier one's.                 *)
(***************************************************************************)
LEMMA GrantStep ==
  ASSUME IInv, [Next]_vars
  PROVE  GrantOK'
<1>. TypeOK /\ GrantOK /\ FormOK
  BY DEF IInv
<1> USE DEF TypeOK, grantVars, submissionVars
<1>1. ASSUME NEW g \in consented'
      PROVE  subject'[g] # NoDevice
  <2>1. CASE g \in consented
    BY <2>1, GrantsStay DEF GrantOK
  <2>2. CASE g \notin consented
    <3>1. PICK v \in Submission, h \in Grant : FindGrant(v, h)
      BY <2>2, NextCases DEF vars, DeviceCode, Expire, PollUntilApproved, GiveUp,
         RegisterDevice, RevokeDevice, AlreadyIssued, SignDeviceCsr, ApproveAgain,
         InsertDevice, InsertRefused, LinkGrant, IssueCertificate, SubmissionFails
    <3>. QED  BY <2>2, <3>1 DEF FindGrant
  <2>. QED  BY <2>1, <2>2
<1>2. ASSUME NEW v \in Submission, step'[v] = "linked"
      PROVE  approved'[form'[v]] = subject'[form'[v]]
  <2>1. CASE step[v] = "linked" /\ form'[v] = form[v]
    <3>1. /\ approved[form[v]] = subject[form[v]]
          /\ subject[form[v]] # NoDevice
      BY <2>1 DEF GrantOK, FormOK, Busy
    <3>. QED  BY <2>1, <3>1, GrantsStay
  <2>2. CASE ApproveAgain(v)
    <3>1. approved[form[v]] = subject[form[v]]
      BY <2>2 DEF ApproveAgain, FormOK, Busy, IInv, ApprovalOwnsRow
    <3>. QED  BY <2>2, <3>1 DEF ApproveAgain
  <2>3. CASE LinkGrant(v)
    BY <2>3 DEF LinkGrant
  <2>4. \/ step[v] = "linked" /\ form'[v] = form[v]
        \/ ApproveAgain(v)
        \/ LinkGrant(v)
    BY <1>2, NextCases DEF vars, DeviceCode, Expire, PollUntilApproved, GiveUp,
       RegisterDevice, RevokeDevice, FindGrant, AlreadyIssued, SignDeviceCsr,
       ApproveAgain, InsertDevice, InsertRefused, LinkGrant, IssueCertificate,
       SubmissionFails, Answer
  <2>. QED  BY <2>1, <2>2, <2>3, <2>4
<1>. QED  BY <1>1, <1>2 DEF GrantOK

(***************************************************************************)
(* The rows that are there, and those made without a CSR.                  *)
(***************************************************************************)
LEMMA RowsFrame ==
  ASSUME IInv, [Next]_vars
  PROVE  registered \subseteq registered' /\ registered \ raw \subseteq registered' \ raw'
<1> USE DEF IInv, TypeOK, DevicesTypeOK, deviceVars
<1>1. CASE UNCHANGED <<registered, raw>>
  BY <1>1
<1>2. CASE \E d \in Device : RegisterDevice(d)
  BY <1>2 DEF RegisterDevice, RegisterRow
<1>3. CASE \E v \in Submission : InsertDevice(v)
  BY <1>3 DEF InsertDevice, RegisterRow
<1>4. CASE Next
  BY <1>1, <1>2, <1>3, <1>4, NextCases DEF DeviceCode, Expire, PollUntilApproved, GiveUp,
     RevokeDevice, RevokeRow, FindGrant, AlreadyIssued, SignDeviceCsr, ApproveAgain,
     InsertRefused, LinkGrant, IssueCertificate, RecordCertificate, SubmissionFails
<1>. QED  BY <1>1, <1>4 DEF vars

(***************************************************************************)
(* A row between its INSERT and its UPDATE keeps its one owner: the INSERT *)
(* is refused for a key that has a row, so nobody else gets there.         *)
(***************************************************************************)
LEMMA HeldStep ==
  ASSUME IInv, [Next]_vars
  PROVE  HeldOK'
<1>. TypeOK /\ HeldOK /\ FormOK /\ GrantOK /\ ApprovalOwnsRow
  BY DEF IInv
<1> USE DEF TypeOK, grantVars, submissionVars
<1>1. ASSUME NEW v \in Submission, step'[v] = "registered"
      PROVE  /\ form'[v] = form[v] /\ subject'[form[v]] = subject[form[v]]
             /\ subject[form[v]] \in Device
             /\ seen'[v] = seen[v]
             /\ step[v] = "registered" \/ InsertDevice(v)
  <2>1. /\ form'[v] = form[v]
        /\ seen'[v] = seen[v]
        /\ step[v] = "registered" \/ InsertDevice(v)
    BY <1>1, NextCases DEF vars, DeviceCode, Expire, PollUntilApproved, GiveUp,
       RegisterDevice, RevokeDevice, FindGrant, AlreadyIssued, SignDeviceCsr,
       ApproveAgain, InsertDevice, InsertRefused, LinkGrant, IssueCertificate,
       SubmissionFails, Answer
  <2>2. subject[form[v]] # NoDevice
    BY <2>1 DEF FormOK, GrantOK, Busy, InsertDevice
  <2>. QED  BY <2>1, <2>2, GrantsStay
<1>2. ASSUME NEW v \in Submission, step'[v] = "registered"
      PROVE  /\ seen'[v] = NoDevice
             /\ subject'[form'[v]] \in registered' \ raw'
             /\ \A g \in Grant : approved'[g] # subject'[form'[v]]
  <2>1. CASE step[v] = "registered"
    <3>1. /\ seen[v] = NoDevice
          /\ subject[form[v]] \in registered \ raw
          /\ \A g \in Grant : approved[g] # subject[form[v]]
      BY <2>1 DEF HeldOK
    <3>2. \A g \in Grant : approved'[g] # subject[form[v]]
      <4>1. CASE approved' = approved
        BY <3>1, <4>1
      <4>2. CASE \E w \in Submission : LinkGrant(w)
        <5> PICK w \in Submission : LinkGrant(w)
          BY <4>2
        <5>1. w # v
          BY <1>2 DEF LinkGrant
        <5>2. subject[form[w]] # subject[form[v]]
          BY <2>1, <5>1, <1>1, <1>2 DEF HeldOK, Holds, LinkGrant
        <5>. QED  BY <3>1, <5>2 DEF LinkGrant
      <4>3. approved' = approved \/ \E w \in Submission : LinkGrant(w)
        BY NextCases DEF vars, DeviceCode, Expire, PollUntilApproved, GiveUp,
           RegisterDevice, RevokeDevice, FindGrant, AlreadyIssued, SignDeviceCsr,
           ApproveAgain, InsertDevice, InsertRefused, IssueCertificate, SubmissionFails
      <4>. QED  BY <4>1, <4>2, <4>3
    <3>. QED  BY <1>1, <1>2, <3>1, <3>2, RowsFrame
  <2>2. CASE InsertDevice(v)
    <3>1. /\ seen[v] = NoDevice
          /\ subject[form[v]] \notin registered
          /\ subject[form[v]] \in registered'
          /\ raw' = raw /\ approved' = approved
      BY <2>2 DEF InsertDevice, RegisterRow
    <3>2. raw \subseteq registered
      OBVIOUS
    <3>3. \A g \in Grant : approved[g] # subject[form[v]]
      BY <3>1, <1>1, <1>2 DEF ApprovalOwnsRow
    <3>. QED  BY <1>1, <1>2, <3>1, <3>2, <3>3
  <2>. QED  BY <1>1, <1>2, <2>1, <2>2
<1>3. ASSUME NEW v \in Submission, NEW w \in Submission, NEW d \in Device,
             Holds(v, d)', Holds(w, d)'
      PROVE  v = w
  <2>1. /\ subject[form[v]] = d /\ subject[form[w]] = d
        /\ step[v] = "registered" \/ InsertDevice(v)
        /\ step[w] = "registered" \/ InsertDevice(w)
    BY <1>1, <1>3 DEF Holds
  <2>2. CASE step[v] = "registered" /\ step[w] = "registered"
    BY <2>1, <2>2 DEF HeldOK, Holds
  <2>3. CASE InsertDevice(v)
    <3>1. d \notin registered /\ step' = [step EXCEPT ![v] = "registered"]
      BY <2>1, <2>3 DEF InsertDevice, RegisterRow
    <3>2. step[w] # "registered"
      BY <2>1, <3>1 DEF HeldOK
    <3>. QED  BY <1>3, <3>1, <3>2 DEF Holds
  <2>4. CASE InsertDevice(w)
    <3>1. d \notin registered /\ step' = [step EXCEPT ![w] = "registered"]
      BY <2>1, <2>4 DEF InsertDevice, RegisterRow
    <3>2. step[v] # "registered"
      BY <2>1, <3>1 DEF HeldOK
    <3>. QED  BY <1>3, <3>1, <3>2 DEF Holds
  <2>. QED  BY <2>1, <2>2, <2>3, <2>4
<1>. QED  BY <1>2, <1>3 DEF HeldOK

(***************************************************************************)
(* Linking claims a row that no other grant has; otherwise approvals, keys *)
(* and rows stay.                                                          *)
(***************************************************************************)
LEMMA ApprovalStep ==
  ASSUME IInv, [Next]_vars
  PROVE  ApprovalOwnsRow'
<1>. TypeOK /\ HeldOK /\ FormOK /\ GrantOK /\ ApprovalOwnsRow
  BY DEF IInv
<1> USE DEF TypeOK, grantVars
<1>1. \A g \in Grant : approved[g] # NoDevice =>
        /\ approved'[g] = approved[g] /\ subject'[g] = subject[g]
        /\ approved[g] = subject[g] /\ approved[g] \in registered' \ raw'
  BY GrantsStay, RowsFrame DEF ApprovalOwnsRow
<1>2. CASE \A g \in Grant : approved[g] = NoDevice => approved'[g] = NoDevice
  BY <1>1, <1>2 DEF ApprovalOwnsRow
<1>3. CASE \E v \in Submission : LinkGrant(v)
  <2> PICK v \in Submission : LinkGrant(v)
    BY <1>3
  <2> DEFINE d == subject[form[v]]
  <2>1. /\ approved' = [approved EXCEPT ![form[v]] = d]
        /\ subject' = subject
        /\ step[v] = "registered"
    BY DEF LinkGrant
  <2>2. /\ d \in registered' \ raw'
        /\ \A g \in Grant : approved[g] # d
    BY <2>1, RowsFrame DEF HeldOK
  <2>. QED  BY <1>1, <2>1, <2>2 DEF ApprovalOwnsRow
<1>4. CASE Next
  BY <1>2, <1>3, <1>4, NextCases DEF DeviceCode, Expire, PollUntilApproved, GiveUp,
     RegisterDevice, RevokeDevice, FindGrant, AlreadyIssued, SignDeviceCsr, ApproveAgain,
     InsertDevice, InsertRefused, IssueCertificate, SubmissionFails
<1>. QED  BY <1>2, <1>4 DEF vars

(***************************************************************************)
(* Only IssueCertificate records a certificate, and LinkedDevice names the *)
(* consented grant behind it.                                              *)
(***************************************************************************)
LEMMA ConsentedStep ==
  ASSUME IInv, [Next]_vars
  PROVE  ConsentedOnly'
<1>. TypeOK /\ ConsentedOnly
  BY DEF IInv
<1>1. ASSUME NEW g \in consented, NEW d \in Device, subject[g] = d, approved[g] = d
      PROVE  g \in consented' /\ subject'[g] = d /\ approved'[g] = d
  BY <1>1, GrantsStay DEF TypeOK
<1>2. ASSUME NEW d \in Device, NEW s \in Serial, <<d, s>> \in minted'
      PROVE  \E g \in consented' : subject'[g] = d /\ approved'[g] = d
  <2>1. CASE <<d, s>> \in minted
    BY <1>1, <2>1 DEF ConsentedOnly
  <2>2. CASE <<d, s>> \notin minted
    <3>1. PICK v \in Submission : IssueCertificate(v)
      BY <1>2, <2>2, NextCases DEF vars, deviceVars, DeviceCode, Expire,
         PollUntilApproved, GiveUp, RegisterDevice, RegisterRow, RevokeDevice, RevokeRow,
         FindGrant, AlreadyIssued, SignDeviceCsr, ApproveAgain, InsertDevice,
         InsertRefused, LinkGrant, SubmissionFails
    <3>2. d = DeviceOf(v)
      BY <1>2, <2>2, <3>1 DEF IssueCertificate, RecordCertificate
    <3>. QED  BY <1>1, <3>1, <3>2, LinkedDevice DEF IssueCertificate
  <2>. QED  BY <2>1, <2>2
<1>. QED  BY <1>2 DEF ConsentedOnly

(***************************************************************************)
(* The poll hands out the serial of the grant's own device, and that is    *)
(* the device the CSR was for.                                             *)
(***************************************************************************)
LEMMA OwnStep ==
  ASSUME IInv, [Next]_vars
  PROVE  OwnCertificate'
<1>. TypeOK /\ OwnCertificate /\ minted \subseteq minted'
  BY RecordStep DEF IInv
<1> USE DEF TypeOK
<1>1. CASE held' = held
  BY <1>1 DEF OwnCertificate
<1>2. CASE \E g \in Grant : PollUntilApproved(g)
  <2> PICK g \in Grant : PollUntilApproved(g)
    BY <1>2
  <2>1. approved[g] # NoDevice /\ approved[g] = subject[g]
    BY DEF PollUntilApproved, IInv, ApprovalOwnsRow
  <2>2. <<subject[g], certSerial[approved[g]]>> \in minted
    BY <2>1 DEF PollUntilApproved, IInv, RecordOK
  <2>. QED  BY <2>2 DEF PollUntilApproved, OwnCertificate
<1>3. held' = held \/ \E g \in Grant : PollUntilApproved(g)
  BY NextCases DEF vars, clientVars, DeviceCode, Expire, GiveUp, RegisterDevice,
     RevokeDevice, FindGrant, AlreadyIssued, SignDeviceCsr, ApproveAgain, InsertDevice,
     InsertRefused, LinkGrant, IssueCertificate, SubmissionFails
<1>. QED  BY <1>1, <1>2, <1>3

-----------------------------------------------------------------------------
(* The theorems.                                                           *)

(***************************************************************************)
(* The invariant holds in every state enrolment reaches, however the       *)
(* submissions interleave and wherever they fail.                          *)
(***************************************************************************)
THEOREM EnrollmentInvariance == Spec => []IInv
<1>1. Init => IInv
  BY InitInvariant
<1>2. IInv /\ [Next]_vars => IInv'
  BY TypeStep, RecordStep, FormStep, SignedStep, GrantStep, HeldStep, ApprovalStep,
     ConsentedStep, OwnStep DEF IInv
<1>. QED  BY <1>1, <1>2, PTL DEF Spec

(***************************************************************************)
(* Type correctness of handle_device_code, handle_verify_submit and        *)
(* handle_device_token.                                                    *)
(***************************************************************************)
THEOREM EnrollmentTypes == Spec => []TypeOK
<1>1. IInv => TypeOK
  BY DEF IInv
<1>. QED  BY <1>1, EnrollmentInvariance, PTL

(***************************************************************************)
(* A device is only ever handed a certificate recorded on its own row      *)
(* (handle_device_token).                                                  *)
(***************************************************************************)
THEOREM DevicesGetTheirOwn == Spec => []OwnCertificate
<1>1. IInv => OwnCertificate
  BY DEF IInv
<1>. QED  BY <1>1, EnrollmentInvariance, PTL

(***************************************************************************)
(* Every recorded certificate goes back to a human who entered the code    *)
(* in time (handle_verify_submit).                                         *)
(***************************************************************************)
THEOREM NoCertificateWithoutConsent == Spec => []ConsentedOnly
<1>1. IInv => ConsentedOnly
  BY DEF IInv
<1>. QED  BY <1>1, EnrollmentInvariance, PTL

(***************************************************************************)
(* An approved grant owns a row its own approval made, and no other grant  *)
(* claims it (approve_grant).                                              *)
(***************************************************************************)
THEOREM ApprovalsOwnTheirRows == Spec => []ApprovalOwnsRow
<1>1. IInv => ApprovalOwnsRow
  BY DEF IInv
<1>. QED  BY <1>1, EnrollmentInvariance, PTL
=============================================================================
