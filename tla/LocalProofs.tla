------------------------------ MODULE LocalProofs ------------------------------
(***************************************************************************)
(* What a device keeps beside its store.  That processes which start       *)
(* together on one directory come back with one secret, and what is kept   *)
(* of the keys of private items and what a revocation takes away; what an  *)
(* index run leaves in index.db, what a session is shown of it, and when   *)
(* an item expires: proved for any processes, devices, items, texts, paths *)
(* and principals, and any number of crashes, changes, steps and days.     *)
(***************************************************************************)
EXTENDS SecretFiles, PrivateItems, StoreIndex, SessionContext, Calendar, TLAPS

-----------------------------------------------------------------------------
(* SecretFiles: secrets made on first use.                                 *)

HubSteps == {"ca", "ca-cert", "write ca-cert", "ca-key", "write ca-key"}
DeviceSteps == {"id", "identity", "write identity"}

SecretTypes ==
  /\ file \in [Files -> Int]
  /\ \A f \in Files : file[f] >= Missing
  /\ at \in [Starts -> {"off", "done"} \cup HubSteps \cup DeviceSteps]
  /\ \A p \in Starts : at[p] \in HubSteps => p \in HubStarts
  /\ \A p \in Starts : at[p] \in DeviceSteps => p \in DeviceStarts
  /\ fresh \in [Starts -> Nat]
  /\ \A p \in Starts : at[p] \notin {"off", "done"} => fresh[p] > 0
  /\ got \in [Starts -> Int]
  /\ attempts \in Nat

\* Who is to write a file has made it, empty, and is the only one.
OneWriter ==
  \A f \in Files : \A p \in Starts : at[p] = Writing[f] =>
    /\ file[f] = NoSecret
    /\ \A q \in Starts : at[q] = Writing[f] => q = p

\* Who goes on to the key file has written its own secret into the certificate.
CertFirst ==
  \A p \in Starts : at[p] \in {"ca-key", "write ca-key"} => file["ca-cert"] = fresh[p]

\* Whoever has come back with a secret has it from the files.
OnFile ==
  /\ \A p \in HubStarts : got[p] > 0 => file["ca-cert"] = got[p] /\ file["ca-key"] = got[p]
  /\ \A p \in DeviceStarts : got[p] > 0 => file["identity"] = got[p]

SecretInv == SecretTypes /\ OneWriter /\ CertFirst /\ OnFile

-----------------------------------------------------------------------------

LEMMA WritingSteps ==
  /\ Writing["ca-cert"] = "write ca-cert"
  /\ Writing["ca-key"] = "write ca-key"
  /\ Writing["identity"] = "write identity"
  BY DEF Writing, Files

\* Each file is written at a step of its own, at which nothing else is done.
LEMMA WritingApart ==
  ASSUME NEW f \in Files
  PROVE  /\ \A h \in Files : Writing[f] = Writing[h] => f = h
         /\ \A h \in Files : Writing[f] # h
         /\ Writing[f] \notin {"off", "done", "ca", "id"}
  BY WritingSteps DEF Files

LEMMA SecretBegins == SecretInit => SecretInv
<1> SUFFICES ASSUME SecretInit PROVE SecretInv
  OBVIOUS
<1>1. \A p \in Starts : at[p] = "off" /\ fresh[p] = 0 /\ got[p] = 0
  BY DEF SecretInit, NoSecret
<1>2. SecretTypes
  BY <1>1 DEF SecretInit, SecretTypes, HubSteps, DeviceSteps, Missing, NoSecret
<1>3. OneWriter
  BY <1>1, WritingApart DEF OneWriter
<1>4. CertFirst
  BY <1>1 DEF CertFirst
<1>5. OnFile
  <2>1. \A p \in Starts : ~(got[p] > 0)
    BY <1>1
  <2> QED BY <2>1 DEF OnFile, Starts
<1> QED BY <1>2, <1>3, <1>4, <1>5 DEF SecretInv

\* Nobody is at the key file before the certificate holds a secret.
LEMMA NoKeyYet ==
  ASSUME SecretInv, ~(file["ca-cert"] > 0)
  PROVE  \A q \in Starts : at[q] \notin {"ca-key", "write ca-key"}
<1> SUFFICES ASSUME NEW q \in Starts, at[q] \in {"ca-key", "write ca-key"} PROVE FALSE
  OBVIOUS
<1>1. fresh[q] > 0
  BY DEF SecretInv, SecretTypes
<1>2. file["ca-cert"] = fresh[q]
  BY DEF SecretInv, CertFirst
<1> QED BY <1>1, <1>2

LEMMA FailedIsNone == Failed \in Int /\ ~(Failed > 0)
  BY DEF Failed

\* A process goes to its next step, and nothing else of it changes.
LEMMA Moved ==
  ASSUME SecretTypes, NEW p \in Starts, NEW s, at' = [at EXCEPT ![p] = s]
  PROVE  at'[p] = s /\ \A q \in Starts : q # p => at'[q] = at[q]
  BY DEF SecretTypes

\* Steps that touch no file: the process moves, and has what it had or a new answer.
LEMMA FilesStay ==
  ASSUME SecretInv, HubStarts \cap DeviceStarts = {}, NEW p \in Starts,
         NEW s \in {"off", "done", "ca-cert", "identity"}, at' = [at EXCEPT ![p] = s],
         UNCHANGED <<file, fresh, attempts>>,
         s = "ca-cert" => p \in HubStarts /\ fresh[p] > 0,
         s = "identity" => p \in DeviceStarts /\ fresh[p] > 0,
         NEW g \in Int, got' = [got EXCEPT ![p] = g],
         g > 0 /\ p \in HubStarts => file["ca-cert"] = g /\ file["ca-key"] = g,
         g > 0 /\ p \in DeviceStarts => file["identity"] = g
  PROVE  SecretInv'
<1> USE DEF SecretInv
<1>1. at'[p] = s /\ \A q \in Starts : q # p => at'[q] = at[q]
  BY Moved
<1>2. SecretTypes'
  BY <1>1 DEF SecretTypes, HubSteps, DeviceSteps, Starts
<1>3. OneWriter'
  BY <1>1, WritingApart DEF OneWriter, Files
<1>4. CertFirst'
  BY <1>1 DEF CertFirst
<1>5. got'[p] = g /\ \A q \in Starts : q # p => got'[q] = got[q]
  BY DEF SecretTypes
<1>6. OnFile'
  BY <1>5 DEF OnFile, Starts
<1> QED BY <1>2, <1>3, <1>4, <1>6

LEMMA SecretStep ==
  ASSUME SecretInv, HubStarts \cap DeviceStarts = {}, [SecretNext]_secretVars
  PROVE  SecretInv'
<1> USE DEF SecretInv
<1>1. ASSUME NEW p \in Starts, Launch(p) PROVE SecretInv'
  <2> DEFINE s == IF p \in HubStarts THEN "ca" ELSE "id"
  <2>1. at'[p] = s /\ \A q \in Starts : q # p => at'[q] = at[q]
    BY <1>1, Moved DEF Launch
  <2>2. fresh'[p] > 0 /\ \A q \in Starts : q # p => fresh'[q] = fresh[q]
    BY <1>1 DEF Launch, SecretTypes
  <2>3. SecretTypes'
    <3>1. at' \in [Starts -> {"off", "done"} \cup HubSteps \cup DeviceSteps]
      <4>1. CASE p \in HubStarts
        BY <1>1, <4>1 DEF Launch, SecretTypes, HubSteps, DeviceSteps
      <4>2. CASE p \notin HubStarts
        BY <1>1, <4>2 DEF Launch, SecretTypes, HubSteps, DeviceSteps
      <4> QED BY <4>1, <4>2
    <3>2. \A q \in Starts : (at'[q] \in HubSteps => q \in HubStarts)
                          /\ (at'[q] \in DeviceSteps => q \in DeviceStarts)
      BY <2>1 DEF SecretTypes, HubSteps, DeviceSteps, Starts
    <3>3. \A q \in Starts : at'[q] \notin {"off", "done"} => fresh'[q] > 0
      BY <2>1, <2>2 DEF SecretTypes
    <3> QED BY <1>1, <3>1, <3>2, <3>3 DEF Launch, SecretTypes, NoSecret
  <2>4. OneWriter'
    BY <1>1, <2>1, WritingApart DEF Launch, OneWriter
  <2>5. CertFirst'
    <3>1. at'[p] \notin {"ca-key", "write ca-key"}
      BY <2>1
    <3> QED BY <1>1, <2>1, <2>2, <3>1 DEF Launch, CertFirst
  <2>6. OnFile'
    BY <1>1 DEF Launch, OnFile, SecretTypes, Starts, NoSecret
  <2> QED BY <2>3, <2>4, <2>5, <2>6
<1>2. ASSUME NEW p \in Starts, EnsureRoot(p) PROVE SecretInv'
  <2>1. p \in HubStarts /\ p \notin DeviceStarts /\ fresh[p] > 0
    BY <1>2 DEF EnsureRoot, SecretTypes, HubSteps
  <2>2. CASE Whole
    <3> DEFINE g == IF file["ca-key"] = NoSecret \/ file["ca-cert"] # file["ca-key"]
                    THEN Failed ELSE file["ca-key"]
    <3>1. g \in Int /\ (g > 0 => file["ca-cert"] = g /\ file["ca-key"] = g)
      BY DEF SecretTypes, Files, Failed
    <3>2. at' = [at EXCEPT ![p] = "done"] /\ got' = [got EXCEPT ![p] = g]
      BY <1>2, <2>2 DEF EnsureRoot, Return
    <3> HIDE DEF g
    <3> QED BY <1>2, <2>1, <3>1, <3>2, FilesStay DEF EnsureRoot
  <2>3. CASE ~Whole /\ None
    <3>1. at' = [at EXCEPT ![p] = "ca-cert"] /\ got' = [got EXCEPT ![p] = got[p]]
      BY <1>2, <2>3 DEF EnsureRoot, SecretTypes
    <3>2. got[p] \in Int /\ (got[p] > 0 => file["ca-cert"] = got[p] /\ file["ca-key"] = got[p])
      BY <2>1 DEF SecretTypes, OnFile
    <3> QED BY <1>2, <2>1, <3>1, <3>2, FilesStay DEF EnsureRoot
  <2>4. CASE ~Whole /\ ~None
    <3>1. at' = [at EXCEPT ![p] = "done"] /\ got' = [got EXCEPT ![p] = Failed]
      BY <1>2, <2>4 DEF EnsureRoot, Return
    <3> QED BY <1>2, <2>1, <3>1, FilesStay, FailedIsNone DEF EnsureRoot
  <2> QED BY <2>2, <2>3, <2>4
<1>3. ASSUME NEW p \in Starts, EnsureIdentity(p) PROVE SecretInv'
  <2>1. p \in DeviceStarts /\ p \notin HubStarts /\ fresh[p] > 0
    BY <1>3 DEF EnsureIdentity, SecretTypes, DeviceSteps
  <2>2. CASE Exists("identity")
    <3> DEFINE g == IF file["identity"] = NoSecret THEN Failed ELSE file["identity"]
    <3>1. g \in Int /\ (g > 0 => file["identity"] = g)
      BY DEF SecretTypes, Files, Failed
    <3>2. at' = [at EXCEPT ![p] = "done"] /\ got' = [got EXCEPT ![p] = g]
      BY <1>3, <2>2 DEF EnsureIdentity, Return
    <3> HIDE DEF g
    <3> QED BY <1>3, <2>1, <3>1, <3>2, FilesStay DEF EnsureIdentity
  <2>3. CASE ~Exists("identity")
    <3>1. at' = [at EXCEPT ![p] = "identity"] /\ got' = [got EXCEPT ![p] = got[p]]
      BY <1>3, <2>3 DEF EnsureIdentity, SecretTypes
    <3>2. got[p] \in Int /\ (got[p] > 0 => file["identity"] = got[p])
      BY <2>1 DEF SecretTypes, OnFile
    <3> QED BY <1>3, <2>1, <3>1, <3>2, FilesStay DEF EnsureIdentity
  <2> QED BY <2>2, <2>3
<1>4. ASSUME NEW p \in Starts, Exit(p) \/ Die(p) PROVE SecretInv'
  <2>1. at' = [at EXCEPT ![p] = "off"] /\ got' = [got EXCEPT ![p] = got[p]]
    BY <1>4 DEF Exit, Die, SecretTypes
  <2>2. /\ got[p] \in Int
        /\ got[p] > 0 /\ p \in HubStarts => file["ca-cert"] = got[p] /\ file["ca-key"] = got[p]
        /\ got[p] > 0 /\ p \in DeviceStarts => file["identity"] = got[p]
    BY DEF SecretTypes, OnFile
  <2> QED BY <1>4, <2>1, <2>2, FilesStay DEF Exit, Die
<1>5. ASSUME NEW p \in Starts, NEW f \in Files, CreateFile(p, f) PROVE SecretInv'
  <2>1. CASE MayCreate(f)
    <3>1. at'[p] = Writing[f] /\ \A q \in Starts : q # p => at'[q] = at[q]
      BY <1>5, <2>1, Moved DEF CreateFile
    <3>2. file[f] = Missing /\ file' = [file EXCEPT ![f] = NoSecret]
      BY <1>5, <2>1 DEF CreateFile, MayCreate, Exists
    <3>3. at[p] = f /\ UNCHANGED <<got, fresh, attempts>>
      BY <1>5, <2>1 DEF CreateFile
    <3>4. SecretTypes'
      <4>1. at' \in [Starts -> {"off", "done"} \cup HubSteps \cup DeviceSteps]
        <5>1. at' = [at EXCEPT ![p] = Writing[f]]
          BY <1>5, <2>1 DEF CreateFile
        <5>2. Writing[f] \in {"off", "done"} \cup HubSteps \cup DeviceSteps
          BY WritingSteps DEF Files, HubSteps, DeviceSteps
        <5> QED BY <5>1, <5>2 DEF SecretTypes
      <4>2. \A q \in Starts : (at'[q] \in HubSteps => q \in HubStarts)
                            /\ (at'[q] \in DeviceSteps => q \in DeviceStarts)
        BY <3>1, <3>3, WritingSteps DEF SecretTypes, Files, HubSteps, DeviceSteps
      <4>3. \A q \in Starts : at'[q] \notin {"off", "done"} => fresh'[q] > 0
        BY <3>1, <3>3 DEF SecretTypes, Files
      <4>4. file' \in [Files -> Int] /\ \A h \in Files : file'[h] >= Missing
        BY <3>2 DEF SecretTypes, Missing, NoSecret
      <4> QED BY <3>3, <4>1, <4>2, <4>3, <4>4 DEF SecretTypes
    <3>5. \A q \in Starts : at[q] # Writing[f]
      BY <3>2 DEF OneWriter, Missing, NoSecret
    <3>6. OneWriter'
      BY <3>1, <3>2, <3>3, <3>5, WritingApart DEF OneWriter, SecretTypes
    <3>7. CertFirst'
      <4>1. CASE f = "ca-cert"
        <5>0. ~(file["ca-cert"] > 0)
          BY <3>2, <4>1 DEF Missing
        <5>1. \A q \in Starts : at[q] \notin {"ca-key", "write ca-key"}
          BY <5>0, NoKeyYet
        <5> QED BY <3>1, <4>1, <5>1, WritingSteps DEF CertFirst
      <4>2. CASE f # "ca-cert"
        <5>1. file'["ca-cert"] = file["ca-cert"]
          BY <3>2, <4>2 DEF SecretTypes, Files
        <5>2. \A q \in Starts : at'[q] \in {"ca-key", "write ca-key"} => at[q] \in {"ca-key", "write ca-key"}
          BY <3>1, <3>3, WritingSteps DEF Files
        <5> QED BY <3>3, <5>1, <5>2 DEF CertFirst
      <4> QED BY <4>1, <4>2
    <3>8. OnFile'
      BY <3>2, <3>3 DEF OnFile, SecretTypes, Files, Missing, Starts
    <3> QED BY <3>4, <3>6, <3>7, <3>8
  <2>2. CASE ~MayCreate(f)
    <3>1. at' = [at EXCEPT ![p] = "done"] /\ got' = [got EXCEPT ![p] = Failed]
      BY <1>5, <2>2 DEF CreateFile, Return
    <3> QED BY <1>5, <2>2, <3>1, FilesStay, FailedIsNone DEF CreateFile
  <2> QED BY <2>1, <2>2
<1>6. ASSUME NEW p \in Starts, NEW f \in Files, WriteFile(p, f) PROVE SecretInv'
  <2>1. at[p] = Writing[f] /\ file[f] = NoSecret /\ UNCHANGED <<fresh, attempts>>
    BY <1>6 DEF WriteFile, OneWriter
  <2>2. file' = [file EXCEPT ![f] = fresh[p]] /\ fresh[p] > 0
    BY <1>6, <2>1, WritingApart DEF WriteFile, SecretTypes
  <2>3. \A q \in Starts : q # p => at[q] # Writing[f]
    BY <2>1 DEF OneWriter
  <2> DEFINE s == IF f = "ca-cert" THEN "ca-key" ELSE "done"
             g == IF f = "ca-cert" THEN got[p] ELSE fresh[p]
  <2>4. at' = [at EXCEPT ![p] = s] /\ got' = [got EXCEPT ![p] = g]
    BY <1>6 DEF WriteFile, Return, SecretTypes
  <2>5. at'[p] = s /\ \A q \in Starts : q # p => at'[q] = at[q]
    BY <2>4, Moved
  <2>6. got'[p] = g /\ \A q \in Starts : q # p => got'[q] = got[q]
    BY <2>4 DEF SecretTypes
  <2>7. SecretTypes'
    <3>1. at' \in [Starts -> {"off", "done"} \cup HubSteps \cup DeviceSteps]
      BY <2>4 DEF SecretTypes, HubSteps
    <3>2. \A q \in Starts : (at'[q] \in HubSteps => q \in HubStarts)
                          /\ (at'[q] \in DeviceSteps => q \in DeviceStarts)
      BY <2>1, <2>5, WritingSteps DEF SecretTypes, HubSteps, DeviceSteps
    <3>3. \A q \in Starts : at'[q] \notin {"off", "done"} => fresh'[q] > 0
      BY <2>1, <2>2, <2>5 DEF SecretTypes
    <3>4. file' \in [Files -> Int] /\ \A h \in Files : file'[h] >= Missing
      BY <2>2 DEF SecretTypes, Missing
    <3>5. got' \in [Starts -> Int]
      BY <2>4 DEF SecretTypes
    <3> QED BY <2>1, <3>1, <3>2, <3>3, <3>4, <3>5 DEF SecretTypes
  <2>8. OneWriter'
    BY <2>1, <2>2, <2>3, <2>5, WritingApart DEF OneWriter, Files, SecretTypes
  <2>9. CertFirst'
    <3>1. CASE f = "ca-cert"
      <4>0. ~(file["ca-cert"] > 0)
        BY <2>1, <3>1 DEF NoSecret
      <4>1. \A q \in Starts : at[q] \notin {"ca-key", "write ca-key"}
        BY <4>0, NoKeyYet
      <4>2. file'["ca-cert"] = fresh[p]
        BY <2>2, <3>1 DEF SecretTypes, Files
      <4> QED BY <2>1, <2>5, <4>1, <4>2 DEF CertFirst
    <3>2. CASE f # "ca-cert"
      <4>1. file'["ca-cert"] = file["ca-cert"]
        BY <2>2, <3>2 DEF SecretTypes, Files
      <4> QED BY <2>1, <2>5, <3>2, <4>1 DEF CertFirst
    <3> QED BY <3>1, <3>2
  <2>10. OnFile'
    <3>1. CASE f = "identity"
      <4>1. p \in DeviceStarts /\ p \notin HubStarts
        BY <2>1, <3>1, WritingSteps DEF SecretTypes, DeviceSteps
      <4>2. /\ file'["identity"] = fresh[p] /\ file'["ca-cert"] = file["ca-cert"]
            /\ file'["ca-key"] = file["ca-key"]
        BY <2>2, <3>1 DEF SecretTypes, Files
      <4>3. \A q \in DeviceStarts : ~(got[q] > 0)
        BY <2>1, <3>1 DEF OnFile, NoSecret
      <4> QED BY <2>6, <3>1, <4>1, <4>2, <4>3 DEF OnFile, Starts
    <3>2. CASE f = "ca-cert"
      <4>1. \A q \in HubStarts : ~(got[q] > 0)
        BY <2>1, <3>2 DEF OnFile, NoSecret
      <4>2. got' = got
        BY <2>4, <3>2 DEF SecretTypes
      <4>3. file'["identity"] = file["identity"]
        BY <2>2, <3>2 DEF SecretTypes, Files
      <4> QED BY <4>1, <4>2, <4>3 DEF OnFile
    <3>3. CASE f = "ca-key"
      <4>1. p \in HubStarts /\ p \notin DeviceStarts /\ file["ca-cert"] = fresh[p]
        BY <2>1, <3>3, WritingSteps DEF SecretTypes, HubSteps, CertFirst
      <4>2. /\ file'["identity"] = file["identity"] /\ file'["ca-cert"] = file["ca-cert"]
            /\ file'["ca-key"] = fresh[p]
        BY <2>2, <3>3 DEF SecretTypes, Files
      <4>3. \A q \in HubStarts : ~(got[q] > 0)
        BY <2>1, <3>3 DEF OnFile, NoSecret
      <4> QED BY <2>6, <3>3, <4>1, <4>2, <4>3 DEF OnFile, Starts
    <3> QED BY <3>1, <3>2, <3>3 DEF Files
  <2> QED BY <2>7, <2>8, <2>9, <2>10
<1>7. CASE UNCHANGED secretVars
  BY <1>7 DEF secretVars, SecretTypes, OneWriter, CertFirst, OnFile
<1> QED
  BY <1>1, <1>2, <1>3, <1>4, <1>5, <1>6, <1>7 DEF SecretNext

(***************************************************************************)
(* All starts of the hub on one directory, and all of wkp on one store,    *)
(* that come back with a secret come back with the same, which is what     *)
(* the files hold (HubCa::ensure, file_fallback::ensure): for any number   *)
(* of processes, attempts and crashes.                                     *)
(***************************************************************************)
THEOREM SecretsAreOne ==
  ASSUME HubStarts \cap DeviceStarts = {}
  PROVE  SecretSpec => []OneSecret
<1>1. SecretInit => SecretInv
  BY SecretBegins
<1>2. SecretInv /\ [SecretNext]_secretVars => SecretInv'
  BY SecretStep
<1>3. SecretInv => OneSecret
  BY DEF SecretInv, OnFile, OneSecret
<1> QED
  BY <1>1, <1>2, <1>3, PTL DEF SecretSpec

-----------------------------------------------------------------------------
(* PrivateItems: the keys of the devices.                                  *)

Vaults == [keystore : Nat, fallback : Nat, up : BOOLEAN]
RecipientFiles == SUBSET (Members \X Nat)
Forgettings ==
  {NotForgetting} \cup [on : {TRUE}, denied : SUBSET Members, paths : SUBSET PrivatePaths]

PrivateTypes ==
  /\ vault \in [Members -> Vaults] /\ keys \in Nat
  /\ listed \in [Members -> RecipientFiles] /\ listedAt \in [Members -> RecipientFiles]
  /\ shared \in RecipientFiles
  /\ blob \in [PrivatePaths -> SUBSET Nat]
  /\ newest \in SUBSET Members
  /\ forgetting \in [Members -> Forgettings]
  /\ revoked \in SUBSET Members

KeysOf(d) == {vault[d].keystore, vault[d].fallback} \ {NoKey}

\* A device has its keys to itself, and new ones are new.
OwnKeys ==
  /\ \A d \in Members : \A k \in KeysOf(d) : k <= keys
  /\ \A d, e \in Members : d # e => KeysOf(d) \cap KeysOf(e) = {}

\* A recipient is a key of the device it is labelled with, and what anything is
\* encrypted to is a key of some device.
KeysAreLabelled ==
  /\ \A d \in Members : \A r \in listed[d] \cup listedAt[d] : r[2] \in KeysOf(r[1])
  /\ \A r \in shared : r[2] \in KeysOf(r[1])
  /\ \A i \in PrivatePaths : \A k \in blob[i] : \E d \in Members : k \in KeysOf(d)

\* Only the device itself adds its label; the others have it from the history.
OwnLabels ==
  /\ \A d \in newest : listedAt[d] = shared
  /\ \A d, l \in Members : l # d /\ l \in Labels(listed[d]) => l \in Labels(listedAt[d])
  /\ \A l \in Labels(shared) : l \in Labels(listedAt[l])

\* A label that is out of the history and that its device would not bring back:
\* it is not registering anew.
Gone(l) == l \notin Labels(shared) /\ (l \in Labels(listed[l]) => l \in Labels(listedAt[l]))

\* The label a revocation under way has taken out of its recipients file stays out.
DeniedStayOut ==
  \A d \in Members : forgetting[d].on =>
    \A l \in forgetting[d].denied :
      /\ l \notin Labels(listed[d])
      /\ l # d => l \in Labels(listedAt[d]) \/ Gone(l)

RevokedAreOut ==
  \A l \in revoked :
    /\ Gone(l)
    /\ \A i \in PrivatePaths \ skipped : blob[i] \cap KeysOf(l) = {}

PrivateInv ==
  PrivateTypes /\ OwnKeys /\ KeysAreLabelled /\ OwnLabels /\ DeniedStayOut /\ RevokedAreOut

-----------------------------------------------------------------------------
(* Recipients files and keys.                                              *)

LEMMA LabelsOf ==
  ASSUME NEW S, NEW l
  PROVE  /\ \A k : Labels(S \cup {<<l, k>>}) = Labels(S) \cup {l}
         /\ Labels(WithoutLabel(S, l)) = Labels(S) \ {l}
         /\ WithoutLabel(S, l) \subseteq S
<1>1. ASSUME NEW k PROVE Labels(S \cup {<<l, k>>}) = Labels(S) \cup {l}
  <2>1. <<l, k>>[1] = l
    OBVIOUS
  <2>2. ASSUME NEW x \in Labels(S \cup {<<l, k>>}) PROVE x \in Labels(S) \cup {l}
    BY <2>1 DEF Labels
  <2>3. ASSUME NEW x \in Labels(S) \cup {l} PROVE x \in Labels(S \cup {<<l, k>>})
    <3>1. <<l, k>>[1] \in Labels(S \cup {<<l, k>>})
      BY DEF Labels
    <3>2. CASE x \in Labels(S)
      BY <3>2 DEF Labels
    <3> QED BY <2>1, <3>1, <3>2
  <2> QED BY <2>2, <2>3
<1>2. Labels(WithoutLabel(S, l)) = Labels(S) \ {l}
  BY DEF Labels, WithoutLabel
<1> QED BY <1>1, <1>2 DEF WithoutLabel

LEMMA LabelsAreMembers ==
  ASSUME NEW S \in RecipientFiles
  PROVE  Labels(S) \subseteq Members /\ Recipients(S) \subseteq Nat
  BY DEF RecipientFiles, Labels, Recipients

\* The identity a device obtains is one of its keys from then on; it loses none,
\* and a key it did not have is one nobody had.
LEMMA Ensured ==
  ASSUME PrivateTypes, NEW d \in Members, EnsureDevice(d)
  PROVE  /\ vault' \in [Members -> Vaults] /\ keys' \in Nat /\ Identity(d) \in Nat
         /\ keys <= keys' /\ Identity(d) \in KeysOf(d)'
         /\ \A e \in Members \ {d} : KeysOf(e)' = KeysOf(e)
         /\ KeysOf(d) \subseteq KeysOf(d)'
         /\ \A k \in KeysOf(d)' \ KeysOf(d) : k = keys + 1 /\ keys' = keys + 1
<1> DEFINE v == vault[d]
<1>1. v \in Vaults /\ keys \in Nat
  BY DEF PrivateTypes
<1>2. vault' = [vault EXCEPT ![d][Place(d)] = Identity(d)]
  BY DEF EnsureDevice
<1>3. CASE Kept(d)
  <2>1. Identity(d) = v[Place(d)] /\ keys' = keys /\ v[Place(d)] # NoKey
    BY <1>3 DEF Identity, EnsureDevice, Kept
  <2>2. vault' = vault
    <3>1. CASE vault[d].up
      <4>1. Place(d) = "keystore" /\ Identity(d) = v.keystore
        BY <2>1, <3>1 DEF Place
      <4>2. [v EXCEPT !.keystore = v.keystore] = v
        BY <1>1 DEF Vaults
      <4> QED BY <1>2, <4>1, <4>2 DEF PrivateTypes
    <3>2. CASE ~vault[d].up
      <4>1. Place(d) = "fallback" /\ Identity(d) = v.fallback
        BY <2>1, <3>2 DEF Place
      <4>2. [v EXCEPT !.fallback = v.fallback] = v
        BY <1>1 DEF Vaults
      <4> QED BY <1>2, <4>1, <4>2 DEF PrivateTypes
    <3> QED BY <3>1, <3>2
  <2>3. Identity(d) \in KeysOf(d) /\ Identity(d) \in Nat
    BY <1>1, <2>1 DEF Place, KeysOf, Vaults
  <2> QED BY <1>1, <2>1, <2>2, <2>3 DEF PrivateTypes, KeysOf
<1>4. CASE ~Kept(d)
  <2>1. Identity(d) = keys + 1 /\ keys' = keys + 1 /\ v[Place(d)] = NoKey
    BY <1>4 DEF Identity, EnsureDevice, Kept
  <2>2. CASE vault[d].up
    <3>1. Place(d) = "keystore" /\ v.keystore = NoKey
      BY <2>1, <2>2 DEF Place
    <3>2. vault' = [vault EXCEPT ![d] = [v EXCEPT !.keystore = keys + 1]]
      BY <1>2, <2>1, <3>1
    <3>3. /\ [v EXCEPT !.keystore = keys + 1] \in Vaults
          /\ [v EXCEPT !.keystore = keys + 1].keystore = keys + 1
          /\ [v EXCEPT !.keystore = keys + 1].fallback = v.fallback
      BY <1>1 DEF Vaults
    <3>4. /\ vault' \in [Members -> Vaults]
          /\ vault'[d].keystore = keys + 1 /\ vault'[d].fallback = v.fallback
          /\ \A e \in Members \ {d} : vault'[e] = vault[e]
      BY <3>2, <3>3 DEF PrivateTypes
    <3> QED BY <1>1, <2>1, <3>1, <3>4 DEF KeysOf, NoKey
  <2>3. CASE ~vault[d].up
    <3>1. Place(d) = "fallback" /\ v.fallback = NoKey
      BY <2>1, <2>3 DEF Place
    <3>2. vault' = [vault EXCEPT ![d] = [v EXCEPT !.fallback = keys + 1]]
      BY <1>2, <2>1, <3>1
    <3>3. /\ [v EXCEPT !.fallback = keys + 1] \in Vaults
          /\ [v EXCEPT !.fallback = keys + 1].fallback = keys + 1
          /\ [v EXCEPT !.fallback = keys + 1].keystore = v.keystore
      BY <1>1 DEF Vaults
    <3>4. /\ vault' \in [Members -> Vaults]
          /\ vault'[d].fallback = keys + 1 /\ vault'[d].keystore = v.keystore
          /\ \A e \in Members \ {d} : vault'[e] = vault[e]
      BY <3>2, <3>3 DEF PrivateTypes
    <3> QED BY <1>1, <2>1, <3>1, <3>4 DEF KeysOf, NoKey
  <2> QED BY <2>2, <2>3
<1> QED BY <1>3, <1>4

LEMMA KeystoreTurned ==
  ASSUME PrivateTypes, NEW d \in Members, vault' = [vault EXCEPT ![d].up = ~@]
  PROVE  vault' \in [Members -> Vaults] /\ \A e \in Members : KeysOf(e)' = KeysOf(e)
<1>1. \A e \in Members : vault[e] \in Vaults
  BY DEF PrivateTypes
<1>2. /\ [vault[d] EXCEPT !.up = ~@] \in Vaults
      /\ [vault[d] EXCEPT !.up = ~@].keystore = vault[d].keystore
      /\ [vault[d] EXCEPT !.up = ~@].fallback = vault[d].fallback
  BY <1>1 DEF Vaults
<1>3. /\ vault'[d] = [vault[d] EXCEPT !.up = ~@]
      /\ \A e \in Members \ {d} : vault'[e] = vault[e]
  BY DEF PrivateTypes
<1>4. vault' \in [Members -> Vaults]
  BY <1>1, <1>2 DEF PrivateTypes
<1> QED BY <1>2, <1>3, <1>4 DEF KeysOf

\* What new keys leave as it is.
KeysGrow ==
  /\ \A e \in Members : KeysOf(e) \subseteq KeysOf(e)'
  /\ \A e \in Members : \A k \in KeysOf(e)' \ KeysOf(e) : k > keys

LEMMA KeysGrown ==
  ASSUME PrivateTypes, OwnKeys, NEW d \in Members,
         EnsureDevice(d) \/ (keys' = keys /\ (vault' = vault \/ vault' = [vault EXCEPT ![d].up = ~@]))
  PROVE  OwnKeys' /\ KeysGrow
<1>0. keys \in Nat
  BY DEF PrivateTypes
<1>t. \A e \in Members : KeysOf(e) \in SUBSET Nat
  BY DEF PrivateTypes, Vaults, KeysOf
<1>1. CASE EnsureDevice(d)
  <2>1. /\ keys' \in Nat /\ keys <= keys'
        /\ \A e \in Members \ {d} : KeysOf(e)' = KeysOf(e)
        /\ KeysOf(d) \subseteq KeysOf(d)'
        /\ \A k \in KeysOf(d)' \ KeysOf(d) : k = keys + 1 /\ keys' = keys + 1
    BY <1>1, Ensured
  <2>2. KeysGrow
    BY <1>0, <2>1 DEF KeysGrow
  <2>3. \A e \in Members : \A k \in KeysOf(e)' : k <= keys'
    BY <1>0, <1>t, <2>1 DEF OwnKeys
  <2>4. ASSUME NEW e \in Members, NEW f \in Members, e # f, NEW k \in KeysOf(e)', k \in KeysOf(f)'
        PROVE  FALSE
    BY <1>0, <1>t, <2>1, <2>4 DEF OwnKeys
  <2> QED BY <2>2, <2>3, <2>4 DEF OwnKeys
<1>2. CASE keys' = keys /\ (vault' = vault \/ vault' = [vault EXCEPT ![d].up = ~@])
  <2>1. \A e \in Members : KeysOf(e)' = KeysOf(e)
    BY <1>2, KeystoreTurned DEF KeysOf
  <2> QED BY <1>2, <2>1 DEF OwnKeys, KeysGrow
<1> QED BY <1>1, <1>2

-----------------------------------------------------------------------------
(* Types.                                                                  *)

LEMMA ForgettingTyped ==
  ASSUME PrivateTypes, NEW d \in Members, NEW l \in Members, forgetting[d].on
  PROVE  /\ forgetting[d].denied \in SUBSET Members /\ forgetting[d].paths \in SUBSET PrivatePaths
         /\ [forgetting[d] EXCEPT !.denied = @ \ {l}] \in Forgettings
         /\ [forgetting[d] EXCEPT !.denied = @ \ {l}].on
         /\ [forgetting[d] EXCEPT !.denied = @ \ {l}].denied = forgetting[d].denied \ {l}
<1>1. forgetting[d] \in [on : {TRUE}, denied : SUBSET Members, paths : SUBSET PrivatePaths]
  <2>1. forgetting[d] \in Forgettings
    BY DEF PrivateTypes
  <2>2. forgetting[d] # NotForgetting
    BY DEF NotForgetting
  <2> QED BY <2>1, <2>2 DEF Forgettings
<1> QED BY <1>1 DEF Forgettings

LEMMA PrivateTypesStep ==
  ASSUME PrivateTypes, [PrivateNext]_privateVars
  PROVE  PrivateTypes'
<1>not. NotForgetting \in Forgettings
  BY DEF Forgettings
<1>0. CASE UNCHANGED privateVars
  BY <1>0 DEF privateVars, PrivateTypes
<1>1. ASSUME NEW d \in Members, KeystoreTurns(d) PROVE PrivateTypes'
  <2>1. vault' \in [Members -> Vaults]
    BY <1>1, KeystoreTurned DEF KeystoreTurns
  <2> QED BY <1>1, <2>1 DEF KeystoreTurns, PrivateTypes
<1>2. ASSUME NEW d \in Members, RegisterDevice(d) PROVE PrivateTypes'
  <2>1. vault' \in [Members -> Vaults] /\ keys' \in Nat /\ Identity(d) \in Nat
    BY <1>2, Ensured DEF RegisterDevice
  <2>2. listed' \in [Members -> RecipientFiles]
    <3>1. listed[d] \cup {<<d, Identity(d)>>} \in RecipientFiles
      BY <2>1 DEF PrivateTypes, RecipientFiles
    <3> QED BY <1>2, <3>1 DEF RegisterDevice, PrivateTypes
  <2>3. forgetting' \in [Members -> Forgettings]
    BY <1>2, <1>not, ForgettingTyped DEF RegisterDevice
  <2> QED BY <1>2, <2>1, <2>2, <2>3 DEF RegisterDevice, PrivateTypes
<1>3. ASSUME NEW d \in Members, CommitRecipients(d) PROVE PrivateTypes'
  BY <1>3 DEF CommitRecipients, PrivateTypes
<1>4. ASSUME NEW d \in Members, NEW i \in PrivatePaths, CommitPrivate(d, i) PROVE PrivateTypes'
  <2>1. Recipients(listed[d]) \in SUBSET Nat
    BY LabelsAreMembers DEF PrivateTypes
  <2> QED BY <1>4, <2>1 DEF CommitPrivate, PrivateTypes
<1>5. ASSUME NEW d \in Members, Pull(d) PROVE PrivateTypes'
  <2>1. vault' \in [Members -> Vaults] /\ keys' \in Nat
    BY <1>5, Ensured DEF Pull, PrivateTypes
  <2>2. listed' \in [Members -> RecipientFiles] /\ listedAt' \in [Members -> RecipientFiles]
    BY <1>5 DEF Pull, PrivateTypes
  <2>3. newest' \in SUBSET Members
    BY <1>5 DEF Pull, PrivateTypes
  <2> QED BY <1>5, <2>1, <2>2, <2>3 DEF Pull, PrivateTypes
<1>6. ASSUME NEW d \in Members, NEW l \in Members, ForgetDevice(d, l) PROVE PrivateTypes'
  <2>1. WithoutLabel(listed[d], l) \in RecipientFiles
    BY DEF WithoutLabel, PrivateTypes, RecipientFiles
  <2>2. [on |-> TRUE, denied |-> {l}, paths |-> {i \in PrivatePaths : work[d][i] = "plain"}] \in Forgettings
    BY DEF Forgettings
  <2> QED BY <1>6, <2>1, <2>2 DEF ForgetDevice, PrivateTypes
<1>7. ASSUME NEW d \in Members, CommitForget(d) PROVE PrivateTypes'
  <2>1. Recipients(listed[d]) \in SUBSET Nat
    BY LabelsAreMembers DEF PrivateTypes
  <2>2. forgetting[d].denied \in SUBSET Members
    BY <1>7, ForgettingTyped DEF CommitForget
  <2>3. blob' \in [PrivatePaths -> SUBSET Nat]
    BY <1>7, <2>1 DEF CommitForget, PrivateTypes
  <2> QED BY <1>7, <1>not, <2>2, <2>3 DEF CommitForget, PrivateTypes
<1>8. ASSUME NEW d \in Members, ForgetFails(d) PROVE PrivateTypes'
  BY <1>8, <1>not DEF ForgetFails, PrivateTypes
<1> QED BY <1>0, <1>1, <1>2, <1>3, <1>4, <1>5, <1>6, <1>7, <1>8 DEF PrivateNext

-----------------------------------------------------------------------------
(* What each step keeps of the invariant.                                  *)

\* A key that is new to a device is in no item yet.
LEMMA BlobsStayOut ==
  ASSUME PrivateTypes, OwnKeys, KeysAreLabelled, KeysGrow, NEW l \in Members, NEW i \in PrivatePaths,
         blob[i] \cap KeysOf(l) = {}
  PROVE  blob[i] \cap KeysOf(l)' = {}
<1> SUFFICES ASSUME NEW k \in blob[i], k \in KeysOf(l)' PROVE FALSE
  OBVIOUS
<1>1. k \in Nat /\ keys \in Nat
  BY DEF PrivateTypes
<1>2. k <= keys
  BY DEF KeysAreLabelled, OwnKeys
<1>3. k > keys
  BY DEF KeysGrow
<1> QED BY <1>1, <1>2, <1>3

\* A device at the newest commit does not have the label of one that is gone.
LEMMA NewestWithoutGone ==
  ASSUME OwnLabels, NEW d \in newest, d \in Members, NEW l \in Members, Gone(l)
  PROVE  l \notin Labels(listed[d])
  BY DEF OwnLabels, Gone

\* What is encrypted to a recipients file without a label is closed to its keys.
LEMMA WithoutLabelWithoutKey ==
  ASSUME PrivateTypes, OwnKeys, KeysAreLabelled, NEW d \in Members, NEW l \in Members,
         l \notin Labels(listed[d])
  PROVE  Recipients(listed[d]) \cap KeysOf(l) = {}
<1> SUFFICES ASSUME NEW r \in listed[d], r[2] \in KeysOf(l) PROVE FALSE
  BY DEF Recipients
<1>1. r[1] \in Members /\ r[1] # l
  BY DEF PrivateTypes, RecipientFiles, Labels
<1>2. r[2] \in KeysOf(r[1])
  BY DEF KeysAreLabelled
<1> QED BY <1>1, <1>2 DEF OwnKeys

LEMMA RecipientsHaveDevices ==
  ASSUME PrivateTypes, KeysAreLabelled, NEW d \in Members, NEW k \in Recipients(listed[d])
  PROVE  \E e \in Members : k \in KeysOf(e)
<1>1. PICK r \in listed[d] : k = r[2]
  BY DEF Recipients
<1>2. r[1] \in Members /\ r[2] \in KeysOf(r[1])
  BY DEF PrivateTypes, RecipientFiles, KeysAreLabelled
<1> QED BY <1>1, <1>2

\* A commit of the recipients file: nobody that is gone comes back, and another
\* device that the file does not list any more is gone.
LEMMA ListCommitted ==
  ASSUME PrivateTypes, OwnLabels, NEW d \in Members, d \in newest,
         shared' = listed[d], listedAt' = [listedAt EXCEPT ![d] = listed[d]],
         newest' = {d}, listed' = listed
  PROVE  /\ OwnLabels'
         /\ \A l \in Members : Gone(l) => Gone(l)'
         /\ \A l \in Members : l \notin Labels(listed[d]) /\ (l # d => l \in Labels(listedAt[d])) => Gone(l)'
<1>1. listedAt'[d] = listed[d] /\ \A e \in Members \ {d} : listedAt'[e] = listedAt[e]
  BY DEF PrivateTypes
<1>2. listedAt[d] = shared
  BY DEF OwnLabels
<1>3. \A l \in Labels(listed[d]) : l \in Labels(listedAt'[l])
  <2> SUFFICES ASSUME NEW l \in Labels(listed[d]) PROVE l \in Labels(listedAt'[l])
    OBVIOUS
  <2>1. l \in Members
    BY LabelsAreMembers DEF PrivateTypes
  <2>2. CASE l = d
    BY <1>1, <2>2
  <2>3. CASE l # d
    <3>1. l \in Labels(shared)
      BY <1>2, <2>1, <2>3 DEF OwnLabels
    <3> QED BY <1>1, <2>1, <2>3, <3>1 DEF OwnLabels
  <2> QED BY <2>2, <2>3
<1>4. OwnLabels'
  BY <1>1, <1>3 DEF OwnLabels
<1>5. ASSUME NEW l \in Members, Gone(l) PROVE Gone(l)'
  <2>1. l \notin Labels(listed[d])
    BY <1>5, NewestWithoutGone
  <2> QED BY <1>1, <1>5, <2>1 DEF Gone
<1>6. ASSUME NEW l \in Members, l \notin Labels(listed[d]), l # d => l \in Labels(listedAt[d]) PROVE Gone(l)'
  <2>1. CASE l = d
    BY <1>6, <2>1 DEF Gone
  <2>2. CASE l # d
    <3>1. l \in Labels(listedAt[l])
      BY <1>2, <1>6, <2>2 DEF OwnLabels
    <3> QED BY <1>1, <1>6, <2>2, <3>1 DEF Gone
  <2> QED BY <2>1, <2>2
<1> QED BY <1>4, <1>5, <1>6

\* What the five other conjuncts are together.
PrivateSafe == OwnKeys /\ KeysAreLabelled /\ OwnLabels /\ DeniedStayOut /\ RevokedAreOut

LEMMA TurnsKeep ==
  ASSUME PrivateTypes, PrivateSafe, NEW d \in Members, KeystoreTurns(d)
  PROVE  PrivateSafe'
<1>1. /\ \A e \in Members : KeysOf(e)' = KeysOf(e)
      /\ UNCHANGED <<keys, listed, listedAt, shared, blob, newest, forgetting, revoked, skipped>>
  BY KeystoreTurned DEF KeystoreTurns
<1>2. OwnKeys'
  BY <1>1 DEF PrivateSafe, OwnKeys
<1>3. KeysAreLabelled'
  <2>1. \A e \in Members : \A r \in listed[e] \cup listedAt[e] : r[1] \in Members
    BY DEF PrivateTypes, RecipientFiles
  <2>2. \A r \in shared : r[1] \in Members
    BY DEF PrivateTypes, RecipientFiles
  <2> QED BY <1>1, <2>1, <2>2 DEF PrivateSafe, KeysAreLabelled
<1>4. OwnLabels' /\ DeniedStayOut'
  BY <1>1 DEF PrivateSafe, OwnLabels, DeniedStayOut, Gone
<1>5. RevokedAreOut'
  <2>1. revoked \subseteq Members
    BY DEF PrivateTypes
  <2> QED BY <1>1, <2>1 DEF PrivateSafe, RevokedAreOut, Gone
<1> QED BY <1>2, <1>3, <1>4, <1>5 DEF PrivateSafe

\* Keys that grow spoil no recipients file and no item.
LEMMA LabelsKept ==
  ASSUME PrivateTypes, KeysAreLabelled, KeysGrow
  PROVE  /\ \A e \in Members : \A r \in listed[e] \cup listedAt[e] : r[2] \in KeysOf(r[1])'
         /\ \A r \in shared : r[2] \in KeysOf(r[1])'
         /\ \A i \in PrivatePaths : \A k \in blob[i] : \E e \in Members : k \in KeysOf(e)'
<1>1. \A e \in Members : \A r \in listed[e] \cup listedAt[e] : r[1] \in Members
  BY DEF PrivateTypes, RecipientFiles
<1>2. \A r \in shared : r[1] \in Members
  BY DEF PrivateTypes, RecipientFiles
<1> QED BY <1>1, <1>2 DEF KeysAreLabelled, KeysGrow

LEMMA RegisterKeeps ==
  ASSUME PrivateTypes, PrivateSafe, NEW d \in Members, RegisterDevice(d)
  PROVE  PrivateSafe'
<1> USE DEF PrivateSafe
<1>1. /\ OwnKeys' /\ KeysGrow /\ Identity(d) \in KeysOf(d)'
      /\ UNCHANGED <<listedAt, shared, blob, newest, skipped>>
  BY KeysGrown, Ensured DEF RegisterDevice
<1>2. /\ listed'[d] = listed[d] \cup {<<d, Identity(d)>>}
      /\ \A e \in Members \ {d} : listed'[e] = listed[e]
  BY DEF RegisterDevice, PrivateTypes
<1>3. Labels(listed'[d]) = Labels(listed[d]) \cup {d}
  <2>1. Labels(listed[d] \cup {<<d, Identity(d)>>}) = Labels(listed[d]) \cup {d}
    BY LabelsOf
  <2> QED BY <1>2, <2>1
<1>4. KeysAreLabelled'
  <2>1. \A r \in listed'[d] \cup listedAt[d] : r[2] \in KeysOf(r[1])'
    BY <1>1, <1>2, LabelsKept
  <2>2. \A e \in Members : \A r \in listed'[e] \cup listedAt[e] : r[2] \in KeysOf(r[1])'
    BY <1>1, <1>2, <2>1, LabelsKept
  <2>3. /\ \A r \in shared : r[2] \in KeysOf(r[1])'
        /\ \A i \in PrivatePaths : \A k \in blob[i] : \E e \in Members : k \in KeysOf(e)'
    BY <1>1, LabelsKept
  <2> QED BY <1>1, <2>2, <2>3 DEF KeysAreLabelled
<1>5. OwnLabels'
  BY <1>1, <1>2, <1>3 DEF OwnLabels
<1>6. ASSUME NEW l \in Members, l # d, Gone(l) PROVE Gone(l)'
  BY <1>1, <1>2, <1>6 DEF Gone
<1>7. DeniedStayOut'
  <2> SUFFICES ASSUME NEW e \in Members, forgetting'[e].on, NEW l \in forgetting'[e].denied
               PROVE  /\ l \notin Labels(listed'[e])
                      /\ l # e => l \in Labels(listedAt'[e]) \/ Gone(l)'
    BY DEF DeniedStayOut
  <2>1. forgetting[e].on /\ forgetting'[e] = [forgetting[e] EXCEPT !.denied = @ \ {d}]
    BY DEF RegisterDevice, NotForgetting
  <2>2. l \in forgetting[e].denied /\ l # d /\ l \in Members
    BY <2>1, ForgettingTyped
  <2>3. l \notin Labels(listed'[e])
    BY <1>2, <1>3, <2>1, <2>2 DEF DeniedStayOut
  <2>4. l # e => l \in Labels(listedAt'[e]) \/ Gone(l)'
    BY <1>1, <1>6, <2>1, <2>2 DEF DeniedStayOut
  <2> QED BY <2>3, <2>4
<1>8. RevokedAreOut'
  <2> SUFFICES ASSUME NEW l \in revoked'
               PROVE  Gone(l)' /\ \A i \in PrivatePaths \ skipped' : blob'[i] \cap KeysOf(l)' = {}
    BY DEF RevokedAreOut
  <2>1. l \in revoked /\ l # d /\ l \in Members
    BY DEF RegisterDevice, PrivateTypes
  <2>2. Gone(l)'
    BY <1>6, <2>1 DEF RevokedAreOut
  <2>3. \A i \in PrivatePaths \ skipped : blob[i] \cap KeysOf(l)' = {}
    BY <1>1, <2>1, BlobsStayOut DEF RevokedAreOut
  <2> QED BY <1>1, <2>2, <2>3
<1> QED BY <1>1, <1>4, <1>5, <1>7, <1>8

\* Nobody that is gone, nor denied, comes back by a commit of the recipients file.
LEMMA DeniedAfterCommit ==
  ASSUME PrivateTypes, OwnLabels, DeniedStayOut, NEW d \in Members, d \in newest,
         shared' = listed[d], listedAt' = [listedAt EXCEPT ![d] = listed[d]],
         newest' = {d}, listed' = listed,
         NEW e \in Members, forgetting[e].on, NEW l \in forgetting[e].denied
  PROVE  /\ l \notin Labels(listed'[e])
         /\ l # e => l \in Labels(listedAt'[e]) \/ Gone(l)'
<1>1. l \in Members
  BY ForgettingTyped
<1>2. l \notin Labels(listed[e]) /\ (l # e => l \in Labels(listedAt[e]) \/ Gone(l))
  BY DEF DeniedStayOut
<1>3. Gone(l) => Gone(l)'
  BY <1>1, ListCommitted
<1>4. CASE e = d
  <2>1. l # d /\ l \in Labels(listedAt[d]) => Gone(l)'
    BY <1>1, <1>2, <1>4, ListCommitted
  <2> QED BY <1>2, <1>3, <1>4, <2>1
<1>5. CASE e # d
  <2>1. listedAt'[e] = listedAt[e]
    BY <1>5 DEF PrivateTypes
  <2> QED BY <1>2, <1>3, <2>1
<1> QED BY <1>4, <1>5

LEMMA CommittedListIsLabelled ==
  ASSUME PrivateTypes, KeysAreLabelled, NEW d \in Members, vault' = vault,
         shared' = listed[d], listedAt' = [listedAt EXCEPT ![d] = listed[d]], listed' = listed
  PROVE  /\ \A e \in Members : \A r \in listed'[e] \cup listedAt'[e] : r[2] \in KeysOf(r[1])'
         /\ \A r \in shared' : r[2] \in KeysOf(r[1])'
<1>1. listedAt'[d] = listed[d] /\ \A e \in Members \ {d} : listedAt'[e] = listedAt[e]
  BY DEF PrivateTypes
<1>2. \A e : KeysOf(e)' = KeysOf(e)
  BY DEF KeysOf
<1> QED BY <1>1, <1>2 DEF KeysAreLabelled

LEMMA CommitRecipientsKeeps ==
  ASSUME PrivateTypes, PrivateSafe, NEW d \in Members, CommitRecipients(d)
  PROVE  PrivateSafe'
<1> USE DEF PrivateSafe
<1>1. /\ d \in newest /\ newest' = {d} /\ shared' = listed[d]
      /\ listedAt' = [listedAt EXCEPT ![d] = listed[d]]
      /\ UNCHANGED <<vault, keys, listed, blob, forgetting, skipped>>
  BY DEF CommitRecipients
<1>2. \A e : KeysOf(e)' = KeysOf(e)
  BY <1>1 DEF KeysOf
<1>3. OwnKeys'
  BY <1>1, <1>2 DEF OwnKeys
<1>4. KeysAreLabelled'
  <2>1. /\ \A e \in Members : \A r \in listed'[e] \cup listedAt'[e] : r[2] \in KeysOf(r[1])'
        /\ \A r \in shared' : r[2] \in KeysOf(r[1])'
    BY <1>1, CommittedListIsLabelled
  <2> QED BY <1>1, <1>2, <2>1 DEF KeysAreLabelled
<1>5. OwnLabels' /\ \A l \in Members : Gone(l) => Gone(l)'
  BY <1>1, ListCommitted
<1>6. DeniedStayOut'
  <2>1. ASSUME NEW e \in Members, forgetting[e].on, NEW l \in forgetting[e].denied
        PROVE  /\ l \notin Labels(listed'[e])
               /\ l # e => l \in Labels(listedAt'[e]) \/ Gone(l)'
    BY <1>1, <2>1, DeniedAfterCommit
  <2> QED BY <1>1, <2>1 DEF DeniedStayOut
<1>7. RevokedAreOut'
  <2>1. revoked' \subseteq revoked /\ revoked \subseteq Members
    BY DEF CommitRecipients, PrivateTypes
  <2> QED BY <1>1, <1>2, <1>5, <2>1 DEF RevokedAreOut
<1> QED BY <1>3, <1>4, <1>5, <1>6, <1>7

LEMMA CommitPrivateKeeps ==
  ASSUME PrivateTypes, PrivateSafe, NEW d \in Members, NEW i \in PrivatePaths, CommitPrivate(d, i)
  PROVE  PrivateSafe'
<1> USE DEF PrivateSafe
<1>1. /\ d \in newest /\ newest' = {d} /\ skipped' = skipped \ {i}
      /\ UNCHANGED <<vault, keys, listed, listedAt, shared, forgetting, revoked>>
  BY DEF CommitPrivate
<1>2. /\ blob'[i] = Recipients(listed[d])
      /\ \A j \in PrivatePaths \ {i} : blob'[j] = blob[j]
  BY DEF CommitPrivate, PrivateTypes
<1>3. \A e : KeysOf(e)' = KeysOf(e) /\ Gone(e)' = Gone(e)
  BY <1>1 DEF KeysOf, Gone
<1>4. OwnKeys' /\ OwnLabels' /\ DeniedStayOut'
  BY <1>1, <1>3 DEF OwnKeys, OwnLabels, DeniedStayOut
<1>5. KeysAreLabelled'
  <2>1. \A k \in blob'[i] : \E e \in Members : k \in KeysOf(e)
    BY <1>2, RecipientsHaveDevices
  <2>2. \A j \in PrivatePaths : \A k \in blob'[j] : \E e \in Members : k \in KeysOf(e)
    BY <1>2, <2>1 DEF KeysAreLabelled
  <2> QED BY <1>1, <1>3, <2>2 DEF KeysAreLabelled
<1>6. RevokedAreOut'
  <2> SUFFICES ASSUME NEW l \in revoked
               PROVE  Gone(l) /\ \A j \in PrivatePaths \ skipped' : blob'[j] \cap KeysOf(l) = {}
    BY <1>1, <1>3 DEF RevokedAreOut
  <2>1. l \in Members /\ Gone(l)
    BY DEF PrivateTypes, RevokedAreOut
  <2>2. l \notin Labels(listed[d])
    BY <1>1, <2>1, NewestWithoutGone
  <2>3. blob'[i] \cap KeysOf(l) = {}
    BY <1>2, <2>1, <2>2, WithoutLabelWithoutKey
  <2> QED BY <1>1, <1>2, <2>1, <2>3 DEF RevokedAreOut
<1> QED BY <1>4, <1>5, <1>6

\* A pull hands on the newest list, or the device keeps lines of its own.
LEMMA PullKeeps ==
  ASSUME PrivateTypes, PrivateSafe, NEW d \in Members, Pull(d)
  PROVE  PrivateSafe'
<1> USE DEF PrivateSafe
<1>1. /\ d \notin newest /\ newest' = newest \cup {d}
      /\ shared # listedAt[d] => listed[d] = listedAt[d]
      /\ UNCHANGED <<shared, blob, forgetting, revoked, skipped>>
  BY DEF Pull
<1>2. OwnKeys' /\ KeysGrow
  BY KeysGrown DEF Pull
<1>3. /\ listedAt'[d] = shared /\ listed'[d] = IF shared = listedAt[d] THEN listed[d] ELSE shared
      /\ \A e \in Members \ {d} : listedAt'[e] = listedAt[e] /\ listed'[e] = listed[e]
  BY DEF Pull, PrivateTypes
<1>4. KeysAreLabelled'
  <2>1. \A r \in listed'[d] \cup listedAt'[d] : r[2] \in KeysOf(r[1])'
    BY <1>2, <1>3, LabelsKept
  <2>2. \A e \in Members : \A r \in listed'[e] \cup listedAt'[e] : r[2] \in KeysOf(r[1])'
    BY <1>2, <1>3, <2>1, LabelsKept
  <2>3. /\ \A r \in shared : r[2] \in KeysOf(r[1])'
        /\ \A i \in PrivatePaths : \A k \in blob[i] : \E e \in Members : k \in KeysOf(e)'
    BY <1>2, LabelsKept
  <2> QED BY <1>1, <2>2, <2>3 DEF KeysAreLabelled
<1>5. OwnLabels'
  <2>1. \A e \in newest' : listedAt'[e] = shared'
    BY <1>1, <1>3 DEF OwnLabels, PrivateTypes
  <2>2. \A e, l \in Members : l # e /\ l \in Labels(listed'[e]) => l \in Labels(listedAt'[e])
    BY <1>1, <1>3 DEF OwnLabels
  <2>3. \A l \in Labels(shared') : l \in Labels(listedAt'[l])
    <3>1. \A l \in Labels(shared) : l \in Members
      BY LabelsAreMembers DEF PrivateTypes
    <3> QED BY <1>1, <1>3, <3>1 DEF OwnLabels
  <2> QED BY <2>1, <2>2, <2>3 DEF OwnLabels
<1>6. ASSUME NEW l \in Members, Gone(l) PROVE Gone(l)'
  BY <1>1, <1>3, <1>6 DEF Gone
<1>7. DeniedStayOut'
  <2> SUFFICES ASSUME NEW e \in Members, forgetting[e].on, NEW l \in forgetting[e].denied
               PROVE  /\ l \notin Labels(listed'[e])
                      /\ l # e => l \in Labels(listedAt'[e]) \/ Gone(l)'
    BY <1>1 DEF DeniedStayOut
  <2>1. /\ l \in Members /\ l \notin Labels(listed[e])
        /\ l # e => l \in Labels(listedAt[e]) \/ Gone(l)
    BY ForgettingTyped DEF DeniedStayOut
  <2>2. CASE e # d \/ shared = listedAt[d]
    BY <1>3, <1>6, <2>1, <2>2
  <2>3. CASE e = d /\ shared # listedAt[d]
    <3>1. listed'[d] = shared /\ listedAt'[d] = shared /\ listed[d] = listedAt[d]
      BY <1>1, <1>3, <2>3
    <3>2. l \notin Labels(shared)
      BY <2>1, <2>3, <3>1 DEF OwnLabels, Gone
    <3> QED BY <1>6, <2>1, <2>3, <3>1, <3>2
  <2> QED BY <2>2, <2>3
<1>8. RevokedAreOut'
  <2>1. revoked \subseteq Members
    BY DEF PrivateTypes
  <2>2. \A l \in revoked : \A i \in PrivatePaths \ skipped : blob[i] \cap KeysOf(l)' = {}
    BY <1>2, <2>1, BlobsStayOut DEF RevokedAreOut
  <2> QED BY <1>1, <1>6, <2>1, <2>2 DEF RevokedAreOut
<1> QED BY <1>2, <1>4, <1>5, <1>7, <1>8

LEMMA ForgetDeviceKeeps ==
  ASSUME PrivateTypes, PrivateSafe, NEW d \in Members, NEW label \in Members, ForgetDevice(d, label)
  PROVE  PrivateSafe'
<1> USE DEF PrivateSafe
<1>1. /\ ~forgetting[d].on /\ label \in Labels(listed[d])
      /\ UNCHANGED <<vault, keys, listedAt, shared, blob, newest, revoked, skipped>>
  BY DEF ForgetDevice
<1>2. /\ listed'[d] = WithoutLabel(listed[d], label)
      /\ \A e \in Members \ {d} : listed'[e] = listed[e]
  BY DEF ForgetDevice, PrivateTypes
<1>3. Labels(listed'[d]) = Labels(listed[d]) \ {label} /\ listed'[d] \subseteq listed[d]
  BY <1>2, LabelsOf
<1>4. \A e : KeysOf(e)' = KeysOf(e)
  BY <1>1 DEF KeysOf
<1>5. OwnKeys'
  BY <1>1, <1>4 DEF OwnKeys
<1>6. KeysAreLabelled'
  BY <1>1, <1>2, <1>3, <1>4 DEF KeysAreLabelled
<1>7. OwnLabels'
  BY <1>1, <1>2, <1>3 DEF OwnLabels
<1>8. ASSUME NEW l \in Members, Gone(l) PROVE Gone(l)'
  BY <1>1, <1>2, <1>3, <1>8 DEF Gone
<1>9. DeniedStayOut'
  <2> SUFFICES ASSUME NEW e \in Members, forgetting'[e].on, NEW l \in forgetting'[e].denied
               PROVE  /\ l \notin Labels(listed'[e])
                      /\ l # e => l \in Labels(listedAt'[e]) \/ Gone(l)'
    BY DEF DeniedStayOut
  <2>1. CASE e = d
    <3>1. l = label
      BY <2>1 DEF ForgetDevice, PrivateTypes
    <3> QED BY <1>1, <1>3, <2>1, <3>1 DEF OwnLabels
  <2>2. CASE e # d
    <3>1. forgetting'[e] = forgetting[e]
      BY <2>2 DEF ForgetDevice, PrivateTypes
    <3>2. l \in Members
      BY <3>1, ForgettingTyped
    <3> QED BY <1>1, <1>2, <1>8, <2>2, <3>1, <3>2 DEF DeniedStayOut
  <2> QED BY <2>1, <2>2
<1>10. RevokedAreOut'
  <2>1. revoked \subseteq Members
    BY DEF PrivateTypes
  <2> QED BY <1>1, <1>4, <1>8, <2>1 DEF RevokedAreOut
<1> QED BY <1>5, <1>6, <1>7, <1>9, <1>10

\* The commit of a revocation: the items it rewrote are closed to the keys of
\* every device its list is without.
LEMMA CommitForgetKeeps ==
  ASSUME PrivateTypes, PrivateSafe, NEW d \in Members, CommitForget(d)
  PROVE  PrivateSafe'
<1> USE DEF PrivateSafe
<1> DEFINE f == forgetting[d]
<1>1. /\ f.on /\ d \in newest /\ newest' = {d} /\ shared' = listed[d]
      /\ listedAt' = [listedAt EXCEPT ![d] = listed[d]]
      /\ revoked' = revoked \cup f.denied /\ skipped' = skipped \cup (PrivatePaths \ f.paths)
      /\ UNCHANGED <<vault, keys, listed>>
  BY DEF CommitForget
<1>2. \A i \in PrivatePaths : blob'[i] = IF i \in f.paths THEN Recipients(listed[d]) ELSE blob[i]
  BY DEF CommitForget
<1>3. \A e : KeysOf(e)' = KeysOf(e)
  BY <1>1 DEF KeysOf
<1>4. OwnKeys'
  BY <1>1, <1>3 DEF OwnKeys
<1>5. KeysAreLabelled'
  <2>1. /\ \A e \in Members : \A r \in listed'[e] \cup listedAt'[e] : r[2] \in KeysOf(r[1])'
        /\ \A r \in shared' : r[2] \in KeysOf(r[1])'
    BY <1>1, CommittedListIsLabelled
  <2>2. \A k \in Recipients(listed[d]) : \E e \in Members : k \in KeysOf(e)
    BY RecipientsHaveDevices
  <2>3. \A i \in PrivatePaths : \A k \in blob'[i] : \E e \in Members : k \in KeysOf(e)
    BY <1>2, <2>2 DEF KeysAreLabelled
  <2> QED BY <1>3, <2>1, <2>3 DEF KeysAreLabelled
<1>6. OwnLabels' /\ \A l \in Members : Gone(l) => Gone(l)'
  BY <1>1, ListCommitted
<1>7. DeniedStayOut'
  <2>1. ASSUME NEW e \in Members, forgetting[e].on, NEW l \in forgetting[e].denied
        PROVE  /\ l \notin Labels(listed'[e])
               /\ l # e => l \in Labels(listedAt'[e]) \/ Gone(l)'
    BY <1>1, <2>1, DeniedAfterCommit
  <2>2. \A e \in Members : forgetting'[e].on => forgetting[e].on /\ forgetting'[e] = forgetting[e]
    BY DEF CommitForget, PrivateTypes, NotForgetting
  <2> QED BY <2>1, <2>2 DEF DeniedStayOut
<1>8. RevokedAreOut'
  <2> SUFFICES ASSUME NEW l \in revoked'
               PROVE  Gone(l)' /\ \A i \in PrivatePaths \ skipped' : blob'[i] \cap KeysOf(l) = {}
    BY <1>3 DEF RevokedAreOut
  <2>1. f.denied \subseteq Members /\ revoked \subseteq Members
    BY <1>1, ForgettingTyped DEF PrivateTypes
  <2>2. l \in Members /\ (l \in revoked \/ l \in f.denied)
    BY <1>1, <2>1
  <2>3. l \notin Labels(listed[d]) /\ Gone(l)'
    <3>1. CASE l \in revoked
      BY <1>1, <1>6, <2>2, <3>1, NewestWithoutGone DEF RevokedAreOut
    <3>2. CASE l \in f.denied
      <4>1. l \notin Labels(listed[d]) /\ (l # d => l \in Labels(listedAt[d]) \/ Gone(l))
        BY <1>1, <3>2 DEF DeniedStayOut
      <4>2. CASE Gone(l)
        BY <1>6, <2>2, <4>1, <4>2
      <4>3. CASE ~Gone(l)
        BY <1>1, <2>2, <4>1, <4>3, ListCommitted
      <4> QED BY <4>2, <4>3
    <3> QED BY <2>2, <3>1, <3>2
  <2>4. Recipients(listed[d]) \cap KeysOf(l) = {}
    BY <2>2, <2>3, WithoutLabelWithoutKey
  <2>5. ASSUME NEW i \in PrivatePaths \ skipped' PROVE blob'[i] \cap KeysOf(l) = {}
    BY <1>1, <1>2, <2>4
  <2> QED BY <2>3, <2>5
<1> QED BY <1>4, <1>5, <1>6, <1>7, <1>8

LEMMA ForgetFailsKeeps ==
  ASSUME PrivateTypes, PrivateSafe, NEW d \in Members, ForgetFails(d)
  PROVE  PrivateSafe'
<1>1. UNCHANGED <<vault, keys, listed, listedAt, shared, blob, newest, revoked, skipped>>
  BY DEF ForgetFails
<1>2. \A e : KeysOf(e)' = KeysOf(e) /\ Gone(e)' = Gone(e)
  BY <1>1 DEF KeysOf, Gone
<1>3. \A e \in Members : forgetting'[e].on => forgetting[e].on /\ forgetting'[e] = forgetting[e]
  BY DEF ForgetFails, PrivateTypes, NotForgetting
<1>4. OwnKeys' /\ OwnLabels' /\ KeysAreLabelled'
  BY <1>1, <1>2 DEF PrivateSafe, OwnKeys, OwnLabels, KeysAreLabelled
<1>5. DeniedStayOut'
  BY <1>1, <1>2, <1>3 DEF PrivateSafe, DeniedStayOut
<1>6. RevokedAreOut'
  BY <1>1, <1>2 DEF PrivateSafe, RevokedAreOut
<1> QED BY <1>4, <1>5, <1>6 DEF PrivateSafe

-----------------------------------------------------------------------------

LEMMA PrivateStart == PrivateInit => PrivateInv
<1> SUFFICES ASSUME PrivateInit PROVE PrivateInv
  OBVIOUS
<1>1. PrivateTypes
  BY DEF PrivateInit, PrivateTypes, Vaults, RecipientFiles, Forgettings, NoKey, NoBlob
<1>2. /\ \A d \in Members : KeysOf(d) = {} /\ Labels(listed[d]) = {} /\ listedAt[d] = {}
      /\ Labels(shared) = {} /\ shared = {}
  BY DEF PrivateInit, KeysOf, Labels
<1>3. OwnKeys /\ KeysAreLabelled
  BY <1>2 DEF PrivateInit, OwnKeys, KeysAreLabelled, NoBlob
<1>4. OwnLabels
  BY <1>2 DEF PrivateInit, OwnLabels
<1>5. DeniedStayOut /\ RevokedAreOut
  BY DEF PrivateInit, DeniedStayOut, RevokedAreOut, NotForgetting
<1> QED BY <1>1, <1>3, <1>4, <1>5 DEF PrivateInv

LEMMA PrivateStep == PrivateInv /\ [PrivateNext]_privateVars => PrivateInv'
<1> SUFFICES ASSUME PrivateInv, [PrivateNext]_privateVars PROVE PrivateInv'
  OBVIOUS
<1>1. PrivateTypes /\ PrivateSafe
  BY DEF PrivateInv, PrivateSafe
<1>2. PrivateTypes'
  BY <1>1, PrivateTypesStep
<1>3. PrivateSafe'
  <2>1. CASE UNCHANGED privateVars
    BY <1>1, <2>1 DEF privateVars, PrivateSafe, OwnKeys, KeysOf, KeysAreLabelled, OwnLabels,
                      DeniedStayOut, RevokedAreOut, Gone
  <2>2. CASE PrivateNext
    BY <1>1, <2>2, TurnsKeep, RegisterKeeps, CommitRecipientsKeeps, CommitPrivateKeeps, PullKeeps,
       ForgetDeviceKeeps, CommitForgetKeeps, ForgetFailsKeeps DEF PrivateNext
  <2> QED BY <2>1, <2>2
<1> QED BY <1>2, <1>3 DEF PrivateInv, PrivateSafe

LEMMA PrivateInvariant == PrivateSpec => []PrivateInv
  BY PrivateStart, PrivateStep, PTL DEF PrivateSpec

(* Generating an identity never replaces one that anybody encrypts to: each    *)
(* key in a recipients file or an item is still in the keystore or the file of *)
(* a device (EnsureDevice, for wkp init and for the filter of a pull).         *)
THEOREM KeysInUseAreKept == PrivateSpec => []RegisteredKeysAreKept
<1>1. PrivateInv => RegisteredKeysAreKept
  <2> SUFFICES ASSUME PrivateInv,
                      NEW k \in (UNION {Recipients(listed[d]) : d \in Members}) \cup Recipients(shared)
                                  \cup (UNION {blob[i] : i \in PrivatePaths})
               PROVE  \E d \in Members : k \in {vault[d].keystore, vault[d].fallback}
    BY DEF RegisteredKeysAreKept
  <2>1. PrivateTypes /\ KeysAreLabelled
    BY DEF PrivateInv
  <2>2. CASE \E d \in Members : k \in Recipients(listed[d])
    BY <2>1, <2>2, RecipientsHaveDevices DEF KeysOf
  <2>3. CASE k \in Recipients(shared)
    <3>1. PICK r \in shared : k = r[2]
      BY <2>3 DEF Recipients
    <3>2. r[1] \in Members /\ r[2] \in KeysOf(r[1])
      BY <2>1 DEF PrivateTypes, RecipientFiles, KeysAreLabelled
    <3> QED BY <3>1, <3>2 DEF KeysOf
  <2>4. CASE \E i \in PrivatePaths : k \in blob[i]
    BY <2>1, <2>4 DEF KeysAreLabelled, KeysOf
  <2>5. \/ \E d \in Members : k \in Recipients(listed[d])
        \/ k \in Recipients(shared)
        \/ \E i \in PrivatePaths : k \in blob[i]
    <3>1. k \in UNION {Recipients(listed[d]) : d \in Members} => \E d \in Members : k \in Recipients(listed[d])
      OBVIOUS
    <3>2. k \in UNION {blob[i] : i \in PrivatePaths} => \E i \in PrivatePaths : k \in blob[i]
      OBVIOUS
    <3> QED BY <3>1, <3>2
  <2> QED BY <2>2, <2>3, <2>4, <2>5
<1> QED BY <1>1, PrivateInvariant, PTL

(* A revoked device is out of the committed recipients and of every item the   *)
(* revoking device could rewrite, and no order of pulls, failed revocations,   *)
(* registrations of others and keystore failures lets it back in.              *)
THEOREM RevokedDevicesStayOut == PrivateSpec => []RevocationHolds
<1>1. PrivateInv => RevocationHolds
  BY DEF PrivateInv, RevokedAreOut, RevocationHolds, Gone, KeysOf
<1> QED BY <1>1, PrivateInvariant, PTL

-----------------------------------------------------------------------------
(* StoreIndex and SessionContext: the index, and what a session is shown.  *)

Contents == [Md -> Texts \cup {NoFile}]
ReadTexts == UNION {[D -> Texts] : D \in SUBSET Md}

Runs ==
  {Off} \cup [step : {"detect"}]
    \cup [step : {"list"}, added : SUBSET Md, dirty : SUBSET Md, gone : SUBSET Md]
    \cup [step : {"read"}, drop : SUBSET Md, got : ReadTexts, todo : SUBSET Md]

IndexTypes ==
  /\ mdFile \in Contents /\ head \in Contents
  /\ row \in ReadTexts
  /\ indexer \in [Indexers -> Runs]
  /\ quiet \in SUBSET Indexers

Modified == {p \in Present(mdFile) \cap Present(head) : mdFile[p] # head[p]}

\* What a run has read so far, if nothing has happened since it started: what
\* git said of the store as it is, and the texts there are.
ReadWell(k) ==
  /\ Is(k, "list") =>
       /\ indexer[k].added = Present(mdFile) \ Present(head)
       /\ indexer[k].dirty = Modified
       /\ indexer[k].gone = Present(head) \ Present(mdFile)
  /\ Is(k, "read") =>
       /\ indexer[k].drop = DOMAIN row \ Present(mdFile)
       /\ DOMAIN indexer[k].got \subseteq Present(mdFile)
       /\ \A p \in DOMAIN indexer[k].got : indexer[k].got[p] = mdFile[p]
       /\ DOMAIN indexer[k].got \cup indexer[k].todo = (Present(mdFile) \ DOMAIN row) \cup Modified

\* Nothing else runs beside a quiet run.
QuietRuns == \A k \in quiet : ReadWell(k) /\ \A j \in Indexers \ {k} : Is(j, "off")

IndexInv == IndexTypes /\ QuietRuns /\ EdgesHaveTheirSource

-----------------------------------------------------------------------------
(* What has been read of some of the paths.                                *)

LEMMA ReadTextsOf ==
  ASSUME NEW f \in ReadTexts
  PROVE  DOMAIN f \in SUBSET Md /\ f \in [DOMAIN f -> Texts]
  BY DEF ReadTexts

LEMMA ReadTextsFrom ==
  ASSUME NEW D \in SUBSET Md, NEW f \in [D -> Texts]
  PROVE  f \in ReadTexts
  BY DEF ReadTexts

LEMMA UpdatedTyped ==
  ASSUME row \in ReadTexts, NEW drop \in SUBSET Md, NEW texts \in ReadTexts
  PROVE  /\ Updated(drop, texts) \in ReadTexts
         /\ DOMAIN Updated(drop, texts) = (DOMAIN row \ drop) \cup DOMAIN texts
         /\ \A p \in DOMAIN Updated(drop, texts) :
              Updated(drop, texts)[p] = IF p \in DOMAIN texts THEN texts[p] ELSE row[p]
<1> DEFINE D == (DOMAIN row \ (drop \cup DOMAIN texts)) \cup DOMAIN texts
           u == [q \in D |-> IF q \in DOMAIN texts THEN texts[q] ELSE row[q]]
<1>1. Updated(drop, texts) = u
  BY DEF Updated
<1>2. D \in SUBSET Md /\ u \in [D -> Texts]
  BY ReadTextsOf
<1>3. u \in ReadTexts
  BY <1>2, ReadTextsFrom
<1>4. D = (DOMAIN row \ drop) \cup DOMAIN texts
  OBVIOUS
<1> QED BY <1>1, <1>3, <1>4

\* A run whose next record is a record of a run.
LEMMA MovesTyped ==
  ASSUME IndexTypes, NEW k \in Indexers, NEW r \in Runs, Moves(k, r)
  PROVE  /\ indexer' \in [Indexers -> Runs]
         /\ indexer'[k] = r
         /\ \A j \in Indexers \ {k} : indexer'[j] = indexer[j]
  BY DEF IndexTypes, Moves

LEMMA PlanTyped ==
  ASSUME NEW current \in SUBSET Md, NEW kn \in SUBSET Md, NEW dirty
  PROVE  Plan(current, kn, dirty) \in Runs
<1>1. << >> \in ReadTexts
  <2>1. << >> \in [{} -> Texts]
    OBVIOUS
  <2> QED BY <2>1, ReadTextsFrom
<1> QED BY <1>1 DEF Plan, Runs

\* One more text, of a path that is there.
WithText(k, p) ==
  [indexer[k] EXCEPT !.todo = @ \ {p},
     !.got = [q \in DOMAIN @ \cup {p} |-> IF q = p THEN mdFile[p] ELSE @[q]]]

LEMMA ReadTyped ==
  ASSUME IndexTypes, NEW k \in Indexers, Is(k, "read"), NEW p \in indexer[k].todo, mdFile[p] # NoFile,
         NEW r, r = WithText(k, p)
  PROVE  /\ r \in Runs /\ r.step = "read"
         /\ r.drop = indexer[k].drop /\ r.todo = indexer[k].todo \ {p}
         /\ DOMAIN r.got = DOMAIN indexer[k].got \cup {p}
         /\ \A q \in DOMAIN r.got : r.got[q] = IF q = p THEN mdFile[p] ELSE indexer[k].got[q]
<1> DEFINE g == [q \in DOMAIN indexer[k].got \cup {p} |->
                   IF q = p THEN mdFile[p] ELSE indexer[k].got[q]]
<1>1. indexer[k] \in [step : {"read"}, drop : SUBSET Md, got : ReadTexts, todo : SUBSET Md]
  BY DEF IndexTypes, Runs, Is, Off
<1>2. p \in Md /\ mdFile[p] \in Texts
  BY <1>1 DEF IndexTypes, Contents
<1>3. DOMAIN indexer[k].got \in SUBSET Md /\ indexer[k].got \in [DOMAIN indexer[k].got -> Texts]
  BY <1>1, ReadTextsOf
<1>4. g \in [DOMAIN indexer[k].got \cup {p} -> Texts] /\ DOMAIN indexer[k].got \cup {p} \in SUBSET Md
  BY <1>2, <1>3
<1>5. g \in ReadTexts
  BY <1>4, ReadTextsFrom
<1>6. r = [indexer[k] EXCEPT !.todo = indexer[k].todo \ {p}, !.got = g]
  BY DEF WithText
<1>7. DOMAIN g = DOMAIN indexer[k].got \cup {p}
      /\ \A q \in DOMAIN g : g[q] = IF q = p THEN mdFile[p] ELSE indexer[k].got[q]
  OBVIOUS
<1> HIDE DEF g
<1>8. /\ r \in Runs /\ r.step = "read" /\ r.drop = indexer[k].drop
      /\ r.todo = indexer[k].todo \ {p} /\ r.got = g
  BY <1>1, <1>5, <1>6 DEF Runs
<1> QED BY <1>7, <1>8

LEMMA PresentIsPaths == \A f : Present(f) \in SUBSET Md
  BY DEF Present

-----------------------------------------------------------------------------
(* Every step of an index run, and every change beside it.                 *)

LEMMA IndexTypesStep ==
  ASSUME IndexTypes, [IndexNext]_indexVars
  PROVE  IndexTypes'
<1>off. Off \in Runs
  BY DEF Runs
<1>0. CASE UNCHANGED indexVars
  BY <1>0 DEF indexVars, IndexTypes
<1>1. ASSUME NEW p \in Md, ChangeFile(p) PROVE IndexTypes'
  BY <1>1 DEF ChangeFile, Change, IndexTypes, Contents
<1>2. CASE CommitAll
  BY <1>2 DEF CommitAll, Change, IndexTypes
<1>3. ASSUME NEW k \in Indexers, StartIndex(k) PROVE IndexTypes'
  <2>1. [step |-> "detect"] \in Runs
    BY DEF Runs
  <2>2. indexer' \in [Indexers -> Runs]
    BY <1>3, <2>1, MovesTyped DEF StartIndex
  <2>3. head' \in Contents
    BY <1>3 DEF StartIndex, IndexTypes, Contents
  <2> QED BY <1>3, <2>2, <2>3 DEF StartIndex, IndexUnchanged, IndexTypes
<1>4. ASSUME NEW k \in Indexers, DetectChanges(k) PROVE IndexTypes'
  <2> DEFINE r == [step |-> "list",
               added |-> Present(mdFile) \ Present(head),
               dirty |-> {p \in Present(mdFile) \cap Present(head) : mdFile[p] # head[p]},
               gone |-> Present(head) \ Present(mdFile)]
  <2>1. r \in Runs
    BY PresentIsPaths DEF Runs
  <2>2. Moves(k, r)
    BY <1>4 DEF DetectChanges
  <2> HIDE DEF r
  <2>3. indexer' \in [Indexers -> Runs]
    BY <2>1, <2>2, MovesTyped
  <2> QED BY <1>4, <2>3 DEF DetectChanges, IndexUnchanged, IndexTypes
<1>5. ASSUME NEW k \in Indexers, ListAndCompare(k) PROVE IndexTypes'
  <2>1. indexer[k] \in [step : {"list"}, added : SUBSET Md, dirty : SUBSET Md, gone : SUBSET Md]
    BY <1>5 DEF ListAndCompare, Is, IndexTypes, Runs, Off
  <2>2. Current(k, Present(head)) \in SUBSET Md /\ DOMAIN row \in SUBSET Md
    BY <2>1, PresentIsPaths, ReadTextsOf DEF Current, IndexTypes
  <2>3. Plan(Current(k, Present(head)), DOMAIN row, indexer[k].dirty) \in Runs
    BY <2>2, PlanTyped
  <2>4. indexer' \in [Indexers -> Runs]
    BY <1>5, <2>3, MovesTyped DEF ListAndCompare
  <2> QED BY <1>5, <2>4 DEF ListAndCompare, IndexUnchanged, IndexTypes
<1>6. ASSUME NEW k \in Indexers, ReadItem(k) PROVE IndexTypes'
  <2>1. indexer' \in [Indexers -> Runs]
    <3>1. PICK p \in indexer[k].todo : Moves(k, IF mdFile[p] = NoFile THEN Off ELSE WithText(k, p))
      BY <1>6 DEF ReadItem, WithText
    <3>2. CASE mdFile[p] = NoFile
      BY <3>1, <3>2, <1>off, MovesTyped
    <3>3. CASE mdFile[p] # NoFile
      <4> DEFINE r == WithText(k, p)
      <4>1. Moves(k, r)
        BY <3>1, <3>3
      <4>2. r \in Runs
        BY <1>6, <3>3, ReadTyped DEF ReadItem
      <4> HIDE DEF r
      <4> QED BY <4>1, <4>2, MovesTyped
    <3> QED BY <3>2, <3>3
  <2> QED BY <1>6, <2>1 DEF ReadItem, IndexUnchanged, IndexTypes
<1>7. ASSUME NEW k \in Indexers, UpdateIndex(k) PROVE IndexTypes'
  <2>1. indexer[k] \in [step : {"read"}, drop : SUBSET Md, got : ReadTexts, todo : SUBSET Md]
    BY <1>7 DEF UpdateIndex, Is, IndexTypes, Runs, Off
  <2>2. row' \in ReadTexts
    BY <1>7, <2>1, UpdatedTyped DEF UpdateIndex, IndexTypes
  <2>3. indexer' \in [Indexers -> Runs]
    BY <1>7, <1>off, MovesTyped DEF UpdateIndex
  <2> QED BY <1>7, <2>2, <2>3 DEF UpdateIndex, IndexTypes
<1>8. ASSUME NEW k \in Indexers, IndexFails(k) PROVE IndexTypes'
  BY <1>8, <1>off, MovesTyped DEF IndexFails, Change, IndexTypes
<1> QED BY <1>0, <1>1, <1>2, <1>3, <1>4, <1>5, <1>6, <1>7, <1>8 DEF IndexNext

\* Only a quiet run itself moves, and nothing but the run.
LEMMA QuietMoves ==
  ASSUME IndexTypes, QuietRuns, NEW k \in Indexers, ~Is(k, "off"), quiet' = quiet,
         \A j \in Indexers \ {k} : indexer'[j] = indexer[j],
         k \in quiet => ReadWell(k)'
  PROVE  QuietRuns'
<1> SUFFICES ASSUME NEW q \in quiet' PROVE ReadWell(q)' /\ \A j \in Indexers \ {q} : Is(j, "off")'
  BY DEF QuietRuns
<1>1. q \in quiet /\ q \in Indexers
  BY DEF IndexTypes
<1>2. q = k /\ \A j \in Indexers \ {q} : Is(j, "off")
  BY <1>1 DEF QuietRuns
<1> QED BY <1>1, <1>2 DEF Is

LEMMA QuietStep ==
  ASSUME IndexTypes, QuietRuns, [IndexNext]_indexVars
  PROVE  QuietRuns'
<1>a. ASSUME quiet' = {} PROVE QuietRuns'
  BY <1>a DEF QuietRuns
<1>off. Off \in Runs /\ Off.step = "off"
  BY DEF Runs, Off
<1>0. CASE UNCHANGED indexVars
  BY <1>0 DEF indexVars, QuietRuns, ReadWell, Modified, Present, Is
<1>1. ASSUME NEW p \in Md, ChangeFile(p) PROVE QuietRuns'
  BY <1>1, <1>a DEF ChangeFile, Change
<1>2. CASE CommitAll
  BY <1>2, <1>a DEF CommitAll, Change
<1>3. ASSUME NEW k \in Indexers, StartIndex(k) PROVE QuietRuns'
  <2>1. [step |-> "detect"] \in Runs
    BY DEF Runs
  <2>2. indexer'[k] = [step |-> "detect"] /\ \A j \in Indexers \ {k} : indexer'[j] = indexer[j]
    BY <1>3, <2>1, MovesTyped DEF StartIndex
  <2>3. CASE \A j \in Indexers : Is(j, "off")
    <3>1. quiet' = {k}
      BY <1>3, <2>3 DEF StartIndex
    <3>2. ReadWell(k)'
      BY <2>2 DEF ReadWell, Is
    <3> QED BY <2>2, <2>3, <3>1, <3>2 DEF QuietRuns, Is
  <2>4. CASE ~ \A j \in Indexers : Is(j, "off")
    BY <1>3, <1>a, <2>4 DEF StartIndex
  <2> QED BY <2>3, <2>4
<1>4. ASSUME NEW k \in Indexers, DetectChanges(k) PROVE QuietRuns'
  <2> DEFINE r == [step |-> "list",
               added |-> Present(mdFile) \ Present(head),
               dirty |-> {p \in Present(mdFile) \cap Present(head) : mdFile[p] # head[p]},
               gone |-> Present(head) \ Present(mdFile)]
  <2>1. r \in Runs
    BY PresentIsPaths DEF Runs
  <2>2. Moves(k, r)
    BY <1>4 DEF DetectChanges
  <2>3. indexer'[k] = r /\ \A j \in Indexers \ {k} : indexer'[j] = indexer[j]
    BY <2>1, <2>2, MovesTyped
  <2>4. /\ indexer'[k].step = "list"
        /\ indexer'[k].added = Present(mdFile) \ Present(head)
        /\ indexer'[k].dirty = Modified
        /\ indexer'[k].gone = Present(head) \ Present(mdFile)
    BY <2>3 DEF Modified
  <2> HIDE DEF r
  <2>5. ReadWell(k)'
    BY <1>4, <2>4 DEF DetectChanges, IndexUnchanged, ReadWell, Is, Modified, Present
  <2> QED BY <1>4, <2>3, <2>5, QuietMoves DEF DetectChanges, Is
<1>5. ASSUME NEW k \in Indexers, ListAndCompare(k) PROVE QuietRuns'
  <2>1. indexer[k] \in [step : {"list"}, added : SUBSET Md, dirty : SUBSET Md, gone : SUBSET Md]
    BY <1>5 DEF ListAndCompare, Is, IndexTypes, Runs, Off
  <2> DEFINE current == Current(k, Present(head))
             plan == Plan(current, DOMAIN row, indexer[k].dirty)
  <2>2. current \in SUBSET Md /\ DOMAIN row \in SUBSET Md
    BY <2>1, PresentIsPaths, ReadTextsOf DEF Current, IndexTypes
  <2>3. plan \in Runs
    BY <2>2, PlanTyped
  <2>4. indexer'[k] = plan /\ \A j \in Indexers \ {k} : indexer'[j] = indexer[j]
    BY <1>5, <2>3, MovesTyped DEF ListAndCompare
  <2>5. /\ mdFile' = mdFile /\ head' = head /\ row' = row /\ quiet' = quiet
    BY <1>5 DEF ListAndCompare, IndexUnchanged
  <2>6. ASSUME k \in quiet PROVE ReadWell(k)'
    <3>1. /\ indexer[k].added = Present(mdFile) \ Present(head)
          /\ indexer[k].dirty = Modified
          /\ indexer[k].gone = Present(head) \ Present(mdFile)
      BY <1>5, <2>6 DEF ListAndCompare, QuietRuns, ReadWell
    <3>2. current = Present(mdFile)
      BY <3>1 DEF Current
    <3>3. /\ indexer'[k].step = "read" /\ indexer'[k].got = << >>
          /\ indexer'[k].drop = DOMAIN row \ Present(mdFile)
          /\ indexer'[k].todo = (Present(mdFile) \ DOMAIN row) \cup Modified
      <4>1. Present(mdFile) \cap Modified = Modified
        BY DEF Modified
      <4> QED BY <2>4, <3>1, <3>2, <4>1 DEF Plan
    <3>4. DOMAIN indexer'[k].got = {}
      BY <3>3
    <3> QED BY <2>5, <3>3, <3>4 DEF ReadWell, Is, Modified, Present
  <2> QED BY <1>5, <2>4, <2>5, <2>6, QuietMoves DEF ListAndCompare, Is
<1>6. ASSUME NEW k \in Indexers, ReadItem(k) PROVE QuietRuns'
  <2>1. /\ mdFile' = mdFile /\ head' = head /\ row' = row /\ quiet' = quiet
        /\ Is(k, "read") /\ ~Is(k, "off")
    BY <1>6 DEF ReadItem, IndexUnchanged, Is
  <2>2. PICK p \in indexer[k].todo : Moves(k, IF mdFile[p] = NoFile THEN Off ELSE WithText(k, p))
    BY <1>6 DEF ReadItem, WithText
  <2>3. CASE mdFile[p] = NoFile
    <3>1. indexer'[k] = Off /\ \A j \in Indexers \ {k} : indexer'[j] = indexer[j]
      BY <2>2, <2>3, <1>off, MovesTyped
    <3>2. ReadWell(k)'
      BY <3>1, <1>off DEF ReadWell, Is
    <3> QED BY <2>1, <3>1, <3>2, QuietMoves
  <2>4. CASE mdFile[p] # NoFile
    <3> DEFINE r == WithText(k, p)
    <3>1. Moves(k, r)
      BY <2>2, <2>4
    <3>2. /\ r \in Runs /\ r.step = "read"
          /\ r.drop = indexer[k].drop /\ r.todo = indexer[k].todo \ {p}
          /\ DOMAIN r.got = DOMAIN indexer[k].got \cup {p}
          /\ \A q \in DOMAIN r.got : r.got[q] = IF q = p THEN mdFile[p] ELSE indexer[k].got[q]
      BY <2>1, <2>4, ReadTyped
    <3> HIDE DEF r
    <3>3. indexer'[k] = r /\ \A j \in Indexers \ {k} : indexer'[j] = indexer[j]
      BY <3>1, <3>2, MovesTyped
    <3>4. ASSUME k \in quiet PROVE ReadWell(k)'
      <4>1. /\ indexer[k].drop = DOMAIN row \ Present(mdFile)
            /\ DOMAIN indexer[k].got \subseteq Present(mdFile)
            /\ \A q \in DOMAIN indexer[k].got : indexer[k].got[q] = mdFile[q]
            /\ DOMAIN indexer[k].got \cup indexer[k].todo = (Present(mdFile) \ DOMAIN row) \cup Modified
        BY <2>1, <3>4 DEF QuietRuns, ReadWell
      <4>2. p \in Present(mdFile)
        BY <4>1 DEF Modified
      <4>3. DOMAIN r.got \subseteq Present(mdFile) /\ \A q \in DOMAIN r.got : r.got[q] = mdFile[q]
        BY <3>2, <4>1, <4>2
      <4>4. DOMAIN r.got \cup r.todo = (Present(mdFile) \ DOMAIN row) \cup Modified
        BY <3>2, <4>1
      <4> QED BY <2>1, <3>2, <3>3, <4>1, <4>3, <4>4 DEF ReadWell, Is, Modified, Present
    <3> QED BY <2>1, <3>3, <3>4, QuietMoves
  <2> QED BY <2>3, <2>4
<1>7. ASSUME NEW k \in Indexers, UpdateIndex(k) PROVE QuietRuns'
  <2>1. indexer'[k] = Off /\ \A j \in Indexers \ {k} : indexer'[j] = indexer[j]
    BY <1>7, <1>off, MovesTyped DEF UpdateIndex
  <2>2. ReadWell(k)'
    BY <2>1, <1>off DEF ReadWell, Is
  <2> QED BY <1>7, <2>1, <2>2, QuietMoves DEF UpdateIndex, Is
<1>8. ASSUME NEW k \in Indexers, IndexFails(k) PROVE QuietRuns'
  BY <1>8, <1>a DEF IndexFails, Change
<1> QED BY <1>0, <1>1, <1>2, <1>3, <1>4, <1>5, <1>6, <1>7, <1>8 DEF IndexNext

\* The transaction takes out the edges of every row it drops or replaces, before it makes those
\* of the replaced ones.
LEMMA EdgesStep ==
  ASSUME IndexTypes, EdgesHaveTheirSource, [IndexNext]_indexVars
  PROVE  EdgesHaveTheirSource'
<1>a. ASSUME row' = row, edges' = edges PROVE EdgesHaveTheirSource'
  BY <1>a DEF EdgesHaveTheirSource
<1>1. ASSUME NEW k \in Indexers, UpdateIndex(k) PROVE EdgesHaveTheirSource'
  <2> DEFINE drop == indexer[k].drop
             texts == indexer[k].got
  <2>1. drop \in SUBSET Md /\ texts \in ReadTexts
    BY <1>1 DEF UpdateIndex, Is, IndexTypes, Runs, Off
  <2>2. /\ row' = Updated(drop, texts) /\ edges' = EdgesAfter(drop, texts)
        /\ DOMAIN row' = (DOMAIN row \ drop) \cup DOMAIN texts
        /\ \A p \in DOMAIN row' : row'[p] = IF p \in DOMAIN texts THEN texts[p] ELSE row[p]
    <3>1. row \in ReadTexts /\ row' = Updated(drop, texts) /\ edges' = EdgesAfter(drop, texts)
      BY <1>1 DEF UpdateIndex, IndexTypes
    <3> HIDE DEF drop, texts
    <3>2. /\ DOMAIN Updated(drop, texts) = (DOMAIN row \ drop) \cup DOMAIN texts
          /\ \A p \in DOMAIN Updated(drop, texts) :
               Updated(drop, texts)[p] = IF p \in DOMAIN texts THEN texts[p] ELSE row[p]
      BY <2>1, <3>1, UpdatedTyped
    <3> QED BY <3>1, <3>2
  <2> HIDE DEF drop, texts
  <2>3. ASSUME NEW e \in edges, e[1] \notin drop \cup DOMAIN texts
        PROVE  e[1] \in DOMAIN row' /\ Mentions[row'[e[1]]] = e[2]
    BY <2>2, <2>3 DEF EdgesHaveTheirSource
  <2>4. ASSUME NEW e \in EdgesFrom(texts, DOMAIN Updated(drop, texts))
        PROVE  e[1] \in DOMAIN row' /\ Mentions[row'[e[1]]] = e[2]
    BY <2>2 DEF EdgesFrom
  <2> QED BY <2>2, <2>3, <2>4 DEF EdgesAfter, EdgesHaveTheirSource
<1>2. CASE UNCHANGED indexVars
  BY <1>2, <1>a DEF indexVars
<1>3. CASE CommitAll \/ \E p \in Md : ChangeFile(p)
  BY <1>3, <1>a DEF CommitAll, ChangeFile
<1>4. ASSUME NEW k \in Indexers,
             StartIndex(k) \/ DetectChanges(k) \/ ListAndCompare(k) \/ ReadItem(k) \/ IndexFails(k)
      PROVE  EdgesHaveTheirSource'
  BY <1>4, <1>a DEF StartIndex, DetectChanges, ListAndCompare, ReadItem, IndexFails, IndexUnchanged
<1> QED BY <1>1, <1>2, <1>3, <1>4 DEF IndexNext

LEMMA IndexStart == IndexInit => IndexInv
<1> SUFFICES ASSUME IndexInit PROVE IndexInv
  OBVIOUS
<1>1. (CHOOSE x \in Texts : TRUE) \in Texts
  BY TextsAreTexts
<1>2. head \in Contents /\ mdFile \in Contents
  BY <1>1 DEF IndexInit, Contents
<1>3. << >> \in [{} -> Texts]
  OBVIOUS
<1>4. row \in ReadTexts
  BY <1>3, ReadTextsFrom DEF IndexInit
<1>5. Off \in Runs
  BY DEF Runs
<1>6. IndexTypes
  BY <1>2, <1>4, <1>5 DEF IndexTypes, IndexInit
<1> QED BY <1>6 DEF IndexInv, QuietRuns, EdgesHaveTheirSource, IndexInit

LEMMA IndexStep == IndexInv /\ [IndexNext]_indexVars => IndexInv'
  BY IndexTypesStep, QuietStep, EdgesStep DEF IndexInv

LEMMA IndexInvariant == IndexSpec => []IndexInv
  BY IndexStart, IndexStep, PTL DEF IndexSpec

\* However runs of the index overlap with each other and with changes of the
\* store: an edge of the graph is one the text its source was indexed with
\* asks for, and its source is indexed.
THEOREM IndexEdgesHaveTheirSource == IndexSpec => []EdgesHaveTheirSource
  BY IndexInvariant, PTL DEF IndexInv

\* A run nothing happened beside leaves a row for every item and no other, and
\* what git calls modified is indexed as it is.
THEOREM IndexRunsCatchUp == IndexSpec => IndexCatchesUp
<1> DEFINE CaughtUp(k) ==
             (k \in quiet /\ UpdateIndex(k)) =>
                /\ DOMAIN row' = Present(mdFile)
                /\ \A p \in DOMAIN row' : row'[p] = mdFile[p] \/ head[p] \in {mdFile[p], NoFile}
<1>1. ASSUME IndexInv, NEW k \in Indexers PROVE CaughtUp(k)
  <2> SUFFICES ASSUME k \in quiet, UpdateIndex(k)
               PROVE  /\ DOMAIN row' = Present(mdFile)
                      /\ \A p \in DOMAIN row' : row'[p] = mdFile[p] \/ head[p] \in {mdFile[p], NoFile}
    OBVIOUS
  <2> HIDE DEF CaughtUp
  <2> DEFINE drop == indexer[k].drop
             texts == indexer[k].got
  <2>1. drop \in SUBSET Md /\ texts \in ReadTexts /\ indexer[k].todo = {}
    BY <1>1 DEF IndexInv, UpdateIndex, Is, IndexTypes, Runs, Off
  <2>2. /\ DOMAIN row' = (DOMAIN row \ drop) \cup DOMAIN texts
        /\ \A p \in DOMAIN row' : row'[p] = IF p \in DOMAIN texts THEN texts[p] ELSE row[p]
    <3>1. row \in ReadTexts /\ row' = Updated(drop, texts)
      BY <1>1 DEF IndexInv, UpdateIndex, IndexTypes
    <3> HIDE DEF drop, texts
    <3>2. /\ DOMAIN Updated(drop, texts) = (DOMAIN row \ drop) \cup DOMAIN texts
          /\ \A p \in DOMAIN Updated(drop, texts) :
               Updated(drop, texts)[p] = IF p \in DOMAIN texts THEN texts[p] ELSE row[p]
      BY <2>1, <3>1, UpdatedTyped
    <3> QED BY <3>1, <3>2
  <2>3. /\ drop = DOMAIN row \ Present(mdFile)
        /\ DOMAIN texts \subseteq Present(mdFile)
        /\ \A p \in DOMAIN texts : texts[p] = mdFile[p]
        /\ DOMAIN texts = (Present(mdFile) \ DOMAIN row) \cup Modified
    BY <1>1, <2>1 DEF IndexInv, QuietRuns, ReadWell, UpdateIndex
  <2> HIDE DEF drop, texts
  <2>4. DOMAIN row' = Present(mdFile)
    BY <2>2, <2>3
  <2>5. ASSUME NEW p \in Present(mdFile)
        PROVE  row'[p] = mdFile[p] \/ head[p] \in {mdFile[p], NoFile}
    <3>1. CASE p \in DOMAIN texts
      BY <2>2, <2>3, <2>4, <3>1
    <3>2. CASE p \notin DOMAIN texts
      BY <2>3, <3>2 DEF Modified, Present
    <3> QED BY <3>1, <3>2
  <2> QED BY <2>4, <2>5
<1>2. IndexInv => [\A k \in Indexers : CaughtUp(k)]_indexVars
  BY <1>1
<1> QED BY <1>2, IndexInvariant, PTL DEF IndexSpec, IndexCatchesUp

-----------------------------------------------------------------------------
(* From the signature on a commit to what a session starts with.           *)

Days == Nat \cup {Never}

ContextTypes ==
  /\ written \in [ContextItems -> [body : Nat, expires : Days]]
  /\ commit \in [ContextItems -> [body : Nat, expires : Days,
                                  signer : Principals \cup {Unsigned, Nobody}]]
  /\ signers \in SUBSET Principals
  /\ tierRow \in [ContextItems -> [body : Nat, tier : 0 .. 3]]
  /\ tierFile \in [content : SUBSET (ContextItems \X Nat), routes : SUBSET ContextItems]
  /\ draft \in SUBSET SUBSET (ContextItems \X Nat)
  /\ today \in Nat /\ contextChanges \in Nat

\* Items a session may be shown: a human has signed one off, outside the inbox.
Presentable == {p \in reviewed : Where[p].dir # "inbox"}

SignedAreReviewed == \A p \in ContextItems : HumanSigned(p) => p \in reviewed
TiersAreReviewed == \A p \in ContextItems : tierRow[p].tier \in {0, 1} => p \in Presentable
FilesAreReviewed ==
  /\ \A content \in draft : \A r \in content : r[1] \in Presentable
  /\ \A r \in tierFile.content : r[1] \in Presentable
  /\ tierFile.routes \subseteq Presentable
  /\ shown \subseteq Presentable

ContextInv == ContextTypes /\ SignedAreReviewed /\ TiersAreReviewed /\ FilesAreReviewed

\* Only what a human signed, outside the inbox, gets a tier that is shown.
LEMMA TierOf ==
  ASSUME NEW p, NEW expires, NEW signed \in BOOLEAN
  PROVE  /\ ComputeTier(p, expires, signed) \in 0 .. 2
         /\ ComputeTier(p, expires, signed) \in {0, 1} => signed /\ Where[p].dir # "inbox"
<1>1. CASE Where[p].dir = "inbox" \/ ~signed \/ IsExpired(expires)
  <2>1. ComputeTier(p, expires, signed) = 2
    BY <1>1 DEF ComputeTier
  <2> QED BY <2>1
<1>2. CASE ~(Where[p].dir = "inbox" \/ ~signed \/ IsExpired(expires))
  <2>1. ComputeTier(p, expires, signed) \in {0, 1, 2}
    BY <1>2 DEF ComputeTier
  <2> QED BY <1>2, <2>1
<1> QED BY <1>1, <1>2

LEMMA ReindexedTyped ==
  ASSUME ContextTypes, SignedAreReviewed, TiersAreReviewed, NEW rows \in {tierRow, Reindexed}
  PROVE  /\ rows \in [ContextItems -> [body : Nat, tier : 0 .. 3]]
         /\ \A p \in ContextItems : rows[p].tier \in {0, 1} => p \in Presentable
<1>1. ASSUME NEW p \in ContextItems
      PROVE  /\ Indexed(p) \in [body : Nat, tier : 0 .. 3]
             /\ Indexed(p).tier \in {0, 1} => p \in Presentable
  <2> DEFINE t == ComputeTier(p, written[p].expires, HumanSigned(p))
  <2>1. HumanSigned(p) \in BOOLEAN
    BY DEF HumanSigned
  <2>2. t \in 0 .. 2 /\ (t \in {0, 1} => HumanSigned(p) /\ Where[p].dir # "inbox")
    BY <2>1, TierOf
  <2>3. Indexed(p) = [body |-> written[p].body, tier |-> t]
    BY DEF Indexed
  <2> HIDE DEF t
  <2>4. t \in 0 .. 3
    BY <2>2
  <2>5. written[p].body \in Nat
    BY DEF ContextTypes
  <2>6. t \in {0, 1} => p \in Presentable
    BY <2>2 DEF SignedAreReviewed, Presentable
  <2> QED BY <2>3, <2>4, <2>5, <2>6
<1>2. CASE rows = tierRow
  BY <1>2 DEF ContextTypes, TiersAreReviewed
<1>3. CASE rows = Reindexed
  <2>1. \A p \in ContextItems : rows[p] = Indexed(p) \/ rows[p] = tierRow[p]
    BY <1>3 DEF Reindexed
  <2>2. rows = [p \in ContextItems |-> rows[p]]
    BY <1>3 DEF Reindexed
  <2>3. \A p \in ContextItems : tierRow[p] \in [body : Nat, tier : 0 .. 3]
    BY DEF ContextTypes
  <2>4. \A p \in ContextItems : rows[p] \in [body : Nat, tier : 0 .. 3]
    BY <1>1, <2>1, <2>3
  <2>5. rows \in [ContextItems -> [body : Nat, tier : 0 .. 3]]
    BY <2>2, <2>4
  <2> QED BY <1>1, <2>1, <2>5 DEF TiersAreReviewed
<1> QED BY <1>2, <1>3

\* What is in a tier that is shown is presentable, item by item.
LEMMA BodyPresentable ==
  ASSUME ContextTypes, TiersAreReviewed, NEW tier \in {0, 1}
  PROVE  /\ Body(tier) \in SUBSET (ContextItems \X Nat)
         /\ \A r \in Body(tier) : r[1] \in ContextItems /\ r[1] \in Presentable
<1> SUFFICES ASSUME NEW p \in ContextItems, tierRow[p].tier = tier
             PROVE  <<p, tierRow[p].body>> \in ContextItems \X Nat /\ p \in Presentable
  BY DEF Body
<1>1. tierRow[p].body \in Nat
  BY DEF ContextTypes
<1> QED BY <1>1 DEF TiersAreReviewed

LEMMA ContextStep ==
  ASSUME ContextInv, [ContextNext]_contextVars
  PROVE  ContextInv'
<1> USE DEF ContextInv
<1>f. ASSUME reviewed \subseteq reviewed', draft' = draft, tierFile' = tierFile, shown' = shown
      PROVE  FilesAreReviewed'
  BY <1>f DEF FilesAreReviewed, Presentable
<1>r. ASSUME reviewed \subseteq reviewed', tierRow' = tierRow
      PROVE  TiersAreReviewed'
  BY <1>r DEF TiersAreReviewed, Presentable
<1>s. ASSUME reviewed' = reviewed, commit' = commit, signers' = signers
      PROVE  SignedAreReviewed'
  BY <1>s DEF SignedAreReviewed, HumanSigned
<1>0. CASE UNCHANGED contextVars
  <2>1. ContextTypes'
    BY <1>0 DEF contextVars, ContextTypes
  <2> QED BY <1>0, <1>f, <1>r, <1>s, <2>1 DEF contextVars
<1>1. ASSUME NEW p \in ContextItems, WriteItem(p) PROVE ContextInv'
  <2>1. contextChanges' \in Nat
    BY <1>1 DEF WriteItem, Changes, ContextTypes
  <2>2. PICK expires \in {Never, today} :
          written' = [written EXCEPT ![p] = [body |-> contextChanges', expires |-> expires]]
    BY <1>1 DEF WriteItem
  <2>3. [body |-> contextChanges', expires |-> expires] \in [body : Nat, expires : Days]
    BY <2>1 DEF Days, ContextTypes
  <2>4. written' \in [ContextItems -> [body : Nat, expires : Days]]
    BY <2>2, <2>3 DEF ContextTypes
  <2>5. ContextTypes'
    BY <1>1, <2>1, <2>4 DEF WriteItem, ContextTypes
  <2> QED BY <1>1, <1>f, <1>r, <1>s, <2>5 DEF WriteItem
<1>2. ASSUME NEW p \in ContextItems, NEW who \in Principals \cup {Unsigned}, CommitItem(p, who)
      PROVE  ContextInv'
  <2> DEFINE c == [body |-> written[p].body, expires |-> written[p].expires, signer |-> who]
  <2>1. c \in [body : Nat, expires : Days, signer : Principals \cup {Unsigned, Nobody}]
    <3>1. written[p].body \in Nat /\ written[p].expires \in Days
      BY DEF ContextTypes
    <3> QED BY <3>1
  <2>2. commit' = [commit EXCEPT ![p] = c]
    BY <1>2 DEF CommitItem
  <2>s. c.signer = who
    OBVIOUS
  <2> HIDE DEF c
  <2>3. ContextTypes'
    BY <1>2, <2>1, <2>2 DEF CommitItem, ContextTypes
  <2>4. commit'[p] = c /\ \A q \in ContextItems \ {p} : commit'[q] = commit[q]
    BY <2>2 DEF ContextTypes
  <2>5. /\ reviewed \subseteq reviewed' /\ signers' = signers
        /\ who \in signers \cap Humans => p \in reviewed'
    BY <1>2 DEF CommitItem
  <2>6. SignedAreReviewed'
    <3> SUFFICES ASSUME NEW q \in ContextItems, commit'[q].signer \in signers \cap Humans
                 PROVE  q \in reviewed'
      BY <2>5 DEF SignedAreReviewed, HumanSigned
    <3>1. CASE q = p
      BY <2>4, <2>5, <2>s, <3>1
    <3>2. CASE q # p
      BY <2>4, <2>5, <3>2 DEF SignedAreReviewed, HumanSigned
    <3> QED BY <3>1, <3>2
  <2> QED BY <1>2, <1>f, <1>r, <2>3, <2>5, <2>6 DEF CommitItem
<1>3. ASSUME NEW who \in Principals, TrustSigner(who) PROVE ContextInv'
  <2>1. ContextTypes'
    BY <1>3 DEF TrustSigner, Changes, ContextTypes
  <2>2. SignedAreReviewed'
    BY <1>3 DEF TrustSigner, SignedAreReviewed, HumanSigned
  <2> QED BY <1>3, <1>f, <1>r, <2>1, <2>2 DEF TrustSigner
<1>4. CASE IndexStore
  <2>1. /\ tierRow' \in [ContextItems -> [body : Nat, tier : 0 .. 3]]
        /\ \A p \in ContextItems : tierRow'[p].tier \in {0, 1} => p \in Presentable
    BY <1>4, ReindexedTyped DEF IndexStore
  <2>2. ContextTypes'
    BY <1>4, <2>1 DEF IndexStore, ContextTypes
  <2>3. TiersAreReviewed'
    BY <1>4, <2>1 DEF IndexStore, TiersAreReviewed, Presentable
  <2> QED BY <1>4, <1>f, <1>s, <2>2, <2>3 DEF IndexStore
<1>5. CASE Materialize
  <2>1. draft' = {Body(0)} /\ Body(0) \in SUBSET (ContextItems \X Nat)
        /\ \A r \in Body(0) : r[1] \in Presentable
    BY <1>5, BodyPresentable DEF Materialize
  <2>2. ContextTypes'
    BY <1>5, <2>1 DEF Materialize, ContextTypes
  <2>3. FilesAreReviewed'
    BY <1>5, <2>1 DEF Materialize, FilesAreReviewed, Presentable
  <2> QED BY <1>5, <1>r, <1>s, <2>2, <2>3 DEF Materialize
<1>6. CASE RenameTierFile
  <2>1. PICK content \in draft :
          tierFile' = [content |-> content, routes |-> {r[1] : r \in Body(1)}]
    BY <1>6 DEF RenameTierFile
  <2>2. \A r \in Body(1) : r[1] \in ContextItems /\ r[1] \in Presentable
    BY BodyPresentable
  <2>3. tierFile'.content = content /\ tierFile'.routes = {r[1] : r \in Body(1)} /\ draft' = {}
    BY <1>6, <2>1 DEF RenameTierFile
  <2>4. tierFile' \in [content : SUBSET (ContextItems \X Nat), routes : SUBSET ContextItems]
    BY <2>1, <2>2 DEF ContextTypes
  <2>5. ContextTypes'
    BY <1>6, <2>3, <2>4 DEF RenameTierFile, ContextTypes
  <2>6. FilesAreReviewed'
    BY <1>6, <2>2, <2>3 DEF RenameTierFile, FilesAreReviewed, Presentable
  <2> QED BY <1>6, <1>r, <1>s, <2>5, <2>6 DEF RenameTierFile
<1>7. CASE SessionStart
  <2>1. /\ tierRow' \in [ContextItems -> [body : Nat, tier : 0 .. 3]]
        /\ \A p \in ContextItems : tierRow'[p].tier \in {0, 1} => p \in Presentable
    BY <1>7, ReindexedTyped DEF SessionStart
  <2>2. ContextTypes'
    BY <1>7, <2>1 DEF SessionStart, ContextTypes
  <2>3. TiersAreReviewed'
    BY <1>7, <2>1 DEF SessionStart, TiersAreReviewed, Presentable
  <2>4. FilesAreReviewed'
    BY <1>7 DEF SessionStart, FilesAreReviewed, Presentable
  <2> QED BY <1>7, <1>s, <2>2, <2>3, <2>4 DEF SessionStart
<1>8. CASE Midnight
  <2>1. ContextTypes'
    BY <1>8 DEF Midnight, ContextTypes
  <2> QED BY <1>8, <1>f, <1>r, <1>s, <2>1 DEF Midnight
<1> QED BY <1>0, <1>1, <1>2, <1>3, <1>4, <1>5, <1>6, <1>7, <1>8 DEF ContextNext

LEMMA ContextStart == ContextInit => ContextInv
<1> SUFFICES ASSUME ContextInit PROVE ContextInv
  OBVIOUS
<1>1. ContextTypes
  BY DEF ContextInit, ContextTypes, Unwritten, Unindexed, Days
<1>2. SignedAreReviewed
  BY PrincipalsAreNamed DEF ContextInit, SignedAreReviewed, HumanSigned, Principals
<1>3. TiersAreReviewed
  BY DEF ContextInit, TiersAreReviewed, Unindexed
<1>4. FilesAreReviewed
  BY DEF ContextInit, FilesAreReviewed
<1> QED BY <1>1, <1>2, <1>3, <1>4 DEF ContextInv

\* However commits, edits, changes of allowed_signers, index runs and
\* materialisations interleave: what a session starts with, or is routed to,
\* was once last committed by a human known at that time, and is not in the
\* inbox.
THEOREM SessionsAreShownReviewedItems == ContextSpec => []ShownWasReviewed
<1>1. ContextInv => ShownWasReviewed
  BY DEF ContextInv, FilesAreReviewed, Presentable, ShownWasReviewed
<1> QED BY <1>1, ContextStart, ContextStep, PTL DEF ContextSpec

-----------------------------------------------------------------------------
(* Calendar: the date of a day, counted from 1 March of a year.               *)

\* The days from 1 March of year 0 to 1 March of year y, and to the next.
YearStart(y) == 365 * y + y \div 4 - y \div 100 + y \div 400
YearLength(y) == IF LeapYear(y + 1) THEN 366 ELSE 365

\* The year y is the j-th year of four, the k-th four of a century, the c-th
\* century of its era.
Parts(y, era, c, k, j) ==
  /\ era \in Nat /\ c \in 0..3 /\ k \in 0..24 /\ j \in 0..3
  /\ y = 400 * era + 100 * c + 4 * k + j
\* doe is day t of the year of an era so found.
DayOf(doe, c, k, j, t) ==
  /\ t \in 0..365
  /\ t = 365 => j = 3 /\ (k < 24 \/ c = 3)
  /\ doe = 36524 * c + 1461 * k + 365 * j + t

\* A year by its era, century, four years and year.
LEMMA YearParts ==
  ASSUME NEW y \in Nat
  PROVE  \E era, c, k, j : Parts(y, era, c, k, j)
<1>1. /\ y \div 400 \in Nat /\ (y \div 100) % 4 \in 0..3
      /\ (y \div 4) % 25 \in 0..24 /\ y % 4 \in 0..3
  OBVIOUS
<1>2. y = 400 * (y \div 400) + 100 * ((y \div 100) % 4) + 4 * ((y \div 4) % 25) + (y % 4)
  OBVIOUS
<1>3. Parts(y, y \div 400, (y \div 100) % 4, (y \div 4) % 25, y % 4)
  BY <1>1, <1>2 DEF Parts
<1> QED BY <1>3

LEMMA YearOfParts ==
  ASSUME NEW y \in Nat, NEW era, NEW c, NEW k, NEW j, Parts(y, era, c, k, j)
  PROVE  /\ YearStart(y) = 146097 * era + 36524 * c + 1461 * k + 365 * j
         /\ LeapYear(y + 1) <=> j = 3 /\ (k < 24 \/ c = 3)
<1> USE DEF Parts
<1>1. /\ y \div 4 = 100 * era + 25 * c + k
      /\ y \div 100 = 4 * era + c
      /\ y \div 400 = era
  OBVIOUS
<1>2. (y + 1) % 4 = 0 <=> j = 3
  OBVIOUS
<1>3. (y + 1) % 100 = 0 <=> j = 3 /\ k = 24
  OBVIOUS
<1>4. (y + 1) % 400 = 0 <=> j = 3 /\ k = 24 /\ c = 3
  OBVIOUS
<1>5. YearStart(y) = 146097 * era + 36524 * c + 1461 * k + 365 * j
  BY <1>1 DEF YearStart
<1> QED BY <1>2, <1>3, <1>4, <1>5 DEF LeapYear

\* From the day of an era, civil_from_days finds the year of the era.
LEMMA YearOfEraRight ==
  ASSUME NEW c \in 0..3, NEW k \in 0..24, NEW j \in 0..3, NEW t,
         NEW doe \in Nat, DayOf(doe, c, k, j, t)
  PROVE  /\ doe <= 146096
         /\ YearOfEra(doe) = 100 * c + 4 * k + j
<1> USE DEF DayOf
<1>1. 1461 * k + 365 * j + t <= 36524 /\ (c # 3 => 1461 * k + 365 * j + t < 36524)
  BY SMT
<1>2. doe <= 146096
  BY SMT, <1>1
<1>3. doe \div 36524 - doe \div 146096 = c
  <2>1. CASE doe = 146096
    <3>1. c = 3
      BY SMT, <1>1, <2>1
    <3>2. doe \div 36524 = 4 /\ doe \div 146096 = 1
      BY SMT, <2>1
    <3> QED BY SMT, <3>1, <3>2
  <2>2. CASE doe < 146096
    <3>1. doe \div 146096 = 0
      BY SMT, <2>2
    <3>2. doe < 36524 * (c + 1) /\ doe >= 36524 * c
      BY SMT, <2>2, <1>1
    <3>3. doe \div 36524 = c
      BY SMT, <3>2
    <3> QED BY SMT, <3>1, <3>3
  <2> QED BY SMT, <1>2, <2>1, <2>2
<1>4. PICK e \in 0..1 : doe \div 1460 = 25 * c + k + e /\ t - e \in 0..364
  <2>1. CASE 24 * c + k + 365 * j + t < 1460
    <3>1. doe \div 1460 = 25 * c + k + 0
      BY SMT, <2>1
    <3>2. t - 0 \in 0..364
      BY SMT, <2>1
    <3> QED BY SMT, <3>1, <3>2
  <2>2. CASE 24 * c + k + 365 * j + t >= 1460
    <3>1. doe \div 1460 = 25 * c + k + 1
      BY SMT, <2>2
    <3>2. t - 1 \in 0..364
      BY SMT, <2>2
    <3> QED BY SMT, <3>1, <3>2
  <2> QED BY SMT, <2>1, <2>2
<1>5. doe - doe \div 1460 + doe \div 36524 - doe \div 146096
        = 365 * (100 * c + 4 * k + j) + (t - e)
  <2>1. \A a, b, g \in Int : a = 25 * c + k + e /\ b - g = c
          => doe - a + b - g = 365 * (100 * c + 4 * k + j) + (t - e)
    BY SMT
  <2>2. doe \div 1460 \in Int /\ doe \div 36524 \in Int /\ doe \div 146096 \in Int
    BY SMT
  <2> QED BY SMT, <2>1, <2>2, <1>3, <1>4
<1>6. (365 * (100 * c + 4 * k + j) + (t - e)) \div 365 = 100 * c + 4 * k + j
  BY SMT, <1>4
<1> QED BY SMT, <1>2, <1>5, <1>6 DEF YearOfEra

\* civil_from_days finds the year that began on the last 1 March.
LEMMA CivilAt ==
  ASSUME NEW d \in Nat, NEW y \in Nat, NEW t \in Nat, t < YearLength(y),
         d + 719468 = YearStart(y) + t
  PROVE  CivilFromDays(d) = FromMarch(y, t)
<1>1. PICK era, c, k, j : Parts(y, era, c, k, j)
  BY SMT, YearParts
<1>2. /\ YearStart(y) = 146097 * era + 36524 * c + 1461 * k + 365 * j
      /\ LeapYear(y + 1) <=> j = 3 /\ (k < 24 \/ c = 3)
  BY SMT, <1>1, YearOfParts
<1>3. /\ era \in Nat /\ c \in 0..3 /\ k \in 0..24 /\ j \in 0..3
      /\ y = 400 * era + 100 * c + 4 * k + j
  BY SMT, <1>1 DEF Parts
<1>4. PICK doe \in Nat : doe = 36524 * c + 1461 * k + 365 * j + t
  BY SMT, <1>3
<1>5. DayOf(doe, c, k, j, t)
  BY SMT, <1>2, <1>3, <1>4 DEF DayOf, YearLength
<1>6. doe <= 146096 /\ YearOfEra(doe) = 100 * c + 4 * k + j
  BY SMT, <1>3, <1>5, YearOfEraRight
<1>7. d + 719468 = 146097 * era + doe
  BY SMT, <1>2, <1>4, <1>3
<1>8. (d + 719468) \div 146097 = era
  BY SMT, <1>3, <1>6, <1>7
<1>9. d + 719468 - ((d + 719468) \div 146097) * 146097 = doe
  BY SMT, <1>3, <1>7, <1>8
<1>10. PICK yoe \in Nat : yoe = 100 * c + 4 * k + j
  BY SMT, <1>3
<1>11. doe - (365 * yoe + yoe \div 4 - yoe \div 100) = t
  <2>1. yoe \div 4 = 25 * c + k /\ yoe \div 100 = c
    BY SMT, <1>3, <1>10
  <2> QED BY SMT, <2>1, <1>10, <1>3, <1>4
<1>12. yoe + era * 400 = y
  BY SMT, <1>3, <1>10
<1>13. YearOfEra(doe) = yoe
  BY SMT, <1>6, <1>10
<1> QED BY SMT, <1>8, <1>9, <1>11, <1>12, <1>13 DEF CivilFromDays

\* A year is followed by the next.
LEMMA NextYear ==
  ASSUME NEW y \in Nat
  PROVE  /\ YearStart(y) \in Nat
         /\ YearLength(y) \in {365, 366}
         /\ YearStart(y + 1) = YearStart(y) + YearLength(y)
<1>1. PICK era, c, k, j : Parts(y, era, c, k, j)
  BY SMT, YearParts
<1>2. /\ YearStart(y) = 146097 * era + 36524 * c + 1461 * k + 365 * j
      /\ LeapYear(y + 1) <=> j = 3 /\ (k < 24 \/ c = 3)
  BY SMT, <1>1, YearOfParts
<1>3. /\ era \in Nat /\ c \in 0..3 /\ k \in 0..24 /\ j \in 0..3
      /\ y = 400 * era + 100 * c + 4 * k + j
  BY SMT, <1>1 DEF Parts
<1>4. YearStart(y) \in Nat /\ YearLength(y) \in {365, 366}
  BY SMT, <1>2, <1>3 DEF YearLength
<1>5. CASE j < 3
  <2>1. Parts(y + 1, era, c, k, j + 1)
    BY SMT, <1>3, <1>5 DEF Parts
  <2>2. YearStart(y + 1) = 146097 * era + 36524 * c + 1461 * k + 365 * (j + 1)
    BY SMT, <2>1, YearOfParts
  <2> QED BY SMT, <1>2, <1>3, <1>4, <1>5, <2>2 DEF YearLength
<1>6. CASE j = 3 /\ k < 24
  <2>1. Parts(y + 1, era, c, k + 1, 0)
    BY SMT, <1>3, <1>6 DEF Parts
  <2>2. YearStart(y + 1) = 146097 * era + 36524 * c + 1461 * (k + 1) + 365 * 0
    BY SMT, <2>1, YearOfParts
  <2> QED BY SMT, <1>2, <1>3, <1>4, <1>6, <2>2 DEF YearLength
<1>7. CASE j = 3 /\ k = 24 /\ c < 3
  <2>1. Parts(y + 1, era, c + 1, 0, 0)
    BY SMT, <1>3, <1>7 DEF Parts
  <2>2. YearStart(y + 1) = 146097 * era + 36524 * (c + 1) + 1461 * 0 + 365 * 0
    BY SMT, <2>1, YearOfParts
  <2> QED BY SMT, <1>2, <1>3, <1>4, <1>7, <2>2 DEF YearLength
<1>8. CASE j = 3 /\ k = 24 /\ c = 3
  <2>1. Parts(y + 1, era + 1, 0, 0, 0)
    BY SMT, <1>3, <1>8 DEF Parts
  <2>2. YearStart(y + 1) = 146097 * (era + 1) + 36524 * 0 + 1461 * 0 + 365 * 0
    BY SMT, <2>1, YearOfParts
  <2> QED BY SMT, <1>2, <1>3, <1>4, <1>8, <2>2 DEF YearLength
<1> QED BY SMT, <1>3, <1>4, <1>5, <1>6, <1>7, <1>8

\* The months, counted from March.
Month(mp) == IF mp < 10 THEN mp + 3 ELSE mp - 9
YearAt(y, mp) == IF mp < 10 THEN y ELSE y + 1
MonthStart(mp) == (153 * mp + 2) \div 5

LEMMA MonthStarts ==
  /\ MonthStart(0) = 0    /\ MonthStart(1) = 31   /\ MonthStart(2) = 61
  /\ MonthStart(3) = 92   /\ MonthStart(4) = 122  /\ MonthStart(5) = 153
  /\ MonthStart(6) = 184  /\ MonthStart(7) = 214  /\ MonthStart(8) = 245
  /\ MonthStart(9) = 275  /\ MonthStart(10) = 306 /\ MonthStart(11) = 337
  BY SMT DEF MonthStart

\* Day t of a year from March is in the month mp, and its date then.
Within(t, mp) == mp \in 0..11 /\ t >= MonthStart(mp) /\ (mp < 11 => t < MonthStart(mp + 1))
DateIn(y, t, mp) == <<YearAt(y, mp), Month(mp), t - MonthStart(mp) + 1>>

\* Every day of a year is in a month, and only in the month its date names.
LEMMA MonthOf ==
  ASSUME NEW t \in 0..365
  PROVE  \E mp : Within(t, mp)
<1>1. (5 * t + 2) \div 153 \in 0..11
  BY SMT
<1>2. Within(t, (5 * t + 2) \div 153)
  BY SMT, <1>1 DEF MonthStart, Within
<1> QED BY <1>2

LEMMA InMonth ==
  ASSUME NEW y \in Nat, NEW t \in 0..365, NEW mp, Within(t, mp)
  PROVE  FromMarch(y, t) = DateIn(y, t, mp)
<1>1. mp \in 0..11 /\ mp = (5 * t + 2) \div 153
  BY SMT DEF MonthStart, Within
<1> QED BY SMT, <1>1 DEF FromMarch, YearAt, Month, MonthStart, DateIn

\* Every month but February ends where the next begins.
LEMMA MonthLengths ==
  ASSUME NEW y \in Nat, NEW mp \in 0..11
  PROVE  MonthLength(YearAt(y, mp), Month(mp))
           = IF mp = 11 THEN YearLength(y) - 337 ELSE MonthStart(mp + 1) - MonthStart(mp)
<1>1. CASE mp = 11
  BY SMT, <1>1 DEF MonthLength, YearAt, Month, YearLength
<1>2. CASE mp < 11
  <2>1. Month(mp) # 2
    BY SMT, <1>2 DEF Month
  <2>2. mp \in {0, 1, 2, 3, 4, 5, 6, 7, 8, 9, 10}
    BY SMT, <1>2
  <2>3. MonthLength(YearAt(y, mp), Month(mp)) = IF Month(mp) \in {4, 6, 9, 11} THEN 30 ELSE 31
    BY SMT, <2>1 DEF MonthLength
  <2> QED BY SMT, <2>2, <2>3, MonthStarts DEF Month
<1> QED BY SMT, <1>1, <1>2

\* The calendar's next day is the next day of the year from March.
LEMMA NextDay_InYear ==
  ASSUME NEW y \in Nat, NEW t \in Nat, t + 1 < YearLength(y)
  PROVE  NextDate(FromMarch(y, t)) = FromMarch(y, t + 1)
<1>1. t \in 0..365 /\ t + 1 \in 0..365
  BY SMT, NextYear
<1>2. PICK mp : Within(t, mp)
  BY <1>1, MonthOf
<1>3. mp \in 0..11 /\ MonthStart(mp) \in Nat /\ MonthStart(mp + 1) \in Nat
  BY SMT, <1>2 DEF Within, MonthStart
<1>4. FromMarch(y, t) = DateIn(y, t, mp)
  BY <1>1, <1>2, InMonth
<1>5. MonthLength(YearAt(y, mp), Month(mp))
           = IF mp = 11 THEN YearLength(y) - 337 ELSE MonthStart(mp + 1) - MonthStart(mp)
  BY <1>3, MonthLengths
<1>6. CASE t - MonthStart(mp) + 1 < MonthLength(YearAt(y, mp), Month(mp))
  <2>1. NextDate(FromMarch(y, t)) = DateIn(y, t + 1, mp)
    BY SMT, <1>3, <1>4, <1>6 DEF NextDate, DateIn
  <2>2. Within(t + 1, mp)
    BY SMT, <1>2, <1>3, <1>5, <1>6 DEF Within
  <2>3. FromMarch(y, t + 1) = DateIn(y, t + 1, mp)
    BY <1>1, <2>2, InMonth
  <2> QED BY <2>1, <2>3
<1>7. CASE ~(t - MonthStart(mp) + 1 < MonthLength(YearAt(y, mp), Month(mp)))
  <2>1. YearLength(y) \in Int
    BY SMT, NextYear
  <2>2. mp # 11
    <3>1. CASE mp = 11
      <4>1. MonthStart(mp) = 337
        BY <3>1, MonthStarts
      <4> QED BY SMT, <4>1, <3>1, <1>5, <1>7, <2>1
    <3> QED BY <3>1
  <2>3. t + 1 = MonthStart(mp + 1) /\ mp + 1 \in 0..11
    BY SMT, <1>2, <1>3, <1>5, <1>7, <2>2 DEF Within
  <2>4. NextDate(FromMarch(y, t)) = DateIn(y, t + 1, mp + 1)
    BY SMT, <1>3, <1>4, <1>7, <2>3 DEF NextDate, DateIn, Month, YearAt
  <2>5. Within(t + 1, mp + 1)
    BY SMT, <2>3 DEF Within, MonthStart
  <2>6. FromMarch(y, t + 1) = DateIn(y, t + 1, mp + 1)
    BY <1>1, <2>5, InMonth
  <2> QED BY <2>4, <2>6
<1> QED BY <1>6, <1>7

\* ... and after the last of February, 1 March.
LEMMA NextDay_YearEnd ==
  ASSUME NEW y \in Nat, NEW t \in Nat, t + 1 = YearLength(y)
  PROVE  NextDate(FromMarch(y, t)) = FromMarch(y + 1, 0)
<1>1. t \in 0..365 /\ t >= 337 /\ YearLength(y) \in Int
  BY SMT, NextYear
<1>2. Within(t, 11) /\ MonthStart(11) = 337
  BY SMT, <1>1, MonthStarts DEF Within
<1>3. FromMarch(y, t) = <<y + 1, 2, t - 337 + 1>>
  <2>1. FromMarch(y, t) = DateIn(y, t, 11)
    BY <1>1, <1>2, InMonth
  <2> QED BY SMT, <1>2, <2>1 DEF DateIn, YearAt, Month
<1>4. MonthLength(y + 1, 2) = YearLength(y) - 337
  BY SMT DEF MonthLength, YearLength
<1>5. NextDate(FromMarch(y, t)) = <<y + 1, 3, 1>>
  BY SMT, <1>1, <1>3, <1>4 DEF NextDate
<1>6. FromMarch(y + 1, 0) = <<y + 1, 3, 1>>
  BY SMT DEF FromMarch
<1> QED BY <1>5, <1>6

\* Day d since the epoch is day t of the year from March of y.
DayIs(d, y, t) ==
  /\ d \in Nat /\ y \in Nat /\ t \in Nat
  /\ t < YearLength(y)
  /\ d + 719468 = YearStart(y) + t

LEMMA DateOfDay ==
  ASSUME NEW d, NEW y, NEW t, DayIs(d, y, t)
  PROVE  CivilFromDays(d) = FromMarch(y, t)
  BY SMT, CivilAt DEF DayIs

\* The day after, in this year or the next, and 366 days after, in the next
\* year or the one after it.
LEMMA DayAfter ==
  ASSUME NEW d, NEW y, NEW t, DayIs(d, y, t)
  PROVE  \/ t + 1 < YearLength(y) /\ DayIs(d + 1, y, t + 1)
         \/ t + 1 = YearLength(y) /\ DayIs(d + 1, y + 1, 0)
<1>1. d \in Nat /\ y \in Nat /\ t \in Nat /\ t < YearLength(y)
  BY SMT DEF DayIs
<1>2. /\ YearStart(y) \in Nat /\ YearLength(y) \in {365, 366}
      /\ YearStart(y + 1) = YearStart(y) + YearLength(y)
      /\ YearLength(y + 1) \in {365, 366}
  <2>1. y + 1 \in Nat
    BY SMT, <1>1
  <2> QED BY SMT, <1>1, <2>1, NextYear
<1>3. CASE t + 1 < YearLength(y)
  BY SMT, <1>1, <1>2, <1>3 DEF DayIs
<1>4. CASE t + 1 = YearLength(y)
  BY SMT, <1>1, <1>2, <1>4 DEF DayIs
<1> QED BY SMT, <1>1, <1>2, <1>3, <1>4

LEMMA YearAfter ==
  ASSUME NEW d, NEW y, NEW t, DayIs(d, y, t)
  PROVE  \E y2, t2 : y2 > y /\ DayIs(d + 366, y2, t2)
<1>1. d \in Nat /\ y \in Nat /\ t \in Nat /\ t < YearLength(y) /\ y + 1 \in Nat /\ y + 2 \in Nat
  BY SMT DEF DayIs
<1>2. /\ YearStart(y) \in Nat /\ YearLength(y) \in {365, 366}
      /\ YearStart(y + 1) = YearStart(y) + YearLength(y)
  BY SMT, <1>1, NextYear
<1>3. /\ YearLength(y + 1) \in {365, 366} /\ YearLength(y + 2) \in {365, 366}
      /\ YearStart(y + 1 + 1) = YearStart(y + 1) + YearLength(y + 1)
  BY SMT, <1>1, NextYear
<1>4. CASE t + 366 - YearLength(y) < YearLength(y + 1)
  <2>1. DayIs(d + 366, y + 1, t + 366 - YearLength(y))
    BY SMT, <1>1, <1>2, <1>3, <1>4 DEF DayIs
  <2>2. y + 1 > y
    BY SMT, <1>1
  <2> QED BY SMT, <2>1, <2>2
<1>5. CASE t + 366 - YearLength(y) >= YearLength(y + 1)
  <2>1. YearStart(y + 2) = YearStart(y) + YearLength(y) + YearLength(y + 1)
    BY SMT, <1>1, <1>2, <1>3
  <2>2. DayIs(d + 366, y + 2, t + 366 - YearLength(y) - YearLength(y + 1))
    BY SMT, <1>1, <1>2, <1>3, <1>5, <2>1 DEF DayIs
  <2>3. y + 2 > y
    BY SMT, <1>1
  <2> QED BY SMT, <2>2, <2>3
<1> QED BY SMT, <1>1, <1>2, <1>3, <1>4, <1>5

\* Later days, counted from March, have later dates.
LEMMA LaterInYear ==
  ASSUME NEW y \in Nat, NEW t \in Nat, t + 1 \in 0..365
  PROVE  Before(FromMarch(y, t), FromMarch(y, t + 1))
<1>1. t \in 0..365
  BY SMT
<1>2. PICK m1 : Within(t, m1)
  BY <1>1, MonthOf
<1>3. PICK m2 : Within(t + 1, m2)
  BY MonthOf
<1>4. FromMarch(y, t) = DateIn(y, t, m1) /\ FromMarch(y, t + 1) = DateIn(y, t + 1, m2)
  BY <1>1, <1>2, <1>3, InMonth
<1>5. m1 \in 0..11 /\ m2 \in 0..11 /\ (m2 = m1 \/ m2 = m1 + 1)
  BY SMT, <1>2, <1>3 DEF Within, MonthStart
<1>6. MonthStart(m1) \in Int
  BY SMT, <1>5 DEF MonthStart
<1>7. CASE m2 = m1
  BY SMT, <1>4, <1>5, <1>6, <1>7 DEF DateIn, Before
<1>8. CASE m2 = m1 + 1
  BY SMT, <1>4, <1>5, <1>8 DEF DateIn, Before, YearAt, Month
<1> QED BY <1>5, <1>7, <1>8

LEMMA LaterYear ==
  ASSUME NEW y \in Nat, NEW t \in 0..365, NEW y2 \in Nat, NEW t2 \in 0..365, y2 > y
  PROVE  Before(FromMarch(y, t), FromMarch(y2, t2))
<1>1. PICK m1 : Within(t, m1)
  BY MonthOf
<1>2. PICK m2 : Within(t2, m2)
  BY MonthOf
<1>3. FromMarch(y, t) = DateIn(y, t, m1) /\ FromMarch(y2, t2) = DateIn(y2, t2, m2)
  BY <1>1, <1>2, InMonth
<1>4. m1 \in 0..11 /\ m2 \in 0..11
  BY SMT, <1>1, <1>2 DEF Within
<1> QED BY SMT, <1>3, <1>4 DEF DateIn, Before, YearAt, Month


\* The day counted is a day of its year, and has the date counted.
CalendarInv == \E y, t : DayIs(day, y, t) /\ date = FromMarch(y, t)

LEMMA CalendarStep ==
  CalendarInv /\ [NextDay]_calendarVars => CalendarInv'
<1> SUFFICES ASSUME CalendarInv, [NextDay]_calendarVars PROVE CalendarInv'
  OBVIOUS
<1>1. PICK y, t : DayIs(day, y, t) /\ date = FromMarch(y, t)
  BY SMT DEF CalendarInv
<1>2. CASE NextDay
  <2>1. day' = day + 1 /\ date' = NextDate(FromMarch(y, t)) /\ y \in Nat /\ t \in Nat
    BY SMT, <1>1, <1>2 DEF NextDay, DayIs
  <2>2. CASE t + 1 < YearLength(y) /\ DayIs(day + 1, y, t + 1)
    <3>1. NextDate(FromMarch(y, t)) = FromMarch(y, t + 1)
      BY SMT, <2>1, <2>2, NextDay_InYear
    <3> QED BY SMT, <2>1, <2>2, <3>1 DEF CalendarInv
  <2>3. CASE t + 1 = YearLength(y) /\ DayIs(day + 1, y + 1, 0)
    <3>1. NextDate(FromMarch(y, t)) = FromMarch(y + 1, 0)
      BY SMT, <2>1, <2>3, NextDay_YearEnd
    <3> QED BY SMT, <2>1, <2>3, <3>1 DEF CalendarInv
  <2> QED BY SMT, <1>1, <2>2, <2>3, DayAfter
<1>3. CASE UNCHANGED calendarVars
  BY SMT, <1>1, <1>3 DEF CalendarInv, calendarVars
<1> QED BY SMT, <1>2, <1>3

LEMMA DatesDecideExpiry ==
  CalendarInv => ExpiresOnTime
<1> SUFFICES ASSUME CalendarInv PROVE ExpiresOnTime
  OBVIOUS
<1>1. PICK y, t : DayIs(day, y, t) /\ date = FromMarch(y, t)
  BY SMT DEF CalendarInv
<1>2. /\ y \in Nat /\ t \in Nat /\ t \in 0..365 /\ y + 1 \in Nat
      /\ t < YearLength(y) /\ YearLength(y) \in {365, 366}
  BY SMT, <1>1, NextYear DEF DayIs
<1>3. CivilFromDays(day) = date
  BY SMT, <1>1, DateOfDay
<1>4. ~Expired(date, day)
  <2>1. PICK mp : Within(t, mp)
    BY <1>2, MonthOf
  <2>2. date = DateIn(y, t, mp)
    BY <1>1, <1>2, <2>1, InMonth
  <2>3. mp \in 0..11
    BY SMT, <2>1 DEF Within
  <2>4. ~Before(date, date)
    BY SMT, <1>2, <2>2, <2>3 DEF Before, DateIn, YearAt, Month, MonthStart
  <2> QED BY <1>3, <2>4 DEF Expired
<1>5. Expired(date, day + 1)
  <2>1. CASE t + 1 < YearLength(y) /\ DayIs(day + 1, y, t + 1)
    <3>1. CivilFromDays(day + 1) = FromMarch(y, t + 1)
      BY SMT, <2>1, DateOfDay
    <3>2. t + 1 \in 0..365
      BY SMT, <1>2, <2>1
    <3>3. Before(FromMarch(y, t), FromMarch(y, t + 1))
      BY <1>2, <3>2, LaterInYear
    <3> QED BY <1>1, <3>1, <3>3 DEF Expired
  <2>2. CASE t + 1 = YearLength(y) /\ DayIs(day + 1, y + 1, 0)
    <3>1. CivilFromDays(day + 1) = FromMarch(y + 1, 0)
      BY SMT, <2>2, DateOfDay
    <3>2. y + 1 > y /\ 0 \in 0..365
      BY SMT, <1>2
    <3>3. Before(FromMarch(y, t), FromMarch(y + 1, 0))
      BY <1>2, <3>2, LaterYear
    <3> QED BY <1>1, <3>1, <3>3 DEF Expired
  <2> QED BY SMT, <1>1, <2>1, <2>2, DayAfter
<1>6. Expired(date, day + 366)
  <2>1. PICK y2, t2 : y2 > y /\ DayIs(day + 366, y2, t2)
    BY SMT, <1>1, YearAfter
  <2>2. CivilFromDays(day + 366) = FromMarch(y2, t2)
    BY SMT, <2>1, DateOfDay
  <2>3. y2 \in Nat /\ t2 \in 0..365
    BY SMT, <2>1, NextYear DEF DayIs
  <2>4. Before(FromMarch(y, t), FromMarch(y2, t2))
    BY <1>2, <2>1, <2>3, LaterYear
  <2> QED BY <1>1, <2>2, <2>4 DEF Expired
<1> QED BY SMT, <1>4, <1>5, <1>6 DEF ExpiresOnTime

\* The dates of the epoch and of the days the run starts from.
LEMMA DatesKnown ==
  /\ DayIs(0, 1969, 306) /\ FromMarch(1969, 306) = <<1970, 1, 1>>
  /\ DayIs(10957, 1999, 306) /\ FromMarch(1999, 306) = <<2000, 1, 1>>
  /\ DayIs(47482, 2099, 306) /\ FromMarch(2099, 306) = <<2100, 1, 1>>
  BY SMT DEF DayIs, YearStart, YearLength, LeapYear, FromMarch

(* An item is not expired on its own day, and is from the next day on: the    *)
(* date that tier.rs computes from the clock is the calendar's, on every day  *)
(* counted from the epoch, however many are counted.                          *)
THEOREM ItemsExpireOnTime == CalendarSpec => []ExpiresOnTime
<1>1. CalendarInit => CalendarInv
  <2> SUFFICES ASSUME CalendarInit PROVE CalendarInv
    OBVIOUS
  <2>1. \/ day = 0 /\ date = <<1970, 1, 1>>
        \/ day = 10957 /\ date = <<2000, 1, 1>>
        \/ day = 47482 /\ date = <<2100, 1, 1>>
    BY SMT, DaysAreKnown DEF CalendarInit
  <2> QED BY SMT, <2>1, DatesKnown DEF CalendarInv
<1> QED BY <1>1, CalendarStep, DatesDecideExpiry, PTL DEF CalendarSpec
=============================================================================
