------------------------------ MODULE Devices ------------------------------
(***************************************************************************)
(* The control plane's `devices` table (wkp-hub/src/control_plane/mod.rs)  *)
(* together with the hub's private CA (hub_ca.rs), as the other hub        *)
(* modules use them.  A row is named by its device: public_key is UNIQUE,  *)
(* so a device, its key and its row are one value.  Each operator here is  *)
(* one committed statement; the modules that EXTEND this one decide which  *)
(* statements share a transaction.                                         *)
(***************************************************************************)
CONSTANTS
  Device,    \* the devices (public keys) that may ever have a row
  Serial,    \* the 128-bit random certificate serials the CA may draw
  NoSerial   \* the NULL of cert_serial; also "no certificate presented"

ASSUME SerialAssumption == NoSerial \notin Serial

VARIABLES
  registered,  \* devices that have a row
  revoked,     \* rows whose revoked_at is set
  certSerial,  \* the cert_serial column
  minted       \* every <<device, serial>> a row has ever recorded

deviceVars == <<registered, revoked, certSerial, minted>>

DevicesTypeOK ==
  /\ registered \subseteq Device
  /\ revoked \subseteq registered
  /\ certSerial \in [Device -> Serial \cup {NoSerial}]
  /\ minted \subseteq Device \X Serial

DevicesInit ==
  /\ registered = {}
  /\ revoked = {}
  /\ certSerial = [d \in Device |-> NoSerial]
  /\ minted = {}

(***************************************************************************)
(* find_device_by_cert_serial: the rows whose cert_serial is s.            *)
(***************************************************************************)
FindByCertSerial(s) == {d \in registered : certSerial[d] = s}

(***************************************************************************)
(* The check the handshake, the git handler and the sweep each make on a   *)
(* serial: is there a row, and is its revoked_at set?                      *)
(***************************************************************************)
Admits(s) == FindByCertSerial(s) # {} /\ FindByCertSerial(s) \cap revoked = {}

RowRevoked(s) == FindByCertSerial(s) \cap revoked # {}

(***************************************************************************)
(* The serials whose certificate belongs to a revoked device, whichever    *)
(* certificate that device's row records now.                              *)
(***************************************************************************)
Condemned == {s \in Serial : \E d \in revoked : <<d, s>> \in minted}

(***************************************************************************)
(* register_device: an INSERT, refused by public_key's UNIQUE constraint   *)
(* for a key that already has a row.                                       *)
(***************************************************************************)
RegisterRow(d) ==
  /\ d \notin registered
  /\ registered' = registered \cup {d}
  /\ UNCHANGED <<revoked, certSerial, minted>>

(***************************************************************************)
(* random_serial_bytes: 128 random bits never repeat a serial in use.      *)
(***************************************************************************)
Fresh(s) == \A d \in Device : <<d, s>> \notin minted

(***************************************************************************)
(* The UPDATE of issue_device_certificate: written over whatever           *)
(* certificate the row held, on any row that exists -- a revoked one       *)
(* included.                                                               *)
(***************************************************************************)
RecordCertificate(d, s) ==
  /\ d \in registered
  /\ certSerial' = [certSerial EXCEPT ![d] = s]
  /\ minted' = minted \cup {<<d, s>>}
  /\ UNCHANGED <<registered, revoked>>

(***************************************************************************)
(* The UPDATE of revoke_device: sets revoked_at once, never again.         *)
(***************************************************************************)
RevokeRow(d) ==
  /\ d \in registered \ revoked
  /\ revoked' = revoked \cup {d}
  /\ UNCHANGED <<registered, certSerial, minted>>
=============================================================================
