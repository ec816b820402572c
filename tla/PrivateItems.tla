----------------------------- MODULE PrivateItems -----------------------------
(* Private items: who they are encrypted to, who can read them, and what the   *)
(* revocation of a device does.  The devices keep one shared history (how they *)
(* agree on it is StoreSync): a device commits on top of the newest version    *)
(* or not at all.  A device's identity is in the keystore of its system or,    *)
(* whenever that is out of reach, in a file.                                   *)
EXTENDS Naturals, FiniteSets

CONSTANTS Members, PrivatePaths, MaxKeys, MaxSteps

VARIABLES vault,          \* per device: keystore, fallback file, reachable
          keys,           \* generated so far
          listed,         \* the recipients file in each work tree: <<label, key>>
          listedAt,       \* the one it was checked out from
          shared,         \* the committed one
          blob,           \* the committed items: who can decrypt them
          work,           \* the items in each work tree: "none", "plain", "cipher"
          newest,         \* devices whose work tree is at the newest commit
          forgetting,     \* a revocation between the rewriting and the commit
          revoked, skipped, steps

privateVars == <<vault, keys, listed, listedAt, shared, blob, work, newest,
                 forgetting, revoked, skipped, steps>>

NoKey == 0
NoBlob == {}
NotForgetting == [on |-> FALSE]

PrivateInit ==
  /\ vault = [d \in Members |-> [keystore |-> NoKey, fallback |-> NoKey, up |-> TRUE]]
  /\ keys = 0
  /\ listed = [d \in Members |-> {}] /\ listedAt = listed /\ shared = {}
  /\ blob = [i \in PrivatePaths |-> NoBlob]
  /\ work = [d \in Members |-> [i \in PrivatePaths |-> "none"]]
  /\ newest = Members
  /\ forgetting = [d \in Members |-> NotForgetting]
  /\ revoked = {} /\ skipped = {} /\ steps = 0

Labels(file) == {r[1] : r \in file}
Recipients(file) == {r[2] : r \in file}

(* The keystore first, the file on any error; a missing one is generated. *)
Place(d) == IF vault[d].up THEN "keystore" ELSE "fallback"

\* fault: a stored identity is generated again
Kept_Regenerated(d) == FALSE
Kept(d) == vault[d][Place(d)] # NoKey

Identity(d) == IF Kept(d) THEN vault[d][Place(d)] ELSE keys + 1
EnsureDevice(d) ==
  /\ ~Kept(d) => keys < MaxKeys
  /\ keys' = IF Kept(d) THEN keys ELSE keys + 1
  /\ vault' = [vault EXCEPT ![d][Place(d)] = Identity(d)]

Counts == steps < MaxSteps /\ steps' = steps + 1

\* The keystore goes out of reach, or comes back.
KeystoreTurns(d) ==
  /\ Counts
  /\ vault' = [vault EXCEPT ![d].up = ~@]
  /\ UNCHANGED <<keys, listed, listedAt, shared, blob, work, newest, forgetting, revoked, skipped>>

(* wkp init: obtains the identity and appends its recipient, once.  A revoked  *)
(* device that runs it asks to be a recipient again.                           *)
RegisterDevice(d) ==
  /\ Counts
  /\ EnsureDevice(d)
  /\ listed' = [listed EXCEPT ![d] = @ \cup {<<d, Identity(d)>>}]
  /\ revoked' = revoked \ {d}
  /\ forgetting' = [e \in Members |->
                     IF forgetting[e].on THEN [forgetting[e] EXCEPT !.denied = @ \ {d}] ELSE NotForgetting]
  /\ UNCHANGED <<listedAt, shared, blob, work, newest, skipped>>

\* Committing the recipients file is left to git commit.
CommitRecipients(d) ==
  /\ d \in newest /\ listed[d] # shared
  /\ shared' = listed[d] /\ listedAt' = [listedAt EXCEPT ![d] = listed[d]]
  /\ newest' = {d}
  /\ revoked' = revoked \ (Labels(listed[d]) \cap {d})
  /\ UNCHANGED <<vault, keys, listed, blob, work, forgetting, skipped, steps>>

(* The clean filter: private text is encrypted to everybody in the recipients  *)
(* file of the work tree, and not committed if there is nobody; what is still  *)
(* ciphertext goes through as it is.                                           *)
CommitPrivate(d, i) ==
  /\ Counts
  /\ d \in newest
  /\ listed[d] # {}
  /\ blob' = [blob EXCEPT ![i] = Recipients(listed[d])]
  /\ work' = [work EXCEPT ![d][i] = "plain"]
  /\ newest' = {d}
  /\ skipped' = skipped \ {i}
  /\ UNCHANGED <<vault, keys, listed, listedAt, shared, forgetting, revoked>>

(* The smudge filter never fails: what this device cannot decrypt stays as it  *)
(* is.  git refuses to overwrite a recipients file with uncommitted lines.     *)
Smudged(d, i) ==
  IF blob[i] = NoBlob THEN "none" ELSE IF Identity(d) \in blob[i] THEN "plain" ELSE "cipher"
Pull(d) ==
  /\ d \notin newest
  /\ shared # listedAt[d] => listed[d] = listedAt[d]
  /\ IF \E i \in PrivatePaths : blob[i] # NoBlob
     THEN EnsureDevice(d) ELSE UNCHANGED <<vault, keys>>
  /\ work' = [work EXCEPT ![d] = [i \in PrivatePaths |-> Smudged(d, i)]]
  /\ listed' = [listed EXCEPT ![d] = IF shared = listedAt[d] THEN @ ELSE shared]
  /\ listedAt' = [listedAt EXCEPT ![d] = shared]
  /\ newest' = newest \cup {d}
  /\ UNCHANGED <<shared, blob, forgetting, revoked, skipped, steps>>

\* fault: the recipients file is written back as it was
WithoutLabel_Kept(file, label) == file

(* wkp forget --device: the private items are found by their frontmatter, so   *)
(* only where the work tree has their text; the recipients file is rewritten   *)
(* on disk first, for the filter to encrypt to the ones that remain.           *)
WithoutLabel(file, label) == {r \in file : r[1] # label}

ForgetDevice(d, label) ==
  /\ Counts
  /\ ~forgetting[d].on
  /\ label \in Labels(listed[d]) /\ Labels(listed[d]) # {label}
  /\ listed' = [listed EXCEPT ![d] = WithoutLabel(@, label)]
  /\ forgetting' = [forgetting EXCEPT
       ![d] = [on |-> TRUE, denied |-> {label}, paths |-> {i \in PrivatePaths : work[d][i] = "plain"}]]
  /\ UNCHANGED <<vault, keys, listedAt, shared, blob, work, newest, revoked, skipped>>

CommitForget(d) ==
  /\ forgetting[d].on
  /\ d \in newest
  /\ shared' = listed[d] /\ listedAt' = [listedAt EXCEPT ![d] = listed[d]]
  /\ blob' = [i \in PrivatePaths |->
                IF i \in forgetting[d].paths THEN Recipients(listed[d]) ELSE blob[i]]
  /\ newest' = {d}
  /\ revoked' = revoked \cup forgetting[d].denied
  /\ skipped' = skipped \cup (PrivatePaths \ forgetting[d].paths)
  /\ forgetting' = [forgetting EXCEPT ![d] = NotForgetting]
  /\ UNCHANGED <<vault, keys, listed, work, steps>>

\* No signature: the recipients file stays rewritten.
ForgetFails(d) ==
  /\ forgetting[d].on
  /\ forgetting' = [forgetting EXCEPT ![d] = NotForgetting]
  /\ UNCHANGED <<vault, keys, listed, listedAt, shared, blob, work, newest, revoked, skipped, steps>>

PrivateNext ==
  \E d \in Members :
    \/ KeystoreTurns(d) \/ RegisterDevice(d) \/ CommitRecipients(d) \/ Pull(d)
    \/ CommitForget(d) \/ ForgetFails(d)
    \/ \E i \in PrivatePaths : CommitPrivate(d, i)
    \/ \E l \in Members : ForgetDevice(d, l)

PrivateSpec == PrivateInit /\ [][PrivateNext]_privateVars

-----------------------------------------------------------------------------

(* "A hiccup reading an existing entry can never fall through into silently    *)
(* generating and overwriting it": a key that is in anybody's recipients file, *)
(* or that an item is encrypted to, is still on the device it was made on,     *)
(* however often the keystore went away and came back in between.              *)
RegisteredKeysAreKept ==
  \A k \in (UNION {Recipients(listed[d]) : d \in Members}) \cup Recipients(shared)
             \cup (UNION {blob[i] : i \in PrivatePaths}) :
    \E d \in Members : k \in {vault[d].keystore, vault[d].fallback}

(* After the commit of a revocation the device is no recipient of any item the *)
(* revoking device could read, nor of any that is committed later by a device  *)
(* that has it, until it registers again itself; by no order of failed and     *)
(* repeated revocations, pulls and keystore failures.                          *)
RevocationHolds ==
  \A l \in revoked :
    /\ l \notin Labels(shared)
    /\ \A i \in PrivatePaths \ skipped :
         blob[i] \cap ({vault[l].keystore, vault[l].fallback} \ {NoKey}) = {}

=============================================================================
