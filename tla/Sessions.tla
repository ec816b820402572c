----------------------------- MODULE Sessions -----------------------------
(***************************************************************************)
(* What force-closing promises, without registry, tokens, notifications or *)
(* sweeps: a set of live authenticated connections, and those that have    *)
(* been ordered closed and are not gone yet.  An order takes every live    *)
(* connection of one certificate or every live connection there is, never  *)
(* a part of them, and only with cause -- the certificate's device is      *)
(* revoked, or a reset-all has been put on record.  It is never withdrawn. *)
(*                                                                         *)
(* It does not promise that a condemned certificate's connection is closed *)
(* within any time, nor that none is opened after the revocation: the      *)
(* handshake's lookup and the registration are two steps.                  *)
(***************************************************************************)
EXTENDS Naturals

CONSTANTS Conn, Serial

VARIABLES
  live,       \* pairs <<connection, serial of its certificate>>
  ordered,    \* pairs of the same kind that have been ordered closed
  condemned,  \* certificates whose device has been revoked
  audited     \* number of reset-alls on record

sessionVars == <<live, ordered, condemned, audited>>

Init ==
  /\ live = {}
  /\ ordered = {}
  /\ condemned = {}
  /\ audited = 0

Open(c, s) ==
  /\ \A r \in Serial : <<c, r>> \notin live \cup ordered
  /\ live' = live \cup {<<c, s>>}
  /\ UNCHANGED <<ordered, condemned, audited>>

Leave(c, s) ==
  /\ <<c, s>> \in live
  /\ live' = live \ {<<c, s>>}
  /\ UNCHANGED <<ordered, condemned, audited>>

Gone(c, s) ==
  /\ <<c, s>> \in ordered
  /\ ordered' = ordered \ {<<c, s>>}
  /\ UNCHANGED <<live, condemned, audited>>

Condemn ==
  /\ condemned' \in SUBSET Serial
  /\ condemned \subseteq condemned'
  /\ UNCHANGED <<live, ordered, audited>>

Audit ==
  /\ audited' = audited + 1
  /\ UNCHANGED <<live, ordered, condemned>>

Order(closing) ==
  /\ live' = live \ closing
  /\ ordered' = ordered \cup closing
  /\ UNCHANGED <<condemned, audited>>

CloseCertificate(s) == s \in condemned /\ Order({l \in live : l[2] = s})

CloseEverything == audited > 0 /\ Order(live)

Crash ==
  /\ live' = {}
  /\ ordered' = {}
  /\ UNCHANGED <<condemned, audited>>

Next ==
  \/ \E c \in Conn, s \in Serial : Open(c, s) \/ Leave(c, s) \/ Gone(c, s)
  \/ Condemn
  \/ Audit
  \/ \E s \in Serial : CloseCertificate(s)
  \/ CloseEverything
  \/ Crash

Spec == Init /\ [][Next]_sessionVars
=============================================================================
