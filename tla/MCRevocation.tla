--------------------------- MODULE MCRevocation ---------------------------
(***************************************************************************)
(* Instances of Revocation for TLC.                                        *)
(***************************************************************************)
EXTENDS Revocation, TLC

\* Sound: no property below names a device, a serial or a connection.
Symmetry ==
  Permutations(Device) \cup Permutations(Serial) \cup Permutations(Conn)
=============================================================================
