--------------------------- MODULE MCTenantPod ----------------------------
(***************************************************************************)
(* Instances of TenantPod for TLC.                                         *)
(***************************************************************************)
EXTENDS TenantPod, TLC

\* Sound: the safety property of the run that uses it names no worker.
Symmetry == Permutations(Request)
=============================================================================
