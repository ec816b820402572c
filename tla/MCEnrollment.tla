--------------------------- MODULE MCEnrollment ---------------------------
(***************************************************************************)
(* Instances of Enrollment for TLC.                                        *)
(***************************************************************************)
EXTENDS Enrollment, TLC

\* Sound: no property of the safety runs names a device, serial, grant or submission.
Symmetry ==
  Permutations(Device) \cup Permutations(Serial) \cup Permutations(Grant)
    \cup Permutations(Submission)
=============================================================================
