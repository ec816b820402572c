SPECIFICATION Spec
CONSTANTS
  Device = {d1, d2}
  Serial = {s1, s2, s3}
  NoSerial = NoSerial
  Grant = {g1, g2}
  Submission = {v1, v2}
  NoDevice = NoDevice
  MaxFailures = 1
SYMMETRY Symmetry
CHECK_DEADLOCK FALSE
INVARIANTS
  TypeOK
  OwnCertificate
  ConsentedOnly
  ApprovalOwnsRow
