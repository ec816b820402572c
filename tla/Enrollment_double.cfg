SPECIFICATION Spec
CONSTANTS
  Device = {d1}
  Serial = {s1, s2}
  NoSerial = NoSerial
  Grant = {g1}
  Submission = {v1, v2}
  NoDevice = NoDevice
  MaxFailures = 0
SYMMETRY Symmetry
CHECK_DEADLOCK FALSE
INVARIANTS
  OneCertificate
