SPECIFICATION Spec
CONSTANTS
  Device = {d1, d2}
  Serial = {s1, s2, s3}
  NoSerial = NoSerial
  Conn = {c1, c2}
  ResetAll = ResetAll
  MaxResets = 1
SYMMETRY Symmetry
INVARIANTS
  TypeOK
  RegistryExact
  CancelledForCause
  NoServiceAfterRevocation
  SweepMissesNothing
PROPERTIES
  ImplementsSessions
