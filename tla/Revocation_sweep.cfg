SPECIFICATION FaultFreeSpec
CONSTANTS
  Device = {d1}
  Serial = {s1}
  NoSerial = NoSerial
  Conn = {c1}
  ResetAll = ResetAll
  MaxResets = 0
PROPERTIES
  RevokedConnectionCloses
