SPECIFICATION FaultFreeSpec
CONSTANTS
  Device = {d1, d2}
  Serial = {s1, s2}
  NoSerial = NoSerial
  Conn = {c1}
  ResetAll = ResetAll
  MaxResets = 1
PROPERTIES
  NotificationHonoured
  AnyNotificationSweeps
