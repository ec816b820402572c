SPECIFICATION LiveSpec
CONSTANTS
  Device = {d1}
  Serial = {s1, s2, s3, s4}
  NoSerial = NoSerial
  Grant = {g1}
  Submission = {v1, v2}
  NoDevice = NoDevice
  MaxFailures = 2
CHECK_DEADLOCK FALSE
PROPERTIES
  JobGetsFinished
