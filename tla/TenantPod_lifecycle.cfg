SPECIFICATION LiveSpec
CONSTANTS
  Request = {r1, r2}
  Reaper = {p1}
  Operator = {o1}
  MaxFaults = 2
INVARIANTS
  KeptHonest
PROPERTIES
  OutageEnds
  IdlePodStops
