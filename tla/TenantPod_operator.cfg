SPECIFICATION Spec
SYMMETRY Symmetry
CONSTANTS
  Request = {r1, r2}
  Reaper = {p1}
  Operator = {o1}
  MaxFaults = 0
INVARIANTS
  RowIsHonest
