SPECIFICATION Spec
CONSTANTS
  c1 = c1
  c2 = c2
  Conns = {c1}
  MaxStatements = 5
  MaxFaults = 1
CHECK_DEADLOCK FALSE
INVARIANT LineOfItsOwn
