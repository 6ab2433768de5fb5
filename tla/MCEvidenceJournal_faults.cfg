SPECIFICATION Spec
CONSTANTS
  c1 = c1
  c2 = c2
  Conns = {c1, c2}
  MaxStatements = 5
  MaxFaults = 3
SYMMETRY Symmetry
CHECK_DEADLOCK FALSE
INVARIANTS TypeOK Recoverable ReturnedKept MemoryAgrees
PROPERTY AnchoredOnce
