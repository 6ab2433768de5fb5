SPECIFICATION Spec
CONSTANTS
  Window <- One
  Threshold <- One
  MaxData <- One
  MaxWindow = 3
  Backlog = 1
  MaxId = 1
  Denied = {}
  WriteLimit <- OneZero
  Ops = {"cancel"}
INVARIANTS
  StreamsIndependent
CHECK_DEADLOCK FALSE
