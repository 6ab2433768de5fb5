SPECIFICATION FairSpec
CONSTANTS
  Window <- One
  Threshold <- One
  MaxData <- One
  MaxWindow = 3
  Backlog = 1
  MaxId = 1
  Denied = {}
  WriteLimit <- TwoZero
  Ops = {"cancel", "close", "reset", "shutdown"}
INVARIANTS
  CleanEOF
  TablesAgree
PROPERTIES
  CallsReturn
  BytesArrive
CHECK_DEADLOCK FALSE
