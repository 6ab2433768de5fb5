SPECIFICATION Spec
CONSTANTS
  Window <- ThreeTwo
  Threshold <- Two
  MaxData <- Two
  MaxWindow = 3
  Backlog = 1
  MaxId = 2
  Denied = {2}
  WriteLimit <- ThreeZero
  Ops = {"close", "reset"}
INVARIANTS
  TypeOK
  FlowConforms
  EndToEndBound
  NoLostWakeup
  CreditConserved
  BytesInOrder
  StreamsIndependent
CHECK_DEADLOCK FALSE
