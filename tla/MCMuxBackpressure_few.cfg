SPECIFICATION Spec
CONSTANTS
  Backlog = 1
  Wire = 1
  Opens <- Few
CHECK_DEADLOCK FALSE
INVARIANTS TypeOK EveryCallAnswered
PROPERTIES ReadersRun OpensReturn
