SPECIFICATION Spec
CONSTANTS
  Backlog = 1
  Wire = 1
  Opens <- Many
CHECK_DEADLOCK FALSE
PROPERTY ReadersRun
