SPECIFICATION Spec
CONSTANTS
  c1 = c1
  c2 = c2
  Callers = {c1}
  Lease = 2
  MaxLease = 6
  MaxRuns = 2
  MaxGen = 2
  MaxTime = 4
  Ops = {"cancel"}
CHECK_DEADLOCK FALSE
PROPERTY RouteKept
