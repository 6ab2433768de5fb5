SPECIFICATION FairSpec
CONSTANTS
  c1 = c1
  c2 = c2
  w1 = w1
  t1 = t1
  t2 = t2
  Transports = {t1, t2}
  Callers = {c1, c2}
  Waiters = {w1}
  Leases = {1}
  MaxGen = 2
  MaxTime = 2
CHECK_DEADLOCK FALSE
INVARIANTS TypeOK OneHolder ExpiredIsOver NoLostWakeup
PROPERTIES Fenced NoRevival WaitIsCurrent WaitersServed
