SPECIFICATION Spec
CONSTANTS
  t1 = t1  t2 = t2  t3 = t3  x1 = x1  x2 = x2
  Task = {t1}
  Target = {x1}
  TTL = 2
  MaxAttempts = 2
  MaxClock = 3
  NoTarget = NoTarget
INVARIANT NotCommitted
CHECK_DEADLOCK FALSE
