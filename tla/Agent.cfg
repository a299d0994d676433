SPECIFICATION FairSpec
CONSTANTS
  t1 = t1  t2 = t2  t3 = t3  x1 = x1  x2 = x2
  Task = {t1, t2}
  Target = {x1}
  TTL = 2
  MaxAttempts = 2
  MaxClock = 4
  NoTarget = NoTarget
INVARIANTS TypeOK ExclusionsBite ReportHonest
PROPERTIES CaptureOrder TaskReturns
CHECK_DEADLOCK FALSE
