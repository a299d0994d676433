SPECIFICATION FairSpec
CONSTANTS
  Thread = {t1, t2}
  Secret = {s1, s2}
  MaxRequests = 4
  MaxRows = 2
  Absent = Absent
  Original = Original
INVARIANTS TypeOK OwnMemory SecretInPlace OneSecret DemoAgrees
PROPERTY RequestAnswered
CHECK_DEADLOCK FALSE
