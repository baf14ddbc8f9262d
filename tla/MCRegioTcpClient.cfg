SPECIFICATION FairSpec
CONSTANTS
  t1 = t1
  t2 = t2
  Task = {t1, t2}
  Nobody = Nobody
  Watcher = Watcher
  Closer = Closer
  Request <- MCRequest
  MaxOp = 3
  MaxConn = 2
INVARIANTS OnlyLateReplies CarriedOutOnce
 
CHECK_DEADLOCK FALSE
