SPECIFICATION FairSpec
CONSTANTS
  Conn = {c1, c2}
  Nobody = Nobody
  MaxReq = 2
  Window = 1
INVARIANTS ClosedForCause
PROPERTIES ImplementsService Served
CHECK_DEADLOCK FALSE
