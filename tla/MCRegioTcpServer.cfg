SPECIFICATION FairSpec
CONSTANTS
  c1 = c1
  c2 = c2
  Conn = {c1, c2}
  Nobody = Nobody
  Listen = Listen
  Sends <- MCSends
  MaxReq <- MCMaxReq
  Window = 1
INVARIANTS IInv NoneStranded DroppedForCause AnswersInOrder
PROPERTIES ImplementsService Served
