SPECIFICATION FairSpec
CONSTANTS
  Task = {t1, t2}
  Mtu = 2
  Addr <- MCAddr
  Size <- MCSize
  Unsized = Unsized
  Nobody = Nobody
INVARIANTS IInv ChunkInBlock  BlocksNotMixed
PROPERTIES Ends
