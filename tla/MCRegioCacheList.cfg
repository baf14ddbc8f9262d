SPECIFICATION ListSpec
CONSTANTS
  AddrSpace = 5
  Byte <- MCByte
  Written <- MCWritten
  Zero = 0
  Hole = Hole
  Bad = Bad
  Addrs <- MCAddrs
  Sizes <- MCSizes
INVARIANTS BisectFindsRegion TwinsAgree
 
