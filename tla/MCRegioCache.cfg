SPECIFICATION Spec
CONSTANTS
  AddrSpace = 3
  Byte <- MCByte
  Zero = 0
  Hole = Hole
  Bad = Bad
  Addrs <- MCAddrs
  Sizes <- MCSizes
INVARIANTS TypeOK Separated FileSeparated ReadIsExact
 
