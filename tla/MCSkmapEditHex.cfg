SPECIFICATION EditSpec
CONSTANTS
  top = top
  kid = kid
  flags = flags
  mem = mem
  vec = vec
  one = one
  Top = top
  Kids = {kid}
  Regs <- MCRegs
  Mems <- MCMems
  Kind <- MCKind
  VecLen <- MCVecLen
  Acc <- MCAcc
  Size = 2
  ToRaw <- MCToRaw
  Legal <- MCHexLegal
  Watch <- MCWatch
  Texts <- MCTexts
  Found = {1}
  MaxPress = 6
INVARIANTS HexSetsBits
CHECK_DEADLOCK FALSE
