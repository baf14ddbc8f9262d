SPECIFICATION FairSpec
CONSTANTS
  top = top
  kid = kid
  f = f
  g = g
  e = e
  m = m
  a = a
  b = b
  Task = {1, 2}
  Pump = Pump
  Tree <- MCTree
  Regs <- MCRegs
  Lanes <- MCLanes
  Acc <- MCAcc
  Bits <- MCBits
  Asserts <- MCAsserts
  Legal <- MCLegal
  Shown = top
  UpdateClearsRc = TRUE
  RowJob <- MCRowJob
  StepFlag <- MCStepFlag
  MaxEvent = 1
  MaxFail = 1
  MaxStep = 2
 
PROPERTIES StepsAlternate WorkersEnd
CHECK_DEADLOCK FALSE
