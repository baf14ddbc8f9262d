CONSTANTS
  Number <- MCNumber
  Ipkg <- MCIpkg
  KReg <- MCKReg
  Recipes <- MCRecipes
  Raw <- MCRaw
  User <- MCUser
SPECIFICATION Spec
INVARIANTS ParsesAsWritten  WrittenNotReported
PROPERTY WritesOwnBits
CHECK_DEADLOCK FALSE
