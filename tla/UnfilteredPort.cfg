CONSTANTS
  Byte = {0, 1}
  ZeroByte = 0
  Slave = {"ram", "apb"}
  Base <- MCBase
  Last <- MCLast
  Addr <- MCAddr
  None = None
  Request <- HoleRequest
  Filtered = FALSE
  Resettable = FALSE
  DrainBeforeRelease = TRUE
SPECIFICATION FairSpec
PROPERTIES NeverHangs
