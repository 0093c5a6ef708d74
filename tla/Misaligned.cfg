CONSTANTS
  Byte = {0, 1}
  ZeroByte = 0
  Slave = {"ram", "apb"}
  Base <- MCBase
  Last <- MCLast
  Addr <- MCAddr
  None = None
  Request <- MisalignedRequest
  Filtered = TRUE
  Resettable = FALSE
  DrainBeforeRelease = TRUE
SPECIFICATION Spec
PROPERTIES StoreExact
