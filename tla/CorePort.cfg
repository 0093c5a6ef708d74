CONSTANTS
  Byte = {0, 1}
  ZeroByte = 0
  Slave = {"ram", "apb"}
  Base <- MCBase
  Last <- MCLast
  Addr <- MCAddr
  None = None
  Request <- MCRequest
  Filtered = TRUE
  Resettable = TRUE
  DrainBeforeRelease = TRUE
SPECIFICATION FairSpec
INVARIANTS TypeOK FsmTracksCore DataPhaseIsRequest OrphanDataCleared
PROPERTIES StoreExact StoreConfined NeverHangs ImplementsMemory
