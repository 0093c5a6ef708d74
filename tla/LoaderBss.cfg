CONSTANTS
  WordBytes = 2
  RamBytes = 6
  Junk = Junk
  Programs <- MCOddPrograms
  Sent <- MCSent
  MaxCommands = 4
  MaxPending = 2
SPECIFICATION Spec
INVARIANT StartsFromImage
CHECK_DEADLOCK FALSE
