CONSTANTS
  WordBytes = 2
  RamBytes = 6
  Junk = Junk
  Programs <- MCPrograms
  Sent <- MCSent
  MaxCommands = 4
  MaxPending = 2
SPECIFICATION Spec
INVARIANTS TypeOK StartsFromImage
PROPERTIES CommandsServed ImplementsBitbang
CHECK_DEADLOCK FALSE
