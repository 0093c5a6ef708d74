CONSTANTS
  Char = {a, b}
  LedChar = a
  RxDepth = 2
  NLeds = 4
  Switch = {28}
  VERILATOR = FALSE
  IcpReadsZero = TRUE
  None = None
SPECIFICATION FairSpec
INVARIANTS TypeOK RequestKept NoEmptyRead LedsOffWhenIdle
PROPERTIES LedRunsEnd LedsServed HandlersReturn
