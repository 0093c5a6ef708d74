CONSTANTS
  TimerId = {0}
  WordMax = 31
  TimerWords = {0, 2, 30}
  CtrlWords = {0, 1, 9, 17}
  CmpWords = {0, 1, 3, 31}
  None = None
SPECIFICATION FairSpec
INVARIANTS TypeOK
PROPERTIES NeverSkipsCompare IrqIsPulse NearsInterrupt KeepsInterrupting
