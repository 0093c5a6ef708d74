CONSTANTS
  Addr = {a1, a2}
  Word = {w1, w2}
  None = None
  RomSizes = {2, 6, 8}
  RomAddr = {0, 4, 5, 16}
SPECIFICATION BusSpec
INVARIANTS TypeOK SeenOnce ReadDataHeld RomAnswers
