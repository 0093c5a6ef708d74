CONSTANTS
  Depth = 3
  Data = {z, d1, d2}
  Zero = z
SPECIFICATION Spec
INVARIANTS TypeOK PointersAgree
PROPERTIES ImplementsQueue
