CONSTANTS
  Ops = {o1, o2, o3}
  Blocks = {b1, b2, b3}
  Data = {d0}
  Zero = d0
  Torn = torn
  LOGSIZE = 3
  MAXOPBLOCKS = 1
  NLOG = 3
  OpWrites = 1
SPECIFICATION Spec
SYMMETRY Symmetry
INVARIANT NoPanic
