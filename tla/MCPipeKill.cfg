CONSTANTS
  Procs = {p1, p2, p3}
  Bytes = {0}
  PIPESIZE = 2
  MODULUS = 4
  MaxCount = 2
  Killable = {p1}
SPECIFICATION Spec
CHECK_DEADLOCK FALSE
INVARIANT ReaderWaitsForData
