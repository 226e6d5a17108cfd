CONSTANTS
  Procs = {p1, p2}
  Bytes = {0, 1}
  PIPESIZE = 2
  MODULUS = 4
  MaxCount = 3
  Killable = {p1}
SPECIFICATION FairSpec
CHECK_DEADLOCK FALSE
INVARIANTS PipeInv NoLostWakeup
PROPERTIES IsFifo 
