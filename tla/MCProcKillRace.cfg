CONSTANTS
  CPUs = {c1, c2}
  NPROC = 3
  KillPids = {2, 3}
  MaxPid = 4
  Budget = 2
SPECIFICATION Spec
CHECK_DEADLOCK FALSE
INVARIANT KilledNotAsleep
