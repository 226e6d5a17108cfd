CONSTANTS
  CPUs = {c1, c2}
  NPROC = 3
  KillPids = {}
  MaxPid = 4
  Budget = 1
SPECIFICATION InfoSpec
CHECK_DEADLOCK FALSE
INVARIANT NoKernelFault
