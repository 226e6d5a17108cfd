CONSTANTS
  CPUs = {c1, c2}
  NPROC = 3
  KillPids = {2, 3}
  MaxPid = 4
  Budget = 1
SPECIFICATION FairSpec
CHECK_DEADLOCK FALSE
INVARIANTS StackExclusive LocksRight ParentsServed KillsRight
PROPERTY InheritedReaped
