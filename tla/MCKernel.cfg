CONSTANTS
  CPUs = {c1, c2}
  Threads = {t1, t2}
  Outer = outer
  Sleepers = {p1, p2, p3}
  Blocks = {k1, k2, k3, k4}
  Data = {0, 1}
  NBUF = 3
  MaxPins = 1
  Users = {u1, u2}
  First = u1
  NFILE = 3
  NOFILE = 2
  Pages = {1}
SPECIFICATION KernelSpec
SYMMETRY Symmetry
VIEW View
INVARIANTS
  NoPanic HoldingExact InterruptsRestored
  SleepLockRight
  BcacheInv CacheCoherent DescriptorsRight
