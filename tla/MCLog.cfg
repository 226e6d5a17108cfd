CONSTANTS
  Ops = {o1, o2, o3}
  Blocks = {b1, b2}
  Data = {d0, d1}
  Zero = d0
  Torn = torn
  LOGSIZE = 4
  MAXOPBLOCKS = 2
  NLOG = 4
  OpWrites = 2
SPECIFICATION FairSpec
INVARIANTS CommitExclusive SleeperHasWaker QuietIsDurable
PROPERTIES Atomicity SleeperWoken
