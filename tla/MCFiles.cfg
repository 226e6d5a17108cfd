CONSTANTS
  Procs = {p1, p2}
  First = p1
  Names = {"a", "b"}
  NInodes = 3
  NINODE = 3
  NFILE = 1
  NOFILE = 1
  MaxOps = 2
  Calls <- MCCalls
  Writers = {w1, w2}
  OpenFiles = {1, 2, 3}
  Inodes = {1, 2}
  NBlocks = 5
  NDIRECT = 1
  NINDIRECT = 1
  BSIZE = 2
  MAXOPBLOCKS = 6
  BPB = 1
  Lengths = {3}
SPECIFICATION FilesSpec
SYMMETRY Symmetry
INVARIANTS
  RefsExact LinksCounted WaitsAcyclic NoPanic
  BlocksAccounted 
