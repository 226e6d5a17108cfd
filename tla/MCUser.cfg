CONSTANTS
  Procs = {p1, p2}
  First = p1
  LEVELS = 3
  FAN = 3
  PGSIZE = 2
  MinPages = 7
  MaxPages = 26
  MaxCalls = 3
  MAXARGS = 3
  MaxLine = 5
  NPROC = 7
  NOFILE = 6
  NPIPE = 2
  PIPESIZE = 1
  MaxEvents = 2
  HEAP = 8
  CHUNK = 3
  Requests = {1, 2, 4}
  BUFSIZE = 4
  MaxText = 4
  MaxRe = 3
  DIRSIZ = 2
  MaxLen = 6
  UINT = 256
  BSIZE = 2
  NDIRECT = 1
  NINDIRECT = 2
  NMETA = 3
  FSSIZE = 14
  MaxFiles = 3
SPECIFICATION UserSpec
INVARIANTS
  PagesAccounted MemoryRight
  ParseRight ShellRight HeapRight  ImageRight
