CONSTANTS
  Procs = {p1}
  First = p1
  Names = {"a", "b"}
  NInodes = 3
  NINODE = 3
  NFILE = 1
  NOFILE = 1
  MaxOps = 2
  Calls <- DotDotCalls
SPECIFICATION Spec
INVARIANT NoPanic
