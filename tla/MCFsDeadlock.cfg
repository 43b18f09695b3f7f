CONSTANTS
  p1 = p1
  p2 = p2
  Process = {p1, p2}
  InitProc = p1
  None = None
  NINODES = 3
  Name = {"a", "b"}
  NFILE = 1
  NOFILE = 1
  Call <- Calls
SPECIFICATION Spec
INVARIANT NoWaitCycle
CHECK_DEADLOCK FALSE
