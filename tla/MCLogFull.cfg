CONSTANTS
  Thread = {t1, t2}
  Block = {b1, b2, b3, b4}
  Val = {v0}
  None = None
  MAXOPBLOCKS = 2
  LOGSIZE = 4
  NLOG = 4
  OpBlocks = 2
SPECIFICATION Spec
INVARIANT LogFits
