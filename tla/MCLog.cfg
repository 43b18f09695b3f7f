CONSTANTS
  Thread = {t1, t2, t3}
  Block = {b1, b2, b3}
  Val = {v0, v1}
  None = None
  MAXOPBLOCKS = 2
  LOGSIZE = 4
  NLOG = 4
  OpBlocks = 1
SPECIFICATION Spec
INVARIANTS TypeOK QuiescentIsDurable NoLostWakeup NoPanic
PROPERTY ImplementsAtomicDisk
SYMMETRY Symmetry
