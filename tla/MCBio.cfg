CONSTANTS
  Thread = {t1, t2}
  NoThread = NoThread
  Buf = {b1, b2}
  NoBuf = NoBuf
  Block = {k1, k2, k3}
  NoBlock = NoBlock
  Val = {v0, v1}
SPECIFICATION Spec
INVARIANTS TypeOK OneBufferPerBlock BufferStays DiskServesHead NoLostIo
PROPERTY OnlyHoldersChange
SYMMETRY Symmetry
CHECK_DEADLOCK FALSE
