CONSTANTS
  Reader = {r1, r2}
  Writer = {w1, w2}
  FirstReader = r1
  FirstWriter = w1
  Killable = {r1, w1}
  Val = {v0, v1}
  NoProc = NoProc
  PIPESIZE = 2
  UintMod = 4
  MaxCount = 3
SPECIFICATION Spec
INVARIANT ReaderSleepsOnEmpty
CHECK_DEADLOCK FALSE
