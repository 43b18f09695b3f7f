CONSTANTS
  NPROC = 3
  NCPU = 2
  TickMod = 2
  SleepArgs = {1}
  KillPids = {2}
  MaxPid = 3
SPECIFICATION Spec
INVARIANTS TypeOK HandOff StackSafe NoLostExit NoOrphan NoMemLeak NoLostTick KilledSleepsToTick
