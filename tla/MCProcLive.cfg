CONSTANTS
  NPROC = 2
  NCPU = 1
  TickMod = 2
  SleepArgs = {1}
  KillPids = {2, 3}
  MaxPid = 3
SPECIFICATION FairSpec
PROPERTIES RunnableRuns KilledDies TickSleeperWakes
