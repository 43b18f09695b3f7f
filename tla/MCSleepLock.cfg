CONSTANTS
  Proc = {p1, p2, p3, p4}
  NoProc = NoProc
SPECIFICATION FairSpec
INVARIANTS IInv MutualExclusion NoLostWakeup
PROPERTY SomebodyGetsIt
