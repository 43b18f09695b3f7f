--------------------------- MODULE SleepLockProofs ---------------------------
(***************************************************************************)
(* Sleep-locks exclude and lose no wakeup, for any number of processes.    *)
(***************************************************************************)
EXTENDS SleepLock, TLAPS

(* The invariant holds after initsleeplock().                              *)
LEMMA InitInvariant == Init => IInv
BY NoProcAssumption
DEF Init, IInv, TypeOK, SpinLocksHeld, FieldsMatch, SleepersSawLocked, NoLostWakeup,
    Critical, Label

(* Every step of acquiresleep(), releasesleep(), sleep(), wakeup() and     *)
(* kill() preserves the invariant.                                         *)
LEMMA StepInvariant == IInv /\ [Next]_vars => IInv'
<1> SUFFICES ASSUME IInv, [Next]_vars PROVE IInv'
  OBVIOUS
<1> USE NoProcAssumption DEF IInv, TypeOK, SpinLocksHeld, FieldsMatch, Critical, Label, Goto
<1>1. CASE UNCHANGED vars
  BY <1>1 DEF vars, SleepersSawLocked, NoLostWakeup
<1>2. ASSUME NEW p \in Proc, AcquireCall(p) PROVE IInv'
  BY <1>2 DEF AcquireCall, SleepersSawLocked, NoLostWakeup
<1>3. ASSUME NEW p \in Proc, AcquireLk(p) PROVE IInv'
  BY <1>3 DEF AcquireLk, SleepersSawLocked, NoLostWakeup
<1>4. ASSUME NEW p \in Proc, TestSleep(p) PROVE IInv'
  BY <1>4 DEF TestSleep, SleepersSawLocked, NoLostWakeup
<1>5. ASSUME NEW p \in Proc, TestAcquire(p) PROVE IInv'
  BY <1>5 DEF TestAcquire, SleepersSawLocked, NoLostWakeup
<1>6. ASSUME NEW p \in Proc, SleepPtable(p) PROVE IInv'
  BY <1>6 DEF SleepPtable, SleepersSawLocked, NoLostWakeup
<1>7. ASSUME NEW p \in Proc, SleepRelease(p) PROVE IInv'
  BY <1>7 DEF SleepRelease, SleepersSawLocked, NoLostWakeup
<1>8. ASSUME NEW p \in Proc, SleepFall(p) PROVE IInv'
  BY <1>8 DEF SleepFall, SleepersSawLocked, NoLostWakeup
<1>9. ASSUME NEW p \in Proc, KillWakes(p) PROVE IInv'
  BY <1>9 DEF KillWakes, SleepersSawLocked, NoLostWakeup
<1>10. ASSUME NEW p \in Proc, ReleaseLk(p) PROVE IInv'
  BY <1>10 DEF ReleaseLk, SleepersSawLocked, NoLostWakeup
<1>11. ASSUME NEW p \in Proc, ReleaseClear(p) PROVE IInv'
  BY <1>11 DEF ReleaseClear, SleepersSawLocked, NoLostWakeup
<1>12. ASSUME NEW p \in Proc, ReleaseWakeup(p) PROVE IInv'
  BY <1>12 DEF ReleaseWakeup, WakeupAll, SleepersSawLocked, NoLostWakeup
<1>13. ASSUME NEW p \in Proc, ReleaseDone(p) PROVE IInv'
  BY <1>13 DEF ReleaseDone, SleepersSawLocked, NoLostWakeup
<1> QED
  BY <1>1, <1>2, <1>3, <1>4, <1>5, <1>6, <1>7, <1>8, <1>9, <1>10, <1>11, <1>12, <1>13
  DEF Next, Acquire, Release

(* The two spinlocks, the fields and the sleepers of a sleep-lock agree at *)
(* every step, for any set of processes.                                   *)
THEOREM SleepLockInvariant == Spec => []IInv
<1>1. Init => IInv
  BY InitInvariant
<1>2. IInv /\ [Next]_vars => IInv'
  BY StepInvariant
<1> QED
  BY <1>1, <1>2, PTL DEF Spec

(* A sleep-lock has one holder at a time, the one lk->pid names, whatever  *)
(* kill() wakes and however the two spinlocks are contended for.           *)
THEOREM SleepLockExcludes == Spec => []MutualExclusion
<1>1. IInv => MutualExclusion
  BY NoProcAssumption DEF IInv, TypeOK, FieldsMatch, MutualExclusion, Critical
<1> QED
  BY <1>1, SleepLockInvariant, PTL

(* sleep() and wakeup() lose no wakeup of a sleep-lock.                    *)
THEOREM SleepLockWakes == Spec => []NoLostWakeup
<1>1. IInv => NoLostWakeup
  BY DEF IInv
<1> QED
  BY <1>1, SleepLockInvariant, PTL
=============================================================================
