------------------------------ MODULE SleepLock ------------------------------
(***************************************************************************)
(* Sleep-locks (homeworks/xv6-public/sleeplock.c), the locks of buffers    *)
(* and inodes: acquiresleep and releasesleep on top of sleep and wakeup,   *)
(* with the two spinlocks of that protocol explicit: lk->lk guards the     *)
(* lock's fields, ptable.lock guards the state of the sleepers.  kill()    *)
(* may make a sleeper runnable at any time.                                *)
(***************************************************************************)
CONSTANTS Proc, NoProc

ASSUME NoProcAssumption == NoProc \notin Proc

VARIABLES
    locked,     \* lk->locked
    owner,      \* the process whose pid is in lk->pid
    lk,         \* the process that holds the spinlock lk->lk
    pt,         \* the process that holds ptable.lock
    pc          \* where a process is

vars == <<locked, owner, lk, pt, pc>>

\* "out": outside; "acquire": spins for lk->lk in acquiresleep(); "test": at the
\* while; "sleep": in sleep(), spins for ptable.lock; "both": in sleep(), holds both
\* locks; "falling": holds ptable.lock, not yet SLEEPING; "asleep"; "woken": spins for
\* lk->lk at the end of sleep(); "held": owns the lock; "release": in releasesleep(),
\* holds lk->lk; "wakeup": in wakeup(), spins for ptable.lock; "done": about to
\* release lk->lk.
Label == {"out", "acquire", "test", "sleep", "both", "falling", "asleep", "woken", "held",
          "release", "wakeup", "done"}

TypeOK ==
    /\ locked \in BOOLEAN
    /\ owner \in Proc \union {NoProc}
    /\ lk \in Proc \union {NoProc}
    /\ pt \in Proc \union {NoProc}
    /\ pc \in [Proc -> Label]

\* initsleeplock()
Init ==
    /\ locked = FALSE
    /\ owner = NoProc
    /\ lk = NoProc
    /\ pt = NoProc
    /\ pc = [p \in Proc |-> "out"]

Goto(p, label) == pc' = [pc EXCEPT ![p] = label]

-----------------------------------------------------------------------------
(* acquiresleep()                                                          *)

AcquireCall(p) ==
    /\ pc[p] = "out"
    /\ Goto(p, "acquire")
    /\ UNCHANGED <<locked, owner, lk, pt>>

AcquireLk(p) ==
    /\ pc[p] \in {"acquire", "woken"} /\ lk = NoProc
    /\ lk' = p
    /\ Goto(p, "test")
    /\ UNCHANGED <<locked, owner, pt>>

\* while(lk->locked) sleep(lk, &lk->lk)
TestSleep(p) ==
    /\ pc[p] = "test" /\ locked
    /\ Goto(p, "sleep")
    /\ UNCHANGED <<locked, owner, lk, pt>>

TestAcquire_IgnoreLocked(p) ==
    /\ pc[p] = "test"
    /\ locked' = TRUE
    /\ owner' = p
    /\ lk' = NoProc
    /\ Goto(p, "held")
    /\ UNCHANGED pt
TestAcquire(p) ==
    /\ pc[p] = "test" /\ ~locked
    /\ locked' = TRUE
    /\ owner' = p
    /\ lk' = NoProc
    /\ Goto(p, "held")
    /\ UNCHANGED pt

-----------------------------------------------------------------------------
(* sleep(lk, &lk->lk): take ptable.lock before giving up lk->lk.           *)

SleepPtable_ReleaseFirst(p) ==
    /\ pc[p] = "sleep"
    /\ lk' = NoProc
    /\ Goto(p, "falling")
    /\ UNCHANGED <<locked, owner, pt>>
SleepPtable(p) ==
    /\ pc[p] = "sleep" /\ pt = NoProc
    /\ pt' = p
    /\ Goto(p, "both")
    /\ UNCHANGED <<locked, owner, lk>>

\* release(lk): from here on a releaser may go as far as wakeup()'s ptable.lock.
SleepRelease(p) ==
    /\ pc[p] = "both"
    /\ lk' = NoProc
    /\ Goto(p, "falling")
    /\ UNCHANGED <<locked, owner, pt>>

\* p->state = SLEEPING; sched(), whose scheduler releases ptable.lock.
SleepFall(p) ==
    /\ pc[p] = "falling"
    /\ pt' = NoProc
    /\ Goto(p, "asleep")
    /\ UNCHANGED <<locked, owner, lk>>

\* kill(), under ptable.lock: a sleeper becomes runnable, lock or no lock.
KillWakes(p) ==
    /\ pc[p] = "asleep" /\ pt = NoProc
    /\ Goto(p, "woken")
    /\ UNCHANGED <<locked, owner, lk, pt>>

-----------------------------------------------------------------------------
(* releasesleep()                                                          *)

ReleaseLk(p) ==
    /\ pc[p] = "held" /\ lk = NoProc
    /\ lk' = p
    /\ Goto(p, "release")
    /\ UNCHANGED <<locked, owner, pt>>

ReleaseClear(p) ==
    /\ pc[p] = "release"
    /\ locked' = FALSE
    /\ owner' = NoProc
    /\ Goto(p, "wakeup")
    /\ UNCHANGED <<lk, pt>>

\* wakeup(lk): everyone asleep on the lock becomes runnable.
WakeupAll_None(p) == [pc EXCEPT ![p] = "done"]
WakeupAll(p) ==
    [q \in Proc |-> IF q = p THEN "done" ELSE IF pc[q] = "asleep" THEN "woken" ELSE pc[q]]

ReleaseWakeup_NoPtable(p) ==
    /\ pc[p] = "wakeup"
    /\ pc' = WakeupAll(p)
    /\ UNCHANGED <<locked, owner, lk, pt>>
ReleaseWakeup(p) ==
    /\ pc[p] = "wakeup" /\ pt = NoProc
    /\ pc' = WakeupAll(p)
    /\ UNCHANGED <<locked, owner, lk, pt>>

ReleaseDone(p) ==
    /\ pc[p] = "done"
    /\ lk' = NoProc
    /\ Goto(p, "out")
    /\ UNCHANGED <<locked, owner, pt>>

-----------------------------------------------------------------------------
Release(p) == ReleaseLk(p) \/ ReleaseClear(p) \/ ReleaseWakeup(p) \/ ReleaseDone(p)

Acquire(p) ==
    \/ AcquireLk(p) \/ TestSleep(p) \/ TestAcquire(p)
    \/ SleepPtable(p) \/ SleepRelease(p) \/ SleepFall(p)

Next == \E p \in Proc : AcquireCall(p) \/ Acquire(p) \/ Release(p) \/ KillWakes(p)

Spec == Init /\ [][Next]_vars

\* A thread goes on, holders release in the end, and a spinlock that is free
\* again and again is got in the end.
FairSpec == Spec /\ \A p \in Proc : SF_vars(Acquire(p)) /\ SF_vars(Release(p))

-----------------------------------------------------------------------------
\* Inside the region the lock protects.
Critical(p) == pc[p] \in {"held", "release"}

Waiting(p) == pc[p] \in {"acquire", "test", "sleep", "both", "falling", "asleep", "woken"}

\* One process at a time holds the lock, and it is the one lk->pid names (what
\* holdingsleep() answers).
MutualExclusion ==
    \A p \in Proc : Critical(p) =>
        locked /\ owner = p /\ \A q \in Proc : Critical(q) => q = p

\* A process asleep on the lock has somebody to wake it: the holder, or a
\* releaser on its way to wakeup().  sleep() misses no wakeup although it is
\* called with the lock's state already tested.
NoLostWakeup ==
    (\E p \in Proc : pc[p] = "asleep") =>
        locked \/ \E q \in Proc : pc[q] = "wakeup"

\* While somebody wants the lock, it does not stay free: acquiresleep() and
\* releasesleep() never leave everyone asleep or everyone spinning.
SomebodyGetsIt == (\E p \in Proc : Waiting(p)) ~> (\E p \in Proc : Critical(p))

-----------------------------------------------------------------------------
(* The inductive invariant behind MutualExclusion and NoLostWakeup.        *)

\* Who holds which spinlock where.
SpinLocksHeld ==
    \A p \in Proc :
        /\ lk = p <=> pc[p] \in {"test", "sleep", "both", "release", "wakeup", "done"}
        /\ pt = p <=> pc[p] \in {"both", "falling"}

\* The fields of the lock describe the process inside.
FieldsMatch ==
    /\ locked <=> owner # NoProc
    /\ \A p \in Proc : Critical(p) <=> owner = p

\* Whoever is falling asleep still sees the lock taken while it has lk->lk: nobody can
\* clear it without.  After that, a releaser that has cleared it is not past wakeup(),
\* for want of ptable.lock.
SleepersSawLocked ==
    /\ \A p \in Proc : pc[p] \in {"sleep", "both"} => locked
    /\ \A p \in Proc : pc[p] = "falling" => locked \/ \E q \in Proc : pc[q] = "wakeup"

IInv == TypeOK /\ SpinLocksHeld /\ FieldsMatch /\ SleepersSawLocked /\ NoLostWakeup
=============================================================================
