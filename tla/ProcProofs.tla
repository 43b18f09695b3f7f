----------------------------- MODULE ProcProofs -----------------------------
(***************************************************************************)
(* The safety properties of Proc, for any number of CPUs and slots and any *)
(* width of ticks.  IInv is inductive: one lemma per action shows that the *)
(* action keeps it, with a step for every part of IInv that the action can *)
(* disturb; the frame lemmas settle the other parts.                       *)
(***************************************************************************)
EXTENDS Proc, TLAPS

\* A counter of width n keeps to it.
LEMMA ModRange == \A a \in Int : \A n \in Nat \ {0} : a % n \in 0 .. n - 1
OBVIOUS

\* The values that mean nobody and nothing are none of the others.
LEMMA Consts ==
    /\ NoProc \notin Slot /\ NoChan \notin Slot /\ TicksChan \notin Slot
    /\ NoChan # TicksChan /\ NoCpu \notin Cpu /\ InitProc \in Slot
    /\ \A p \in Slot : p + 1 \in 0 .. NPROC
    /\ 0 \in 0 .. NPROC /\ 0 \in 0 .. TickMod - 1 /\ 0 \in 0 .. MaxPid
BY SizeAssumption, TickAssumption, PidAssumption
   DEF Slot, Cpu, NoProc, NoCpu, TicksChan, NoChan, InitProc

-----------------------------------------------------------------------------
(* Frame lemmas: what each part of the invariant depends on.               *)

\* CPUs and stacks.
LEMMA CpuFrame ==
    CpuInv /\ UNCHANGED <<state, ptlock, cpuproc, stack, intr, pc>> => CpuInv'
BY DEF CpuInv, Alive

\* The holder of ptable.lock.
LEMMA LockFrame == LockInv /\ UNCHANGED <<state, ptlock, cpuproc, pc>> => LockInv'
BY DEF LockInv

\* Threads that wait for a CPU.
LEMMA ResumeFrame == ResumeInv /\ UNCHANGED <<state, chan, pc, ret>> => ResumeInv'
BY DEF ResumeInv

\* Slots in the making.
LEMMA ForkFrame == ForkInv /\ UNCHANGED <<state, parent, mem, pc, ret, np>> => ForkInv'
BY DEF ForkInv, Makes, At

\* Sleepers on ticks.
LEMMA TickFrame ==
    ASSUME TickInv,
           UNCHANGED <<state, chan, tklock, ticks, cpuproc, intr, pc, ticks0, nsleep>>
    PROVE  TickInv'
BY DEF TickInv, Elapsed

\* Parents and init.
LEMMA OrphanFrame ==
    ASSUME InitInv, NoOrphan, UNCHANGED <<state, parent>>
    PROVE  InitInv' /\ NoOrphan'
BY DEF InitInv, NoOrphan, Alive

\* Memory.
LEMMA MemFrame == NoMemLeak /\ UNCHANGED <<state, mem>> => NoMemLeak'
BY DEF NoMemLeak, Alive

\* Parents asleep in wait().
LEMMA ExitFrame == NoLostExit /\ UNCHANGED <<state, parent, chan>> => NoLostExit'
BY DEF NoLostExit, Kids, ZombieKids

-----------------------------------------------------------------------------
(* The timer interrupt and fork(), for several actions.                    *)

\* The timer has interrupted a thread in user mode or in the kernel without locks.
Interrupted(c) ==
    /\ cpuproc[c] \in Slot
    /\ state[cpuproc[c]] = "RUNNING" /\ pc[cpuproc[c]] \in Preemptible
    /\ ret[cpuproc[c]] = "user"

\* The timer interrupts only such threads.
LEMMA InterruptedThread ==
    ASSUME IInv, NEW c \in Cpu, cpuproc[c] # NoProc, intr[c] \/ Interruptible(c)
    PROVE  Interrupted(c)
<1>1. cpuproc[c] \in Slot
  BY DEF IInv, TypeOK
<1>2. state[cpuproc[c]] = "RUNNING" /\ pc[cpuproc[c]] \in Preemptible
  BY <1>1 DEF IInv, CpuInv, LockInv, Interruptible
<1>3. ret[cpuproc[c]] = "user"
  BY <1>1, <1>2 DEF IInv, ResumeInv, Preemptible
<1> QED BY <1>1, <1>2, <1>3 DEF Interrupted

\* The end of trap(): nothing happens, or the interrupted thread exits or yields.
LEMMA TrapTailEffect ==
    ASSUME IInv, NEW c \in Cpu, intr[c] \/ Interruptible(c), TrapTail(c)
    PROVE  \/ UNCHANGED <<pc, ret>>
           \/ \E p \in Slot :
                /\ p = cpuproc[c] /\ state[p] = "RUNNING"
                /\ pc[p] \in Preemptible /\ ret[p] = "user"
                /\ \/ pc[p] = "user" /\ pc' = [pc EXCEPT ![p] = "exit"] /\ ret' = ret
                   \/ /\ pc' = [pc EXCEPT ![p] = "yield"]
                      /\ ret' = [ret EXCEPT ![p] = pc[p]]
BY InterruptedThread DEF TrapTail, Goto, Interrupted

\* It leaves the thread at a label.
LEMMA TrapTailType ==
    ASSUME IInv, NEW c \in Cpu, intr[c] \/ Interruptible(c), TrapTail(c)
    PROVE  pc' \in [Slot -> Label] /\ ret' \in [Slot -> Preemptible]
BY TrapTailEffect DEF IInv, TypeOK, Label, Preemptible

\* The end of trap(), also after a wakeup, keeps what CPUs, locks and forks rely on.
LEMMA TrapTailInv ==
    ASSUME IInv, NEW c \in Cpu, intr[c] \/ Interruptible(c), TrapTail(c),
           UNCHANGED <<np, mem, parent, cpuproc, stack, ptlock>>,
           \A d \in Cpu : intr'[d] => intr[d] /\ d # c,
           \A q \in Slot : \/ state'[q] = state[q]
                           \/ state[q] = "SLEEPING" /\ state'[q] = "RUNNABLE"
    PROVE  CpuInv' /\ LockInv' /\ ForkInv'
<1>1. \A q \in Slot :
        /\ q # cpuproc[c] \/ state[q] # "RUNNING" => pc'[q] = pc[q] /\ ret'[q] = ret[q]
        /\ pc'[q] \notin Resume \/ pc'[q] = pc[q]
        /\ At(q)' = At(q) \/ (At(q) = "user" /\ At(q)' = "exit")
  BY TrapTailEffect DEF IInv, TypeOK, At, Preemptible, Resume
<1>2. \A d \in Cpu : cpuproc[d] \in Slot \union {NoProc}
  BY DEF IInv, TypeOK
<1>3. CpuInv'
  <2>1. \A d \in Cpu : /\ (stack[d] = "sched" <=> cpuproc[d] = NoProc)'
                       /\ (intr[d] => ptlock # d)'
                       /\ (\A e \in Cpu : e # d /\ cpuproc[d] # NoProc
                                               => cpuproc[e] # cpuproc[d])'
    BY DEF IInv, CpuInv
  <2>2. \A d \in Cpu : (cpuproc[d] # NoProc => Alive(cpuproc[d]))'
    BY <1>2 DEF IInv, CpuInv, Alive
  <2>3. \A d \in Cpu : (intr[d] /\ cpuproc[d] # NoProc =>
            state[cpuproc[d]] = "RUNNING" /\ pc[cpuproc[d]] \in Preemptible)'
    BY <1>1, <1>2 DEF IInv, CpuInv
  <2> QED BY <2>1, <2>2, <2>3 DEF CpuInv
<1>4. LockInv'
  BY <1>1, <1>2, Consts DEF IInv, LockInv
<1>5. ForkInv'
  BY <1>1, Consts DEF IInv, TypeOK, ForkInv, Makes, Forking
<1> QED BY <1>3, <1>4, <1>5

\* A thread inside fork() makes a slot that is neither its own nor init's.
LEMMA SlotInTheMaking ==
    ASSUME IInv, NEW c \in Cpu, NEW p \in Slot, Runs(c, p), pc[p] \in Forking
    PROVE  np[p] \in Slot \ {p, InitProc} /\ Makes(p, np[p])
<1>1. At(p) \in Forking
  BY DEF At, Forking
<1>2. np[p] \in Slot /\ Makes(p, np[p])
  BY <1>1 DEF IInv, TypeOK, ForkInv
<1>3. np[p] # p /\ np[p] # InitProc
  BY <1>2 DEF IInv, InitInv, Makes, Runs
<1> QED BY <1>2, <1>3

-----------------------------------------------------------------------------
(* The actions.                                                            *)

\* scheduler() takes ptable.lock for a new scan, from its own stack.
LEMMA SchedAcquireKeeps ==
    ASSUME NEW c \in Cpu, IInv, SchedAcquire(c)
    PROVE  IInv'
<1>1. TypeOK'
  BY DEF IInv, SchedAcquire, TypeOK, procVars, cpuVars, sleepVars, Label, Preemptible
<1>2. CpuInv'
  BY DEF IInv, SchedAcquire, CpuInv, procVars, cpuVars, Alive
<1>3. LockInv'
  BY Consts DEF IInv, SchedAcquire, LockInv, procVars, cpuVars
<1>4. /\ ResumeInv' /\ ForkInv' /\ TickInv' /\ InitInv' /\ NoMemLeak' /\ NoOrphan'
      /\ NoLostExit'
  BY ResumeFrame, ForkFrame, TickFrame, OrphanFrame, MemFrame, ExitFrame
     DEF IInv, SchedAcquire, procVars, cpuVars, sleepVars
<1> QED BY <1>1, <1>2, <1>3, <1>4 DEF IInv

\* scheduler() runs the next RUNNABLE process and stays the holder of the lock.
LEMMA SchedSwitchKeeps ==
    ASSUME NEW c \in Cpu, IInv, SchedSwitch(c)
    PROVE  IInv'
<1>1. PICK p \in Slot :
        /\ state[p] = "RUNNABLE" /\ state' = [state EXCEPT ![p] = "RUNNING"]
        /\ cpuproc' = [cpuproc EXCEPT ![c] = p] /\ scan' = [scan EXCEPT ![c] = p + 1]
  BY DEF SchedSwitch, First, ScanAfter, RunnableFrom
<1>2. TypeOK'
  BY Consts, <1>1 DEF IInv, SchedSwitch, TypeOK, ProcState, lockVars, sleepVars
<1>3. CpuInv'
  BY Consts, <1>1 DEF IInv, SchedSwitch, CpuInv, TypeOK, LockInv, lockVars, Alive
<1>4. LockInv'
  BY DEF IInv, SchedSwitch, LockInv, lockVars
<1>5. ResumeInv'
  BY DEF IInv, SchedSwitch, ResumeInv
<1>6. ForkInv'
  BY <1>1 DEF IInv, SchedSwitch, ForkInv, At, Makes
<1>7. TickInv'
  BY Consts DEF IInv, SchedSwitch, TickInv, CpuInv, lockVars, sleepVars, Elapsed
<1>8. InitInv'
  BY DEF IInv, SchedSwitch, InitInv
<1>9. NoMemLeak'
  BY <1>1 DEF IInv, SchedSwitch, NoMemLeak, Alive
<1>10. NoOrphan'
  BY <1>1 DEF IInv, SchedSwitch, NoOrphan, Alive
<1>11. NoLostExit'
  BY DEF IInv, SchedSwitch, NoLostExit, Kids, ZombieKids
<1> QED BY <1>2, <1>3, <1>4, <1>5, <1>6, <1>7, <1>8, <1>9, <1>10, <1>11 DEF IInv

\* scheduler() finds nobody to run and releases the lock.
LEMMA SchedReleaseKeeps ==
    ASSUME NEW c \in Cpu, IInv, SchedRelease(c)
    PROVE  IInv'
<1>1. TypeOK'
  BY Consts DEF IInv, SchedRelease, TypeOK, procVars, sleepVars, Label, Preemptible
<1>2. CpuInv'
  BY Consts DEF IInv, SchedRelease, CpuInv, procVars, Alive
<1>3. LockInv'
  BY DEF IInv, SchedRelease, LockInv, CpuInv, procVars
<1>4. /\ ResumeInv' /\ ForkInv' /\ TickInv' /\ InitInv' /\ NoMemLeak' /\ NoOrphan'
      /\ NoLostExit'
  BY ResumeFrame, ForkFrame, TickFrame, OrphanFrame, MemFrame, ExitFrame
     DEF IInv, SchedRelease, procVars, sleepVars
<1> QED BY <1>1, <1>2, <1>3, <1>4 DEF IInv

\* sched() leaves the stack of a thread that has given up RUNNING; the lock goes with
\* the CPU.
LEMMA SchedKeeps ==
    ASSUME NEW c \in Cpu, IInv, Sched(c)
    PROVE  IInv'
<1>1. TypeOK'
  BY DEF IInv, Sched, TypeOK, procVars, lockVars, sleepVars, Label, Preemptible
<1>2. CpuInv'
  BY DEF IInv, Sched, CpuInv, TypeOK, procVars, lockVars, Alive
<1>3. LockInv'
  BY DEF IInv, Sched, LockInv, TypeOK, procVars
<1>4. TickInv'
  BY DEF IInv, Sched, TickInv, procVars, lockVars, sleepVars, Elapsed
<1>5. ResumeInv' /\ ForkInv' /\ InitInv' /\ NoMemLeak' /\ NoOrphan' /\ NoLostExit'
  BY ResumeFrame, ForkFrame, OrphanFrame, MemFrame, ExitFrame
     DEF IInv, Sched, procVars, lockVars, sleepVars
<1> QED BY <1>1, <1>2, <1>3, <1>4, <1>5 DEF IInv

\* A new process releases the lock that its scheduler took.
LEMMA ForkRetKeeps ==
    ASSUME NEW c \in Cpu, NEW p \in Slot, IInv, ForkRet(c, p)
    PROVE  IInv'
<1>1. TypeOK'
  BY DEF IInv, ForkRet, TypeOK, Goto, procVars, cpuVars, sleepVars, Label, Preemptible
<1>2. CpuInv'
  BY Consts DEF IInv, ForkRet, CpuInv, Runs, Goto, procVars, cpuVars, Alive
<1>3. LockInv'
  BY Consts DEF IInv, ForkRet, LockInv, TypeOK, Runs, Goto, procVars, cpuVars, Resume
<1>4. ResumeInv'
  BY DEF IInv, ForkRet, ResumeInv, Runs, Goto, procVars
<1>5. ForkInv'
  BY DEF IInv, ForkRet, ForkInv, Runs, Goto, procVars, At, Forking, Makes
<1>6. TickInv'
  BY DEF IInv, ForkRet, TickInv, Goto, procVars, cpuVars, sleepVars, Elapsed
<1>7. InitInv' /\ NoMemLeak' /\ NoOrphan' /\ NoLostExit'
  BY OrphanFrame, MemFrame, ExitFrame DEF IInv, ForkRet, procVars, cpuVars, sleepVars
<1> QED BY <1>1, <1>2, <1>3, <1>4, <1>5, <1>6, <1>7 DEF IInv

\* The timer on CPU 0 takes tickslock and counts: sleepers that are due are the
\* business of the handler from here on.
LEMMA TimerTickKeeps ==
    ASSUME NEW c \in Cpu, IInv, TimerTick(c)
    PROVE  IInv'
<1>1. TypeOK'
  <2>1. NextTick \in 0 .. TickMod - 1
    BY ModRange, TickAssumption DEF IInv, TypeOK, NextTick
  <2> QED BY <2>1, Consts DEF IInv, TimerTick, TypeOK, procVars, sleepVars
<1>2. CpuInv'
  BY DEF IInv, TimerTick, CpuInv, LockInv, Interruptible, procVars, Alive
<1>3. TickInv'
  BY Consts DEF IInv, TimerTick, TickInv, TypeOK
<1>4. /\ LockInv' /\ ResumeInv' /\ ForkInv' /\ InitInv' /\ NoMemLeak' /\ NoOrphan'
      /\ NoLostExit'
  BY LockFrame, ResumeFrame, ForkFrame, OrphanFrame, MemFrame, ExitFrame
     DEF IInv, TimerTick, procVars, sleepVars
<1> QED BY <1>1, <1>2, <1>3, <1>4 DEF IInv

\* The handler wakes the sleepers on &ticks, so none is left that is due.
LEMMA TimerWakeupKeeps ==
    ASSUME NEW c \in Cpu, IInv, TimerWakeup(c)
    PROVE  IInv'
<1>1. TypeOK'
  BY Consts, TrapTailType DEF IInv, TimerWakeup, TypeOK, Wakeup1, ProcState, sleepVars
<1>2. ResumeInv'
  BY DEF IInv, TimerWakeup, ResumeInv, TypeOK, CpuInv, Wakeup1, TrapTail, Goto, Resume
<1>3. TickInv'
  BY Consts DEF IInv, TimerWakeup, TickInv, TypeOK, Wakeup1, TrapTail, Goto
<1>4. InitInv'
  BY Consts DEF IInv, TimerWakeup, InitInv, Wakeup1
<1>5. NoMemLeak'
  BY DEF IInv, TimerWakeup, NoMemLeak, Wakeup1, Alive
<1>6. NoOrphan'
  BY DEF IInv, TimerWakeup, NoOrphan, Wakeup1, Alive
<1>7. NoLostExit'
  BY DEF IInv, TimerWakeup, NoLostExit, Wakeup1, Kids, ZombieKids
<1>8. CpuInv' /\ LockInv' /\ ForkInv'
  BY TrapTailInv DEF IInv, TypeOK, TimerWakeup, Wakeup1
<1> QED BY <1>1, <1>2, <1>3, <1>4, <1>5, <1>6, <1>7, <1>8 DEF IInv

\* A timer interrupt on another CPU, or one that only forces a yield or an exit.
LEMMA TimerOtherKeeps ==
    ASSUME NEW c \in Cpu, IInv, TimerOther(c)
    PROVE  IInv'
<1>1. TypeOK'
  BY TrapTailType DEF IInv, TimerOther, TypeOK, procVars, lockVars, cpuVars, sleepVars
<1>2. ResumeInv'
  BY DEF IInv, TimerOther, ResumeInv, TypeOK, Interruptible, Preemptible,
         TrapTail, Goto, procVars, Resume
<1>3. TickInv'
  BY DEF IInv, TimerOther, TickInv, TypeOK, TrapTail, Goto, procVars, lockVars,
         cpuVars, sleepVars, Elapsed
<1>4. InitInv' /\ NoMemLeak' /\ NoOrphan' /\ NoLostExit'
  BY OrphanFrame, MemFrame, ExitFrame
     DEF IInv, TimerOther, procVars, lockVars, cpuVars, sleepVars
<1>5. CpuInv' /\ LockInv' /\ ForkInv'
  BY TrapTailInv
     DEF IInv, TypeOK, TimerOther, Interruptible, CpuInv, TickInv, procVars,
         lockVars, cpuVars
<1> QED BY <1>1, <1>2, <1>3, <1>4, <1>5 DEF IInv

\* yield() gives up RUNNING with the lock held.
LEMMA YieldKeeps ==
    ASSUME NEW c \in Cpu, NEW p \in Slot, IInv, Yield(c, p)
    PROVE  IInv'
<1>1. TypeOK'
  BY DEF IInv, Yield, TypeOK, KeepPtable, Goto, cpuVars, sleepVars, ProcState,
         Label, Preemptible
<1>2. CpuInv'
  BY DEF IInv, Yield, CpuInv, Runs, KeepPtable, Goto, cpuVars, Alive
<1>3. LockInv'
  BY Consts DEF IInv, Yield, LockInv, CpuInv, Runs, KeepPtable, Goto, cpuVars
<1>4. ResumeInv'
  BY DEF IInv, Yield, ResumeInv, TypeOK, Goto, Resume
<1>5. ForkInv'
  BY DEF IInv, Yield, ForkInv, Runs, Goto, At, Makes
<1>6. TickInv'
  BY DEF IInv, Yield, TickInv, Goto, cpuVars, sleepVars, Elapsed
<1>7. InitInv'
  BY DEF IInv, Yield, InitInv
<1>8. NoMemLeak'
  BY DEF IInv, Yield, NoMemLeak, Runs, Alive
<1>9. NoOrphan'
  BY DEF IInv, Yield, NoOrphan, Runs, Alive
<1>10. NoLostExit'
  BY DEF IInv, Yield, NoLostExit, Kids, ZombieKids
<1> QED BY <1>1, <1>2, <1>3, <1>4, <1>5, <1>6, <1>7, <1>8, <1>9, <1>10 DEF IInv

\* The thread is resumed in yield() and goes back to where it was interrupted.
LEMMA YieldReturnKeeps ==
    ASSUME NEW c \in Cpu, NEW p \in Slot, IInv, YieldReturn(c, p)
    PROVE  IInv'
<1>1. TypeOK'
  BY DEF IInv, YieldReturn, TypeOK, Goto, procVars, cpuVars, sleepVars, Label,
         Preemptible
<1>2. CpuInv'
  BY Consts DEF IInv, YieldReturn, CpuInv, Runs, Goto, procVars, cpuVars, Alive
<1>3. LockInv'
  BY Consts
     DEF IInv, YieldReturn, LockInv, TypeOK, Runs, Goto, procVars, cpuVars,
         Resume, Preemptible
<1>4. ResumeInv'
  BY DEF IInv, YieldReturn, ResumeInv, TypeOK, Runs, Goto, procVars
<1>5. ForkInv'
  BY DEF IInv, YieldReturn, ForkInv, TypeOK, Goto, procVars, At, Forking, Makes
<1>6. TickInv'
  BY DEF IInv, YieldReturn, TickInv, TypeOK, Goto, procVars, cpuVars, sleepVars,
         Elapsed, Preemptible
<1>7. InitInv' /\ NoMemLeak' /\ NoOrphan' /\ NoLostExit'
  BY OrphanFrame, MemFrame, ExitFrame
     DEF IInv, YieldReturn, procVars, cpuVars, sleepVars
<1> QED BY <1>1, <1>2, <1>3, <1>4, <1>5, <1>6, <1>7 DEF IInv

\* A user program enters the kernel.
LEMMA SyscallKeeps ==
    ASSUME NEW c \in Cpu, NEW p \in Slot, IInv, Syscall(c, p)
    PROVE  IInv'
<1>1. TypeOK'
  BY DEF IInv, Syscall, TypeOK, Goto, procVars, lockVars, cpuVars, sleepVars,
         Label, Preemptible
<1>2. CpuInv'
  BY DEF IInv, Syscall, CpuInv, Runs, Goto, procVars, lockVars, cpuVars, Alive
<1>3. LockInv'
  BY DEF IInv, Syscall, LockInv, Goto, procVars, lockVars, cpuVars, Resume
<1>4. ResumeInv'
  BY DEF IInv, Syscall, ResumeInv, Runs, Goto, procVars
<1>5. ForkInv'
  BY DEF IInv, Syscall, ForkInv, Goto, procVars, At, Forking, Makes
<1>6. TickInv'
  BY DEF IInv, Syscall, TickInv, Goto, procVars, lockVars, cpuVars, sleepVars, Elapsed
<1>7. InitInv' /\ NoMemLeak' /\ NoOrphan' /\ NoLostExit'
  BY OrphanFrame, MemFrame, ExitFrame
     DEF IInv, Syscall, procVars, lockVars, cpuVars, sleepVars
<1> QED BY <1>1, <1>2, <1>3, <1>4, <1>5, <1>6, <1>7 DEF IInv

\* A user program faults and is marked killed.
LEMMA FaultKeeps ==
    ASSUME NEW c \in Cpu, NEW p \in Slot, IInv, Fault(c, p)
    PROVE  IInv'
<1>1. TypeOK'
  BY DEF IInv, Fault, TypeOK, Goto, lockVars, cpuVars, sleepVars, Label, Preemptible
<1>2. CpuInv'
  BY DEF IInv, Fault, CpuInv, Runs, Goto, lockVars, cpuVars, Alive
<1>3. LockInv'
  BY DEF IInv, Fault, LockInv, Goto, lockVars, cpuVars, Resume
<1>4. ResumeInv'
  BY DEF IInv, Fault, ResumeInv, Runs, Goto
<1>5. ForkInv'
  BY DEF IInv, Fault, ForkInv, Goto, At, Forking, Makes
<1>6. TickInv'
  BY DEF IInv, Fault, TickInv, Goto, lockVars, cpuVars, sleepVars, Elapsed
<1>7. InitInv' /\ NoMemLeak' /\ NoOrphan' /\ NoLostExit'
  BY OrphanFrame, MemFrame, ExitFrame DEF IInv, Fault, lockVars, cpuVars, sleepVars
<1> QED BY <1>1, <1>2, <1>3, <1>4, <1>5, <1>6, <1>7 DEF IInv

\* allocproc() claims an UNUSED slot, which belongs to this fork() alone.
LEMMA ForkKeeps ==
    ASSUME NEW c \in Cpu, NEW p \in Slot, IInv, Fork(c, p)
    PROVE  IInv'
<1>1. PICK q \in Slot :
        /\ state[q] = "UNUSED" /\ state' = [state EXCEPT ![q] = "EMBRYO"]
        /\ pid' = [pid EXCEPT ![q] = nextpid] /\ np' = [np EXCEPT ![p] = q]
  BY DEF Fork, First, Unused
<1>2. TypeOK'
  <2>1. nextpid \in 0 .. MaxPid /\ nextpid' \in 1 .. MaxPid + 1
    BY PidAssumption DEF IInv, Fork, TypeOK
  <2> QED BY Consts, <1>1, <2>1 DEF IInv, Fork, TypeOK, Goto, Label, Preemptible, ProcState,
                 lockVars, cpuVars, sleepVars
<1>3. CpuInv'
  BY <1>1 DEF IInv, Fork, CpuInv, InSyscall, Runs, Goto, lockVars, cpuVars, Alive
<1>4. LockInv'
  BY Consts, <1>1 DEF IInv, Fork, LockInv, Goto, cpuVars, Resume
<1>5. ResumeInv'
  BY <1>1 DEF IInv, Fork, ResumeInv, InSyscall, Runs, Goto
<1>6. ForkInv'
  BY Consts, <1>1
     DEF IInv, Fork, ForkInv, TypeOK, NoMemLeak, InSyscall, Goto, At, Forking,
         Makes
<1>7. TickInv'
  BY <1>1 DEF IInv, Fork, TickInv, Goto, lockVars, cpuVars, sleepVars, Elapsed
<1>8. InitInv'
  BY <1>1 DEF IInv, Fork, InitInv
<1>9. NoMemLeak'
  BY DEF IInv, Fork, NoMemLeak, Alive
<1>10. NoOrphan'
  BY <1>1 DEF IInv, Fork, NoOrphan, Alive
<1>11. NoLostExit'
  BY DEF IInv, Fork, NoLostExit, Kids, ZombieKids
<1> QED BY <1>2, <1>3, <1>4, <1>5, <1>6, <1>7, <1>8, <1>9, <1>10, <1>11 DEF IInv

\* fork() fails: the table is full.
LEMMA ForkFullKeeps ==
    ASSUME NEW c \in Cpu, NEW p \in Slot, IInv, ForkFull(c, p)
    PROVE  IInv'
<1>1. TypeOK'
  BY DEF IInv, ForkFull, TypeOK, SysRet, lockVars, cpuVars, sleepVars, Label,
         Preemptible
<1>2. CpuInv'
  BY DEF IInv, ForkFull, CpuInv, InSyscall, Runs, SysRet, lockVars, cpuVars, Alive
<1>3. LockInv'
  BY Consts DEF IInv, ForkFull, LockInv, SysRet, cpuVars, Resume
<1>4. ResumeInv'
  BY DEF IInv, ForkFull, ResumeInv, InSyscall, Runs, SysRet
<1>5. ForkInv'
  BY DEF IInv, ForkFull, ForkInv, InSyscall, SysRet, At, Forking, Makes
<1>6. TickInv'
  BY DEF IInv, ForkFull, TickInv, SysRet, lockVars, cpuVars, sleepVars, Elapsed
<1>7. InitInv' /\ NoMemLeak' /\ NoOrphan' /\ NoLostExit'
  BY OrphanFrame, MemFrame, ExitFrame DEF IInv, ForkFull, lockVars, cpuVars, sleepVars
<1> QED BY <1>1, <1>2, <1>3, <1>4, <1>5, <1>6, <1>7 DEF IInv

\* allocproc() got a kernel stack and prepares forkret().
LEMMA ForkKallocKeeps ==
    ASSUME NEW c \in Cpu, NEW p \in Slot, IInv, ForkKalloc(c, p)
    PROVE  IInv'
<1>1. np[p] \in Slot \ {p, InitProc} /\ Makes(p, np[p])
  BY SlotInTheMaking DEF ForkKalloc, Forking
<1>2. TypeOK'
  BY DEF IInv, ForkKalloc, TypeOK, lockVars, cpuVars, sleepVars, Pages, Label,
         Preemptible
<1>3. CpuInv'
  BY <1>1 DEF IInv, ForkKalloc, CpuInv, TypeOK, Runs, lockVars, cpuVars, Alive, Makes
<1>4. LockInv'
  BY <1>1 DEF IInv, ForkKalloc, LockInv, TypeOK, lockVars, cpuVars, Resume, Makes
<1>5. ResumeInv'
  BY <1>1 DEF IInv, ForkKalloc, ResumeInv, TypeOK, Runs, Makes
<1>6. ForkInv'
  BY DEF IInv, ForkKalloc, ForkInv, TypeOK, ResumeInv, At, Forking, Makes
<1>7. TickInv'
  BY DEF IInv, ForkKalloc, TickInv, TypeOK, lockVars, cpuVars, sleepVars, Elapsed
<1>8. NoMemLeak'
  BY <1>1 DEF IInv, TypeOK, NoMemLeak, Alive, Makes, ForkKalloc
<1>9. InitInv' /\ NoOrphan' /\ NoLostExit'
  BY OrphanFrame, ExitFrame DEF IInv, ForkKalloc, lockVars, cpuVars, sleepVars
<1> QED BY <1>2, <1>3, <1>4, <1>5, <1>6, <1>7, <1>8, <1>9 DEF IInv

\* fork() gives the slot back, with whatever memory it had.
LEMMA ForkFailKeeps ==
    ASSUME NEW c \in Cpu, NEW p \in Slot, IInv, ForkFail(c, p)
    PROVE  IInv'
<1>1. np[p] \in Slot \ {p, InitProc} /\ Makes(p, np[p])
  BY SlotInTheMaking DEF ForkFail, Forking
<1>2. TypeOK'
  BY DEF IInv, ForkFail, TypeOK, FreeStack, lockVars, cpuVars, sleepVars,
         ProcState, Label, Preemptible
<1>3. CpuInv'
  BY <1>1 DEF IInv, ForkFail, CpuInv, TypeOK, Runs, lockVars, cpuVars, Alive, Makes
<1>4. LockInv'
  BY <1>1 DEF IInv, ForkFail, LockInv, TypeOK, lockVars, cpuVars, Resume, Makes
<1>5. ResumeInv'
  BY <1>1 DEF IInv, ForkFail, ResumeInv, TypeOK, Runs, Makes
<1>6. ForkInv'
  BY DEF IInv, ForkFail, ForkInv, TypeOK, ResumeInv, FreeStack, At, Forking, Makes
<1>7. TickInv'
  BY DEF IInv, ForkFail, TickInv, TypeOK, lockVars, cpuVars, sleepVars, Elapsed
<1>8. InitInv'
  BY <1>1 DEF IInv, InitInv, ForkFail
<1>9. NoMemLeak'
  BY DEF IInv, ForkFail, NoMemLeak, TypeOK, FreeStack, Alive
<1>10. NoOrphan'
  BY <1>1 DEF IInv, TypeOK, NoOrphan, Alive, Makes, ForkFail
<1>11. NoLostExit'
  BY DEF IInv, ForkFail, NoLostExit, Kids, ZombieKids
<1> QED BY <1>2, <1>3, <1>4, <1>5, <1>6, <1>7, <1>8, <1>9, <1>10, <1>11 DEF IInv

\* copyuvm() succeeded: the slot has all its memory and gets its parent.
LEMMA ForkCopyKeeps ==
    ASSUME NEW c \in Cpu, NEW p \in Slot, IInv, ForkCopy(c, p)
    PROVE  IInv'
<1>1. np[p] \in Slot \ {p, InitProc} /\ Makes(p, np[p])
  BY SlotInTheMaking DEF ForkCopy, Forking
<1>2. TypeOK'
  BY DEF IInv, ForkCopy, TypeOK, Goto, lockVars, cpuVars, sleepVars, Label, Preemptible
<1>3. CpuInv'
  BY DEF IInv, ForkCopy, CpuInv, Runs, Goto, lockVars, cpuVars, Alive
<1>4. LockInv'
  BY DEF IInv, ForkCopy, LockInv, Goto, lockVars, cpuVars, Resume
<1>5. ResumeInv'
  BY DEF IInv, ForkCopy, ResumeInv, Runs, Goto
<1>6. ForkInv'
  BY DEF IInv, ForkCopy, ForkInv, TypeOK, Goto, At, Forking, Makes
<1>7. TickInv'
  BY DEF IInv, ForkCopy, TickInv, Goto, lockVars, cpuVars, sleepVars, Elapsed
<1>8. InitInv'
  BY <1>1 DEF IInv, TypeOK, InitInv, ForkCopy
<1>9. NoMemLeak'
  BY <1>1 DEF IInv, TypeOK, NoMemLeak, Alive, Makes, ForkCopy
<1>10. NoOrphan'
  BY DEF IInv, ForkCopy, NoOrphan, Runs, Alive
<1>11. NoLostExit'
  BY <1>1, Consts DEF IInv, TypeOK, NoLostExit, Makes, At, Kids, ZombieKids, ForkCopy
<1> QED BY <1>2, <1>3, <1>4, <1>5, <1>6, <1>7, <1>8, <1>9, <1>10, <1>11 DEF IInv

\* The child becomes RUNNABLE and nobody is making it any longer.
LEMMA ForkRunKeeps ==
    ASSUME NEW c \in Cpu, NEW p \in Slot, IInv, ForkRun(c, p)
    PROVE  IInv'
<1>1. np[p] \in Slot \ {p, InitProc} /\ Makes(p, np[p])
  BY SlotInTheMaking DEF ForkRun, Forking
<1>2. TypeOK'
  BY DEF IInv, ForkRun, TypeOK, SysRet, lockVars, cpuVars, sleepVars, ProcState,
         Label, Preemptible
<1>3. CpuInv'
  BY <1>1 DEF IInv, ForkRun, CpuInv, Runs, SysRet, lockVars, cpuVars, Alive, Makes
<1>4. LockInv'
  BY Consts, <1>1 DEF IInv, ForkRun, LockInv, SysRet, cpuVars, Resume, Makes
<1>5. ResumeInv'
  BY <1>1 DEF IInv, ForkRun, ResumeInv, SysRet, Resume, At, Makes
<1>6. ForkInv'
  BY DEF IInv, ForkRun, ForkInv, TypeOK, SysRet, At, Forking, Makes
<1>7. TickInv'
  BY <1>1
     DEF IInv, ForkRun, TickInv, SysRet, lockVars, cpuVars, sleepVars, Elapsed,
         Makes
<1>8. InitInv'
  BY DEF IInv, ForkRun, InitInv
<1>9. NoMemLeak'
  BY <1>1 DEF IInv, TypeOK, NoMemLeak, Alive, Makes, At, ForkRun
<1>10. NoOrphan'
  BY <1>1 DEF IInv, TypeOK, NoOrphan, Alive, Makes, At, ForkRun, Runs
<1>11. NoLostExit'
  BY DEF IInv, ForkRun, NoLostExit, Kids, ZombieKids
<1> QED BY <1>2, <1>3, <1>4, <1>5, <1>6, <1>7, <1>8, <1>9, <1>10, <1>11 DEF IInv

\* A process asks for its own end.
LEMMA ExitCallKeeps ==
    ASSUME NEW c \in Cpu, NEW p \in Slot, IInv, ExitCall(c, p)
    PROVE  IInv'
<1>1. TypeOK'
  BY DEF IInv, ExitCall, TypeOK, Goto, procVars, lockVars, cpuVars, sleepVars,
         Label, Preemptible
<1>2. CpuInv'
  BY DEF IInv, ExitCall, CpuInv, InSyscall, Runs, Goto, procVars, lockVars,
         cpuVars, Alive
<1>3. LockInv'
  BY DEF IInv, ExitCall, LockInv, Goto, procVars, lockVars, cpuVars, Resume
<1>4. ResumeInv'
  BY DEF IInv, ExitCall, ResumeInv, InSyscall, Runs, Goto, procVars
<1>5. ForkInv'
  BY DEF IInv, ExitCall, ForkInv, InSyscall, Goto, procVars, At, Forking, Makes
<1>6. TickInv'
  BY DEF IInv, ExitCall, TickInv, Goto, procVars, lockVars, cpuVars, sleepVars, Elapsed
<1>7. InitInv' /\ NoMemLeak' /\ NoOrphan' /\ NoLostExit'
  BY OrphanFrame, MemFrame, ExitFrame
     DEF IInv, ExitCall, procVars, lockVars, cpuVars, sleepVars
<1> QED BY <1>1, <1>2, <1>3, <1>4, <1>5, <1>6, <1>7 DEF IInv

\* exit() wakes the parent, passes the children to init, wakes init for those that are
\* zombies and becomes a ZOMBIE: nobody asleep in wait() is left with one.
LEMMA ExitKeeps ==
    ASSUME NEW c \in Cpu, NEW p \in Slot, IInv, Exit(c, p)
    PROVE  IInv'
<1>1. /\ state[p] = "RUNNING" /\ state'[p] = "ZOMBIE"
      /\ \A q \in Slot \ {p} :
            state'[q] = state[q] \/ (state[q] = "SLEEPING" /\ state'[q] = "RUNNABLE")
      /\ \A q \in Slot : parent'[q] = IF parent[q] = p THEN InitProc ELSE parent[q]
  BY DEF IInv, TypeOK, Exit, Wakeup1, PassToInit, Runs, Kids
<1>2. TypeOK'
  BY Consts
     DEF IInv, Exit, TypeOK, KeepPtable, PassToInit, Wakeup1, Goto, cpuVars,
         sleepVars, ProcState, Label, Preemptible
<1>3. CpuInv'
  BY <1>1 DEF IInv, Exit, CpuInv, TypeOK, Runs, KeepPtable, Goto, cpuVars, Alive
<1>4. LockInv'
  BY Consts, <1>1
     DEF IInv, Exit, LockInv, TypeOK, CpuInv, Runs, KeepPtable, Goto, cpuVars
<1>5. ResumeInv'
  BY <1>1 DEF IInv, Exit, ResumeInv, TypeOK, Goto, Resume
<1>6. ForkInv'
  BY Consts, <1>1 DEF IInv, Exit, ForkInv, TypeOK, Goto, At, Forking, Makes
<1>7. TickInv'
  BY <1>1 DEF IInv, Exit, TickInv, Goto, cpuVars, sleepVars, Elapsed
<1>8. InitInv'
  BY Consts, <1>1 DEF IInv, Exit, InitInv
<1>9. NoMemLeak'
  BY <1>1 DEF IInv, Exit, NoMemLeak, Alive
<1>10. NoOrphan'
  BY Consts, <1>1 DEF IInv, Exit, NoOrphan, InitInv, Alive
<1>11. NoLostExit'
  <2>1. \A q \in Slot : state'[q] = "SLEEPING" =>
          q # p /\ state[q] = "SLEEPING" /\ chan[q] \notin ExitChans(p)
    BY DEF IInv, TypeOK, Exit, Wakeup1
  <2>2. ASSUME NEW q \in Slot, state'[q] = "SLEEPING", chan[q] = q
        PROVE  Kids(q)' # {} /\ ZombieKids(q)' = {}
    <3>1. parent[p] # q /\ (q = InitProc => ZombieKids(p) = {})
      BY <2>1, <2>2 DEF ExitChans
    <3>2. Kids(q) # {} /\ ZombieKids(q) = {}
      BY <2>1, <2>2 DEF IInv, NoLostExit
    <3>3. Kids(q)' # {}
      BY <3>2, <2>1, <2>2, <1>1 DEF Kids
    <3>4. ASSUME NEW x \in Slot, parent'[x] = q, state'[x] = "ZOMBIE" PROVE FALSE
      <4>1. x # p
        BY <3>1, <3>4, <1>1 DEF IInv, InitInv
      <4>2. state[x] = "ZOMBIE"
        BY <4>1, <3>4, <1>1
      <4> QED BY <4>2, <3>1, <3>2, <3>4, <1>1 DEF ZombieKids, Kids
    <3> QED BY <3>3, <3>4 DEF ZombieKids, Kids
  <2> QED BY <2>2 DEF NoLostExit, Exit
<1> QED BY <1>2, <1>3, <1>4, <1>5, <1>6, <1>7, <1>8, <1>9, <1>10, <1>11 DEF IInv

\* wait() takes ptable.lock.
LEMMA WaitCallKeeps ==
    ASSUME NEW c \in Cpu, NEW p \in Slot, IInv, WaitCall(c, p)
    PROVE  IInv'
<1>1. TypeOK'
  BY DEF IInv, WaitCall, TypeOK, Goto, procVars, cpuVars, sleepVars, Label, Preemptible
<1>2. CpuInv'
  BY DEF IInv, WaitCall, CpuInv, InSyscall, Runs, Goto, procVars, cpuVars, Alive
<1>3. LockInv'
  BY Consts
     DEF IInv, WaitCall, LockInv, CpuInv, InSyscall, Runs, Goto, procVars,
         cpuVars
<1>4. ResumeInv'
  BY DEF IInv, WaitCall, ResumeInv, InSyscall, Runs, Goto, procVars
<1>5. ForkInv'
  BY DEF IInv, WaitCall, ForkInv, InSyscall, Goto, procVars, At, Forking, Makes
<1>6. TickInv'
  BY DEF IInv, WaitCall, TickInv, Goto, procVars, cpuVars, sleepVars, Elapsed
<1>7. InitInv' /\ NoMemLeak' /\ NoOrphan' /\ NoLostExit'
  BY OrphanFrame, MemFrame, ExitFrame DEF IInv, WaitCall, procVars, cpuVars, sleepVars
<1> QED BY <1>1, <1>2, <1>3, <1>4, <1>5, <1>6, <1>7 DEF IInv

\* wait() frees a zombie child: no CPU is on its stack, and nobody is its child.
LEMMA WaitReapKeeps ==
    ASSUME NEW c \in Cpu, NEW p \in Slot, IInv, WaitReap(c, p)
    PROVE  IInv'
<1>1. TypeOK'
  BY Consts DEF IInv, WaitReap, TypeOK, SysRet, MustExit, Label, Preemptible, ProcState,
       cpuVars, sleepVars
<1>2. CpuInv'
  BY Consts
     DEF IInv, WaitReap, CpuInv, LockInv, Runs, First, ZombieKids, SysRet,
         cpuVars, Alive, Resume
<1>3. LockInv'
  BY Consts
     DEF IInv, WaitReap, LockInv, TypeOK, Runs, First, ZombieKids, SysRet,
         cpuVars, Resume
<1>4. ResumeInv'
  BY DEF IInv, WaitReap, ResumeInv, Runs, First, ZombieKids, SysRet
<1>5. ForkInv'
  BY DEF IInv, WaitReap, ForkInv, TypeOK, First, ZombieKids, SysRet, At, Forking, Makes
<1>6. TickInv'
  BY Consts
     DEF IInv, WaitReap, TickInv, First, ZombieKids, SysRet, cpuVars, sleepVars,
         Elapsed
<1>7. InitInv'
  BY Consts DEF IInv, WaitReap, InitInv, First, ZombieKids
<1>8. NoMemLeak'
  BY DEF IInv, WaitReap, NoMemLeak, TypeOK, Alive
<1>9. NoOrphan'
  BY DEF IInv, WaitReap, NoOrphan, TypeOK, First, ZombieKids, Alive
<1>10. NoLostExit'
  BY Consts DEF IInv, WaitReap, NoLostExit, First, ZombieKids, Kids
<1> QED BY <1>1, <1>2, <1>3, <1>4, <1>5, <1>6, <1>7, <1>8, <1>9, <1>10 DEF IInv

\* wait() fails: no children.
LEMMA WaitFailKeeps ==
    ASSUME NEW c \in Cpu, NEW p \in Slot, IInv, WaitFail(c, p)
    PROVE  IInv'
<1>1. TypeOK'
  BY DEF IInv, WaitFail, TypeOK, SysRet, cpuVars, sleepVars, Label, Preemptible
<1>2. CpuInv'
  BY Consts DEF IInv, WaitFail, CpuInv, Runs, SysRet, cpuVars, Alive
<1>3. LockInv'
  BY Consts DEF IInv, WaitFail, LockInv, TypeOK, Runs, SysRet, cpuVars, Resume
<1>4. ResumeInv'
  BY DEF IInv, WaitFail, ResumeInv, Runs, SysRet
<1>5. ForkInv'
  BY DEF IInv, WaitFail, ForkInv, SysRet, At, Forking, Makes
<1>6. TickInv'
  BY Consts DEF IInv, WaitFail, TickInv, SysRet, cpuVars, sleepVars, Elapsed
<1>7. NoLostExit'
  BY Consts DEF IInv, WaitFail, NoLostExit, ZombieKids, Kids
<1>8. InitInv' /\ NoMemLeak' /\ NoOrphan'
  BY OrphanFrame, MemFrame DEF IInv, WaitFail, cpuVars, sleepVars
<1> QED BY <1>1, <1>2, <1>3, <1>4, <1>5, <1>6, <1>7, <1>8 DEF IInv

\* wait() sleeps after it found children but no zombie, under one hold of the lock.
LEMMA WaitSleepKeeps ==
    ASSUME NEW c \in Cpu, NEW p \in Slot, IInv, WaitSleep(c, p)
    PROVE  IInv'
<1>1. TypeOK'
  BY DEF IInv, WaitSleep, TypeOK, lockVars, cpuVars, sleepVars, ProcState, Label,
         Preemptible
<1>2. CpuInv'
  BY DEF IInv, WaitSleep, CpuInv, Runs, lockVars, cpuVars, Alive
<1>3. LockInv'
  BY DEF IInv, WaitSleep, LockInv, lockVars, cpuVars, Resume
<1>4. ResumeInv'
  BY DEF IInv, WaitSleep, ResumeInv, TypeOK
<1>5. ForkInv'
  BY DEF IInv, WaitSleep, ForkInv, Runs, At, Makes
<1>6. TickInv'
  BY Consts DEF IInv, WaitSleep, TickInv, TypeOK, lockVars, cpuVars, sleepVars, Elapsed
<1>7. InitInv'
  BY DEF IInv, WaitSleep, InitInv
<1>8. NoMemLeak'
  BY DEF IInv, WaitSleep, NoMemLeak, Runs, Alive
<1>9. NoOrphan'
  BY DEF IInv, WaitSleep, NoOrphan, Runs, Alive
<1>10. NoLostExit'
  BY DEF IInv, WaitSleep, NoLostExit, ZombieKids, Kids
<1> QED BY <1>1, <1>2, <1>3, <1>4, <1>5, <1>6, <1>7, <1>8, <1>9, <1>10 DEF IInv

\* kill() marks a process and makes it RUNNABLE if it sleeps, wherever that is.
LEMMA KillKeeps ==
    ASSUME NEW c \in Cpu, NEW p \in Slot, NEW k \in KillPids, IInv, Kill(c, p, k)
    PROVE  IInv'
<1>1. TypeOK'
  BY Consts DEF IInv, Kill, TypeOK, SysRet, MustExit, Label, Preemptible, ProcState,
       lockVars, cpuVars, sleepVars
<1>2. CpuInv'
  BY DEF IInv, Kill, CpuInv, InSyscall, Runs, SysRet, lockVars, cpuVars, Alive
<1>3. LockInv'
  BY Consts DEF IInv, Kill, LockInv, SysRet, cpuVars, Resume
<1>4. ResumeInv'
  BY DEF IInv, Kill, ResumeInv, InSyscall, SysRet, Resume
<1>5. ForkInv'
  BY DEF IInv, Kill, ForkInv, InSyscall, SysRet, At, Forking, Makes
<1>6. TickInv'
  BY DEF IInv, Kill, TickInv, SysRet, lockVars, cpuVars, sleepVars, Elapsed
<1>7. InitInv'
  BY DEF IInv, Kill, InitInv
<1>8. NoMemLeak'
  BY DEF IInv, Kill, NoMemLeak, Alive
<1>9. NoOrphan'
  BY DEF IInv, Kill, NoOrphan, Alive
<1>10. NoLostExit'
  BY DEF IInv, Kill, NoLostExit, Kids, ZombieKids
<1> QED BY <1>1, <1>2, <1>3, <1>4, <1>5, <1>6, <1>7, <1>8, <1>9, <1>10 DEF IInv

\* kill() finds no such pid.
LEMMA KillFailKeeps ==
    ASSUME NEW c \in Cpu, NEW p \in Slot, NEW k \in KillPids, IInv, KillFail(c, p, k)
    PROVE  IInv'
<1>1. TypeOK'
  BY DEF IInv, KillFail, TypeOK, SysRet, lockVars, cpuVars, sleepVars, Label,
         Preemptible
<1>2. CpuInv'
  BY DEF IInv, KillFail, CpuInv, InSyscall, Runs, SysRet, lockVars, cpuVars, Alive
<1>3. LockInv'
  BY Consts DEF IInv, KillFail, LockInv, SysRet, cpuVars, Resume
<1>4. ResumeInv'
  BY DEF IInv, KillFail, ResumeInv, InSyscall, Runs, SysRet
<1>5. ForkInv'
  BY DEF IInv, KillFail, ForkInv, InSyscall, SysRet, At, Forking, Makes
<1>6. TickInv'
  BY DEF IInv, KillFail, TickInv, SysRet, lockVars, cpuVars, sleepVars, Elapsed
<1>7. InitInv' /\ NoMemLeak' /\ NoOrphan' /\ NoLostExit'
  BY OrphanFrame, MemFrame, ExitFrame DEF IInv, KillFail, lockVars, cpuVars, sleepVars
<1> QED BY <1>1, <1>2, <1>3, <1>4, <1>5, <1>6, <1>7 DEF IInv

\* sys_sleep() takes tickslock and notes the time.
LEMMA SleepCallKeeps ==
    ASSUME NEW c \in Cpu, NEW p \in Slot, NEW n \in SleepArgs, IInv, SleepCall(c, p, n)
    PROVE  IInv'
<1>1. TypeOK'
  BY TickAssumption
     DEF IInv, SleepCall, TypeOK, Goto, procVars, cpuVars, lockVars, sleepVars,
         Label, Preemptible
<1>2. CpuInv'
  BY DEF IInv, SleepCall, CpuInv, InSyscall, Runs, Goto, procVars, cpuVars, Alive
<1>3. LockInv'
  BY DEF IInv, SleepCall, LockInv, Goto, procVars, cpuVars, Resume
<1>4. ResumeInv'
  BY DEF IInv, SleepCall, ResumeInv, InSyscall, Runs, Goto, procVars
<1>5. ForkInv'
  BY DEF IInv, SleepCall, ForkInv, InSyscall, Goto, procVars, At, Forking, Makes
<1>6. TickInv'
  BY Consts
     DEF IInv, SleepCall, TickInv, InSyscall, Runs, Goto, procVars, cpuVars,
         Elapsed
<1>7. InitInv' /\ NoMemLeak' /\ NoOrphan' /\ NoLostExit'
  BY OrphanFrame, MemFrame, ExitFrame DEF IInv, SleepCall, procVars, cpuVars
<1> QED BY <1>1, <1>2, <1>3, <1>4, <1>5, <1>6, <1>7 DEF IInv

\* sys_sleep() returns.
LEMMA SleepDoneKeeps ==
    ASSUME NEW c \in Cpu, NEW p \in Slot, IInv, SleepDone(c, p)
    PROVE  IInv'
<1>1. TypeOK'
  BY Consts DEF IInv, SleepDone, TypeOK, SysRet, cpuVars, Label, Preemptible
<1>2. CpuInv'
  BY DEF IInv, SleepDone, CpuInv, Runs, SysRet, cpuVars, Alive
<1>3. LockInv'
  BY DEF IInv, SleepDone, LockInv, SysRet, cpuVars, Resume
<1>4. ResumeInv'
  BY DEF IInv, SleepDone, ResumeInv, Runs, SysRet
<1>5. ForkInv'
  BY DEF IInv, SleepDone, ForkInv, SysRet, At, Forking, Makes
<1>6. TickInv'
  BY DEF IInv, SleepDone, TickInv, TypeOK, CpuInv, Runs, SysRet, cpuVars, Elapsed
<1>7. InitInv' /\ NoMemLeak' /\ NoOrphan' /\ NoLostExit'
  BY OrphanFrame, MemFrame, ExitFrame DEF IInv, SleepDone, cpuVars
<1> QED BY <1>1, <1>2, <1>3, <1>4, <1>5, <1>6, <1>7 DEF IInv

\* sys_sleep() still has ticks to wait for, which stays so while it holds tickslock.
LEMMA SleepCheckKeeps ==
    ASSUME NEW c \in Cpu, NEW p \in Slot, IInv, SleepCheck(c, p)
    PROVE  IInv'
<1>1. TypeOK'
  BY DEF IInv, SleepCheck, TypeOK, Goto, procVars, lockVars, cpuVars, sleepVars,
         Label, Preemptible
<1>2. CpuInv'
  BY DEF IInv, SleepCheck, CpuInv, Runs, Goto, procVars, lockVars, cpuVars, Alive
<1>3. LockInv'
  BY DEF IInv, SleepCheck, LockInv, Goto, procVars, lockVars, cpuVars, Resume
<1>4. ResumeInv'
  BY DEF IInv, SleepCheck, ResumeInv, Runs, Goto, procVars
<1>5. ForkInv'
  BY DEF IInv, SleepCheck, ForkInv, Goto, procVars, At, Forking, Makes
<1>6. TickInv'
  BY DEF IInv, SleepCheck, TickInv, Goto, procVars, lockVars, cpuVars, sleepVars,
         Elapsed
<1>7. InitInv' /\ NoMemLeak' /\ NoOrphan' /\ NoLostExit'
  BY OrphanFrame, MemFrame, ExitFrame
     DEF IInv, SleepCheck, procVars, lockVars, cpuVars, sleepVars
<1> QED BY <1>1, <1>2, <1>3, <1>4, <1>5, <1>6, <1>7 DEF IInv

\* sleep() takes ptable.lock before it releases tickslock.
LEMMA SleepEnterKeeps ==
    ASSUME NEW c \in Cpu, NEW p \in Slot, IInv, SleepEnter(c, p)
    PROVE  IInv'
<1>1. TypeOK'
  BY DEF IInv, SleepEnter, TypeOK, KeepPtable, Goto, cpuVars, sleepVars,
         ProcState, Label, Preemptible
<1>2. CpuInv'
  BY DEF IInv, SleepEnter, CpuInv, Runs, KeepPtable, Goto, cpuVars, Alive
<1>3. LockInv'
  BY Consts DEF IInv, SleepEnter, LockInv, CpuInv, Runs, KeepPtable, Goto, cpuVars
<1>4. ResumeInv'
  BY DEF IInv, SleepEnter, ResumeInv, TypeOK, Goto
<1>5. ForkInv'
  BY DEF IInv, SleepEnter, ForkInv, Runs, Goto, At, Forking, Makes
<1>6. TickInv'
  BY DEF IInv, SleepEnter, TickInv, TypeOK, CpuInv, Runs, Goto, cpuVars,
         sleepVars, Elapsed
<1>7. InitInv'
  BY DEF IInv, SleepEnter, InitInv
<1>8. NoMemLeak'
  BY DEF IInv, SleepEnter, NoMemLeak, Runs, Alive
<1>9. NoOrphan'
  BY DEF IInv, SleepEnter, NoOrphan, Runs, Alive
<1>10. NoLostExit'
  BY Consts DEF IInv, SleepEnter, NoLostExit, TypeOK, Kids, ZombieKids
<1> QED BY <1>1, <1>2, <1>3, <1>4, <1>5, <1>6, <1>7, <1>8, <1>9, <1>10 DEF IInv

\* sleep() was woken and releases ptable.lock ...
LEMMA SleepExitKeeps ==
    ASSUME NEW c \in Cpu, NEW p \in Slot, IInv, SleepExit(c, p)
    PROVE  IInv'
<1>1. TypeOK'
  BY DEF IInv, SleepExit, TypeOK, Goto, cpuVars, sleepVars, Label, Preemptible
<1>2. CpuInv'
  BY Consts DEF IInv, SleepExit, CpuInv, Runs, Goto, cpuVars, Alive
<1>3. LockInv'
  BY Consts DEF IInv, SleepExit, LockInv, TypeOK, Runs, Goto, cpuVars, Resume
<1>4. ResumeInv'
  BY DEF IInv, SleepExit, ResumeInv, Runs, Goto
<1>5. ForkInv'
  BY DEF IInv, SleepExit, ForkInv, Goto, At, Forking, Makes
<1>6. TickInv'
  BY Consts DEF IInv, SleepExit, TickInv, Goto, cpuVars, sleepVars, Elapsed
<1>7. NoLostExit'
  BY Consts DEF IInv, SleepExit, NoLostExit, Kids, ZombieKids
<1>8. InitInv' /\ NoMemLeak' /\ NoOrphan'
  BY OrphanFrame, MemFrame DEF IInv, SleepExit, cpuVars, sleepVars
<1> QED BY <1>1, <1>2, <1>3, <1>4, <1>5, <1>6, <1>7, <1>8 DEF IInv

\* ... and takes tickslock again.
LEMMA SleepRelockKeeps ==
    ASSUME NEW c \in Cpu, NEW p \in Slot, IInv, SleepRelock(c, p)
    PROVE  IInv'
<1>1. TypeOK'
  BY DEF IInv, SleepRelock, TypeOK, Goto, procVars, cpuVars, sleepVars, Label,
         Preemptible
<1>2. CpuInv'
  BY DEF IInv, SleepRelock, CpuInv, Runs, Goto, procVars, cpuVars, Alive
<1>3. LockInv'
  BY DEF IInv, SleepRelock, LockInv, Goto, procVars, cpuVars, Resume
<1>4. ResumeInv'
  BY DEF IInv, SleepRelock, ResumeInv, Runs, Goto, procVars
<1>5. ForkInv'
  BY DEF IInv, SleepRelock, ForkInv, Goto, procVars, At, Forking, Makes
<1>6. TickInv'
  BY Consts
     DEF IInv, SleepRelock, TickInv, Runs, Goto, procVars, cpuVars, sleepVars,
         Elapsed
<1>7. InitInv' /\ NoMemLeak' /\ NoOrphan' /\ NoLostExit'
  BY OrphanFrame, MemFrame, ExitFrame
     DEF IInv, SleepRelock, procVars, cpuVars, sleepVars
<1> QED BY <1>1, <1>2, <1>3, <1>4, <1>5, <1>6, <1>7 DEF IInv

-----------------------------------------------------------------------------
(* The invariant, and the properties that follow from it.                  *)

\* userinit() and the CPUs in their schedulers satisfy the invariant.
LEMMA InitInvariant == Init => IInv
<1> SUFFICES ASSUME Init PROVE IInv
  OBVIOUS
<1>1. TypeOK
  BY Consts, SizeAssumption, TickAssumption, PidAssumption
     DEF Init, InitPid, TypeOK, ProcState, Pages, Label, Preemptible
<1>2. CpuInv /\ LockInv
  BY Consts DEF Init, CpuInv, LockInv
<1>3. ResumeInv /\ InitInv
  BY Consts DEF Init, ResumeInv, InitInv, Resume
<1>4. ForkInv
  BY Consts DEF Init, ForkInv, At, Forking
<1>5. TickInv
  BY Consts DEF Init, TickInv
<1>6. NoMemLeak /\ NoOrphan /\ NoLostExit
  BY DEF Init, NoMemLeak, NoOrphan, NoLostExit, Alive
<1> QED BY <1>1, <1>2, <1>3, <1>4, <1>5, <1>6 DEF IInv

\* A step outside the process table changes nothing the invariant speaks about.
LEMMA StutterKeeps == IInv /\ UNCHANGED vars => IInv'
<1> SUFFICES ASSUME IInv, UNCHANGED vars PROVE IInv'
  OBVIOUS
<1> USE DEF vars, procVars, lockVars, cpuVars, sleepVars
<1>1. TypeOK'
  BY DEF IInv, TypeOK
<1>2. CpuInv' /\ LockInv' /\ ResumeInv' /\ ForkInv' /\ TickInv'
  BY CpuFrame, LockFrame, ResumeFrame, ForkFrame, TickFrame DEF IInv
<1>3. InitInv' /\ NoOrphan' /\ NoMemLeak' /\ NoLostExit'
  BY OrphanFrame, MemFrame, ExitFrame DEF IInv
<1> QED BY <1>1, <1>2, <1>3 DEF IInv

\* Every step of the kernel keeps the invariant.
LEMMA StepInvariant == IInv /\ [Next]_vars => IInv'
<1> SUFFICES ASSUME IInv, [Next]_vars PROVE IInv'
  OBVIOUS
<1>1. CASE UNCHANGED vars
  BY <1>1, StutterKeeps
<1>2. ASSUME NEW c \in Cpu, SchedStep(c) \/ Timer(c) \/ TimerWakeup(c) PROVE IInv'
  BY <1>2, SchedAcquireKeeps, SchedSwitchKeeps, SchedReleaseKeeps, SchedKeeps,
     TimerTickKeeps, TimerOtherKeeps, TimerWakeupKeeps DEF SchedStep, Timer
<1>3. ASSUME NEW c \in Cpu, NEW p \in Slot, Preempt(c, p) \/ UserStep(c, p) PROVE IInv'
  BY <1>3, YieldKeeps, YieldReturnKeeps, SyscallKeeps, FaultKeeps DEF Preempt, UserStep
<1>4. ASSUME NEW c \in Cpu, NEW p \in Slot, KernelStep(c, p) PROVE IInv'
  BY <1>4, ForkRetKeeps, ForkKallocKeeps, ForkFailKeeps, ForkCopyKeeps, ForkRunKeeps,
     ExitKeeps, WaitReapKeeps, WaitFailKeeps, WaitSleepKeeps, SleepDoneKeeps,
     SleepCheckKeeps, SleepEnterKeeps, SleepExitKeeps, SleepRelockKeeps DEF KernelStep
<1>5. ASSUME NEW c \in Cpu, NEW p \in Slot, SyscallStep(c, p) PROVE IInv'
  BY <1>5, ForkKeeps, ForkFullKeeps, ExitCallKeeps, WaitCallKeeps, KillKeeps,
     KillFailKeeps, SleepCallKeeps DEF SyscallStep
<1> QED BY <1>1, <1>2, <1>3, <1>4, <1>5 DEF Next

LEMMA Invariant == Spec => []IInv
BY InitInvariant, StepInvariant, PTL DEF Spec

\* The variables keep their types: ticks stays in its width, every link between
\* processes, and every proc of a CPU, points into the table.
THEOREM ProcTypeOK == Spec => []TypeOK
<1>1. IInv => TypeOK
  BY DEF IInv
<1> QED BY <1>1, Invariant, PTL

\* sched()'s contract, on any number of CPUs: ptable.lock stays with a CPU from the
\* moment its thread gives up RUNNING until swtch() has left the thread's stack.
THEOREM SchedHandsOver == Spec => []HandOff
<1>1. IInv => HandOff
  BY DEF IInv, CpuInv, LockInv, HandOff, TypeOK
<1> QED BY <1>1, Invariant, PTL

\* No two CPUs are on one kernel stack, and wait() and the failure paths of fork()
\* free no stack or page table that a CPU is using.
THEOREM StacksAreSafe == Spec => []StackSafe
<1>1. IInv => StackSafe
  <2> SUFFICES ASSUME IInv, NEW c \in Cpu, stack[c] = "proc"
               PROVE  /\ cpuproc[c] # NoProc
                      /\ mem[cpuproc[c]] = Pages
                      /\ \A d \in Cpu : d # c => cpuproc[d] # cpuproc[c]
    BY DEF StackSafe
  <2>1. cpuproc[c] \in Slot
    BY DEF IInv, TypeOK, CpuInv
  <2>2. mem[cpuproc[c]] = Pages
    BY <2>1, Consts DEF IInv, CpuInv, NoMemLeak
  <2> QED BY <2>1, <2>2, Consts DEF IInv, CpuInv
<1> QED BY <1>1, Invariant, PTL

\* exit() never slips between wait()'s scan and its sleep(): a parent asleep in wait()
\* has a child, and none that is a ZOMBIE.
THEOREM ExitIsNoticed == Spec => []NoLostExit
<1>1. IInv => NoLostExit
  BY DEF IInv
<1> QED BY <1>1, Invariant, PTL

\* Every process but init has a parent that is alive and has not exited, whichever of
\* the two exits first: exit() passes its children to init.
THEOREM ParentsAreThere == Spec => []NoOrphan
<1>1. IInv => NoOrphan
  BY DEF IInv
<1> QED BY <1>1, Invariant, PTL

\* A free slot has no stack and no page table, and a live process has both, through
\* every failure of fork() and every order of exit() and wait().
THEOREM MemoryIsOwned == Spec => []NoMemLeak
<1>1. IInv => NoMemLeak
  BY DEF IInv
<1> QED BY <1>1, Invariant, PTL

\* sys_sleep() misses no tick, for any width of the counter: while tickslock is free
\* whoever is asleep on &ticks still has ticks to wait for.
THEOREM TicksAreNoticed == Spec => []NoLostTick
<1>1. IInv => NoLostTick
  BY Consts DEF IInv, TickInv, NoLostTick
<1> QED BY <1>1, Invariant, PTL

\* wait() tests killed and falls asleep under one ptable.lock, and kill() wakes whom it
\* marks: no step leaves a killed process asleep on its own proc.
LEMMA KilledWaitKeeps == IInv /\ KilledWait /\ [Next]_vars => KilledWait'
<1> SUFFICES ASSUME IInv, KilledWait, [Next]_vars,
                    NEW q \in Slot, state'[q] = "SLEEPING", killed'[q]
             PROVE  chan'[q] # q
  BY DEF KilledWait
<1>0. TypeOK /\ (state[q] = "SLEEPING" /\ killed[q] => chan[q] # q)
  BY DEF IInv, KilledWait
<1> USE DEF procVars, TypeOK
<1>1. CASE UNCHANGED <<state, chan, killed>>
  BY <1>0, <1>1
<1>2. ASSUME NEW c \in Cpu, SchedStep(c) \/ Timer(c) \/ TimerWakeup(c)
      PROVE  chan'[q] # q
  BY <1>0, <1>2 DEF SchedStep, SchedAcquire, SchedSwitch, SchedRelease, Sched, Timer,
     TimerTick, TimerOther, TimerWakeup, Wakeup1
<1>3. ASSUME NEW c \in Cpu, NEW p \in Slot, Preempt(c, p) \/ UserStep(c, p)
      PROVE  chan'[q] # q
  BY <1>0, <1>3 DEF Preempt, Yield, YieldReturn, UserStep, Syscall, Fault, Runs
<1>4. ASSUME NEW c \in Cpu, NEW p \in Slot, KernelStep(c, p)
      PROVE  chan'[q] # q
  <2>1. CASE ForkRet(c, p) \/ ForkKalloc(c, p) \/ ForkCopy(c, p) \/ SleepDone(c, p)
             \/ SleepCheck(c, p) \/ SleepRelock(c, p)
    BY <1>0, <2>1 DEF ForkRet, ForkKalloc, ForkCopy, SleepDone, SleepCheck, SleepRelock
  <2>2. CASE ForkFail(c, p)
    <3>1. UNCHANGED chan /\ UNCHANGED killed
      BY <2>2 DEF ForkFail
    <3>2. state' = [state EXCEPT ![np[p]] = "UNUSED"]
      BY <2>2 DEF ForkFail
    <3>3. state'[q] = state[q] \/ state'[q] = "UNUSED"
      BY <3>2, <1>0
    <3> QED BY <1>0, <3>1, <3>3
  <2>7. CASE ForkRun(c, p)
    <3>1. UNCHANGED chan /\ UNCHANGED killed
      BY <2>7 DEF ForkRun
    <3>2. state' = [state EXCEPT ![np[p]] = "RUNNABLE"]
      BY <2>7 DEF ForkRun
    <3>3. state'[q] = state[q] \/ state'[q] = "RUNNABLE"
      BY <3>2, <1>0
    <3> QED BY <1>0, <3>1, <3>3
  <2>6. CASE Exit(c, p)
    <3>1. UNCHANGED <<chan, killed>> /\ (state'[q] = state[q] \/ state'[q] # "SLEEPING")
      BY <2>6 DEF Exit, Wakeup1
    <3> QED BY <1>0, <3>1
  <2>3. CASE WaitReap(c, p) \/ WaitFail(c, p) \/ SleepExit(c, p)
    BY <1>0, <2>3 DEF WaitReap, WaitFail, SleepExit, Runs
  <2>4. CASE WaitSleep(c, p)
    BY <1>0, <2>4 DEF WaitSleep
  <2>5. CASE SleepEnter(c, p)
    BY <1>0, <2>5, Consts DEF SleepEnter
  <2> QED BY <1>4, <2>1, <2>2, <2>3, <2>4, <2>5, <2>6, <2>7 DEF KernelStep
<1>5. ASSUME NEW c \in Cpu, NEW p \in Slot, SyscallStep(c, p)
      PROVE  chan'[q] # q
  <2>1. CASE ForkFull(c, p) \/ ExitCall(c, p) \/ WaitCall(c, p)
    BY <1>0, <2>1 DEF ForkFull, ExitCall, WaitCall
  <2>4. CASE Fork(c, p)
    <3>1. UNCHANGED <<chan, killed>> /\ (state'[q] = state[q] \/ state'[q] # "SLEEPING")
      BY <2>4 DEF Fork
    <3> QED BY <1>0, <3>1
  <2>2. ASSUME NEW k \in KillPids, Kill(c, p, k)
        PROVE  chan'[q] # q
    <3>1. PICK r \in Slot :
             /\ killed' = [killed EXCEPT ![r] = TRUE]
             /\ state' = [state EXCEPT ![r] = IF @ = "SLEEPING" THEN "RUNNABLE" ELSE @]
      BY <2>2 DEF Kill
    <3>2. UNCHANGED chan
      BY <2>2 DEF Kill
    <3>3. CASE q = r
      BY <1>0, <3>1, <3>3
    <3>4. CASE q # r
      BY <1>0, <3>1, <3>2, <3>4
    <3> QED BY <3>3, <3>4
  <2>5. ASSUME NEW k \in KillPids, KillFail(c, p, k)
        PROVE  chan'[q] # q
    <3>1. UNCHANGED <<state, chan>> /\ UNCHANGED killed
      BY <2>5 DEF KillFail
    <3> QED BY <1>0, <3>1
  <2>3. ASSUME NEW n \in SleepArgs, SleepCall(c, p, n)
        PROVE  chan'[q] # q
    BY <1>0, <2>3 DEF SleepCall
  <2> QED BY <1>5, <2>1, <2>2, <2>3, <2>4, <2>5 DEF SyscallStep
<1>6. CASE UNCHANGED vars
  BY <1>1, <1>6 DEF vars
<1> QED BY <1>2, <1>3, <1>4, <1>5, <1>6 DEF Next

\* A process that kill() has marked sleeps in wait() never, and in sys_sleep() only
\* while its tick is still to come, on any number of CPUs.
THEOREM KilledHaveATick == Spec => []KilledSleepsToTick
<1>1. Init => KilledWait
  BY DEF Init, KilledWait
<1>2. IInv /\ KilledWait => KilledSleepsToTick
  <2> SUFFICES ASSUME IInv, KilledWait, NEW p \in Slot, state[p] = "SLEEPING", killed[p]
               PROVE  /\ chan[p] = TicksChan
                      /\ tklock = NoCpu => Elapsed(p) < nsleep[p]
    BY DEF KilledSleepsToTick
  <2>1. chan[p] = TicksChan
    BY DEF IInv, ResumeInv, KilledWait
  <2> QED BY <2>1, Consts DEF IInv, TickInv
<1> QED BY <1>1, <1>2, Invariant, KilledWaitKeeps, PTL DEF Spec
=============================================================================
