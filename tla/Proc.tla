-------------------------------- MODULE Proc --------------------------------
(***************************************************************************)
(* The process table of xv6 (homeworks/xv6-public/proc.c): allocproc,      *)
(* fork, exit, wait, kill, sleep, wakeup, yield, sched and the per-CPU     *)
(* scheduler, with the timer interrupt and the kill checks of trap.c and   *)
(* the sleep system call of sysproc.c.                                     *)
(*                                                                         *)
(* Several CPUs run at once.  A step is what one CPU does between two      *)
(* points where another CPU can interfere: code under ptable.lock is one   *)
(* step when the lock is released in the same function, and several steps  *)
(* when the lock is carried through swtch() into another thread.           *)
(***************************************************************************)
EXTENDS Integers

CONSTANTS
    NPROC,       \* size of the process table
    NCPU,        \* number of CPUs; CPU 0 is the one that counts ticks
    TickMod,     \* ticks is an unsigned counter: it wraps at TickMod
    SleepArgs,   \* arguments user programs pass to sleep()
    KillPids,    \* arguments user programs pass to kill()
    MaxPid       \* bound of the model: no pid above MaxPid is handed out

Slot == 0 .. NPROC - 1
Cpu  == 0 .. NCPU - 1

ASSUME SizeAssumption == NPROC \in Nat \ {0} /\ NCPU \in Nat \ {0}
ASSUME TickAssumption == TickMod \in Nat \ {0} /\ SleepArgs \subseteq 0 .. TickMod - 1
ASSUME PidAssumption  == MaxPid \in Nat \ {0} /\ KillPids \subseteq Nat

InitProc  == 0            \* initproc: userinit() gets the first slot
InitPid   == 1
NoProc    == -1           \* a null struct proc pointer
NoCpu     == -1
NoChan    == -1           \* p->chan = 0
TicksChan == NPROC        \* &ticks; a slot number as channel is the proc pointer

ProcState == {"UNUSED", "EMBRYO", "SLEEPING", "RUNNABLE", "RUNNING", "ZOMBIE"}

\* What a process owns in kernel memory: its kernel stack and its page table.
Pages == {"kstack", "pgdir"}

\* Where a thread is: in user mode, at a point of a kernel function where it
\* holds no lock, or (the last two lines) where it holds tickslock or
\* ptable.lock.
Preemptible == {"user", "syscall", "fork_kalloc", "fork_copy", "fork_run", "exit",
                "sleep_relock"}
Label == Preemptible \union {"yield", "yield_ret", "forkret", "wait", "dead",
                             "sleep_loop", "sleep_enter", "sleep_exit"}

VARIABLES
    state, pid, parent, chan, killed,   \* fields of struct proc
    mem,        \* the pages a slot owns (p->kstack, p->pgdir)
    nextpid,
    ptlock,     \* the CPU that holds ptable.lock
    tklock,     \* the CPU that holds tickslock
    ticks,
    cpuproc,    \* cpus[c].proc
    stack,      \* the stack CPU c executes on: its scheduler's or a process's
    scan,       \* p in the loop of scheduler()
    intr,       \* CPU c is inside the timer handler, holding tickslock
    pc,         \* where the thread of a slot is, or resumes
    ret,        \* where the thread was when the timer interrupted it
    np,         \* local np of fork()
    ticks0, nsleep   \* locals ticks0 and n of sys_sleep()

procVars  == <<state, pid, parent, chan, killed, mem, nextpid>>
lockVars  == <<ptlock, tklock>>
cpuVars   == <<cpuproc, stack, scan, intr>>
sleepVars == <<ticks0, nsleep>>
vars == <<procVars, lockVars, ticks, cpuVars, pc, ret, np, sleepVars>>

TypeOK ==
    /\ state \in [Slot -> ProcState]
    /\ pid \in [Slot -> 0 .. MaxPid]
    /\ parent \in [Slot -> Slot \union {NoProc}]
    /\ chan \in [Slot -> Slot \union {NoChan, TicksChan}]
    /\ killed \in [Slot -> BOOLEAN]
    /\ mem \in [Slot -> SUBSET Pages]
    /\ nextpid \in 1 .. MaxPid + 1
    /\ ptlock \in Cpu \union {NoCpu}
    /\ tklock \in Cpu \union {NoCpu}
    /\ ticks \in 0 .. TickMod - 1
    /\ cpuproc \in [Cpu -> Slot \union {NoProc}]
    /\ stack \in [Cpu -> {"sched", "proc"}]
    /\ scan \in [Cpu -> 0 .. NPROC]
    /\ intr \in [Cpu -> BOOLEAN]
    /\ pc \in [Slot -> Label]
    /\ ret \in [Slot -> Preemptible]
    /\ np \in [Slot -> Slot \union {NoProc}]
    /\ ticks0 \in [Slot -> 0 .. TickMod - 1]
    /\ nsleep \in [Slot -> 0 .. TickMod - 1]

-----------------------------------------------------------------------------
(* After userinit(): init is the only process and every CPU is about to    *)
(* enter its scheduler loop.                                               *)
Init ==
    /\ state = [p \in Slot |-> IF p = InitProc THEN "RUNNABLE" ELSE "UNUSED"]
    /\ pid = [p \in Slot |-> IF p = InitProc THEN InitPid ELSE 0]
    /\ parent = [p \in Slot |-> NoProc]
    /\ chan = [p \in Slot |-> NoChan]
    /\ killed = [p \in Slot |-> FALSE]
    /\ mem = [p \in Slot |-> IF p = InitProc THEN Pages ELSE {}]
    /\ nextpid = InitPid + 1
    /\ ptlock = NoCpu
    /\ tklock = NoCpu
    /\ ticks = 0
    /\ cpuproc = [c \in Cpu |-> NoProc]
    /\ stack = [c \in Cpu |-> "sched"]
    /\ scan = [c \in Cpu |-> 0]
    /\ intr = [c \in Cpu |-> FALSE]
    /\ pc = [p \in Slot |-> IF p = InitProc THEN "forkret" ELSE "dead"]
    /\ ret = [p \in Slot |-> "user"]
    /\ np = [p \in Slot |-> NoProc]
    /\ ticks0 = [p \in Slot |-> 0]
    /\ nsleep = [p \in Slot |-> 0]

-----------------------------------------------------------------------------
(* Helpers.                                                                *)

\* The thread of slot p executes on CPU c.
Runs(c, p) ==
    /\ stack[c] = "proc" /\ cpuproc[c] = p /\ ~intr[c]
    /\ state[p] = "RUNNING"

\* The lowest slot that satisfies a condition: the loops over ptable.proc.
First(S, p) == p \in S /\ \A q \in S : p <= q

Unused == {p \in Slot : state[p] = "UNUSED"}
Kids(p) == {q \in Slot : parent[q] = p}
ZombieKids(p) == {q \in Kids(p) : state[q] = "ZOMBIE"}

\* wakeup1(): every process sleeping on one of the channels becomes RUNNABLE.
Wakeup1(chans) ==
    [q \in Slot |-> IF state[q] = "SLEEPING" /\ chan[q] \in chans
                    THEN "RUNNABLE" ELSE state[q]]

\* trap()'s test before it lets a process go on in user mode.
MustExit_Unchecked(k, p) == FALSE
MustExit(k, p) == k[p]

\* Back to user mode from a system call.
SysRet(p) == pc' = [pc EXCEPT ![p] = IF MustExit(killed', p) THEN "exit" ELSE "user"]

Goto(p, label) == pc' = [pc EXCEPT ![p] = label]

\* acquire(&ptable.lock) by a thread that keeps the lock across sched().
KeepPtable_Released(c) == ptlock = NoCpu /\ UNCHANGED ptlock
KeepPtable(c) == ptlock = NoCpu /\ ptlock' = c

\* Inside a system call, past the check for killed that trap() makes first.
InSyscall(c, p) == Runs(c, p) /\ pc[p] = "syscall"

-----------------------------------------------------------------------------
(* scheduler() on CPU c, and sched() on the thread that runs on c.         *)

SchedAcquire(c) ==
    /\ stack[c] = "sched" /\ ~intr[c] /\ ptlock = NoCpu
    /\ ptlock' = c
    /\ UNCHANGED <<procVars, tklock, ticks, cpuVars, pc, ret, np, sleepVars>>

RunnableFrom(c) == {p \in Slot : p >= scan[c] /\ state[p] = "RUNNABLE"}

\* Where the scan goes on after p.
ScanAfter_Restart(p) == 0
ScanAfter(p) == p + 1

\* c->proc = p; switchuvm(p); p->state = RUNNING; swtch() into the process,
\* which resumes at pc[p] with ptable.lock held.
SchedSwitch(c) ==
    /\ stack[c] = "sched" /\ ptlock = c
    /\ \E p \in Slot :
        /\ First(RunnableFrom(c), p)
        /\ cpuproc' = [cpuproc EXCEPT ![c] = p]
        /\ state' = [state EXCEPT ![p] = "RUNNING"]
        /\ scan' = [scan EXCEPT ![c] = ScanAfter(p)]
    /\ stack' = [stack EXCEPT ![c] = "proc"]
    /\ UNCHANGED <<pid, parent, chan, killed, mem, nextpid, lockVars, ticks, intr,
                   pc, ret, np, sleepVars>>

SchedRelease(c) ==
    /\ stack[c] = "sched" /\ ptlock = c
    /\ RunnableFrom(c) = {}
    /\ ptlock' = NoCpu
    /\ scan' = [scan EXCEPT ![c] = 0]
    /\ UNCHANGED <<procVars, tklock, ticks, cpuproc, stack, intr, pc, ret, np, sleepVars>>

\* sched(): a thread that gave up RUNNING swtch()es to the scheduler of its
\* CPU, which clears c->proc and goes on scanning with ptable.lock held.
Sched(c) ==
    /\ stack[c] = "proc" /\ ptlock = c
    /\ state[cpuproc[c]] # "RUNNING"
    /\ stack' = [stack EXCEPT ![c] = "sched"]
    /\ cpuproc' = [cpuproc EXCEPT ![c] = NoProc]
    /\ UNCHANGED <<procVars, lockVars, ticks, scan, intr, pc, ret, np, sleepVars>>

\* forkret(): the first thing a new process does.
ForkRet(c, p) ==
    /\ Runs(c, p) /\ pc[p] = "forkret"
    /\ ptlock' = NoCpu
    /\ Goto(p, "user")
    /\ UNCHANGED <<procVars, tklock, ticks, cpuVars, ret, np, sleepVars>>

-----------------------------------------------------------------------------
(* The timer interrupt: trap() with IRQ_TIMER, then yield().               *)

\* The tail of trap(): a killed process interrupted in user mode exits, any
\* other gives up the CPU; an idle CPU goes back to its scheduler.
TrapTail(c) ==
    IF cpuproc[c] = NoProc
    THEN UNCHANGED <<pc, ret>>
    ELSE LET p == cpuproc[c] IN
         IF pc[p] = "user" /\ MustExit(killed, p)
         THEN Goto(p, "exit") /\ UNCHANGED ret
         ELSE Goto(p, "yield") /\ ret' = [ret EXCEPT ![p] = pc[p]]

Interruptible_NoSti(c) ==
    /\ ptlock # c /\ tklock # c
    /\ cpuproc[c] # NoProc /\ pc[cpuproc[c]] \in Preemptible

\* Interrupts are off while a CPU holds a spinlock or is inside a handler;
\* the scheduler turns them on before every scan.
Interruptible(c) ==
    /\ ptlock # c /\ tklock # c
    /\ cpuproc[c] # NoProc => pc[cpuproc[c]] \in Preemptible

\* ticks++
NextTick_Wide == ticks + 1
NextTick == (ticks + 1) % TickMod

\* CPU 0 counts the tick under tickslock ...
TimerTick(c) ==
    /\ c = 0 /\ Interruptible(c) /\ tklock = NoCpu
    /\ tklock' = c
    /\ ticks' = NextTick
    /\ intr' = [intr EXCEPT ![c] = TRUE]
    /\ UNCHANGED <<procVars, ptlock, cpuproc, stack, scan, pc, ret, np, sleepVars>>

\* ... and wakes the sleepers before it releases tickslock.
TimerWakeup(c) ==
    /\ intr[c] /\ ptlock = NoCpu
    /\ state' = Wakeup1({TicksChan})
    /\ tklock' = NoCpu
    /\ intr' = [intr EXCEPT ![c] = FALSE]
    /\ TrapTail(c)
    /\ UNCHANGED <<pid, parent, chan, killed, mem, nextpid, ptlock, ticks, cpuproc,
                   stack, scan, np, sleepVars>>

TimerOther(c) ==
    /\ c # 0 /\ Interruptible(c) /\ cpuproc[c] # NoProc
    /\ TrapTail(c)
    /\ UNCHANGED <<procVars, lockVars, ticks, cpuVars, np, sleepVars>>

Yield(c, p) ==
    /\ Runs(c, p) /\ pc[p] = "yield"
    /\ KeepPtable(c)
    /\ state' = [state EXCEPT ![p] = "RUNNABLE"]
    /\ Goto(p, "yield_ret")
    /\ UNCHANGED <<pid, parent, chan, killed, mem, nextpid, tklock, ticks, cpuVars,
                   ret, np, sleepVars>>

\* yield() returns; trap() checks again whether the process was killed.
YieldReturn(c, p) ==
    /\ Runs(c, p) /\ pc[p] = "yield_ret"
    /\ ptlock' = NoCpu
    /\ Goto(p, IF ret[p] = "user" /\ MustExit(killed, p) THEN "exit" ELSE ret[p])
    /\ ret' = [ret EXCEPT ![p] = "user"]
    /\ UNCHANGED <<procVars, tklock, ticks, cpuVars, np, sleepVars>>

-----------------------------------------------------------------------------
(* Traps from user mode, other than the timer.                             *)

\* trap() with T_SYSCALL: a killed process exits, any other enters syscall().
Syscall(c, p) ==
    /\ Runs(c, p) /\ pc[p] = "user"
    /\ Goto(p, IF killed[p] THEN "exit" ELSE "syscall")
    /\ UNCHANGED <<procVars, lockVars, ticks, cpuVars, ret, np, sleepVars>>

\* A fault in user mode: killed = 1, and trap() exits the process.  init.c does
\* not fault.
Fault(c, p) ==
    /\ Runs(c, p) /\ pc[p] = "user" /\ p # InitProc
    /\ killed' = [killed EXCEPT ![p] = TRUE]
    /\ Goto(p, "exit")
    /\ UNCHANGED <<state, pid, parent, chan, mem, nextpid, lockVars, ticks, cpuVars,
                   ret, np, sleepVars>>

-----------------------------------------------------------------------------
(* fork() and allocproc().                                                 *)

\* allocproc() under ptable.lock: the first UNUSED slot becomes an EMBRYO.
\* Note what it leaves alone: p->killed.
Fork(c, p) ==
    /\ InSyscall(c, p) /\ ptlock = NoCpu /\ nextpid <= MaxPid
    /\ \E q \in Slot :
        /\ First(Unused, q)
        /\ state' = [state EXCEPT ![q] = "EMBRYO"]
        /\ pid' = [pid EXCEPT ![q] = nextpid]
        /\ np' = [np EXCEPT ![p] = q]
    /\ nextpid' = nextpid + 1
    /\ Goto(p, "fork_kalloc")
    /\ UNCHANGED <<parent, chan, killed, mem, lockVars, ticks, cpuVars, ret, sleepVars>>

\* No UNUSED slot: fork() returns -1.
ForkFull(c, p) ==
    /\ InSyscall(c, p) /\ ptlock = NoCpu /\ Unused = {}
    /\ UNCHANGED killed /\ SysRet(p)
    /\ UNCHANGED <<state, pid, parent, chan, mem, nextpid, lockVars, ticks, cpuVars,
                   ret, np, sleepVars>>

\* kalloc() of the kernel stack; the new context starts at forkret.
ForkKalloc(c, p) ==
    /\ Runs(c, p) /\ pc[p] = "fork_kalloc"
    /\ mem' = [mem EXCEPT ![np[p]] = {"kstack"}]
    /\ pc' = [pc EXCEPT ![p] = "fork_copy", ![np[p]] = "forkret"]
    /\ UNCHANGED <<state, pid, parent, chan, killed, nextpid, lockVars, ticks,
                   cpuVars, ret, np, sleepVars>>

\* kfree(np->kstack), if there is one.
FreeStack_Leak(q) == mem
FreeStack(q) == [mem EXCEPT ![q] = {}]

\* kalloc() or copyuvm() ran out of memory: fork() gives the slot back, without
\* ptable.lock and with its pid left in place.
ForkFail(c, p) ==
    /\ Runs(c, p) /\ pc[p] \in {"fork_kalloc", "fork_copy"}
    /\ mem' = FreeStack(np[p])
    /\ state' = [state EXCEPT ![np[p]] = "UNUSED"]
    /\ np' = [np EXCEPT ![p] = NoProc]
    /\ pc' = [pc EXCEPT ![p] = IF MustExit(killed, p) THEN "exit" ELSE "user",
                      ![np[p]] = "dead"]
    /\ UNCHANGED <<pid, parent, chan, killed, nextpid, lockVars, ticks, cpuVars, ret, sleepVars>>

\* copyuvm() and the copy of the parent's state.
ForkCopy(c, p) ==
    /\ Runs(c, p) /\ pc[p] = "fork_copy"
    /\ mem' = [mem EXCEPT ![np[p]] = Pages]
    /\ parent' = [parent EXCEPT ![np[p]] = p]
    /\ Goto(p, "fork_run")
    /\ UNCHANGED <<state, pid, chan, killed, nextpid, lockVars, ticks, cpuVars, ret,
                   np, sleepVars>>

ForkRun(c, p) ==
    /\ Runs(c, p) /\ pc[p] = "fork_run" /\ ptlock = NoCpu
    /\ state' = [state EXCEPT ![np[p]] = "RUNNABLE"]
    /\ np' = [np EXCEPT ![p] = NoProc]
    /\ UNCHANGED killed /\ SysRet(p)
    /\ UNCHANGED <<pid, parent, chan, mem, nextpid, lockVars, ticks, cpuVars, ret,
                   sleepVars>>

-----------------------------------------------------------------------------
(* exit() and wait().                                                      *)

\* init never makes the exit system call: init.c loops, and exit() panics on it.
ExitCall(c, p) ==
    /\ InSyscall(c, p) /\ p # InitProc
    /\ Goto(p, "exit")
    /\ UNCHANGED <<procVars, lockVars, ticks, cpuVars, ret, np, sleepVars>>

\* Whom exit() wakes: the parent, and init if it inherits a ZOMBIE.
ExitChans_InitOnly(p) == IF ZombieKids(p) # {} THEN {InitProc} ELSE {}
ExitChans(p) == {parent[p]} \union (IF ZombieKids(p) # {} THEN {InitProc} ELSE {})

\* "Pass abandoned children to init."
PassToInit_Zombies(p) ==
    [q \in Slot |-> IF q \in ZombieKids(p) THEN InitProc ELSE parent[q]]
PassToInit(p) == [q \in Slot |-> IF q \in Kids(p) THEN InitProc ELSE parent[q]]

\* Under ptable.lock: wake the parent, hand the children to init, become a
\* ZOMBIE.  The lock stays held into sched().
Exit(c, p) ==
    /\ Runs(c, p) /\ pc[p] = "exit" /\ p # InitProc
    /\ KeepPtable(c)
    /\ parent' = PassToInit(p)
    /\ state' = [Wakeup1(ExitChans(p)) EXCEPT ![p] = "ZOMBIE"]
    /\ Goto(p, "dead")
    /\ UNCHANGED <<pid, chan, killed, mem, nextpid, tklock, ticks, cpuVars, ret, np,
                   sleepVars>>

WaitCall(c, p) ==
    /\ InSyscall(c, p) /\ ptlock = NoCpu
    /\ ptlock' = c
    /\ Goto(p, "wait")
    /\ UNCHANGED <<procVars, tklock, ticks, cpuVars, ret, np, sleepVars>>

\* One pass of wait()'s loop, with ptable.lock held.  A thread that was asleep
\* clears p->chan first (the tail of sleep()).
WaitReap(c, p) ==
    /\ Runs(c, p) /\ pc[p] = "wait"
    /\ \E q \in Slot :
        /\ First(ZombieKids(p), q)
        /\ mem' = [mem EXCEPT ![q] = {}]
        /\ pid' = [pid EXCEPT ![q] = 0]
        /\ parent' = [parent EXCEPT ![q] = NoProc]
        /\ killed' = [killed EXCEPT ![q] = FALSE]
        /\ state' = [state EXCEPT ![q] = "UNUSED"]
    /\ chan' = [chan EXCEPT ![p] = NoChan]
    /\ ptlock' = NoCpu
    /\ SysRet(p)
    /\ UNCHANGED <<nextpid, tklock, ticks, cpuVars, ret, np, sleepVars>>

WaitFail(c, p) ==
    /\ Runs(c, p) /\ pc[p] = "wait" /\ ZombieKids(p) = {}
    /\ Kids(p) = {} \/ killed[p]
    /\ chan' = [chan EXCEPT ![p] = NoChan]
    /\ ptlock' = NoCpu
    /\ UNCHANGED killed /\ SysRet(p)
    /\ UNCHANGED <<state, pid, parent, mem, nextpid, tklock, ticks, cpuVars, ret, np,
                   sleepVars>>

\* sleep(curproc, &ptable.lock)
WaitSleep(c, p) ==
    /\ Runs(c, p) /\ pc[p] = "wait" /\ ZombieKids(p) = {}
    /\ Kids(p) # {} /\ ~killed[p]
    /\ chan' = [chan EXCEPT ![p] = p]
    /\ state' = [state EXCEPT ![p] = "SLEEPING"]
    /\ UNCHANGED <<pid, parent, killed, mem, nextpid, lockVars, ticks, cpuVars, pc,
                   ret, np, sleepVars>>

-----------------------------------------------------------------------------
(* kill() and the sleep system call.                                       *)

\* Mutant: "Wake process from sleep if necessary" is left out.
Kill_NoWake(c, p, target) ==
    /\ InSyscall(c, p) /\ ptlock = NoCpu
    /\ \E q \in Slot :
        /\ First({s \in Slot : pid[s] = target}, q)
        /\ killed' = [killed EXCEPT ![q] = TRUE]
    /\ SysRet(p)
    /\ UNCHANGED <<state, pid, parent, chan, mem, nextpid, lockVars, ticks, cpuVars, ret, np,
                   sleepVars>>

\* The first slot whose pid matches, whatever its state.
Kill(c, p, target) ==
    /\ InSyscall(c, p) /\ ptlock = NoCpu
    /\ \E q \in Slot :
        /\ First({s \in Slot : pid[s] = target}, q)
        /\ killed' = [killed EXCEPT ![q] = TRUE]
        /\ state' = [state EXCEPT ![q] = IF @ = "SLEEPING" THEN "RUNNABLE" ELSE @]
    /\ SysRet(p)
    /\ UNCHANGED <<pid, parent, chan, mem, nextpid, lockVars, ticks, cpuVars, ret, np,
                   sleepVars>>

\* No slot has that pid: kill() returns -1.
KillFail(c, p, target) ==
    /\ InSyscall(c, p) /\ ptlock = NoCpu
    /\ \A q \in Slot : pid[q] # target
    /\ UNCHANGED killed /\ SysRet(p)
    /\ UNCHANGED <<state, pid, parent, chan, mem, nextpid, lockVars, ticks, cpuVars,
                   ret, np, sleepVars>>

SleepCall(c, p, n) ==
    /\ InSyscall(c, p) /\ tklock = NoCpu
    /\ tklock' = c
    /\ ticks0' = [ticks0 EXCEPT ![p] = ticks]
    /\ nsleep' = [nsleep EXCEPT ![p] = n]
    /\ Goto(p, "sleep_loop")
    /\ UNCHANGED <<procVars, ptlock, ticks, cpuVars, ret, np>>

\* ticks - ticks0, in the counter's width
Elapsed(p) == (ticks - ticks0[p]) % TickMod

SleepDone(c, p) ==
    /\ Runs(c, p) /\ pc[p] = "sleep_loop"
    /\ Elapsed(p) >= nsleep[p] \/ killed[p]
    /\ tklock' = NoCpu
    /\ ticks0' = [ticks0 EXCEPT ![p] = 0]
    /\ nsleep' = [nsleep EXCEPT ![p] = 0]
    /\ UNCHANGED killed /\ SysRet(p)
    /\ UNCHANGED <<state, pid, parent, chan, mem, nextpid, ptlock, ticks, cpuVars, ret, np>>

SleepCheck_ReleasesEarly(c, p) ==
    /\ Runs(c, p) /\ pc[p] = "sleep_loop"
    /\ Elapsed(p) < nsleep[p] /\ ~killed[p]
    /\ tklock' = NoCpu
    /\ Goto(p, "sleep_enter")
    /\ UNCHANGED <<procVars, ptlock, ticks, cpuVars, ret, np, sleepVars>>

\* The checks of the loop, made before sleep() takes ptable.lock.
SleepCheck(c, p) ==
    /\ Runs(c, p) /\ pc[p] = "sleep_loop"
    /\ Elapsed(p) < nsleep[p] /\ ~killed[p]
    /\ Goto(p, "sleep_enter")
    /\ UNCHANGED <<procVars, lockVars, ticks, cpuVars, ret, np, sleepVars>>

\* sleep(&ticks, &tickslock): take ptable.lock, then release tickslock.
SleepEnter(c, p) ==
    /\ Runs(c, p) /\ pc[p] = "sleep_enter"
    /\ KeepPtable(c)
    /\ tklock' = NoCpu
    /\ chan' = [chan EXCEPT ![p] = TicksChan]
    /\ state' = [state EXCEPT ![p] = "SLEEPING"]
    /\ Goto(p, "sleep_exit")
    /\ UNCHANGED <<pid, parent, killed, mem, nextpid, ticks, cpuVars, ret, np, sleepVars>>

SleepExit(c, p) ==
    /\ Runs(c, p) /\ pc[p] = "sleep_exit"
    /\ chan' = [chan EXCEPT ![p] = NoChan]
    /\ ptlock' = NoCpu
    /\ Goto(p, "sleep_relock")
    /\ UNCHANGED <<state, pid, parent, killed, mem, nextpid, tklock, ticks, cpuVars,
                   ret, np, sleepVars>>

SleepRelock(c, p) ==
    /\ Runs(c, p) /\ pc[p] = "sleep_relock" /\ tklock = NoCpu
    /\ tklock' = c
    /\ Goto(p, "sleep_loop")
    /\ UNCHANGED <<procVars, ptlock, ticks, cpuVars, ret, np, sleepVars>>

-----------------------------------------------------------------------------
SchedStep(c) == SchedAcquire(c) \/ SchedSwitch(c) \/ SchedRelease(c) \/ Sched(c)

Timer(c) == TimerTick(c) \/ TimerOther(c)

\* The timer takes the CPU away from a thread and gives it back.
Preempt(c, p) == Yield(c, p) \/ YieldReturn(c, p)

\* Steps the kernel takes on its own once a thread is inside it.
KernelStep(c, p) ==
    \/ ForkRet(c, p)
    \/ ForkKalloc(c, p) \/ ForkFail(c, p) \/ ForkCopy(c, p) \/ ForkRun(c, p)
    \/ Exit(c, p) \/ WaitReap(c, p) \/ WaitFail(c, p) \/ WaitSleep(c, p)
    \/ SleepDone(c, p) \/ SleepCheck(c, p) \/ SleepEnter(c, p) \/ SleepExit(c, p)
    \/ SleepRelock(c, p)

\* What a user program does: system calls in any order, and faults.
UserStep(c, p) == Syscall(c, p) \/ Fault(c, p)

\* The system call it makes.
SyscallStep(c, p) ==
    \/ Fork(c, p) \/ ForkFull(c, p) \/ ExitCall(c, p) \/ WaitCall(c, p)
    \/ \E k \in KillPids : Kill(c, p, k) \/ KillFail(c, p, k)
    \/ \E n \in SleepArgs : SleepCall(c, p, n)

Next ==
    \E c \in Cpu :
        \/ SchedStep(c) \/ Timer(c) \/ TimerWakeup(c)
        \/ \E p \in Slot :
            Preempt(c, p) \/ KernelStep(c, p) \/ SyscallStep(c, p) \/ UserStep(c, p)

Spec == Init /\ [][Next]_vars

-----------------------------------------------------------------------------
(* Safety.                                                                 *)

Alive(p) == state[p] \notin {"UNUSED", "EMBRYO"}

\* sched()'s contract: a thread that has given up RUNNING but still executes on
\* its CPU holds ptable.lock there, so nobody can run, wake or reap it before
\* swtch() has left its kernel stack.
HandOff ==
    \A c \in Cpu :
        stack[c] = "proc" /\ state[cpuproc[c]] # "RUNNING" => ptlock = c

\* Two CPUs never execute on one kernel stack, and the stack and page table a
\* CPU uses are not freed under it (wait() frees those of a ZOMBIE).
StackSafe ==
    \A c \in Cpu : stack[c] = "proc" =>
        /\ cpuproc[c] # NoProc
        /\ mem[cpuproc[c]] = Pages
        /\ \A d \in Cpu : d # c => cpuproc[d] # cpuproc[c]

\* A parent asleep in wait() has a child, and no exit it should have noticed:
\* exit() never slips between wait()'s scan and its sleep().
NoLostExit ==
    \A p \in Slot : state[p] = "SLEEPING" /\ chan[p] = p =>
        Kids(p) # {} /\ ZombieKids(p) = {}

\* Whoever will reap a process exists: the parent of every process but init
\* is neither gone nor going.
NoOrphan ==
    \A p \in Slot : Alive(p) /\ p # InitProc =>
        /\ parent[p] \in Slot
        /\ Alive(parent[p]) /\ state[parent[p]] # "ZOMBIE"

\* A free slot owns no memory and a live process all of it, through every
\* failure of fork() and every order of exit() and wait().
NoMemLeak ==
    \A p \in Slot :
        /\ state[p] = "UNUSED" => mem[p] = {}
        /\ Alive(p) => mem[p] = Pages

\* sleep(n) never sleeps through its tick: while tickslock is free, whoever is
\* asleep on &ticks still has ticks to wait for.
NoLostTick ==
    tklock = NoCpu =>
        \A p \in Slot : state[p] = "SLEEPING" /\ chan[p] = TicksChan =>
            Elapsed(p) < nsleep[p]

\* A process marked by kill() is never asleep in wait(), which tests killed under the
\* ptable.lock it falls asleep with.  It may be asleep in sys_sleep(), if the mark came
\* from another CPU between the test and sleep(), but then its tick is still to come.
KilledSleepsToTick ==
    \A p \in Slot : state[p] = "SLEEPING" /\ killed[p] =>
        /\ chan[p] = TicksChan
        /\ tklock = NoCpu => Elapsed(p) < nsleep[p]

\* kill(pid) marks the process with that pid and no other.  A process that is
\* still being made has not faulted, so it is killed only if its own pid was
\* passed to kill().
OnlyNamedKilled ==
    \A p \in Slot : state[p] = "EMBRYO" /\ killed[p] => pid[p] \in KillPids

-----------------------------------------------------------------------------
(* Liveness on one CPU.  The timer handler is short against the period of  *)
(* the timer, so the interrupted code gets on between two interrupts; the  *)
(* interrupt is latched by its controller, so it is delivered if           *)
(* interrupts keep being enabled, however briefly: strong fairness.        *)

FairSpec ==
    /\ Spec
    /\ \A c \in Cpu :
        /\ SF_vars(SchedStep(c)) /\ WF_vars(TimerWakeup(c)) /\ SF_vars(Timer(c))
        /\ \A p \in Slot :
            WF_vars(Preempt(c, p)) /\ SF_vars(KernelStep(c, p) \/ SyscallStep(c, p))

\* The round-robin scan of scheduler() and the timer starve nobody.
RunnableRuns == \A p \in Slot : state[p] = "RUNNABLE" ~> state[p] = "RUNNING"

\* On one CPU a killed process dies: computing in user mode, preempted, or asleep
\* in sys_sleep() when it is marked, or marked before it was made.
KilledDies == \A p \in Slot : Alive(p) /\ killed[p] ~> state[p] \in {"ZOMBIE", "UNUSED"}

\* Whoever sleeps on &ticks is woken.
TickSleeperWakes ==
    \A p \in Slot : state[p] = "SLEEPING" /\ chan[p] = TicksChan ~> state[p] # "SLEEPING"

-----------------------------------------------------------------------------
(* The inductive invariant behind the safety properties.                   *)

\* Where a thread is, a preemption by the timer apart.
At(p) == IF pc[p] \in {"yield", "yield_ret"} THEN ret[p] ELSE pc[p]

\* Where a thread resumes from swtch(): with ptable.lock held.
Resume == {"wait", "forkret", "yield_ret", "sleep_exit"}

Forking == {"fork_kalloc", "fork_copy", "fork_run"}

\* A CPU is in its scheduler or on the stack of a process no other CPU is on; a
\* timer interrupt is handled on top of a running thread that holds no lock.
CpuInv ==
    \A c \in Cpu :
        /\ stack[c] = "sched" <=> cpuproc[c] = NoProc
        /\ \A d \in Cpu : d # c /\ cpuproc[c] # NoProc => cpuproc[d] # cpuproc[c]
        /\ cpuproc[c] # NoProc => Alive(cpuproc[c])
        /\ intr[c] => ptlock # c
        /\ intr[c] /\ cpuproc[c] # NoProc =>
            state[cpuproc[c]] = "RUNNING" /\ pc[cpuproc[c]] \in Preemptible

\* ptable.lock is handed over by swtch(): a thread on a CPU holds it if it has
\* given up RUNNING, or has just been resumed.
LockInv ==
    \A c \in Cpu :
        cpuproc[c] # NoProc /\ (state[cpuproc[c]] # "RUNNING" \/ pc[cpuproc[c]] \in Resume)
            => ptlock = c

\* A thread off its CPU waits where swtch() returns.
ResumeInv ==
    \A p \in Slot :
        /\ state[p] = "RUNNABLE" => pc[p] \in Resume
        /\ state[p] = "SLEEPING" =>
            \/ pc[p] = "wait" /\ chan[p] = p
            \/ pc[p] = "sleep_exit" /\ chan[p] = TicksChan
        /\ state[p] = "EMBRYO" => pc[p] \in {"dead", "forkret"}
        /\ state[p] \in {"UNUSED", "ZOMBIE"} => pc[p] = "dead"
        /\ pc[p] \notin {"yield", "yield_ret"} => ret[p] = "user"

\* The thread of p is inside fork(), making the slot q, and nobody else is.
Makes(p, q) ==
    /\ state[q] = "EMBRYO"
    /\ At(p) = "fork_kalloc" => mem[q] = {}
    /\ At(p) # "fork_kalloc" => pc[q] = "forkret"
    /\ At(p) # "fork_run" => parent[q] = NoProc
    /\ At(p) = "fork_run" => parent[q] = p /\ mem[q] = Pages
    /\ \A r \in Slot : r # p => np[r] # q

\* A slot in the making belongs to the one thread that makes it, which
\* allocproc() and fork() rely on when they touch it without ptable.lock.
ForkInv ==
    \A p \in Slot :
        /\ np[p] # NoProc <=> At(p) \in Forking
        /\ np[p] # NoProc => Makes(p, np[p])
        /\ state[p] = "UNUSED" => parent[p] = NoProc

\* Who holds tickslock: the timer handler, or a thread in the loop of sys_sleep().
\* A sleeper has ticks to wait for unless the handler is about to wake it.
TickInv ==
    /\ \A c \in Cpu : intr[c] => tklock = c
    /\ \A p \in Slot :
        /\ pc[p] \in {"sleep_loop", "sleep_enter"} =>
            state[p] = "RUNNING" /\ \E c \in Cpu : cpuproc[c] = p /\ tklock = c
        /\ pc[p] = "sleep_enter" => Elapsed(p) < nsleep[p]
        /\ state[p] = "SLEEPING" /\ chan[p] = TicksChan =>
            Elapsed(p) < nsleep[p] \/ \E c \in Cpu : intr[c]

\* init is always there to adopt, and nobody is its own parent.
InitInv ==
    /\ state[InitProc] \in {"SLEEPING", "RUNNABLE", "RUNNING"}
    /\ parent[InitProc] = NoProc
    /\ \A p \in Slot : parent[p] # p

IInv ==
    /\ TypeOK /\ CpuInv /\ LockInv /\ ResumeInv /\ ForkInv /\ TickInv /\ InitInv
    /\ NoMemLeak /\ NoOrphan /\ NoLostExit

\* Nobody sleeps in wait() once it is killed; inductive beside IInv.
KilledWait == \A p \in Slot : state[p] = "SLEEPING" /\ killed[p] => chan[p] # p
=============================================================================
