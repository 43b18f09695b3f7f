# A TLA+ verification of the xv6 kernel in this repository

The repository holds the course work of MIT 6.828: the xv6 teaching kernel
(`homeworks/xv6-public`, the one copy the homeworks keep), a shell, two JOS labs
and notes. This project models the part that carries the logic and the
concurrency, the xv6 kernel, checks it with TLC on small instances, and proves
the central invariants with TLAPS for every size.

All source paths below are relative to `homeworks/xv6-public`.

## 1. Inventory

| Component | State it keeps | Operations | What is hard |
|---|---|---|---|
| Process table, scheduler (`proc.c`) | `ptable` (state, pid, parent, chan, killed, kstack, pgdir), `cpus[].proc`, `nextpid` | allocproc, fork, exit, wait, kill, sleep, wakeup, yield, sched, scheduler | several CPUs; a lock handed over across `swtch()`; wakeups that may be lost; failures half-way through fork |
| Traps, clock (`trap.c`, `sysproc.c`) | `ticks`, `tickslock` | timer interrupt, kill checks, faults, sleep(n) | interrupts between any two instructions with interrupts on; wrap of `ticks` |
| Spinlocks (`spinlock.c`) | `locked`, `ncli`, `intena` | acquire, release, pushcli, popcli | interrupts off while a lock is held |
| Sleep-locks (`sleeplock.c`) | `locked`, `pid` | acquiresleep, releasesleep | two spinlocks in one protocol; kill() wakes waiters |
| Log (`log.c`) | `log` in memory, header and blocks on disk | begin_op, log_write, end_op, commit, recovery | concurrent operations share a transaction; a crash at any disk write |
| Buffer cache, disk (`bio.c`, `ide.c`) | `bcache`, `idequeue` | bget, bread, bwrite, brelse, iderw, ideintr | bounded cache, pinned buffers, interrupt against requester |
| Pipes (`pipe.c`) | ring buffer, counters, ends | pipewrite, piperead, pipeclose | sleeping on both sides, wrap of the counters, kill, free |
| File table (`file.c`) | `ftable`, reference counts | filealloc, filedup, fileclose | last reference closes |
| Inodes, directories, calls (`fs.c`, `sysfile.c`) | inode cache, on-disk inodes, bitmap, directories | iget, ilock, iput, balloc, link, unlink, create | reference counts against link counts, lock order, crash |
| Memory (`kalloc.c`, `vm.c`, `exec.c`) | free list, page tables, `p->sz` | kalloc, kfree, allocuvm, copyuvm, sbrk | lazy `sbrk` without a page-fault handler |
| Console (`console.c`) | line buffer r, w, e | consoleintr, consoleread | interrupt against reader |
| User library (`umalloc.c`, ...) | free list | malloc, free | coalescing |

How they interact: system calls enter through `trap()` and `syscall()`; every
blocking operation is `sleep(chan, lk)` with the spinlock of the structure it
waits for, every wake is `wakeup(chan)`; file-system calls are bracketed by
`begin_op()`/`end_op()` and reach the disk through the log, the buffer cache and
the IDE queue; fork and exit duplicate and close files; kill only marks a process
and makes a sleeper runnable, so every loop around `sleep()` decides for itself.

What makes each part correct:

* processes: one CPU per kernel stack, memory freed exactly once and never under
  a running thread, no lost exit or tick, no orphan, nobody starves, the killed
  die;
* sleep-locks: mutual exclusion, no lost wakeup, progress;
* log: an operation is on disk as a whole or not at all, and after `end_op()` of
  the last active operation it is;
* pipes: a bounded FIFO, freed when nobody uses it, nobody asleep without reason;
* buffer cache and disk: one buffer per block, no buffer recycled under its user,
  every request answered, and no block changed by caching it;
* inodes: no reference lost or dropped twice, link counts equal to names, never
  freed while named or in use, freed when neither, nobody waiting in a circle;
* memory: every page on the free list or in one place, through every failure.

`PROJECT.json` lists the hazards behind these at their lines.

## 2. Modules

| Module | Models | Used by |
|---|---|---|
| `Proc` | `proc.c`, `trap.c` (timer, kill checks, faults), `sys_sleep` | `MCProc`, `ProcProofs` |
| `SleepLock` | `sleeplock.c` over `sleep`/`wakeup` | `MCSleepLock`, `SleepLockProofs` |
| `Log` | `log.c` with the cache of `bio.c`, disk, crash | `MCLog`, `LogProofs` |
| `AtomicDisk` | abstract: what the log promises | `Log` (refinement) |
| `Bio` | `bio.c` and `ide.c`: bounded cache, request queue, interrupt | `MCBio`, `BioProofs` |
| `Pipe` | `pipe.c`, `filedup`/`fileclose` of its ends | `MCPipe`, `PipeProofs` |
| `BoundedFifo` | abstract: what a pipe promises | `Pipe` (refinement) |
| `Fs` | `fs.c` (inode cache, directories, paths), `sysfile.c`, `file.c`, the file side of fork, exit, exec | `MCFs`, `FsProofs`, `FsLinkProofs` |
| `Vm` | `kalloc.c`, `vm.c`, `exec.c`, the memory side of fork, wait, sbrk | `MCVm`, `VmProofs` |
| `ProcProofs`, `SleepLockProofs`, `LogProofs`, `PipeProofs`, `BioProofs`, `VmProofs`, `FsProofs`, `FsLinkProofs` | theorems with proofs | |

### Proc

The variables `state`, `pid`, `parent`, `chan`, `killed` are the fields of
`struct proc`; `mem` stands for `kstack` and `pgdir`; `cpuproc[c]` is
`cpus[c].proc`. `stack[c]` says whether CPU `c` executes on the stack of its
scheduler or of a process, and `pc[p]` where the thread of slot `p` is or resumes.

A step is what one CPU does between two points where another can interfere. Code
that takes and releases `ptable.lock` in one function is a single step (nobody
else can look at the table in between). Where the lock is carried through
`swtch()` (sleep, yield, exit, wait, and the scheduler) `ptlock` names its
holder across steps: `Yield`, `SleepEnter`, `WaitSleep` and `Exit` give up
RUNNING with the lock held, `Sched` leaves the stack, `SchedSwitch` enters the next
process still holding it, and `ForkRet`, `YieldReturn`, `SleepExit` or the loop of
`wait()` release it on the new thread. fork is four steps, because allocproc and
fork touch the new slot without the lock. The timer can interrupt at every label
of `Preemptible` and an idle CPU between two scans; on CPU 0 it holds `tickslock`
over `TimerTick` and `TimerWakeup`.

User programs make any system call in any order. Left out: closing files and the
directory in exit (other components; they can delay the step `Exit`, not change
the table), the one-time `iinit`/`initlog` of the first forkret, and growproc
(unused since `sbrk` is lazy). init neither exits nor faults, as `init.c`.

### SleepLock

`lk` and `pt` are the two spinlocks, so the windows of the protocol of `sleep()` are
states: take `ptable.lock` (`SleepPtable`), release `lk->lk` (`SleepRelease`), become
SLEEPING and give `ptable.lock` away in sched() (`SleepFall`). Between the last two a
releaser can clear the lock and get as far as wakeup()'s acquire.

### Log

`home`, `dlog`, `dhead` are the disk; everything else is lost in `Crash`. commit()
is one step per disk write (`WriteLog`, `WriteHead`, `InstallTrans`, `EraseHead`);
recovery is `ReadHead` followed by the same install steps, and may crash as well.
log_write is two steps, the unlocked check and the locked append. The cache can
drop any buffer that is neither locked nor dirty. Refinement mapping: readers see
the cache, a crash would leave `Recovered`, the disk as recovery would make it.

### Bio

`lru` is the list from `bcache.head.next`; `valid` and `dirty` are the buffers with the
two flags; `owner` is the holder of the buffer's sleep-lock (its internals are
SleepLock's). bget is two steps, the search or recycling under `bcache.lock` and the
acquiresleep after it; brelse likewise releases the lock first and the reference second.
iderw appends and sleeps in one step under `idelock`; `Ideintr` finishes the request at
the head, starts the next and wakes the sleepers on the buffer. A transfer may fail.
After a read the data stays what it was and B_VALID is set all the same; after a write
the disk stays what it was and B_DIRTY is cleared all the same, since `ide.c:118` asks
for the status of reads only. `failed` remembers the buffer for the property only. Log
assumes that writes succeed, as log.c does. Two views of the cache exist on purpose: Log
needs only that a dirty buffer stays, and Bio shows that it does.

### Pipe

`lock` is `p->lock`. kill may land between the test of `killed` and the sleep
(label `tested`). The set of processes that hold an end plays the part of
`f->ref`; the last one out calls pipeclose. Refinement mapping: the queue is the
part of `data` between the two wrapping counters.

### Fs

`disk` and `dir` are what the disk holds: type and link count of every inode, and the
entries of every directory. `cache` is the inode cache, one entry per inode number
(iget never makes two; ref 0 is an entry that may be recycled), `lock` the holders of
the inodes' sleep-locks, `file` and `ofile` the file table and the descriptors.

`pc` is the next step of a process's system call and `local` the variables of the call;
`todo` lists the iput() and iunlock() calls the code makes before that step, so that
each of them can wait and be overtaken on its own. A step starts where the code may have
to wait for an inode lock and runs until it next needs one, or until it touches shared
state (icache.lock, ftable.lock, a dinode) a second time:

| Code | Steps |
|---|---|
| iput | check under the lock (`PutLast`/`PutKeep`), free (`PutFree`), `ref--` (`PutDrop`) |
| namex | start (`SysPath`, or inside `Link1`), one step per element (`Namex`), an iput for each directory left behind |
| link | count (`Link1`), entry (`Link2`, with dirlink's iput under the lock of dp), `bad:` (`LinkBad`) |
| unlink | directory (`Unlink1`), victim (`Unlink2`), its count (`Unlink3`), with dp's iput in between |
| create | directory and ialloc (`Create1`), new inode (`Create2`) or the existing one (`Exists`), with dp's iput in between |
| open, close, chdir, exec, fork, exit | `OpenFd`, `SysClose`, `Chdir`, `Exec`, `Fork`; `Exit`, then one `ExitClose` per open descriptor and `ExitCwd` |

open() with O_CREATE reaches `OpenFd` with the inode still locked by create(), a plain
open() takes the lock there. fork's filedup and idup calls are one step: the parent
keeps its own references meanwhile, so no iput can see a last one. dup() is the same
filedup(). ialloc's scan is one step; a dinode freed behind the scan would be missed,
which shows only in the number the new inode gets. create()'s panic "create dots"
(`sysfile.c:274`) is left out: only a stray lookup (below) could prepare it.

`Crash` happens at moments without an open transaction: the log brings back the disk
of such a moment whenever the power fails (this is what `Log` refines `AtomicDisk`
for), and everything in memory goes anyway. After it the first process starts again
in `/` on the disk that was left. Crashes are not bounded. `lost`, `stranded` and
`strayed` are history variables: inodes that the race in iput or a crash has orphaned,
inodes whose name was in a directory that was freed, and whether a lookup has ever
followed the `..` of a removed directory to an inode that was free, about to be freed,
or allocated again and not yet set up (`Gone`). None of them is read by a guard.

### Vm

A page is in the set `free` or in a slot: a kernel stack, the variable `mem` of
allocuvm and copyuvm, a page directory, a page table, or a page table entry, of the
space a process runs in (`cur`) or of the one exec builds (`new`). fork fills the
`cur` slots of the child. Each kalloc and each kfree is a step of its own, so two
processes compete for the last page everywhere, and kalloc fails exactly when the list
is empty. After a failure the code's own clean-up runs page by page: kfree(mem), the
user pages, the tables, the directory, then the stack of the child. When allocuvm()
fails, its own deallocuvm() (`vm.c:237`, `vm.c:243`) and exec's freevm() are one loop of
the model: what lies between them, the clearing of the entries already freed, is not
expressed. exec's `bad:` can
be reached from every place where the file or the arguments may be at fault. sbrk
moves `sz` alone, up or down; copyuvm then panics on a page that is not there, which
is a step of the model and stops it.

## 3. Runs

| Run | Instance | Shows |
|---|---|---|
| `proc_safety` | 2 CPUs, 3 slots, pids to 3, ticks mod 2 | HandOff, StackSafe, NoLostExit, NoOrphan, NoMemLeak, NoLostTick, KilledSleepsToTick |
| `proc_live` | 1 CPU, 2 slots, fairness | RunnableRuns, KilledDies, TickSleeperWakes |
| `log` | 3 threads, 3 blocks, 2 values, log of 4, operations of 1 of 2 reserved blocks | refinement of AtomicDisk, QuiescentIsDurable, NoLostWakeup, NoPanic |
| `log_full` | operations use their reservation | **violated**: LogFits |
| `bio` | 2 threads, 2 buffers, 3 blocks, 2 values | OneBufferPerBlock, BufferStays, DiskServesHead, NoLostIo, OnlyHoldersChange |
| `pipe` | 2 readers, 2 writers, one of each can be killed, 2-byte ring, counters mod 4 | refinement of BoundedFifo, NoUseAfterFree, WriterSleepsOnFull, ReaderSleepsOnEmptyOrKill |
| `pipe_kill` | the same | **violated**: ReaderSleepsOnEmpty |
| `fs` | 2 processes, root and 2 inodes, 2 names, 1 open file, any number of crashes | RefsMatchHolders, LinksMatchNames, NotFreedInUse, OrphanByRaceOrCrash, CacheCoherent, WaitCycleOnlyInIput, PanicIsKnown |
| `fs_orphan` | the same | **violated**: LastPutFrees |
| `fs_deadlock` | the same | **violated**: NoWaitCycle |
| `vm` | 3 processes, 12 pages, 4 user pages, 2 entries per table | PagesAccounted |
| `sleeplock` | 4 processes, fairness | inductive invariant, MutualExclusion, NoLostWakeup, SomebodyGetsIt |

Why the bounds are enough. Three slots are init, a parent and a child, so that a process
can exit with a child alive, dead or in the making while another CPU runs init; pids up
to 3 let a slot be reused after its process was reaped. `ticks` modulo 2 wraps all the
time, and sleep(1) is the longest sleep it can express. Two admitted operations fill the
reservation of a log of 4 and the third thread has to wait; they write two blocks
between them, enough for one transaction to be torn between two blocks and for one block
to be absorbed, and a third operation admitted by mistake would fill the log. Three
blocks let a transaction meet copies the one before has left. That an operation of
several blocks is atomic comes from the same rule, no commit while an operation is
active, and is checked by that rule; the theorem covers it for every size. A ring of 2
bytes with counters modulo 4 is full, empty and wrapped within a few steps, and a write
of 3 bytes must sleep. Three blocks for two buffers force recycling, and two threads pin
both buffers, so that bget() also runs out of them. `MaxPid`, `MaxCount` and `OpBlocks`
bound the models and nothing else does. `MCLog` and `MCBio` use symmetry of threads and
blocks; the PROPERTY each run checks with it speaks about single steps.

In `fs`, the first process makes directories and files called `a`, also inside each
other, enters, leaves, opens and executes them; the second, which the first can start
and which can exit at any time, unlinks `a` in its own directory and `/a`, tries to
unlink `..`, and links `a` to `b`. Two inodes below the root are a directory and what
is in it, and the third creation panics for lack of inodes; one open file makes open
fail too. Two processes are enough for a circular wait, and for the two iput calls of
a race. Not reached there: link with a missing parent, which takes the same way to
`bad:` as the one reached, and unlink of an empty path. In `vm`, a
process needs 3 to 8 pages and building an image 2 to 7 more, so with 12 pages and
three processes each call of kalloc in fork and exec finds the list empty in some
states and not in others, and two entries per table make walkpgdir allocate a second
table. The VIEW of `MCVm` forgets which page is which, but keeps which slots share one
and which hold a free one: all pages are alike in the model, and the property can be
read off what is kept. It also forgets variables that are always set before they are
next read.

The pipe run does not check for deadlock: when all ends are closed nothing is left
to do. Nor does the bio run: after the panic "bget: no buffers" the thread keeps
`bcache.lock` and everybody comes to a halt. The fs and vm runs stop after a panic, and
fs also in the circular wait described next.

Fairness. In `Proc`, the steps the kernel takes on its own are strongly fair: a
thread inside the kernel gets on whenever it holds a CPU, a spinlock that is free
again and again is got, and the timer is periodic and latched by the interrupt
controller, so it is delivered if interrupts keep being enabled. No system call is
forced: a user program may compute for ever. What is not assumed is that kill() or
exit happens. `proc_live` has one CPU: interrupts are off while `tickslock` is held, so
there kill() cannot land between the test of sys_sleep() and its sleep(). On more CPUs it
can, and the process is then marked and asleep; `proc_safety` shows, and
`KilledHaveATick` proves, that a tick is still to come for it, and that wait() leaves no
such window. In `SleepLock`, holders release in the end and spinlocks are got in
the end.

### Findings

1. The log region holds one data block fewer than begin_op() gives away. With one block
   left two threads pass log_write()'s check, made before it takes `log.lock`, and both
   append: the header lists as many blocks as the region has with its header, and the
   last one would be written over the first inode block (`log_full`). One thread that
   comes to the check later panics instead ("too big a transaction"). With at most
   `LOGSIZE - 2` blocks over all admitted operations neither can happen (`log`).
2. A writer killed on a full pipe returns without waking the readers
   (`pipe_kill`). With no killed writer the reader always is woken (`pipe`).
3. Two iput() calls on an unlinked inode both find another reference and neither frees
   it (`fs_orphan`).
4. create() and unlink() of one name wait for each other's inode lock for ever
   (`fs_deadlock`).

A fifth defect has no run. kill() (`proc.c:486`) matches the pid of a free slot: 0, or the
one a failed fork() has left. allocproc() does not clear `killed`, so the next process
forked into the slot is born killed and exits at its first trap. `OnlyNamedKilled` of
`Proc` says that this does not happen; checked as an invariant with `MCProc.cfg` it fails
after a fork that ran out of memory, and with `KillPids = {0}` after the first fork.

### What the exceptions in the properties of Fs stand for

Five properties of `Fs` hold only with an exception, and each exception was seen to
happen in the instance; they are defects or limits of the code. For two of them the
repository itself promises the absence of the exception, and the strict property is a
run of its own, beside the weak one.

* *Circular wait* (WaitCycleOnlyInIput; strict: NoWaitCycle). iput takes the lock of the
  inode it puts (`fs.c:334`), and its callers may hold another lock. create() of a name
  puts its directory with the new inode locked (`sysfile.c:280`); an unlink() of that
  name that has got the directory's lock in the meantime waits for the new inode
  (`sysfile.c:209`). Neither goes on, and `begin_op()`/`end_op()` of everybody else will
  wait for them in the end. `usertests.c:855` is "another concurrent link/unlink/create
  test, to look for deadlocks" and meets this one only with luck. Larger sets of calls
  show the same for two unlink() calls of two links of one file, and for link() to `.`
  or `..`, through dirlink's iput. What the run shows is that ilock() alone never closes
  a circle: the order directory before entry, and the refusal of `.` and `..`, are
  enough for it.
* *Orphans* (OrphanByRaceOrCrash; strict: LastPutFrees). `fs.c:327` says "If that was
  the last reference and the inode has no links to it, free the inode". Two iput calls
  can both look at the count before either has lowered it (`fs.c:337`, `fs.c:350`): each
  sees 2, and the inode stays allocated without name or user. A crash with an unlinked
  file open does the same, as nothing scans for such inodes at boot; LastPutFrees speaks
  of iput() only, so the crash does not refute it.
* *Removed directories* (LinksMatchNames, NotFreedInUse, PanicIsKnown). create() and
  link() make entries in a directory that was removed while a process sits in it; the
  entry goes when the directory is freed and the inode keeps its count (`stranded`).
  unlink() takes back the count that `..` stood for (`sysfile.c:222`, against
  `sysfile.c:270`) although the entry `..` stays for those inside, so the parent can be
  removed and freed and walking `..` panics in ilock. Or the number is taken again
  meanwhile: then the lookup reaches an inode that create() has allocated and not yet
  locked, and a name made in it by mkdir("../b") is not counted, because create() sets
  `nlink` to 1 when it gets there. From such a lookup on (`strayed`) the three
  properties promise nothing.

## 4. Proofs

`SleepLockProofs` proves MutualExclusion and NoLostWakeup for every set of
processes. The inductive invariant adds which label holds which spinlock
(`SpinLocksHeld`), that the fields of the lock name the process inside
(`FieldsMatch`), and `SleepersSawLocked`: whoever is on its way to sleep with
`lk->lk` held still sees the lock taken, since nobody clears it without `lk->lk`, and
once it has only `ptable.lock`, a releaser that has cleared it is still before wakeup().
That last part is what makes NoLostWakeup inductive.

`ProcProofs` proves TypeOK, HandOff, StackSafe, NoLostExit, NoOrphan, NoMemLeak,
NoLostTick and KilledSleepsToTick for every number of CPUs and slots and every width of
`ticks`. From the assumptions it uses only that sizes are positive and that arguments of
sleep fit the counter. None of the properties is inductive alone; `IInv` adds

* `CpuInv`: a CPU is in its scheduler or on the stack of a live process no other
  CPU is on, and an interrupt is taken only from a running thread without locks;
* `LockInv`: a thread on a CPU that gave up RUNNING, or that has just been resumed
  by the scheduler, holds `ptable.lock` there: HandOff and its converse;
* `ResumeInv`: a thread off its CPU waits at a place where `swtch()` returns, and
  what it sleeps on matches that place;
* `ForkInv`: a slot in the making belongs to exactly one thread inside fork, which
  is why allocproc and fork may touch it without the lock;
* `TickInv`: who holds `tickslock`, and that a sleeper has ticks left to wait for
  unless the handler that will wake it is already running;
* `InitInv`: init stays, has no parent, and nobody is its own parent.

One lemma per action shows that it keeps `IInv`, with a step per conjunct the action
can disturb; the frame lemmas settle the others. KilledSleepsToTick needs `KilledWait`
besides, that no killed process sleeps in wait(), which is inductive relative to `IInv`
(`KilledWaitKeeps`). `IInv` was also checked with TLC on
the instance of `proc_safety`.

`LogProofs` proves, for any threads, blocks and contents and any log size:

* `LogIsAtomicDisk`, the refinement `Spec => AD!ADSpec`: initial states map to initial
  states, and each action, crashes and the steps of recovery included, maps to a step
  of `AtomicDisk` or to a stutter. The step where a transaction takes effect is the
  write of the header (`WriteHead`); everything before leaves `Recovered` alone,
  everything after as well.
* `EndedOpsAreDurable`, `BeginOpIsWoken`, `LogTypeOK`.
* `LogNeverPanics` and `LogStaysInRegion`, under the hypothesis `OneBlockSpare`: an
  operation writes fewer than MAXOPBLOCKS different blocks and the log keeps one block
  free. The hypothesis is needed: `log_full` shows LogFits violated without it, since
  log_write tests `log.lh.n >= log.size - 1` without the lock and begin_op reserves up to
  LOGSIZE.

The assumptions on the constants say that an operation keeps to its reservation
(`OpBlocks <= MAXOPBLOCKS`, what sys_write and create arrange) and that one operation
fits in an empty log. The inductive invariant says what each phase of commit and
recovery has established: who may be active (`Control`), which locks are held
(`Locks`), that the header lists different blocks (`Distinct`) and agrees with the one
on the disk where it must (`Headers`), that a logged block stays in the cache
(`Pinned`), and how far the copies to the log and from it have come (`Copied`).
`Reserved(c)` is the argument for the capacity: the blocks listed, plus for each
operation outstanding the blocks it may still add, are at most `c`. It counts by an
injection of the pairs (operation, block written) into a product, so the proof carries
theorems of cardinality.

`PipeProofs` proves `PipeIsFifo`, the refinement of `BoundedFifo`, and the four
invariants of `Pipe`, for any PIPESIZE and any counter width that is a multiple of it
(2^32 and 512 in the code). The first half is arithmetic: `nwrite - nread` modulo the
width is the number of bytes (`Distance`, `CountInc`), and two counters less than
PIPESIZE apart index different slots (`ModDistinct`); that is where divisibility is
used. The inductive invariant adds that `p->lock` is held exactly by who is past its
acquire (`LockHeld`), that an end is open while somebody holds it (`EndsOpen`), and
what a process about to sleep has seen (`WriterWaits`, `ReaderWaits`).

`BioProofs` proves the five invariants of `Bio` and the action property
OnlyHoldersChange (`CacheIsTransparent`), for any threads, buffers and blocks. The
invariant says that refcnt counts the threads that refer to a buffer (`Counted`: this
is why no buffer in use has count 0), that a lock's holder is past acquiresleep with
it (`Threads`), that B_DIRTY implies B_VALID (`Flags`), that who waits in iderw has its
request queued or finished (`Queued`), and that a clean valid buffer equals its block
on the disk unless it is being changed or its last transfer failed (`CleanIsDisk`: recycling
loses nothing). The list of brelse is shown to remain a list of all buffers.

`VmProofs` proves PagesAccounted (`NoPageIsLost`) and that `panic("remap")` cannot
happen (`NeverRemaps`), for any process table, number of pages and address space. The
invariant says for every label which slots are empty and which are not: `HasStack` for
the kernel stack and `mem`, `HasDir` for the spaces with a directory and the empty
ones, `LoopsOn` for the entries a loop has not come to, and `Targets`, that no two
calls work on one space. A frame lemma (`RestFrame`) shows that a call of one process
leaves the invariant of the others alone, so each action is looked at for its own
process only.

`FsProofs` proves RefsMatchHolders, CacheCoherent and TypeOK of `Fs`, for any process
table, any disk, any file table, any names and any set of calls with any paths, through
crashes and panics. RefsMatchHolders speaks of moments without a call under way and is
far from inductive; `IInv` says at every moment who holds which reference:

* `Counted`: `ref` of an inode is the number of open files, current directories, `ip`s
  and `dp`s of calls that are going to use them, and iput() calls still to come. This
  is fs.c:123, "ip->ref tracks the number of in-memory pointers to the entry", with the
  pointers on the kernel stacks of half-done calls made explicit (`IpIn`, `DpIn`,
  `Pending`);
* `FilesCounted`: the same for `f->ref` and descriptors, an entry of ftable is free
  exactly when it has no inode, and a slot without a process has no open descriptor;
* `Shapes`: which variables of a call are set at which step, so that `IpIn` and `DpIn`
  name inodes;
* `Coherent`: a valid copy is the dinode and never that of a free inode. This is
  stronger than CacheCoherent and needs no lock: ialloc() takes a free dinode, so it
  never writes one that has a valid copy.

The argument is one of counting. A step of process t changes what t holds and what the
file table holds; `Recount` and `FileRecount` turn that into a change of the numbers of
holders, `PendingPush`/`PendingPop` say what a list of iput() calls adds, and
`IgetFacts`/`LoadFacts`/`SetLinksFacts` what iget(), ilock() and iupdate() do to the
cache. `MoveInv` puts these together; each action then only has to show that `ref`
moves by what its process gained and gave up. `FsInductive` is `Spec => []IInv`.

`FsLinkProofs` proves the other five properties of `Fs`: OrphanByRaceOrCrash,
WaitCycleOnlyInIput, LinksMatchNames, NotFreedInUse and PanicIsKnown, again for any
sizes, names and calls. They rest on `IInv` and on two more invariants. `LInv` holds
always:

* `Locked`: an inode lock is held by exactly the process whose next steps release it:
  by the call at its step (`CallLock`), by an iunlock() still in its list (`Unlocks`), or
  by an iput() that is freeing (`Frees`). The three never name the same inode, and a
  call that holds its directory and is about to lock the inode in it has no iput() left
  to do;
* `Checked`: what a call found out before it let an inode go still is so when it uses
  it. A directory it found is still one and nobody is freeing it, the source of link()
  still is neither free nor a directory, unlink() still finds the name it read, create()
  still finds none, and an inode being freed has a valid copy and no links;
* `Tree`: no set of inodes each of which names, or is about to name, another member. It
  is stated without paths: every non-empty set of inodes has a member with no name in
  the set. Link() takes no directory, and create() adds a number that was free, so
  nothing names it yet and it names nothing;
* `Kept`: an inode without links that is not lost has more references than processes
  that have passed iput()'s check and are about to drop theirs, so that somebody has yet
  to check it.

`AInv` holds as long as no lookup has strayed: `LinkedAt`, the link count is the number
of names, of directories named in the inode, and of the links that link() has counted
and not yet named or unlink() has unnamed and not yet counted (`Owed`); `Reachable`, what
has a name is not free; and `UsedAt`, nobody but those about to drop it refers to a free
inode, only its iput() to one being freed, only create() to one being set up.

From there: a process waiting in ilock() with a lock held is at `unlink2` or `create2`,
holds the directory and waits for an inode that `Tree` puts below it, so a circle of such
processes would be a set of directories each naming another (WaitCycleOnlyInIput). `Kept`
excludes count 0 (OrphanByRaceOrCrash). Between transactions `Owed` is empty
(LinksMatchNames). A file or a current directory is one reference more than those about
to be dropped, so `UsedAt` excludes a free inode (NotFreedInUse), and the same holds for
an inode that ilock() is called on, while unlink() has a name in its hands, so that the
count is at least 1 (PanicIsKnown). PanicIsKnown is kept by the steps themselves, the
others follow from the invariants in each state. One lemma per action shows that it keeps
`LInv` and `AInv`; the frame lemmas say what a step of one process leaves alone of what
another has locked, checked or counted.

Assumptions on the constants of `Fs`: positive number of inodes, finitely many processes
and names (a name has at most DIRSIZ bytes), names other than `.`, `..` and `/`, and calls
that are calls of the list with paths. Nothing is assumed about which calls there are.

The inductive invariants (`IInv` of each module, and `LInv` and `AInv`) were checked
with TLC on the instances of the runs before they were proved. `SleepLock`'s is a
property of its run and a theorem (`SleepLockInvariant`).

Only model-checked: the liveness properties RunnableRuns, KilledDies, TickSleeperWakes and
SomebodyGetsIt (fairness is out of the prover's reach). Every safety property of a passing
run has a theorem; that of NoPanic has the hypothesis `OneBlockSpare`, which the instance
of `log` satisfies.

## 5. Not modelled, and the plan

Not modelled, and why:

* of the file system: block allocation and the mapping of file offsets to blocks, file
  contents, `f->off`, the bound NINODE of the cache (iget panics when it is reached),
  the waiting in begin_op (a module of its own);
* of memory: permission bits, the wrap of `sz` in sbrk, and reading of user memory by
  system calls;
* the console, keyboard and serial line; boot code and device registers; argument
  fetching; formatting;
* user programs: the models let processes make system calls in any order instead.

Much of the repository repeats itself: `hw01-boot-xv6` and `hw03-syscall`
are earlier copies of the same kernel, with the same files up to a few lines, and the
copy modelled here is the one homework 4 says is kept; `usertests.c` appears three
times; the two labs are copies of the JOS skeleton, with a generated page table each and
in lab 2 functions whose bodies are still to be written. The map names the lines of one
copy.

The plan, in this order:

1. `Bio` composed with `Log`: NBUF against the buffers a full transaction pins, two
   buffers held at once (bmap and balloc, write_log).
2. Blocks: balloc, bfree and bmap against the bitmap, over `AtomicDisk`.
3. `Console` (line buffer), `Umalloc` (coalescing free list against a reference).
