--------------------------------- MODULE Log ---------------------------------
(***************************************************************************)
(* The write-ahead log of the xv6 file system (homeworks/xv6-public/log.c) *)
(* over the buffer cache and the disk: begin_op, log_write, end_op, the    *)
(* commit with one disk write per step, a crash between any two of them,   *)
(* and the recovery at the next boot (which may crash too).                *)
(*                                                                         *)
(* Code under log.lock is one step.  A disk write of one block is atomic,  *)
(* and it succeeds: log.c does not learn of an error (Bio).                *)
(***************************************************************************)
EXTENDS Integers, Sequences, FiniteSets

CONSTANTS
    Thread,         \* kernel threads that run file-system operations
    Block,          \* the blocks outside the log
    Val,            \* contents of a block
    None,           \* "not in the cache", "no block"
    MAXOPBLOCKS, LOGSIZE,
    NLOG,           \* log.size = sb.nlog: blocks of the on-disk log, header included
    OpBlocks        \* distinct blocks one operation writes, at most

ASSUME LogAssumption ==
    /\ MAXOPBLOCKS \in Nat \ {0} /\ LOGSIZE \in Nat \ {0} /\ NLOG \in Nat \ {0}
    /\ OpBlocks \in 0 .. MAXOPBLOCKS   \* "max # of blocks any FS op writes"
    /\ MAXOPBLOCKS <= LOGSIZE          \* LOGSIZE is MAXOPBLOCKS * 3
    /\ Val # {}
    /\ None \notin Val /\ None \notin Block

ASSUME FiniteAssumption == IsFiniteSet(Thread)

VARIABLES
    home,           \* on disk: the blocks at their home locations
    dlog,           \* on disk: the log's data blocks
    dhead,          \* on disk: the block numbers of the header block
    cache,          \* the buffer cache: the contents of a buffer, or None
    dirty,          \* the blocks whose buffer has B_DIRTY set
    lh,             \* log.lh: block[0 .. n-1]
    outstanding, committing,
    phase, tail,    \* where commit() or recover_from_log() is
    pc,             \* where a thread is
    wb,             \* the block whose buffer a thread has locked and modified
    opw             \* the blocks the thread's operation has written so far

diskVars  == <<home, dlog, dhead>>
cacheVars == <<cache, dirty>>
logVars   == <<lh, outstanding, committing>>
threadVars == <<pc, wb, opw>>
vars == <<diskVars, cacheVars, logVars, phase, tail, threadVars>>

\* "recover": initlog() runs; "idle": no commit() is running.
Phase == {"recover", "idle", "write_log", "install", "done"}
Label == {"user", "begin", "asleep", "op", "modified", "checked", "commit", "panic"}
InOp  == {"op", "modified", "checked", "panic"}

Max2(m, n) == IF m > n THEN m ELSE n
LogIndex == 1 .. Max2(LOGSIZE, NLOG)

TypeOK ==
    /\ home \in [Block -> Val]
    /\ dlog \in [LogIndex -> Val]
    /\ dhead \in Seq(Block) /\ Len(dhead) <= LOGSIZE
    /\ cache \in [Block -> Val \union {None}]
    /\ dirty \subseteq Block
    /\ lh \in Seq(Block) /\ Len(lh) <= LOGSIZE
    /\ outstanding \in Nat
    /\ committing \in BOOLEAN
    /\ phase \in Phase
    /\ tail \in 0 .. LOGSIZE
    /\ pc \in [Thread -> Label]
    /\ wb \in [Thread -> Block \union {None}]
    /\ opw \in [Thread -> SUBSET Block]

\* A disk made by mkfs: any contents, a header that says n = 0.
Init ==
    /\ home \in [Block -> Val]
    /\ dlog = [i \in LogIndex |-> CHOOSE v \in Val : TRUE]
    /\ dhead = <<>>
    /\ cache = [b \in Block |-> None]
    /\ dirty = {}
    /\ lh = <<>>
    /\ outstanding = 0
    /\ committing = FALSE
    /\ phase = "recover"
    /\ tail = 0
    /\ pc = [t \in Thread |-> "user"]
    /\ wb = [t \in Thread |-> None]
    /\ opw = [t \in Thread |-> {}]

-----------------------------------------------------------------------------
(* The buffer cache.                                                       *)

\* What bread() returns.
Buffer(b) == IF cache[b] = None THEN home[b] ELSE cache[b]

Locked(b) == \E t \in Thread : wb[t] = b

\* recover_from_log() runs in the first process, before any user program does.
Recovering == phase = "recover" \/ (phase = "install" /\ ~committing)
Up == ~Recovering

\* A reader brings a block into the cache.
Bread(b) ==
    /\ Up /\ cache[b] = None
    /\ cache' = [cache EXCEPT ![b] = home[b]]
    /\ UNCHANGED <<diskVars, dirty, logVars, phase, tail, threadVars>>

\* bget() recycles a buffer nobody refers to, if it is not dirty.
Evictable_Any(b) == ~Locked(b)
Evictable(b) == ~Locked(b) /\ b \notin dirty

Bget(b) ==
    /\ Up /\ cache[b] # None /\ Evictable(b)
    /\ cache' = [cache EXCEPT ![b] = None]
    /\ UNCHANGED <<diskVars, dirty, logVars, phase, tail, threadVars>>

-----------------------------------------------------------------------------
(* begin_op() and end_op().                                                *)

\* Every thread asleep on &log looks at the log again.
Wakeup(p) == [t \in Thread |-> IF p[t] = "asleep" THEN "begin" ELSE p[t]]

\* "this op might exhaust log space; wait for commit."
MustWait_OffByOne == committing \/ Len(lh) + outstanding * MAXOPBLOCKS > LOGSIZE
MustWait == committing \/ Len(lh) + (outstanding + 1) * MAXOPBLOCKS > LOGSIZE

BeginCall(t) ==
    /\ Up /\ pc[t] = "user"
    /\ pc' = [pc EXCEPT ![t] = "begin"]
    /\ UNCHANGED <<diskVars, cacheVars, logVars, phase, tail, wb, opw>>

\* log.outstanding += 1
Admitted_Lost == outstanding
Admitted == outstanding + 1

BeginOp(t) ==
    /\ Up /\ pc[t] = "begin" /\ ~MustWait
    /\ outstanding' = Admitted
    /\ pc' = [pc EXCEPT ![t] = "op"]
    /\ UNCHANGED <<diskVars, cacheVars, lh, committing, phase, tail, wb, opw>>

BeginSleep(t) ==
    /\ Up /\ pc[t] = "begin" /\ MustWait
    /\ pc' = [pc EXCEPT ![t] = "asleep"]
    /\ UNCHANGED <<diskVars, cacheVars, logVars, phase, tail, wb, opw>>

\* kill() makes a sleeper runnable whatever it waits for.
KillWakes(t) ==
    /\ Up /\ pc[t] = "asleep"
    /\ pc' = [pc EXCEPT ![t] = "begin"]
    /\ UNCHANGED <<diskVars, cacheVars, logVars, phase, tail, wb, opw>>

\* The last operation out commits; the others wake whoever waits for space.
EndOp(t) ==
    /\ Up /\ pc[t] = "op"
    /\ outstanding' = outstanding - 1
    /\ opw' = [opw EXCEPT ![t] = {}]
    /\ LET last == outstanding = 1 /\ ~committing IN
       /\ committing' = (committing \/ last)
       /\ phase' = IF ~last THEN phase ELSE IF lh = <<>> THEN "done" ELSE "write_log"
       /\ tail' = IF last THEN 0 ELSE tail
       /\ pc' = IF last THEN [pc EXCEPT ![t] = "commit"]
                ELSE IF committing THEN [pc EXCEPT ![t] = "panic"]   \* "log.committing"
                ELSE Wakeup([pc EXCEPT ![t] = "user"])
    /\ UNCHANGED <<diskVars, cacheVars, lh, wb>>

\* After commit(): let the next operations in.
CommitEnd_NoWakeup(t) ==
    /\ Up /\ pc[t] = "commit" /\ phase = "done"
    /\ committing' = FALSE
    /\ phase' = "idle"
    /\ pc' = [pc EXCEPT ![t] = "user"]
    /\ UNCHANGED <<diskVars, cacheVars, lh, outstanding, tail, wb, opw>>
CommitEnd(t) ==
    /\ Up /\ pc[t] = "commit" /\ phase = "done"
    /\ committing' = FALSE
    /\ phase' = "idle"
    /\ pc' = Wakeup([pc EXCEPT ![t] = "user"])
    /\ UNCHANGED <<diskVars, cacheVars, lh, outstanding, tail, wb, opw>>

-----------------------------------------------------------------------------
(* log_write(): the caller has locked and modified a buffer, ...           *)
Modify(t, b, v) ==
    /\ Up /\ pc[t] = "op" /\ ~Locked(b)
    /\ Cardinality(opw[t] \union {b}) <= OpBlocks
    /\ cache' = [cache EXCEPT ![b] = v]
    /\ wb' = [wb EXCEPT ![t] = b]
    /\ opw' = [opw EXCEPT ![t] = @ \union {b}]
    /\ pc' = [pc EXCEPT ![t] = "modified"]
    /\ UNCHANGED <<diskVars, dirty, logVars, phase, tail>>

\* ... log_write() looks for room without log.lock, before it knows whether the
\* block is in the log already, ...
TooBig == Len(lh) >= LOGSIZE \/ Len(lh) >= NLOG - 1

LogWriteCheck(t) ==
    /\ Up /\ pc[t] = "modified"
    /\ pc' = [pc EXCEPT ![t] = IF TooBig \/ outstanding < 1 THEN "panic" ELSE "checked"]
    /\ UNCHANGED <<diskVars, cacheVars, logVars, phase, tail, wb, opw>>

\* ... and under log.lock appends the block or finds it there, and pins it.
Absorb(b) == IF \E i \in 1 .. Len(lh) : lh[i] = b THEN lh ELSE Append(lh, b)

LogWrite(t) ==
    /\ Up /\ pc[t] = "checked"
    /\ lh' = Absorb(wb[t])
    /\ dirty' = dirty \union {wb[t]}
    /\ wb' = [wb EXCEPT ![t] = None]
    /\ pc' = [pc EXCEPT ![t] = "op"]
    /\ UNCHANGED <<diskVars, cache, outstanding, committing, phase, tail, opw>>

-----------------------------------------------------------------------------
(* commit(), one disk write at a time.                                     *)

\* write_log(): the next block goes from the cache to the log.
WriteLog ==
    /\ phase = "write_log" /\ tail < Len(lh)
    /\ dlog' = [dlog EXCEPT ![tail + 1] = Buffer(lh[tail + 1])]
    /\ tail' = tail + 1
    /\ UNCHANGED <<home, dhead, cacheVars, logVars, phase, threadVars>>

\* write_head(): "the true point at which the current transaction commits".
WriteHead ==
    /\ phase = "write_log" /\ tail = Len(lh)
    /\ dhead' = lh
    /\ phase' = "install"
    /\ tail' = 0
    /\ UNCHANGED <<home, dlog, cacheVars, logVars, threadVars>>

\* install_trans(): the next block goes from the log to its home, through the
\* cache; bwrite() clears B_DIRTY.
InstallTrans ==
    /\ phase = "install" /\ tail < Len(lh)
    /\ LET b == lh[tail + 1] IN
       /\ home' = [home EXCEPT ![b] = dlog[tail + 1]]
       /\ cache' = [cache EXCEPT ![b] = dlog[tail + 1]]
       /\ dirty' = dirty \ {b}
    /\ tail' = tail + 1
    /\ UNCHANGED <<dlog, dhead, logVars, phase, threadVars>>

\* log.lh.n = 0; write_head().  It ends a commit, or the recovery.
EraseHead ==
    /\ phase = "install" /\ tail = Len(lh)
    /\ lh' = <<>>
    /\ dhead' = <<>>
    /\ phase' = IF committing THEN "done" ELSE "idle"
    /\ tail' = 0
    /\ UNCHANGED <<home, dlog, cacheVars, outstanding, committing, threadVars>>

-----------------------------------------------------------------------------
(* Crash and recovery.                                                     *)

\* Power fails, or the machine is reset after a panic: the disk is what is left.
Crash ==
    /\ cache' = [b \in Block |-> None]
    /\ dirty' = {}
    /\ lh' = <<>>
    /\ outstanding' = 0
    /\ committing' = FALSE
    /\ phase' = "recover"
    /\ tail' = 0
    /\ pc' = [t \in Thread |-> "user"]
    /\ wb' = [t \in Thread |-> None]
    /\ opw' = [t \in Thread |-> {}]
    /\ UNCHANGED diskVars

\* initlog(): read_head(); the log is installed and erased by the steps above.
ReadHead_Skip ==
    /\ phase = "recover"
    /\ phase' = "idle"
    /\ UNCHANGED <<diskVars, cacheVars, logVars, tail, threadVars>>
ReadHead ==
    /\ phase = "recover"
    /\ lh' = dhead
    /\ phase' = "install"
    /\ UNCHANGED <<diskVars, cacheVars, outstanding, committing, tail, threadVars>>

-----------------------------------------------------------------------------
Next ==
    \/ \E t \in Thread :
        \/ BeginCall(t) \/ BeginOp(t) \/ BeginSleep(t) \/ KillWakes(t)
        \/ LogWriteCheck(t) \/ LogWrite(t) \/ EndOp(t) \/ CommitEnd(t)
        \/ \E b \in Block, v \in Val : Modify(t, b, v)
    \/ \E b \in Block : Bread(b) \/ Bget(b)
    \/ WriteLog \/ WriteHead \/ InstallTrans \/ EraseHead
    \/ Crash \/ ReadHead

Spec == Init /\ [][Next]_vars

-----------------------------------------------------------------------------
(* What recovery would make of the disk: the last copy in a committed log, *)
(* or the block at its home.                                               *)
Recovered ==
    [b \in Block |->
        LET S == {i \in 1 .. Len(dhead) : dhead[i] = b}
        IN IF S = {} THEN home[b] ELSE dlog[CHOOSE i \in S : \A j \in S : j <= i]]

AD == INSTANCE AtomicDisk WITH
    mem     <- IF Recovering THEN Recovered ELSE [b \in Block |-> Buffer(b)],
    durable <- Recovered,
    active  <- {t \in Thread : pc[t] \in InOp}

\* The log implements the atomic disk: through any interleaving of operations,
\* evictions, disk writes and crashes, an operation survives as a whole or not
\* at all, and recovery that crashes and starts again changes nothing.
ImplementsAtomicDisk == AD!ADSpec

\* When no operation is active and no commit runs, a crash loses nothing: every
\* operation whose end_op() has returned is on the disk.
QuiescentIsDurable ==
    Up /\ outstanding = 0 /\ ~committing => \A b \in Block : Buffer(b) = Recovered[b]

\* A thread asleep in begin_op() has somebody to wake it.
NoLostWakeup ==
    (\E t \in Thread : pc[t] = "asleep") => committing \/ outstanding > 0

\* log_write() and end_op() never panic.
NoPanic == \A t \in Thread : pc[t] # "panic"

\* lh.n stays within the log region, whose first block is the header, so that commit()
\* never writes over the inode blocks behind it.  log_write() checks for room before it
\* takes log.lock, and two threads may pass its check together.
LogFits == Len(lh) <= NLOG - 1

-----------------------------------------------------------------------------
(* The inductive invariant of LogProofs.                                   *)

Active == {t \in Thread : pc[t] \in InOp}

\* log.outstanding counts the operations; commit() and recovery run alone.
Control ==
    /\ outstanding = Cardinality(Active)
    /\ committing => Active = {}
    /\ phase \in IF committing THEN {"write_log", "install", "done"}
                               ELSE {"recover", "idle", "install"}
    /\ Recovering => \A t \in Thread : pc[t] = "user"
    /\ phase = "idle" /\ Active = {} => lh = <<>>
    /\ phase \in {"recover", "done"} => lh = <<>>

\* A buffer is locked by an operation that wrote it, and stays in the cache.
Locks ==
    \A t \in Thread :
        /\ pc[t] \in {"modified", "checked"} => wb[t] # None
        /\ pc[t] = "op" => wb[t] = None
        /\ wb[t] # None => t \in Active /\ wb[t] \in opw[t] /\ cache[wb[t]] # None
        /\ opw[t] # {} => t \in Active
        /\ IsFiniteSet(opw[t]) /\ Cardinality(opw[t]) <= OpBlocks

Distinct(s) == \A i, j \in 1 .. Len(s) : s[i] = s[j] => i = j

\* The header on disk is that of the log being installed, or says n = 0.
Headers ==
    /\ Distinct(lh) /\ Distinct(dhead)
    /\ phase \in {"idle", "write_log", "done"} => dhead = <<>>
    /\ phase = "install" => dhead = lh
    /\ tail <= Len(lh)

\* The blocks that B_DIRTY pins in the cache are those of the log that are not
\* yet home; every other buffer that is not locked agrees with the disk.
Pinned ==
    /\ \A b \in Block : b \in dirty <=>
           Up /\ \E i \in 1 .. Len(lh) : lh[i] = b /\ (phase = "install" => i > tail)
    /\ \A b \in dirty : cache[b] # None
    /\ \A b \in Block : cache[b] \in {None, home[b]} \/ b \in dirty \/ Locked(b)

\* How far write_log() and install_trans() have got.
Copied ==
    /\ phase = "write_log" => \A i \in 1 .. tail : dlog[i] = Buffer(lh[i])
    /\ phase = "install" => \A i \in 1 .. Len(lh) :
           /\ i <= tail => home[lh[i]] = dlog[i]
           /\ committing => Buffer(lh[i]) = dlog[i]

\* The blocks of the log, and those the operations may still write, fit in c.
InLog(b) == \E i \in 1 .. Len(lh) : lh[i] = b
Written == {w \in Thread \X Block : w[2] \in opw[w[1]]}
Logged == {w \in Written : InLog(w[2])}
Reserved(c) ==
    /\ Len(lh) + outstanding * OpBlocks <= c + Cardinality(Logged)
    /\ Len(lh) <= c /\ Len(dhead) <= c

IInv ==
    /\ TypeOK /\ Control /\ Locks /\ Headers /\ Pinned /\ Copied
    /\ NoLostWakeup /\ Reserved(LOGSIZE)
=============================================================================
