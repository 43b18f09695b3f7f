--------------------------------- MODULE Bio ---------------------------------
(***************************************************************************)
(* The buffer cache and the IDE driver of xv6 (homeworks/xv6-public/bio.c, *)
(* ide.c): bget with its recycling of buffers, bread, bwrite, brelse, and  *)
(* iderw against the disk interrupt; a transfer may fail, a read or a      *)
(* write.  A buffer log_write() has marked B_DIRTY stays until written.    *)
(*                                                                         *)
(* Code under bcache.lock, or under idelock, is one step.  The lock of a   *)
(* buffer is a sleep-lock: owner[b], got when it is free (SleepLock).      *)
(***************************************************************************)
EXTENDS Integers, Sequences, FiniteSets, SequencesExt

CONSTANTS
    Thread, NoThread,
    Buf, NoBuf,         \* the NBUF buffers
    Block, NoBlock,     \* block numbers of the disk
    Val                 \* contents of a block

ASSUME BioAssumption ==
    /\ NoThread \notin Thread /\ NoBuf \notin Buf /\ NoBlock \notin Block
    /\ IsFiniteSet(Thread) /\ IsFiniteSet(Buf) /\ Val # {}

VARIABLES
    lru,                        \* the list from bcache.head.next: last used first
    blockno, refcnt, data,      \* fields of struct buf
    valid, dirty,               \* the buffers with B_VALID, with B_DIRTY
    owner,                      \* the thread that holds b->lock
    idequeue,
    active,                     \* the buffer the disk works on
    disk,
    failed,                    \* buffers whose last transfer failed (history)
    pc, want, buf               \* a thread, the block it asked for, its buffer

cacheVars == <<lru, blockno, refcnt>>
ideVars   == <<idequeue, active, disk, failed>>
vars == <<cacheVars, data, valid, dirty, owner, ideVars, pc, want, buf>>

\* "bget": spins for bcache.lock; "lock": in acquiresleep(); "got": tests B_VALID;
\* "rw": calls iderw(); "asleep", "woken": waits there; "have": bread() or bwrite()
\* returned; "modified": b->data was changed; "unref": in brelse(), past releasesleep().
Label == {"out", "bget", "lock", "got", "rw", "asleep", "woken", "have", "modified",
          "unref", "panic"}

TypeOK ==
    /\ lru \in Seq(Buf) /\ IsInjective(lru) /\ ToSet(lru) = Buf
    /\ blockno \in [Buf -> Block \union {NoBlock}]
    /\ refcnt \in [Buf -> Nat]
    /\ data \in [Buf -> Val]
    /\ valid \subseteq Buf /\ dirty \subseteq Buf /\ failed \subseteq Buf
    /\ owner \in [Buf -> Thread \union {NoThread}]
    /\ idequeue \in Seq(Buf)
    /\ active \in Buf \union {NoBuf}
    /\ disk \in [Block -> Val]
    /\ pc \in [Thread -> Label]
    /\ want \in [Thread -> Block \union {NoBlock}]
    /\ buf \in [Thread -> Buf \union {NoBuf}]

\* binit(), on any disk.
Init ==
    /\ lru = SetToSeq(Buf)
    /\ blockno = [b \in Buf |-> NoBlock]
    /\ refcnt = [b \in Buf |-> 0]
    /\ data = [b \in Buf |-> CHOOSE v \in Val : TRUE]
    /\ valid = {} /\ dirty = {} /\ failed = {}
    /\ owner = [b \in Buf |-> NoThread]
    /\ idequeue = <<>>
    /\ active = NoBuf
    /\ disk \in [Block -> Val]
    /\ pc = [t \in Thread |-> "out"]
    /\ want = [t \in Thread |-> NoBlock]
    /\ buf = [t \in Thread |-> NoBuf]

Goto(t, label) == pc' = [pc EXCEPT ![t] = label]

-----------------------------------------------------------------------------
(* bget()                                                                  *)

Call(t, k) ==
    /\ pc[t] = "out"
    /\ want' = [want EXCEPT ![t] = k]
    /\ Goto(t, "bget")
    /\ UNCHANGED <<cacheVars, data, valid, dirty, owner, ideVars, buf>>

Cached(k) == {b \in Buf : blockno[b] = k}

\* bcache.lock can be had; a panic in bget() never releases it.
BcacheFree == \A t \in Thread : pc[t] # "panic"

\* "Is the block already cached?"
BgetHit(t) ==
    /\ pc[t] = "bget" /\ BcacheFree
    /\ \E b \in Cached(want[t]) :
        /\ refcnt' = [refcnt EXCEPT ![b] = @ + 1]
        /\ buf' = [buf EXCEPT ![t] = b]
    /\ Goto(t, "lock")
    /\ UNCHANGED <<lru, blockno, data, valid, dirty, owner, ideVars, want>>

Recyclable_Unlocked == {b \in Buf : owner[b] = NoThread /\ b \notin dirty}
Recyclable_Dirty == {b \in Buf : refcnt[b] = 0}
Recyclable == {b \in Buf : refcnt[b] = 0 /\ b \notin dirty}

\* The least recently used of them: the scan from bcache.head.prev.
Victim(b) ==
    /\ b \in Recyclable
    /\ \E i \in 1 .. Len(lru) :
        lru[i] = b /\ \A j \in i + 1 .. Len(lru) : lru[j] \notin Recyclable

BgetMiss_Unchecked(t) ==
    /\ pc[t] = "bget" /\ BcacheFree
    /\ \E b \in Buf :
        /\ Victim(b)
        /\ blockno' = [blockno EXCEPT ![b] = want[t]]
        /\ valid' = valid \ {b} /\ dirty' = dirty \ {b} /\ failed' = failed \ {b}
        /\ refcnt' = [refcnt EXCEPT ![b] = 1]
        /\ buf' = [buf EXCEPT ![t] = b]
    /\ Goto(t, "lock")
    /\ UNCHANGED <<lru, data, owner, idequeue, active, disk, want>>
BgetMiss(t) ==
    /\ pc[t] = "bget" /\ BcacheFree /\ Cached(want[t]) = {}
    /\ \E b \in Buf :
        /\ Victim(b)
        /\ blockno' = [blockno EXCEPT ![b] = want[t]]
        /\ valid' = valid \ {b} /\ dirty' = dirty \ {b} /\ failed' = failed \ {b}
        /\ refcnt' = [refcnt EXCEPT ![b] = 1]
        /\ buf' = [buf EXCEPT ![t] = b]
    /\ Goto(t, "lock")
    /\ UNCHANGED <<lru, data, owner, idequeue, active, disk, want>>

\* "bget: no buffers"
BgetPanic(t) ==
    /\ pc[t] = "bget" /\ BcacheFree /\ Cached(want[t]) = {} /\ Recyclable = {}
    /\ Goto(t, "panic")
    /\ UNCHANGED <<cacheVars, data, valid, dirty, owner, ideVars, want, buf>>

\* acquiresleep(&b->lock)
BgetLock(t) ==
    /\ pc[t] = "lock" /\ owner[buf[t]] = NoThread
    /\ owner' = [owner EXCEPT ![buf[t]] = t]
    /\ Goto(t, "got")
    /\ UNCHANGED <<cacheVars, data, valid, dirty, ideVars, want, buf>>

-----------------------------------------------------------------------------
(* bread(), bwrite(), log_write() and brelse()                             *)

Bread(t) ==
    /\ pc[t] = "got"
    /\ Goto(t, IF buf[t] \in valid THEN "have" ELSE "rw")
    /\ UNCHANGED <<cacheVars, data, valid, dirty, owner, ideVars, want, buf>>

Modify(t, v) ==
    /\ pc[t] = "have"
    /\ data' = [data EXCEPT ![buf[t]] = v]
    /\ Goto(t, "modified")
    /\ UNCHANGED <<cacheVars, valid, dirty, owner, ideVars, want, buf>>

Bwrite(t) ==
    /\ pc[t] \in {"have", "modified"}
    /\ dirty' = dirty \union {buf[t]}
    /\ Goto(t, "rw")
    /\ UNCHANGED <<cacheVars, data, valid, owner, ideVars, want, buf>>

\* log_write(): the buffer is written later, by whoever commits.
LogWrite(t) ==
    /\ pc[t] = "modified"
    /\ dirty' = dirty \union {buf[t]}
    /\ Goto(t, "have")
    /\ UNCHANGED <<cacheVars, data, valid, owner, ideVars, want, buf>>

\* releasesleep(&b->lock) ...
BrelseUnlock(t) ==
    /\ pc[t] = "have"
    /\ owner' = [owner EXCEPT ![buf[t]] = NoThread]
    /\ Goto(t, "unref")
    /\ UNCHANGED <<cacheVars, data, valid, dirty, ideVars, want, buf>>

\* Move to the head of the list of most recently used buffers.
MoveToHead_Kept(b) == <<b>> \o lru
MoveToHead(b) == <<b>> \o RemoveAt(lru, CHOOSE i \in 1 .. Len(lru) : lru[i] = b)

\* ... and, under bcache.lock, the reference; the last one out moves the buffer to
\* the head of the list.
Brelse(t) ==
    /\ pc[t] = "unref" /\ BcacheFree
    /\ refcnt' = [refcnt EXCEPT ![buf[t]] = @ - 1]
    /\ lru' = IF refcnt[buf[t]] = 1 THEN MoveToHead(buf[t]) ELSE lru
    /\ want' = [want EXCEPT ![t] = NoBlock]
    /\ buf' = [buf EXCEPT ![t] = NoBuf]
    /\ Goto(t, "out")
    /\ UNCHANGED <<blockno, data, valid, dirty, owner, ideVars>>

-----------------------------------------------------------------------------
(* iderw() and ideintr()                                                   *)

Synced(b) == b \in valid /\ b \notin dirty

\* Append to the queue, start the disk if it is idle, go to sleep.
Iderw(t) ==
    /\ pc[t] = "rw"
    /\ idequeue' = Append(idequeue, buf[t])
    /\ active' = IF idequeue = <<>> THEN buf[t] ELSE active
    /\ Goto(t, "asleep")
    /\ UNCHANGED <<cacheVars, data, valid, dirty, owner, disk, failed, want, buf>>

\* while((b->flags & (B_VALID|B_DIRTY)) != B_VALID) sleep(b, &idelock)
IderwTest(t) ==
    /\ pc[t] = "woken"
    /\ Goto(t, IF Synced(buf[t]) THEN "have" ELSE "asleep")
    /\ UNCHANGED <<cacheVars, data, valid, dirty, owner, ideVars, want, buf>>

\* kill() makes a sleeper runnable, whatever it waits for.
KillWakes(t) ==
    /\ pc[t] = "asleep"
    /\ Goto(t, "woken")
    /\ UNCHANGED <<cacheVars, data, valid, dirty, owner, ideVars, want, buf>>

\* idestart() on the next request
StartNext_Never(q) == NoBuf
StartNext(q) == IF q = <<>> THEN NoBuf ELSE Head(q)

\* wakeup(b)
Wakeup_None(b) == pc
Wakeup(b) ==
    [t \in Thread |-> IF pc[t] = "asleep" /\ buf[t] = b THEN "woken" ELSE pc[t]]

\* The disk is done with its request; ok says whether the transfer succeeded.  The
\* handler asks for the status only after a read; B_VALID is set and B_DIRTY cleared
\* either way, so that a write that failed looks done.
Ideintr(ok) ==
    /\ active # NoBuf /\ idequeue # <<>>
    /\ LET b == Head(idequeue)
           write == b \in dirty
       IN /\ disk' = IF write /\ ok THEN [disk EXCEPT ![blockno[b]] = data[b]] ELSE disk
          /\ data' = IF ~write /\ ok THEN [data EXCEPT ![b] = disk[blockno[b]]] ELSE data
          /\ failed' = IF ok THEN failed \ {b} ELSE failed \union {b}
          /\ valid' = valid \union {b}
          /\ dirty' = dirty \ {b}
          /\ pc' = Wakeup(b)
    /\ idequeue' = Tail(idequeue)
    /\ active' = StartNext(Tail(idequeue))
    /\ UNCHANGED <<cacheVars, owner, want, buf>>

-----------------------------------------------------------------------------
ThreadStep(t) ==
    \/ BgetHit(t) \/ BgetMiss(t) \/ BgetPanic(t) \/ BgetLock(t)
    \/ Bread(t) \/ Bwrite(t) \/ LogWrite(t) \/ BrelseUnlock(t) \/ Brelse(t)
    \/ Iderw(t) \/ IderwTest(t) \/ KillWakes(t)

Next ==
    \/ \E t \in Thread :
        \/ ThreadStep(t)
        \/ \E k \in Block : Call(t, k)
        \/ \E v \in Val : Modify(t, v)
    \/ \E ok \in BOOLEAN : Ideintr(ok)

Spec == Init /\ [][Next]_vars

-----------------------------------------------------------------------------
\* A block has one buffer, so that its lock is the lock of the block: two threads
\* that miss at once do not both get one.
OneBufferPerBlock ==
    \A k \in Block : \A b, d \in Cached(k) : b = d

\* A buffer is not recycled under a thread that has got it from bget(), holds its
\* lock or waits for it, and only one thread at a time has the contents.
BufferStays ==
    \A t \in Thread :
        /\ buf[t] # NoBuf => blockno[buf[t]] = want[t] /\ refcnt[buf[t]] > 0
        /\ pc[t] \in {"have", "modified"} => owner[buf[t]] = t /\ buf[t] \in valid

\* The contents of a block, wherever they are.
Current(k) ==
    IF \E b \in Cached(k) : b \in valid
    THEN data[CHOOSE b \in Cached(k) : b \in valid]
    ELSE disk[k]

\* The cache is transparent: recycling, reading back and writing out change no
\* block; only a thread that holds its buffer does, and a transfer that failed.
OnlyHoldersChange ==
    [][\A k \in Block : Current(k)' # Current(k) =>
        \/ \E t \in Thread : want[t] = k /\ pc[t] = "have" /\ pc'[t] = "modified"
        \/ \E b \in Buf : (blockno[b] = k /\ b \in failed) \/ (blockno'[b] = k /\ b \in failed')
      ]_vars

\* The interrupt belongs to the request at the head of the queue, and the disk is
\* never idle with requests waiting; the buffers in the queue are locked, have
\* something to transfer, and are there once.
DiskServesHead ==
    /\ active = IF idequeue = <<>> THEN NoBuf ELSE Head(idequeue)
    /\ IsInjective(idequeue)
    /\ \A b \in ToSet(idequeue) : owner[b] # NoThread /\ ~Synced(b)

\* Whoever is asleep in iderw() has a request in the queue, whose interrupt will
\* wake it.
NoLostIo == \A t \in Thread : pc[t] = "asleep" => buf[t] \in ToSet(idequeue)

-----------------------------------------------------------------------------
(* The inductive invariant of BioProofs.                                   *)

\* Where a thread has a buffer from bget(), and where it holds the buffer's lock.
Holds == {"got", "rw", "asleep", "woken", "have", "modified"}
Refs  == Holds \union {"lock", "unref"}

\* A thread refers to a buffer of the block it asked for, and the lock of a buffer
\* is held by the thread that is past acquiresleep() with it.
Threads ==
    /\ \A t \in Thread :
        /\ buf[t] # NoBuf <=> pc[t] \in Refs
        /\ pc[t] # "out" => want[t] \in Block
        /\ buf[t] # NoBuf => blockno[buf[t]] = want[t]
        /\ pc[t] \in Holds => owner[buf[t]] = t
    /\ \A b \in Buf : owner[b] # NoThread => buf[owner[b]] = b /\ pc[owner[b]] \in Holds

\* refcnt counts the threads that refer to the buffer.
Counted == \A b \in Buf : refcnt[b] = Cardinality({t \in Thread : buf[t] = b})

\* B_DIRTY is set on buffers with B_VALID only, and these hold a block; iderw() is
\* called with something to transfer, and bread() returns a valid buffer.
Flags ==
    /\ dirty \subseteq valid
    /\ \A b \in valid : blockno[b] \in Block
    /\ \A t \in Thread :
        /\ pc[t] \in {"have", "modified"} => buf[t] \in valid
        /\ pc[t] = "rw" => ~Synced(buf[t])

\* The holder of a queued buffer waits for it, and who waits has it queued or done.
Queued ==
    /\ \A b \in ToSet(idequeue) : pc[owner[b]] \in {"asleep", "woken"}
    /\ \A t \in Thread : pc[t] = "woken" => Synced(buf[t]) \/ buf[t] \in ToSet(idequeue)

\* A clean buffer is a copy of its block, unless its holder is changing it or its
\* last transfer failed.
CleanIsDisk ==
    \A b \in valid \ dirty :
        \/ data[b] = disk[blockno[b]]
        \/ b \in failed
        \/ owner[b] # NoThread /\ pc[owner[b]] = "modified"

IInv ==
    /\ TypeOK /\ Threads /\ Counted /\ Flags /\ OneBufferPerBlock
    /\ DiskServesHead /\ NoLostIo /\ Queued /\ CleanIsDisk
=============================================================================
