-------------------------------- MODULE Pipe --------------------------------
(***************************************************************************)
(* Pipes of xv6 (homeworks/xv6-public/pipe.c): piperead, pipewrite and     *)
(* pipeclose by processes that share the two ends, with the reference      *)
(* counts of file.c that decide when an end is closed, and kill() landing  *)
(* anywhere, between the test of killed and sleep() too.                   *)
(*                                                                         *)
(* p->lock is explicit: it is held from a step to the next.  sleep()       *)
(* releases it and blocks in one step, which is its contract (proc.c).     *)
(***************************************************************************)
EXTENDS Integers, Sequences

CONSTANTS
    Reader, Writer,     \* processes that may hold the read end, the write end
    FirstReader, FirstWriter,   \* those that hold them after sys_pipe() and fork()
    Killable,           \* processes somebody may kill()
    Val,                \* bytes
    NoProc,
    PIPESIZE,
    UintMod,            \* nread and nwrite are unsigned: they wrap at UintMod
    MaxCount            \* largest n of a read or write call (a bound of the model)

ASSUME PipeAssumption ==
    /\ PIPESIZE \in Nat \ {0} /\ MaxCount \in Nat \ {0}
    /\ UintMod \in Nat /\ UintMod > PIPESIZE /\ UintMod % PIPESIZE = 0   \* 2^32 and 512
    /\ FirstReader \in Reader /\ FirstWriter \in Writer
    /\ Reader \intersect Writer = {}
    /\ NoProc \notin Reader \union Writer

Proc == Reader \union Writer

VARIABLES
    data, nread, nwrite, readopen, writeopen,   \* struct pipe
    freed,          \* kfree() was called on it
    lock,           \* the process that holds p->lock
    pc,             \* where a process is
    left,           \* n - i: bytes the call has still to move
    killed

pipeVars == <<data, nread, nwrite, readopen, writeopen, freed>>
vars == <<pipeVars, lock, pc, left, killed>>

\* "absent": not forked yet; "tested": about to sleep, killed was tested;
\* "woken": on its way back out of sleep(); "closing": in pipeclose().
Label == {"absent", "user", "loop", "tested", "asleep", "woken", "copy", "closing",
          "closed"}

TypeOK ==
    /\ data \in [0 .. PIPESIZE - 1 -> Val]
    /\ nread \in 0 .. UintMod - 1 /\ nwrite \in 0 .. UintMod - 1
    /\ readopen \in BOOLEAN /\ writeopen \in BOOLEAN /\ freed \in BOOLEAN
    /\ lock \in Proc \union {NoProc}
    /\ pc \in [Proc -> Label]
    /\ left \in [Proc -> 0 .. MaxCount]
    /\ killed \in [Proc -> BOOLEAN]

\* After pipealloc(); the page from kalloc() holds junk.
Init ==
    /\ data \in [0 .. PIPESIZE - 1 -> Val]
    /\ nread = 0 /\ nwrite = 0
    /\ readopen = TRUE /\ writeopen = TRUE /\ freed = FALSE
    /\ lock = NoProc
    /\ pc = [p \in Proc |-> IF p \in {FirstReader, FirstWriter} THEN "user" ELSE "absent"]
    /\ left = [p \in Proc |-> 0]
    /\ killed = [p \in Proc |-> FALSE]

-----------------------------------------------------------------------------
Empty == nread = nwrite

\* p->nwrite == p->nread + PIPESIZE, in unsigned arithmetic
Full_Late == nwrite = (nread + PIPESIZE + 1) % UintMod
Full == nwrite = (nread + PIPESIZE) % UintMod

\* nread++, nwrite++
Inc_Wide(n) == n + 1
Inc(n) == (n + 1) % UintMod

\* wakeup() on &p->nread or &p->nwrite: everyone asleep there.
Wakeup(P, at) == [p \in Proc |-> IF p \in P /\ at[p] = "asleep" THEN "woken" ELSE at[p]]

\* release(&p->lock) and return to user mode
Return(p, at) ==
    /\ lock' = NoProc
    /\ pc' = [at EXCEPT ![p] = "user"]
    /\ left' = [left EXCEPT ![p] = 0]

\* A process calls read() or write(); a killed one gets no further than trap().
Call(p, n) ==
    /\ pc[p] = "user" /\ ~killed[p] /\ lock = NoProc
    /\ lock' = p
    /\ left' = [left EXCEPT ![p] = n]
    /\ pc' = [pc EXCEPT ![p] = "loop"]
    /\ UNCHANGED <<pipeVars, killed>>

-----------------------------------------------------------------------------
(* pipewrite()                                                             *)

WriteByte(p, v) ==
    /\ p \in Writer /\ pc[p] = "loop" /\ left[p] > 0 /\ ~Full
    /\ data' = [data EXCEPT ![nwrite % PIPESIZE] = v]
    /\ nwrite' = Inc(nwrite)
    /\ left' = [left EXCEPT ![p] = @ - 1]
    /\ UNCHANGED <<nread, readopen, writeopen, freed, lock, pc, killed>>

\* No room: give up if nobody will read or the process was killed ...
WriteFail(p) ==
    /\ p \in Writer /\ pc[p] = "loop" /\ left[p] > 0 /\ Full
    /\ ~readopen \/ killed[p]
    /\ Return(p, pc)
    /\ UNCHANGED <<pipeVars, killed>>

\* ... or wake the readers and go to sleep.
WriteFull(p) ==
    /\ p \in Writer /\ pc[p] = "loop" /\ left[p] > 0 /\ Full
    /\ readopen /\ ~killed[p]
    /\ pc' = [Wakeup(Reader, pc) EXCEPT ![p] = "tested"]
    /\ UNCHANGED <<pipeVars, lock, left, killed>>

WriteDone_NoWakeup(p) ==
    /\ p \in Writer /\ pc[p] = "loop" /\ left[p] = 0
    /\ Return(p, pc)
    /\ UNCHANGED <<pipeVars, killed>>
WriteDone(p) ==
    /\ p \in Writer /\ pc[p] = "loop" /\ left[p] = 0
    /\ Return(p, Wakeup(Reader, pc))
    /\ UNCHANGED <<pipeVars, killed>>

-----------------------------------------------------------------------------
(* piperead()                                                              *)

ReadFail(p) ==
    /\ p \in Reader /\ pc[p] = "loop" /\ Empty /\ writeopen /\ killed[p]
    /\ Return(p, pc)
    /\ UNCHANGED <<pipeVars, killed>>

ReadEmpty(p) ==
    /\ p \in Reader /\ pc[p] = "loop" /\ Empty /\ writeopen /\ ~killed[p]
    /\ pc' = [pc EXCEPT ![p] = "tested"]
    /\ UNCHANGED <<pipeVars, lock, left, killed>>

ReadReady(p) ==
    /\ p \in Reader /\ pc[p] = "loop" /\ ~(Empty /\ writeopen)
    /\ pc' = [pc EXCEPT ![p] = "copy"]
    /\ UNCHANGED <<pipeVars, lock, left, killed>>

ReadByte(p) ==
    /\ p \in Reader /\ pc[p] = "copy" /\ left[p] > 0 /\ ~Empty
    /\ nread' = Inc(nread)
    /\ left' = [left EXCEPT ![p] = @ - 1]
    /\ UNCHANGED <<data, nwrite, readopen, writeopen, freed, lock, pc, killed>>

ReadDone_NoWakeup(p) ==
    /\ p \in Reader /\ pc[p] = "copy"
    /\ left[p] = 0 \/ Empty
    /\ Return(p, pc)
    /\ UNCHANGED <<pipeVars, killed>>
ReadDone(p) ==
    /\ p \in Reader /\ pc[p] = "copy"
    /\ left[p] = 0 \/ Empty
    /\ Return(p, Wakeup(Writer, pc))
    /\ UNCHANGED <<pipeVars, killed>>

-----------------------------------------------------------------------------
(* sleep() and kill()                                                      *)

Sleep(p) ==
    /\ pc[p] = "tested"
    /\ lock' = NoProc
    /\ pc' = [pc EXCEPT ![p] = "asleep"]
    /\ UNCHANGED <<pipeVars, left, killed>>

\* The tail of sleep() takes p->lock again; the caller's loop tests again.
Relock(p) ==
    /\ pc[p] = "woken" /\ lock = NoProc
    /\ lock' = p
    /\ pc' = [pc EXCEPT ![p] = "loop"]
    /\ UNCHANGED <<pipeVars, left, killed>>

Kill(p) ==
    /\ p \in Killable /\ pc[p] \notin {"absent", "closing", "closed"} /\ ~killed[p]
    /\ killed' = [killed EXCEPT ![p] = TRUE]
    /\ pc' = [pc EXCEPT ![p] = IF @ = "asleep" THEN "woken" ELSE @]
    /\ UNCHANGED <<pipeVars, lock, left>>

-----------------------------------------------------------------------------
(* The ends of the pipe: filedup() by fork(), fileclose(), pipeclose().    *)

SameEnd(p) == IF p \in Reader THEN Reader ELSE Writer

\* A process that holds an end forks one that inherits it.
Inherit(p, q) ==
    /\ pc[p] = "user" /\ ~killed[p]
    /\ q \in SameEnd(p) /\ pc[q] = "absent"
    /\ pc' = [pc EXCEPT ![q] = "user"]
    /\ UNCHANGED <<pipeVars, lock, left, killed>>

\* if(--f->ref > 0) return
LastRef_Ignored(p) == TRUE
LastRef(p) == \A q \in SameEnd(p) \ {p} : pc[q] \in {"absent", "closing", "closed"}

FileClose(p) ==
    /\ pc[p] = "user"
    /\ pc' = [pc EXCEPT ![p] = IF LastRef(p) THEN "closing" ELSE "closed"]
    /\ UNCHANGED <<pipeVars, lock, left, killed>>

PipeClose(p) ==
    /\ pc[p] = "closing" /\ lock = NoProc
    /\ IF p \in Writer
       THEN writeopen' = FALSE /\ UNCHANGED readopen
       ELSE readopen' = FALSE /\ UNCHANGED writeopen
    /\ freed' = (~readopen' /\ ~writeopen')
    /\ pc' = [Wakeup(Proc \ SameEnd(p), pc) EXCEPT ![p] = "closed"]
    /\ UNCHANGED <<data, nread, nwrite, lock, left, killed>>

-----------------------------------------------------------------------------
\* Steps of a process inside the kernel.
KernelStep(p) ==
    \/ \E v \in Val : WriteByte(p, v)
    \/ WriteFail(p) \/ WriteFull(p) \/ WriteDone(p)
    \/ ReadFail(p) \/ ReadEmpty(p) \/ ReadReady(p) \/ ReadByte(p) \/ ReadDone(p)
    \/ Sleep(p) \/ Relock(p) \/ PipeClose(p)

UserStep(p) ==
    \/ \E n \in 1 .. MaxCount : Call(p, n)
    \/ \E q \in Proc : Inherit(p, q)
    \/ FileClose(p)

Next == \E p \in Proc : KernelStep(p) \/ UserStep(p) \/ Kill(p)

Spec == Init /\ [][Next]_vars

-----------------------------------------------------------------------------
Count == (nwrite - nread) % UintMod

Fifo == INSTANCE BoundedFifo WITH
    Capacity <- PIPESIZE,
    queue    <- [i \in 1 .. Count |-> data[(nread + i - 1) % PIPESIZE]],
    readEnd  <- readopen,
    writeEnd <- writeopen

\* The ring buffer with its wrapping counters is a bounded FIFO: bytes are not
\* lost, repeated, reordered or overwritten, whoever reads, writes, closes or
\* is killed in the middle of a call.
ImplementsFifo == Fifo!FifoSpec

\* Nobody touches the pipe after pipeclose() freed it.
NoUseAfterFree ==
    freed => lock = NoProc /\ \A p \in Proc : pc[p] \in {"absent", "closed"}

\* A writer is asleep only while the pipe is full and somebody can still read.
WriterSleepsOnFull ==
    lock = NoProc => \A p \in Writer : pc[p] = "asleep" => Full /\ readopen

\* read() "blocks until data is available": while every process that can write
\* computes in user mode, a reader is asleep only on an empty pipe.
ReaderSleepsOnEmpty ==
    (\A q \in Writer : pc[q] \in {"absent", "closed"} \/ (pc[q] = "user" /\ ~killed[q])) =>
        \A p \in Reader : lock = NoProc /\ pc[p] = "asleep" => Empty

\* A reader is asleep only while the pipe is empty and somebody can still write,
\* unless some writer was killed in the middle of a write.
ReaderSleepsOnEmptyOrKill ==
    lock = NoProc => \A p \in Reader : pc[p] = "asleep" =>
        (Empty \/ \E q \in Writer : killed[q]) /\ writeopen

-----------------------------------------------------------------------------
(* The inductive invariant of PipeProofs.                                  *)

\* p->lock is held by the one process inside pipewrite() or piperead(); only
\* piperead() has a copy loop of its own.
LockHeld ==
    \A p \in Proc :
        /\ lock = p <=> pc[p] \in {"loop", "tested", "copy"}
        /\ pc[p] = "copy" => p \in Reader

\* An end is open while some process has it or is closing it, and the process in
\* pipeclose() is the last that had it.
EndsOpen ==
    /\ readopen  <=> \E p \in Reader : pc[p] \notin {"absent", "closed"}
    /\ writeopen <=> \E p \in Writer : pc[p] \notin {"absent", "closed"}
    /\ freed <=> ~readopen /\ ~writeopen
    /\ \A p \in Proc : pc[p] = "closing" =>
           \A q \in SameEnd(p) \ {p} : pc[q] \in {"absent", "closed"}

\* What pipewrite() saw before it slept is still so, or a reader with p->lock is
\* going to wake it.
WriterWaits ==
    \A p \in Writer :
        /\ pc[p] = "tested" => Full /\ readopen
        /\ pc[p] = "asleep" => (Full \/ \E q \in Reader : pc[q] = "copy") /\ readopen

\* The same of piperead(); a killed writer may leave without a wakeup().
ReaderWaits ==
    \A p \in Reader :
        /\ pc[p] = "tested" => Empty /\ writeopen
        /\ pc[p] = "asleep" =>
               (Empty \/ \E q \in Writer : killed[q] \/ pc[q] = "loop") /\ writeopen

IInv ==
    /\ TypeOK /\ LockHeld /\ EndsOpen /\ WriterWaits /\ ReaderWaits
    /\ Count <= PIPESIZE
=============================================================================
