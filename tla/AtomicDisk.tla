------------------------------ MODULE AtomicDisk ------------------------------
(***************************************************************************)
(* What the log promises the file system (the head comment of log.c): a    *)
(* disk whose writes are seen at once, become durable all together at a    *)
(* moment when no operation is active, and after a crash are those of the  *)
(* last such moment.  An operation is thus lost or kept as a whole.        *)
(***************************************************************************)
CONSTANTS
    Thread,     \* kernel threads that run file-system operations
    Block,      \* block numbers
    Val         \* contents of a block

VARIABLES
    mem,        \* the contents readers see
    durable,    \* the contents a crash would leave
    active      \* the threads inside an operation

advars == <<mem, durable, active>>

ADInit ==
    /\ mem \in [Block -> Val]
    /\ durable = mem
    /\ active = {}

ADBegin(t) ==
    /\ t \notin active
    /\ active' = active \union {t}
    /\ UNCHANGED <<mem, durable>>

ADWrite(t, b, v) ==
    /\ t \in active
    /\ mem' = [mem EXCEPT ![b] = v]
    /\ UNCHANGED <<durable, active>>

ADEnd(t) ==
    /\ t \in active
    /\ active' = active \ {t}
    /\ UNCHANGED <<mem, durable>>

ADCommit ==
    /\ active = {}
    /\ durable' = mem
    /\ UNCHANGED <<mem, active>>

ADCrash ==
    /\ mem' = durable
    /\ active' = {}
    /\ UNCHANGED durable

ADNext ==
    \/ \E t \in Thread : ADBegin(t) \/ ADEnd(t)
    \/ \E t \in Thread, b \in Block, v \in Val : ADWrite(t, b, v)
    \/ ADCommit \/ ADCrash

ADSpec == ADInit /\ [][ADNext]_advars
=============================================================================
