----------------------------- MODULE BoundedFifo -----------------------------
(***************************************************************************)
(* What a pipe promises: the bytes come out in the order they went in, each *)
(* exactly once, and no more than Capacity of them are under way.           *)
(***************************************************************************)
EXTENDS Naturals, Sequences

CONSTANTS Val, Capacity

VARIABLES queue, readEnd, writeEnd   \* the bytes under way; is an end still open?

fifoVars == <<queue, readEnd, writeEnd>>

FifoInit == queue = <<>> /\ readEnd = TRUE /\ writeEnd = TRUE

Put(v) ==
    /\ writeEnd /\ Len(queue) < Capacity
    /\ queue' = Append(queue, v)
    /\ UNCHANGED <<readEnd, writeEnd>>

Get ==
    /\ readEnd /\ queue # <<>>
    /\ queue' = Tail(queue)
    /\ UNCHANGED <<readEnd, writeEnd>>

CloseRead  == readEnd /\ readEnd' = FALSE /\ UNCHANGED <<queue, writeEnd>>
CloseWrite == writeEnd /\ writeEnd' = FALSE /\ UNCHANGED <<queue, readEnd>>

FifoNext == (\E v \in Val : Put(v)) \/ Get \/ CloseRead \/ CloseWrite

FifoSpec == FifoInit /\ [][FifoNext]_fifoVars
=============================================================================
