------------------------------ MODULE LogProofs ------------------------------
(***************************************************************************)
(* The write-ahead log for any sets of threads, blocks and contents and    *)
(* any log size: it implements the atomic disk, loses no wakeup, and never *)
(* overruns or panics when an operation keeps one block under MAXOPBLOCKS. *)
(***************************************************************************)
EXTENDS Log, FiniteSetTheorems, SequenceTheorems, TLAPS

-----------------------------------------------------------------------------
(* Counting reservations                                                   *)

(* A set of at most n elements can be numbered by 1 .. n.                  *)
LEMMA Numbering ==
    ASSUME NEW S, IsFiniteSet(S), NEW n \in Nat, Cardinality(S) <= n
    PROVE  \E h \in [S -> 1 .. n] : \A b, c \in S : h[b] = h[c] => b = c
<1> DEFINE m == Cardinality(S)
<1>1. m \in Nat /\ ExistsBijection(1 .. m, S)
  BY FS_CardinalityType
<1>2. PICK g \in [1 .. m -> S] : \A b \in S : \E i \in 1 .. m : g[i] = b
  BY <1>1 DEF ExistsBijection, Bijection, Surjection
<1> HIDE DEF m
<1> DEFINE h == [b \in S |-> CHOOSE i \in 1 .. m : g[i] = b]
<1>3. \A b \in S : h[b] \in 1 .. m /\ g[h[b]] = b
  BY <1>2
<1>4. 1 .. m \subseteq 1 .. n
  BY <1>1 DEF m
<1>5. h \in [S -> 1 .. n]
  BY <1>3, <1>4
<1>6. \A b, c \in S : h[b] = h[c] => b = c
  BY <1>3
<1> QED
  BY <1>5, <1>6

(* The operations wrote no more blocks than OpBlocks each.                 *)
LEMMA WrittenBound ==
    ASSUME IInv
    PROVE  /\ IsFiniteSet(Written) /\ Cardinality(Written) \in Nat
           /\ Cardinality(Written) <= outstanding * OpBlocks
<1> DEFINE R == 1 .. OpBlocks
           One(t, h) == h \in [opw[t] -> R] /\ \A b, c \in opw[t] : h[b] = h[c] => b = c
           H(t) == CHOOSE h : One(t, h)
           F == [w \in Written |-> <<w[1], H(w[1])[w[2]]>>]
<1>1. ASSUME NEW t \in Thread PROVE One(t, H(t))
  <2>1. IsFiniteSet(opw[t]) /\ Cardinality(opw[t]) <= OpBlocks /\ OpBlocks \in Nat
    BY LogAssumption DEF IInv, Locks
  <2>2. \E h : One(t, h)
    BY <2>1, Numbering
  <2> QED
    BY <2>2
<1> HIDE DEF H
<1>2. ASSUME NEW w \in Written
      PROVE  /\ w[1] \in Active /\ w[2] \in opw[w[1]] /\ w[1] \in Thread
             /\ w = <<w[1], w[2]>>
  BY DEF Written, IInv, Locks
<1>3. F \in [Written -> Active \X R]
  BY <1>1, <1>2
<1>4. ASSUME NEW v \in Written, NEW w \in Written, F[v] = F[w] PROVE v = w
  <2>1. v[1] = w[1] /\ H(v[1])[v[2]] = H(v[1])[w[2]]
    BY <1>4
  <2>2. v[2] = w[2]
    BY <1>1, <1>2, <2>1
  <2> QED
    BY <1>2, <2>1, <2>2
<1> HIDE DEF F
<1>5. F \in Injection(Written, Active \X R)
  BY <1>3, <1>4 DEF Injection, IsInjective
<1>6. IsFiniteSet(Active) /\ Cardinality(Active) = outstanding
  BY FS_Subset, FiniteAssumption DEF Active, IInv, Control
<1>7. IsFiniteSet(R) /\ Cardinality(R) = OpBlocks
  BY FS_Interval, LogAssumption
<1>8. IsFiniteSet(Active \X R) /\ Cardinality(Active \X R) = outstanding * OpBlocks
  BY <1>6, <1>7, FS_Product
<1>9. IsFiniteSet(Written) /\ Cardinality(Written) <= outstanding * OpBlocks
  BY <1>5, <1>8, FS_Injection
<1> QED
  BY <1>9, FS_CardinalityType

(* c blocks are enough for whatever begin_op() lets in: n is log.lh.n and  *)
(* o the operations outstanding before; an empty log goes with o = 0.      *)
Admits(c) ==
    \A n, o \in Nat :
        n + (o + 1) * MAXOPBLOCKS <= LOGSIZE /\ (o = 0 => n = 0) => n + (o + 1) * OpBlocks <= c

(* Steps that keep the log and the blocks written.                         *)
LEMMA ReservedFrame ==
    ASSUME NEW c, Reserved(c), UNCHANGED <<lh, dhead, outstanding, opw>>
    PROVE  Reserved(c)'
BY DEF Reserved, Logged, Written, InLog

(* The blocks an operation wrote that are in the log.                      *)
LEMMA LoggedFinite ==
    ASSUME IInv
    PROVE  IsFiniteSet(Logged) /\ Cardinality(Logged) \in Nat
<1>1. Logged \in SUBSET Written
  BY DEF Logged
<1> QED
  BY <1>1, WrittenBound, FS_Subset, FS_CardinalityType

(* begin_op() reserves.                                                    *)
LEMMA ReservedBegin ==
    ASSUME IInv, NEW c \in Nat, Admits(c), Reserved(c), NEW t \in Thread, BeginOp(t)
    PROVE  Reserved(c)'
<1>1. Len(lh) \in Nat /\ outstanding \in Nat /\ OpBlocks \in Nat
  BY LogAssumption DEF IInv, TypeOK
<1>2. Len(lh) + (outstanding + 1) * MAXOPBLOCKS <= LOGSIZE
  BY <1>1, LogAssumption DEF BeginOp, MustWait
<1>3. outstanding = 0 => Len(lh) = 0
  <2>1. IsFiniteSet(Active)
    BY FS_Subset, FiniteAssumption DEF Active
  <2>2. outstanding = 0 => Active = {}
    BY <2>1, FS_EmptySet DEF IInv, Control
  <2>3. phase = "idle"
    BY DEF BeginOp, MustWait, Up, Recovering, IInv, Control
  <2> QED
    BY <2>2, <2>3 DEF IInv, Control
<1>4. Len(lh) + (outstanding + 1) * OpBlocks <= c
  BY <1>1, <1>2, <1>3 DEF Admits
<1>5. UNCHANGED <<lh, dhead, Logged>> /\ outstanding' = outstanding + 1
  BY DEF BeginOp, Admitted, diskVars, Logged, Written, InLog
<1> QED
  BY <1>1, <1>4, <1>5, LoggedFinite DEF Reserved

(* end_op() gives the rest of the reservation back.                        *)
LEMMA ReservedEnd ==
    ASSUME IInv, NEW c \in Nat, Reserved(c), NEW t \in Thread, EndOp(t)
    PROVE  Reserved(c)'
<1> DEFINE Mine == {w \in Logged : w[1] = t}
<1>1. Len(lh) \in Nat /\ outstanding \in Nat /\ OpBlocks \in Nat
  BY LogAssumption DEF IInv, TypeOK
<1>2. UNCHANGED <<lh, dhead>> /\ outstanding' = outstanding - 1 /\ opw' = [opw EXCEPT ![t] = {}]
  BY DEF EndOp, diskVars
<1>3. Logged' = Logged \ Mine
  BY <1>2 DEF Logged, Written, InLog, IInv, TypeOK
<1>4. IsFiniteSet(Mine) /\ Cardinality(Mine) <= OpBlocks
  <2>1. IsFiniteSet(opw[t]) /\ Cardinality(opw[t]) <= OpBlocks
    BY DEF IInv, Locks
  <2>2. IsFiniteSet({t} \X opw[t])
        /\ Cardinality({t} \X opw[t]) = Cardinality({t}) * Cardinality(opw[t])
    <3>1. IsFiniteSet({t})
      BY FS_Singleton
    <3> HIDE DEF Mine
    <3> QED
      BY <2>1, <3>1, FS_Product
  <2>3. Mine \in SUBSET ({t} \X opw[t])
    BY DEF Logged, Written
  <2>4. IsFiniteSet(Mine) /\ Cardinality(Mine) <= Cardinality({t} \X opw[t])
    BY <2>2, <2>3, FS_Subset
  <2>5. Cardinality({t}) = 1 /\ Cardinality(opw[t]) \in Nat /\ Cardinality(Mine) \in Nat
    BY <2>1, <2>4, FS_Singleton, FS_CardinalityType
  <2>6. Cardinality({t} \X opw[t]) = Cardinality(opw[t])
    BY <2>2, <2>5
  <2> HIDE DEF Mine
  <2> QED
    BY <1>1, <2>1, <2>4, <2>5, <2>6
<1>5. Cardinality(Logged') = Cardinality(Logged) - Cardinality(Mine)
  <2>1. Logged \cap Mine = Mine
    OBVIOUS
  <2> HIDE DEF Mine
  <2>2. Cardinality(Logged \ Mine) = Cardinality(Logged) - Cardinality(Logged \cap Mine)
    BY LoggedFinite, FS_Difference
  <2> QED
    BY <1>3, <2>1, <2>2
<1>6. (outstanding - 1) * OpBlocks = outstanding * OpBlocks - OpBlocks
  BY <1>1
<1>7. outstanding * OpBlocks \in Int /\ Cardinality(Mine) \in Nat
  BY <1>1, <1>4, FS_CardinalityType
<1> HIDE DEF Mine
<1> QED
  BY <1>1, <1>2, <1>4, <1>5, <1>6, <1>7, LoggedFinite DEF Reserved

(* A block written is logged already, or is still reserved.                *)
LEMMA ReservedModify ==
    ASSUME IInv, NEW c \in Nat, Reserved(c), NEW t \in Thread, NEW b \in Block, NEW v \in Val,
           Modify(t, b, v)
    PROVE  Reserved(c)'
<1>1. Len(lh) \in Nat /\ outstanding * OpBlocks \in Nat
  BY LogAssumption DEF IInv, TypeOK
<1>2. UNCHANGED <<lh, dhead, outstanding>> /\ opw' = [opw EXCEPT ![t] = @ \union {b}]
  BY DEF Modify, diskVars, logVars
<1>3. Logged' \in SUBSET (Logged \union {<<t, b>>}) /\ Logged \in SUBSET Logged'
  BY <1>2 DEF Logged, Written, InLog, IInv, TypeOK
<1>4. IsFiniteSet(Logged')
  BY <1>3, LoggedFinite, FS_AddElement, FS_Subset
<1>5. Cardinality(Logged) <= Cardinality(Logged') /\ Cardinality(Logged') \in Nat
  BY <1>3, <1>4, FS_Subset, FS_CardinalityType
<1> QED
  BY <1>1, <1>2, <1>5, LoggedFinite DEF Reserved

(* log_write() uses one block of the reservation or absorbs.               *)
LEMMA ReservedLogWrite ==
    ASSUME IInv, NEW c \in Nat, Reserved(c), NEW t \in Thread, LogWrite(t)
    PROVE  Reserved(c)'
<1>0. PICK b \in Block : b = wb[t] /\ b \in opw[t]
  BY DEF LogWrite, IInv, Locks, TypeOK
<1>1. Len(lh) \in Nat /\ outstanding * OpBlocks \in Nat /\ lh \in Seq(Block)
  BY LogAssumption DEF IInv, TypeOK
<1>2. UNCHANGED <<dhead, outstanding, opw>> /\ lh' = Absorb(b)
  BY <1>0 DEF LogWrite, diskVars
<1>4. CASE InLog(b)
  BY <1>2, <1>4, ReservedFrame DEF Absorb, InLog
<1>5. CASE ~InLog(b)
  <2>1. lh' = Append(lh, b)
    BY <1>2, <1>5 DEF Absorb, InLog
  <2>2. Len(lh') = Len(lh) + 1 /\ lh'[Len(lh) + 1] = b /\ \A i \in 1 .. Len(lh) : lh'[i] = lh[i]
    BY <1>1, <2>1, AppendProperties
  <2>3. \A d : InLog(d) => InLog(d)'
    BY <1>1, <2>2 DEF InLog
  <2>4. InLog(b)'
    BY <1>1, <2>2 DEF InLog
  <2>5. <<t, b>> \in Written /\ Written' = Written
    BY <1>0, <1>2 DEF Written
  <2>6. <<t, b>> \notin Logged
    BY <1>5 DEF Logged
  <2>7. Logged \union {<<t, b>>} \in SUBSET Logged' /\ Logged' \in SUBSET Written
    BY <2>3, <2>4, <2>5 DEF Logged
  <2>8. IsFiniteSet(Logged')
    BY <2>7, WrittenBound, FS_Subset
  <2>9. Cardinality(Logged) + 1 <= Cardinality(Logged')
    <3>1. Cardinality(Logged \union {<<t, b>>}) = Cardinality(Logged) + 1
      BY <2>6, LoggedFinite, FS_AddElement
    <3>2. Cardinality(Logged \union {<<t, b>>}) <= Cardinality(Logged')
      BY <2>7, <2>8, FS_Subset
    <3> QED
      BY <3>1, <3>2
  <2>10. Cardinality(Logged') <= outstanding * OpBlocks /\ Cardinality(Logged') \in Nat
    BY <1>1, <2>7, <2>8, WrittenBound, FS_Subset, FS_CardinalityType
  <2> QED
    BY <1>1, <1>2, <2>2, <2>9, <2>10, LoggedFinite DEF Reserved
<1> QED
  BY <1>4, <1>5

(* While nothing is outstanding nothing is reserved.                       *)
LEMMA ReservedAlone ==
    ASSUME NEW c \in Nat, outstanding' = 0, opw' = [t \in Thread |-> {}],
           Len(lh') \in Nat, Len(lh') <= c, Len(dhead') <= c
    PROVE  Reserved(c)'
<1>1. Logged' = {}
  BY DEF Logged, Written
<1>2. Cardinality(Logged') = 0
  BY <1>1, FS_EmptySet
<1>3. outstanding' * OpBlocks = 0
  BY LogAssumption
<1> QED
  BY <1>2, <1>3 DEF Reserved

(* commit() and recovery run while nothing is outstanding.                 *)
LEMMA Alone ==
    ASSUME IInv, committing \/ Recovering
    PROVE  outstanding = 0 /\ opw = [t \in Thread |-> {}] /\ Active = {}
<1>1. Active = {}
  BY DEF IInv, Control, Active, InOp
<1>2. \A t \in Thread : opw[t] = {}
  BY <1>1 DEF IInv, Locks
<1> QED
  BY <1>1, <1>2, FS_EmptySet DEF IInv, Control, TypeOK

(* No step lets the log outgrow c blocks.                                  *)
LEMMA ReservedStep ==
    ASSUME IInv, [Next]_vars, NEW c \in Nat, Admits(c), Reserved(c)
    PROVE  Reserved(c)'
<1> USE DEF diskVars, cacheVars, logVars, threadVars
<1>1. CASE UNCHANGED <<lh, dhead, outstanding, opw>>
  BY <1>1, ReservedFrame
<1>2. ASSUME NEW t \in Thread, BeginOp(t) PROVE Reserved(c)'
  BY <1>2, ReservedBegin
<1>3. ASSUME NEW t \in Thread, EndOp(t) PROVE Reserved(c)'
  BY <1>3, ReservedEnd
<1>4. ASSUME NEW t \in Thread, LogWrite(t) PROVE Reserved(c)'
  BY <1>4, ReservedLogWrite
<1>5. ASSUME NEW t \in Thread, NEW b \in Block, NEW v \in Val, Modify(t, b, v)
      PROVE  Reserved(c)'
  BY <1>5, ReservedModify
<1>6. Len(lh) \in Nat /\ Len(dhead) \in Nat /\ Len(lh) <= c /\ Len(dhead) <= c /\ Len(<<>>) = 0
  BY EmptySeq, LenProperties DEF IInv, TypeOK, Reserved
<1>7. CASE WriteHead
  <2>1. committing
    BY <1>7 DEF WriteHead, IInv, Control
  <2> QED
    BY <1>6, <1>7, <2>1, Alone, ReservedAlone DEF WriteHead
<1>8. CASE EraseHead
  <2>1. committing \/ Recovering
    BY <1>8 DEF EraseHead, Recovering
  <2> QED
    BY <1>6, <1>8, <2>1, Alone, ReservedAlone DEF EraseHead
<1>9. CASE ReadHead
  <2>1. Recovering
    BY <1>9 DEF ReadHead, Recovering
  <2> QED
    BY <1>6, <1>9, <2>1, Alone, ReservedAlone DEF ReadHead
<1>10. CASE Crash
  BY <1>6, <1>10, ReservedAlone DEF Crash
<1>11. ASSUME NEW t \in Thread,
              BeginCall(t) \/ BeginSleep(t) \/ KillWakes(t) \/ LogWriteCheck(t) \/ CommitEnd(t)
       PROVE  Reserved(c)'
  BY <1>1, <1>11 DEF BeginCall, BeginSleep, KillWakes, LogWriteCheck, CommitEnd
<1>12. ASSUME NEW b \in Block, Bread(b) \/ Bget(b) PROVE Reserved(c)'
  BY <1>1, <1>12 DEF Bread, Bget
<1>13. CASE WriteLog \/ InstallTrans
  BY <1>1, <1>13 DEF WriteLog, InstallTrans
<1>14. CASE UNCHANGED vars
  BY <1>1, <1>14 DEF vars
<1> QED
  BY <1>2, <1>3, <1>4, <1>5, <1>7, <1>8, <1>9, <1>10, <1>11, <1>12, <1>13, <1>14 DEF Next

(* begin_op()'s own test keeps the log within LOGSIZE.                     *)
LEMMA LogsizeAdmits == Admits(LOGSIZE)
<1> SUFFICES ASSUME NEW n \in Nat, NEW o \in Nat, n + (o + 1) * MAXOPBLOCKS <= LOGSIZE
             PROVE  n + (o + 1) * OpBlocks <= LOGSIZE
  BY DEF Admits
<1>1. (o + 1) * OpBlocks <= (o + 1) * MAXOPBLOCKS
  BY LogAssumption
<1> QED
  BY <1>1, LogAssumption

-----------------------------------------------------------------------------
(* The parts of the invariant, one by one                                  *)

(* The control part: the count of operations, commit() alone, recovery   *)
(* alone.                                                                  *)
LEMMA ControlStep ==
    ASSUME IInv, [Next]_vars
    PROVE  Control'
<1> USE DEF diskVars, cacheVars, logVars, threadVars, Recovering, Up
<1>0. IsFiniteSet(Active) /\ (Active = {} <=> outstanding = 0) /\ outstanding \in Nat
  BY FS_Subset, FS_EmptySet, FiniteAssumption DEF Active, IInv, Control, TypeOK
<1>1. ASSUME UNCHANGED <<lh, outstanding, committing, phase>>, Active' = Active,
             Recovering => pc' = pc
      PROVE  Control'
  BY <1>1 DEF IInv, Control
<1>2. ASSUME NEW t \in Thread, BeginCall(t) \/ BeginSleep(t) \/ KillWakes(t) \/ LogWriteCheck(t)
      PROVE  Control'
  <2>1. Active' = Active
    BY <1>2 DEF BeginCall, BeginSleep, KillWakes, LogWriteCheck, Active, InOp, IInv, TypeOK
  <2> QED
    BY <1>1, <1>2, <2>1 DEF BeginCall, BeginSleep, KillWakes, LogWriteCheck
<1>3. ASSUME NEW t \in Thread, BeginOp(t) PROVE Control'
  <2>1. Active' = Active \union {t} /\ t \notin Active
    BY <1>3 DEF BeginOp, Active, InOp, IInv, TypeOK
  <2>2. Cardinality(Active') = outstanding'
    BY <1>0, <1>3, <2>1, FS_AddElement DEF BeginOp, Admitted, IInv, Control
  <2> QED
    BY <1>3, <2>1, <2>2 DEF BeginOp, MustWait, IInv, Control
<1>4. ASSUME NEW t \in Thread, EndOp(t) PROVE Control'
  <2>1. ~committing /\ phase = "idle" /\ t \in Active
    BY <1>4 DEF EndOp, IInv, Control, Active, InOp
  <2>2. Active' = Active \ {t}
    BY <1>4, <2>1 DEF EndOp, Wakeup, Active, InOp, IInv, TypeOK
  <2>3. Cardinality(Active') = outstanding' /\ IsFiniteSet(Active')
    BY <1>0, <1>4, <2>1, <2>2, FS_RemoveElement DEF EndOp, IInv, Control
  <2>4. (Active' = {}) <=> outstanding = 1
    BY <1>0, <1>4, <2>3, FS_EmptySet DEF EndOp
  <2> QED
    BY <1>4, <2>1, <2>3, <2>4 DEF EndOp, IInv, Control
<1>5. ASSUME NEW t \in Thread, CommitEnd(t) PROVE Control'
  <2>1. committing /\ lh = <<>>
    BY <1>5 DEF CommitEnd, IInv, Control
  <2>2. Active' = Active
    BY <1>5 DEF CommitEnd, Wakeup, Active, InOp, IInv, TypeOK
  <2> QED
    BY <1>5, <2>1, <2>2 DEF CommitEnd, IInv, Control
<1>6. ASSUME NEW t \in Thread, NEW b \in Block, NEW v \in Val, Modify(t, b, v) PROVE Control'
  <2>1. Active' = Active
    BY <1>6 DEF Modify, Active, InOp, IInv, TypeOK
  <2> QED
    BY <1>1, <1>6, <2>1 DEF Modify
<1>7. ASSUME NEW t \in Thread, LogWrite(t) PROVE Control'
  <2>1. Active' = Active /\ t \in Active
    BY <1>7 DEF LogWrite, Active, InOp, IInv, TypeOK
  <2> QED
    BY <1>7, <2>1 DEF LogWrite, IInv, Control
<1>8. ASSUME NEW b \in Block, Bread(b) \/ Bget(b) PROVE Control'
  BY <1>1, <1>8 DEF Bread, Bget, Active
<1>9. CASE WriteLog \/ UNCHANGED vars
  BY <1>1, <1>9 DEF WriteLog, vars, Active
<1>10. CASE WriteHead
  BY <1>10 DEF WriteHead, Active, IInv, Control
<1>11. CASE InstallTrans
  BY <1>1, <1>11 DEF InstallTrans, Active
<1>12. CASE EraseHead
  BY <1>12 DEF EraseHead, Active, IInv, Control
<1>13. CASE Crash
  <2>1. Active' = {}
    BY <1>13 DEF Crash, Active, InOp
  <2> QED
    BY <1>13, <2>1, FS_EmptySet DEF Crash, Control
<1>14. CASE ReadHead
  BY <1>14 DEF ReadHead, Active, IInv, Control
<1> QED
  BY <1>2, <1>3, <1>4, <1>5, <1>6, <1>7, <1>8, <1>9, <1>10, <1>11, <1>12, <1>13, <1>14 DEF Next

(* The locks part.                                                         *)
LEMMA LocksStep ==
    ASSUME IInv, [Next]_vars
    PROVE  Locks'
<1> USE DEF diskVars, cacheVars, logVars, threadVars
<1>0. /\ pc \in [Thread -> Label] /\ wb \in [Thread -> Block \union {None}]
      /\ opw \in [Thread -> SUBSET Block] /\ cache \in [Block -> Val \union {None}]
      /\ home \in [Block -> Val] /\ dlog \in [LogIndex -> Val] /\ Locks
  BY DEF IInv, TypeOK
<1>1. ASSUME NEW t \in Thread,
             BeginCall(t) \/ BeginSleep(t) \/ KillWakes(t) \/ BeginOp(t) \/ CommitEnd(t)
      PROVE  Locks'
  BY <1>0, <1>1
  DEF BeginCall, BeginSleep, KillWakes, BeginOp, CommitEnd, Wakeup, Locks, Active, InOp
<1>2. ASSUME NEW t \in Thread, LogWriteCheck(t) \/ LogWrite(t) PROVE Locks'
  BY <1>0, <1>2 DEF LogWriteCheck, LogWrite, Locks, Active, InOp
<1>3. ASSUME NEW t \in Thread, EndOp(t) PROVE Locks'
  <2>1. IsFiniteSet({}) /\ Cardinality({}) <= OpBlocks
    BY FS_EmptySet, LogAssumption
  <2> QED
    BY <1>0, <1>3, <2>1 DEF EndOp, Wakeup, Locks, Active, InOp
<1>4. ASSUME NEW t \in Thread, NEW b \in Block, NEW v \in Val, Modify(t, b, v) PROVE Locks'
  <2>1. IsFiniteSet(opw[t] \union {b}) /\ Cardinality(opw[t] \union {b}) <= OpBlocks
    BY <1>0, <1>4, FS_AddElement DEF Modify, Locks
  <2>2. v # None
    BY LogAssumption
  <2>3. /\ pc' = [pc EXCEPT ![t] = "modified"] /\ wb' = [wb EXCEPT ![t] = b]
        /\ opw' = [opw EXCEPT ![t] = @ \union {b}] /\ cache' = [cache EXCEPT ![b] = v]
        /\ Active' = Active /\ t \in Active
    BY <1>0, <1>4 DEF Modify, Active, InOp
  <2>4. ASSUME NEW u \in Thread, u # t
        PROVE  pc'[u] = pc[u] /\ wb'[u] = wb[u] /\ opw'[u] = opw[u]
    BY <1>0, <2>3, <2>4
  <2>5. /\ pc'[t] = "modified" /\ wb'[t] = b /\ opw'[t] = opw[t] \union {b} /\ cache'[b] # None
        /\ b # None
    BY <1>0, <2>2, <2>3, LogAssumption
  <2>6. \A d \in Block : cache[d] # None => cache'[d] # None
    BY <1>0, <2>2, <2>3
  <2> QED
    BY <1>0, <2>1, <2>3, <2>4, <2>5, <2>6 DEF Locks
<1>5. ASSUME NEW b \in Block, Bread(b) \/ Bget(b) PROVE Locks'
  <2>1. home[b] # None
    BY <1>0, LogAssumption
  <2> QED
    BY <1>0, <1>5, <2>1 DEF Bread, Bget, Evictable, Locked, Locks, Active
<1>6. CASE WriteLog \/ WriteHead \/ EraseHead \/ ReadHead \/ UNCHANGED vars
  BY <1>0, <1>6 DEF WriteLog, WriteHead, EraseHead, ReadHead, vars, Locks, Active
<1>7. CASE InstallTrans
  <2>1. \A t \in Thread : wb[t] = None
    BY <1>7, Alone DEF InstallTrans, Recovering, IInv, Locks
  <2> QED
    BY <1>0, <1>7, <2>1 DEF InstallTrans, Locks, Active
<1>8. CASE Crash
  <2>1. IsFiniteSet({}) /\ Cardinality({}) <= OpBlocks
    BY FS_EmptySet, LogAssumption
  <2> QED
    BY <1>8, <2>1 DEF Crash, Locks, Active
<1> QED
  BY <1>1, <1>2, <1>3, <1>4, <1>5, <1>6, <1>7, <1>8 DEF Next

(* log_write() keeps the entries of the log distinct.                      *)
LEMMA AbsorbDistinct ==
    ASSUME NEW s \in Seq(Block), NEW b \in Block, Distinct(s), ~\E i \in 1 .. Len(s) : s[i] = b
    PROVE  Distinct(Append(s, b))
<1> DEFINE u == Append(s, b)
<1>1. /\ Len(u) = Len(s) + 1 /\ u[Len(s) + 1] = b /\ Len(s) \in Nat
      /\ \A i \in 1 .. Len(s) : u[i] = s[i]
  BY AppendProperties, LenProperties
<1> HIDE DEF u
<1>2. Distinct(u)
  BY <1>1 DEF Distinct
<1> QED
  BY <1>2 DEF u

(* log.lh after log_write().                                               *)
LEMMA LogWriteAppends ==
    ASSUME IInv, NEW t \in Thread, LogWrite(t)
    PROVE  /\ wb[t] \in Block /\ lh \in Seq(Block) /\ lh' \in Seq(Block) /\ Distinct(lh')
           /\ Len(lh) \in Nat /\ Len(lh') \in Nat /\ Len(lh) <= Len(lh')
           /\ \A i \in 1 .. Len(lh) : lh'[i] = lh[i]
           /\ \A b \in Block : (\E i \in 1 .. Len(lh') : lh'[i] = b)
                                 <=> b = wb[t] \/ \E i \in 1 .. Len(lh) : lh[i] = b
<1>1. wb[t] \in Block /\ lh \in Seq(Block) /\ Len(lh) \in Nat /\ Distinct(lh)
  BY DEF LogWrite, IInv, Locks, TypeOK, Headers
<1>2. CASE \E i \in 1 .. Len(lh) : lh[i] = wb[t]
  BY <1>1, <1>2 DEF LogWrite, Absorb
<1>3. CASE ~\E i \in 1 .. Len(lh) : lh[i] = wb[t]
  <2>1. lh' = Append(lh, wb[t])
    BY <1>3 DEF LogWrite, Absorb
  <2>2. /\ lh' \in Seq(Block) /\ Len(lh') = Len(lh) + 1 /\ lh'[Len(lh) + 1] = wb[t]
        /\ \A i \in 1 .. Len(lh) : lh'[i] = lh[i]
    BY <1>1, <2>1, AppendProperties
  <2>3. Distinct(lh')
    BY <1>1, <1>3, <2>1, AbsorbDistinct
  <2> QED
    BY <1>1, <2>2, <2>3
<1> QED
  BY <1>2, <1>3

(* The headers part.                                                       *)
LEMMA HeadersStep ==
    ASSUME IInv, [Next]_vars
    PROVE  Headers'
<1> USE DEF diskVars, cacheVars, logVars, threadVars
<1>0. /\ Headers /\ Distinct(<<>>) /\ Len(<<>>) = 0 /\ lh \in Seq(Block) /\ dhead \in Seq(Block)
      /\ Len(lh) \in Nat /\ Len(dhead) \in Nat /\ tail \in Nat
  BY LogAssumption DEF IInv, TypeOK, Distinct
<1>1. ASSUME UNCHANGED <<lh, dhead, tail, phase>> PROVE Headers'
  BY <1>0, <1>1 DEF Headers, Distinct
<1>2. ASSUME NEW t \in Thread, BeginCall(t) \/ BeginSleep(t) \/ KillWakes(t) \/ BeginOp(t)
                               \/ LogWriteCheck(t)
      PROVE  Headers'
  BY <1>1, <1>2 DEF BeginCall, BeginSleep, KillWakes, BeginOp, LogWriteCheck
<1>3. ASSUME NEW t \in Thread, CommitEnd(t) PROVE Headers'
  BY <1>0, <1>3 DEF CommitEnd, Headers, Distinct
<1>4. ASSUME NEW t \in Thread, LogWrite(t) PROVE Headers'
  <2>1. phase = "idle"
    BY <1>4 DEF LogWrite, IInv, Control, Up, Recovering, Active, InOp
  <2>2. Distinct(lh') /\ Len(lh') \in Nat /\ Len(lh) <= Len(lh')
    BY <1>4, LogWriteAppends
  <2>3. UNCHANGED <<dhead, tail, phase>>
    BY <1>4 DEF LogWrite
  <2> QED
    BY <1>0, <2>1, <2>2, <2>3 DEF Headers
<1>5. ASSUME NEW t \in Thread, EndOp(t) PROVE Headers'
  <2>1. phase = "idle"
    BY <1>5 DEF EndOp, IInv, Control, Up, Recovering, Active, InOp
  <2> QED
    BY <1>0, <1>5, <2>1 DEF EndOp, Headers, Distinct
<1>6. ASSUME NEW t \in Thread, NEW b \in Block, NEW v \in Val, Modify(t, b, v) PROVE Headers'
  BY <1>1, <1>6 DEF Modify
<1>7. ASSUME NEW b \in Block, Bread(b) \/ Bget(b) PROVE Headers'
  BY <1>1, <1>7 DEF Bread, Bget
<1>8. CASE WriteLog \/ InstallTrans
  BY <1>0, <1>8 DEF WriteLog, InstallTrans, Headers, Distinct
<1>9. CASE WriteHead
  BY <1>0, <1>9 DEF WriteHead, Headers, Distinct
<1>10. CASE EraseHead
  BY <1>0, <1>10 DEF EraseHead, Headers, Distinct
<1>11. CASE Crash
  BY <1>0, <1>11 DEF Crash, Headers, Distinct
<1>12. CASE ReadHead
  <2>1. tail = 0
    BY <1>0, <1>12 DEF ReadHead, IInv, Control, Headers
  <2> QED
    BY <1>0, <1>12, <2>1 DEF ReadHead, Headers, Distinct
<1>13. CASE UNCHANGED vars
  BY <1>1, <1>13 DEF vars
<1> QED
  BY <1>2, <1>3, <1>4, <1>5, <1>6, <1>7, <1>8, <1>9, <1>10, <1>11, <1>12, <1>13 DEF Next

(* Bringing a buffer in and recycling one change no contents: what is      *)
(* recycled agrees with the disk.                                          *)
LEMMA CacheMoves ==
    ASSUME IInv, NEW d \in Block, Bread(d) \/ Bget(d)
    PROVE  /\ \A b \in Block : Buffer(b)' = Buffer(b)
           /\ \A b \in dirty : cache'[b] # None
           /\ \A b \in Block : cache'[b] \in {None, home[b]} \/ cache'[b] = cache[b]
<1>1. /\ cache \in [Block -> Val \union {None}] /\ home \in [Block -> Val] /\ None \notin Val
      /\ home' = home
  BY LogAssumption DEF IInv, TypeOK, Bread, Bget, diskVars
<1>2. CASE Bread(d)
  BY <1>1, <1>2 DEF Bread, Buffer, IInv, Pinned
<1>3. CASE Bget(d)
  <2>1. cache[d] = home[d] /\ d \notin dirty
    BY <1>3 DEF Bget, Evictable, IInv, Pinned
  <2> QED
    BY <1>1, <1>3, <2>1 DEF Bget, Buffer, IInv, Pinned
<1> QED
  BY <1>2, <1>3

(* While commit() or recovery runs no buffer is locked.                    *)
LEMMA NoLocks ==
    ASSUME IInv, committing \/ Recovering
    PROVE  \A b \in Block : ~Locked(b)
BY Alone, LogAssumption DEF IInv, Locks, Locked

(* The pinned part: which buffers B_DIRTY pins.                            *)
LEMMA PinnedStep ==
    ASSUME IInv, [Next]_vars
    PROVE  Pinned'
<1> USE DEF diskVars, cacheVars, logVars, threadVars
<1>0. /\ Pinned /\ dirty \subseteq Block /\ cache \in [Block -> Val \union {None}]
      /\ home \in [Block -> Val] /\ None \notin Val /\ dlog \in [LogIndex -> Val]
      /\ lh \in Seq(Block) /\ Len(lh) \in Nat /\ tail \in Nat /\ tail <= Len(lh)
      /\ wb \in [Thread -> Block \union {None}] /\ None \notin Block
  BY LogAssumption DEF IInv, TypeOK, Headers
<1>1. ASSUME UNCHANGED <<lh, tail, dirty, cache, home, wb>>, Up' = Up,
             phase = "install" <=> phase' = "install"
      PROVE  Pinned'
  BY <1>0, <1>1 DEF Pinned, Locked
<1>2. ASSUME NEW t \in Thread, BeginCall(t) \/ BeginSleep(t) \/ KillWakes(t) \/ BeginOp(t)
                               \/ LogWriteCheck(t)
      PROVE  Pinned'
  BY <1>1, <1>2 DEF BeginCall, BeginSleep, KillWakes, BeginOp, LogWriteCheck, Up, Recovering
<1>3. ASSUME NEW t \in Thread, CommitEnd(t) PROVE Pinned'
  BY <1>1, <1>3 DEF CommitEnd, Up, Recovering
<1>4. ASSUME NEW t \in Thread, EndOp(t) PROVE Pinned'
  <2>1. phase = "idle" /\ ~committing /\ Up'
    BY <1>4 DEF EndOp, IInv, Control, Up, Recovering, Active, InOp
  <2> QED
    BY <1>0, <1>4, <2>1 DEF EndOp, Pinned, Locked
<1>5. ASSUME NEW t \in Thread, LogWrite(t) PROVE Pinned'
  <2>1. phase = "idle" /\ Up /\ Up'
    BY <1>5 DEF LogWrite, IInv, Control, Up, Recovering, Active, InOp
  <2>2. /\ wb[t] \in Block /\ wb[t] # None
        /\ \A b \in Block : (\E i \in 1 .. Len(lh') : lh'[i] = b)
                              <=> b = wb[t] \/ \E i \in 1 .. Len(lh) : lh[i] = b
    BY <1>0, <1>5, LogWriteAppends
  <2>3. /\ dirty' = dirty \union {wb[t]} /\ wb' = [wb EXCEPT ![t] = None]
        /\ UNCHANGED <<cache, home, phase>>
    BY <1>5 DEF LogWrite
  <2>4. cache[wb[t]] # None
    BY <2>2 DEF IInv, Locks
  <2>5. \A b \in Block : b \in dirty' <=> \E i \in 1 .. Len(lh') : lh'[i] = b
    BY <1>0, <2>1, <2>2, <2>3 DEF Pinned
  <2>6. \A b \in Block : Locked(b) => Locked(b)' \/ b = wb[t]
    BY <1>0, <2>3 DEF Locked
  <2> QED
    BY <1>0, <2>1, <2>2, <2>3, <2>4, <2>5, <2>6 DEF Pinned
<1>6. ASSUME NEW t \in Thread, NEW b \in Block, NEW v \in Val, Modify(t, b, v) PROVE Pinned'
  <2>1. \A d \in Block : Locked(d) => Locked(d)'
    BY <1>0, <1>6 DEF Modify, Locked, IInv, Locks
  <2>2. Locked(b)' /\ cache' = [cache EXCEPT ![b] = v] /\ v # None
    BY <1>0, <1>6 DEF Modify, Locked
  <2>3. UNCHANGED <<lh, tail, dirty, home, phase, committing>>
    BY <1>6 DEF Modify
  <2> QED
    BY <1>0, <2>1, <2>2, <2>3 DEF Pinned, Up, Recovering
<1>7. ASSUME NEW b \in Block, Bread(b) \/ Bget(b) PROVE Pinned'
  <2>1. UNCHANGED <<lh, tail, dirty, home, phase, committing, wb>>
    BY <1>7 DEF Bread, Bget
  <2> QED
    BY <1>0, <1>7, <2>1, CacheMoves DEF Pinned, Up, Recovering, Locked
<1>8. CASE WriteLog
  <2>1. UNCHANGED <<lh, dirty, cache, home, phase, committing, wb>> /\ phase # "install"
    BY <1>8 DEF WriteLog
  <2> QED
    BY <1>0, <2>1 DEF Pinned, Locked, Up, Recovering
<1>9. CASE WriteHead
  <2>1. Up /\ Up'
    BY <1>9 DEF WriteHead, IInv, Control, Up, Recovering
  <2> QED
    BY <1>0, <1>9, <2>1 DEF WriteHead, Pinned, Locked
<1>10. CASE InstallTrans
  <2>1. PICK b \in Block : b = lh[tail + 1]
    BY <1>0, <1>10, ElementOfSeq DEF InstallTrans
  <2>2. /\ home' = [home EXCEPT ![b] = dlog[tail + 1]]
        /\ cache' = [cache EXCEPT ![b] = dlog[tail + 1]]
        /\ dirty' = dirty \ {b} /\ tail' = tail + 1 /\ tail < Len(lh)
        /\ UNCHANGED <<lh, phase, committing, wb>> /\ phase = "install"
    BY <1>10, <2>1 DEF InstallTrans
  <2>3. \A i \in 1 .. Len(lh) : lh[i] = b <=> i = tail + 1
    BY <1>0, <2>1, <2>2 DEF IInv, Headers, Distinct
  <2>4. dlog[tail + 1] # None
    <3>1. Len(lh) <= LOGSIZE
      BY DEF IInv, TypeOK
    <3>2. tail + 1 \in LogIndex
      BY <1>0, <2>2, <3>1, LogAssumption DEF LogIndex, Max2
    <3> QED
      BY <1>0, <3>2
  <2>5. \A d \in Block : d \in dirty' <=>
           Up /\ \E i \in 1 .. Len(lh) : lh[i] = d /\ i > tail + 1
    BY <1>0, <2>2, <2>3 DEF Pinned
  <2>6. Up' = Up
    BY <2>2 DEF Up, Recovering
  <2>7. \A d \in Block : cache'[d] \in {None, home'[d]} \/ d \in dirty' \/ Locked(d)'
    BY <1>0, <2>2 DEF Pinned, Locked
  <2>8. \A d \in dirty' : cache'[d] # None
    BY <1>0, <2>2 DEF Pinned
  <2> QED
    BY <2>2, <2>5, <2>6, <2>7, <2>8 DEF Pinned
<1>11. CASE EraseHead
  <2>1. dirty = {} /\ lh' = <<>> /\ Len(lh') = 0
    BY <1>0, <1>11 DEF EraseHead, Pinned
  <2> QED
    BY <1>0, <1>11, <2>1 DEF EraseHead, Pinned, Locked
<1>12. CASE Crash
  BY <1>12 DEF Crash, Pinned
<1>13. CASE ReadHead
  <2>1. ~Up /\ ~Up'
    BY <1>13 DEF ReadHead, IInv, Control, Up, Recovering
  <2> QED
    BY <1>0, <1>13, <2>1 DEF ReadHead, Pinned, Locked
<1>14. CASE UNCHANGED vars
  BY <1>1, <1>14 DEF vars, Up, Recovering
<1> QED
  BY <1>2, <1>3, <1>4, <1>5, <1>6, <1>7, <1>8, <1>9, <1>10, <1>11, <1>12, <1>13, <1>14 DEF Next

(* The block an index of the log names, and its place in the log's region. *)
LEMMA Indices ==
    ASSUME IInv
    PROVE  /\ Len(lh) \in Nat /\ tail \in Nat /\ tail <= Len(lh)
           /\ \A i \in 1 .. Len(lh) : lh[i] \in Block /\ i \in LogIndex
<1>1. Len(lh) <= LOGSIZE /\ lh \in Seq(Block) /\ Len(lh) \in Nat
  BY DEF IInv, TypeOK
<1>2. \A i \in 1 .. Len(lh) : i \in LogIndex
  BY <1>1, LogAssumption DEF LogIndex, Max2
<1> QED
  BY <1>1, <1>2, ElementOfSeq, LogAssumption DEF IInv, TypeOK, Headers

(* The copied part: how far write_log() and install_trans() have got.      *)
LEMMA CopiedStep ==
    ASSUME IInv, [Next]_vars
    PROVE  Copied'
<1> USE DEF diskVars, cacheVars, logVars, threadVars
<1>0. /\ Copied /\ cache \in [Block -> Val \union {None}]
      /\ home \in [Block -> Val] /\ None \notin Val /\ dlog \in [LogIndex -> Val]
  BY LogAssumption DEF IInv, TypeOK
<1>1. ASSUME UNCHANGED <<lh, tail, phase, committing, home, dlog>>,
             \A b \in Block : Buffer(b)' = Buffer(b)
      PROVE  Copied'
  BY <1>0, <1>1, Indices DEF Copied
<1>2. ASSUME NEW t \in Thread, BeginCall(t) \/ BeginSleep(t) \/ KillWakes(t) \/ BeginOp(t)
                               \/ LogWriteCheck(t)
      PROVE  Copied'
  <2>1. \A b \in Block : Buffer(b)' = Buffer(b)
    BY <1>2 DEF BeginCall, BeginSleep, KillWakes, BeginOp, LogWriteCheck, Buffer
  <2> QED
    BY <1>1, <1>2, <2>1 DEF BeginCall, BeginSleep, KillWakes, BeginOp, LogWriteCheck
<1>3. ASSUME NEW t \in Thread, CommitEnd(t) PROVE Copied'
  BY <1>3 DEF CommitEnd, Copied
<1>4. ASSUME NEW t \in Thread, EndOp(t) PROVE Copied'
  <2>1. phase = "idle" /\ ~committing
    BY <1>4 DEF EndOp, IInv, Control, Up, Recovering, Active, InOp
  <2> QED
    BY <1>4, <2>1 DEF EndOp, Copied
<1>5. ASSUME NEW t \in Thread, LogWrite(t) \/ \E b \in Block, v \in Val : Modify(t, b, v)
      PROVE  Copied'
  <2>1. phase = "idle"
    BY <1>5 DEF LogWrite, Modify, IInv, Control, Up, Recovering, Active, InOp
  <2> QED
    BY <1>5, <2>1 DEF LogWrite, Modify, Copied
<1>6. ASSUME NEW b \in Block, Bread(b) \/ Bget(b) PROVE Copied'
  BY <1>1, <1>6, CacheMoves DEF Bread, Bget
<1>7. CASE WriteLog
  <2>1. /\ dlog' = [dlog EXCEPT ![tail + 1] = Buffer(lh[tail + 1])] /\ tail' = tail + 1
        /\ tail < Len(lh) /\ phase = "write_log" /\ UNCHANGED <<lh, home, cache, phase>>
    BY <1>7 DEF WriteLog
  <2>2. \A b \in Block : Buffer(b)' = Buffer(b)
    BY <2>1 DEF Buffer
  <2>3. ASSUME NEW i \in 1 .. tail + 1 PROVE dlog'[i] = Buffer(lh[i])
    <3>1. i \in LogIndex
      BY <2>1, Indices
    <3>2. CASE i = tail + 1
      BY <1>0, <2>1, <3>1, <3>2
    <3>3. CASE i # tail + 1
      <4>1. i \in 1 .. tail
        BY <3>3, Indices
      <4> QED
        BY <1>0, <2>1, <3>1, <3>3, <4>1 DEF Copied
    <3> QED
      BY <3>2, <3>3
  <2>4. \A i \in 1 .. tail + 1 : lh[i] \in Block
    BY <2>1, Indices
  <2>5. \A i \in 1 .. tail' : dlog'[i] = Buffer(lh[i])'
    BY <2>1, <2>2, <2>3, <2>4
  <2> QED
    BY <2>1, <2>5 DEF Copied
<1>8. CASE WriteHead
  <2>1. \A b \in Block : Buffer(b)' = Buffer(b)
    BY <1>8 DEF WriteHead, Buffer
  <2> QED
    BY <1>0, <1>8, <2>1, Indices DEF WriteHead, Copied
<1>9. CASE InstallTrans
  <2>1. PICK b \in Block : b = lh[tail + 1]
    BY <1>9, Indices DEF InstallTrans
  <2>2. /\ home' = [home EXCEPT ![b] = dlog[tail + 1]]
        /\ cache' = [cache EXCEPT ![b] = dlog[tail + 1]]
        /\ tail' = tail + 1 /\ tail < Len(lh) /\ phase = "install"
        /\ UNCHANGED <<lh, dlog, phase, committing>>
    BY <1>9, <2>1 DEF InstallTrans
  <2>3. \A i \in 1 .. Len(lh) : lh[i] = b <=> i = tail + 1
    BY <2>1, <2>2, Indices DEF IInv, Headers, Distinct
  <2>4. \A i \in 1 .. Len(lh) : i <= tail + 1 => home'[lh[i]] = dlog[i]
    BY <1>0, <2>1, <2>2, <2>3, Indices DEF Copied
  <2>5. dlog[tail + 1] # None
    BY <1>0, <2>2, Indices
  <2>6. committing => \A i \in 1 .. Len(lh) : Buffer(lh[i])' = dlog[i]
    BY <1>0, <2>1, <2>2, <2>3, <2>5, Indices DEF Copied, Buffer
  <2> QED
    BY <2>2, <2>4, <2>6 DEF Copied
<1>10. CASE EraseHead \/ Crash
  BY <1>10 DEF EraseHead, Crash, Copied
<1>11. CASE ReadHead
  <2>1. tail = 0 /\ ~committing
    BY <1>11, Indices DEF ReadHead, IInv, Control
  <2> QED
    BY <1>11, <2>1 DEF ReadHead, Copied
<1>12. CASE UNCHANGED vars
  <2>1. \A b \in Block : Buffer(b)' = Buffer(b)
    BY <1>12 DEF vars, Buffer
  <2> QED
    BY <1>1, <1>12, <2>1 DEF vars
<1> QED
  BY <1>2, <1>3, <1>4, <1>5, <1>6, <1>7, <1>8, <1>9, <1>10, <1>11, <1>12 DEF Next

(* The sleepers of begin_op(): every step that could leave one alone wakes *)
(* all of them.                                                            *)
LEMMA SleepersStep ==
    ASSUME IInv, [Next]_vars
    PROVE  NoLostWakeup'
<1> USE DEF diskVars, cacheVars, logVars, threadVars
<1>0. NoLostWakeup /\ outstanding \in Nat /\ pc \in [Thread -> Label]
  BY DEF IInv, TypeOK
<1>1. ASSUME UNCHANGED <<outstanding, committing>>,
             \A t \in Thread : pc'[t] = "asleep" => pc[t] = "asleep"
      PROVE  NoLostWakeup'
  BY <1>0, <1>1 DEF NoLostWakeup
<1>2. ASSUME NEW t \in Thread, BeginCall(t) \/ KillWakes(t) \/ LogWriteCheck(t) \/ LogWrite(t)
      PROVE  NoLostWakeup'
  BY <1>0, <1>1, <1>2 DEF BeginCall, KillWakes, LogWriteCheck, LogWrite
<1>3. ASSUME NEW t \in Thread, BeginSleep(t) PROVE NoLostWakeup'
  <2>1. committing \/ outstanding > 0
    <3> SUFFICES ASSUME outstanding = 0, ~committing PROVE FALSE
      BY <1>0
    <3>1. Active = {}
      BY FS_Subset, FS_EmptySet, FiniteAssumption DEF Active, IInv, Control
    <3>2. phase = "idle"
      BY <1>3 DEF BeginSleep, Up, Recovering, IInv, Control
    <3>3. Len(lh) = 0
      BY <3>1, <3>2 DEF IInv, Control
    <3> QED
      BY <1>3, <3>3, LogAssumption DEF BeginSleep, MustWait
  <2> QED
    BY <1>3, <2>1 DEF BeginSleep, NoLostWakeup
<1>4. ASSUME NEW t \in Thread, BeginOp(t) PROVE NoLostWakeup'
  BY <1>0, <1>4 DEF BeginOp, Admitted, NoLostWakeup
<1>5. ASSUME NEW t \in Thread, EndOp(t) PROVE NoLostWakeup'
  <2>1. ~committing
    BY <1>5 DEF EndOp, IInv, Control, Active, InOp
  <2>2. outstanding = 1 => committing'
    BY <1>5, <2>1 DEF EndOp
  <2>3. outstanding # 1 => \A u \in Thread : pc'[u] # "asleep"
    BY <1>0, <1>5, <2>1 DEF EndOp, Wakeup
  <2> QED
    BY <1>5, <2>2, <2>3 DEF NoLostWakeup
<1>6. ASSUME NEW t \in Thread, CommitEnd(t) PROVE NoLostWakeup'
  BY <1>0, <1>6 DEF CommitEnd, Wakeup, NoLostWakeup
<1>7. ASSUME NEW t \in Thread, NEW b \in Block, NEW v \in Val, Modify(t, b, v)
      PROVE  NoLostWakeup'
  BY <1>0, <1>1, <1>7 DEF Modify
<1>8. ASSUME NEW b \in Block, Bread(b) \/ Bget(b) PROVE NoLostWakeup'
  BY <1>1, <1>8 DEF Bread, Bget
<1>9. CASE WriteLog \/ WriteHead \/ InstallTrans \/ EraseHead \/ ReadHead \/ UNCHANGED vars
  BY <1>1, <1>9 DEF WriteLog, WriteHead, InstallTrans, EraseHead, ReadHead, vars
<1>10. CASE Crash
  BY <1>10 DEF Crash, NoLostWakeup
<1> QED
  BY <1>2, <1>3, <1>4, <1>5, <1>6, <1>7, <1>8, <1>9, <1>10 DEF Next

(* The types; the log's length is what the reservations keep in bounds.    *)
LEMMA TypeStep ==
    ASSUME IInv, [Next]_vars, Reserved(LOGSIZE)', Control'
    PROVE  TypeOK'
<1> USE DEF diskVars, cacheVars, logVars, threadVars
<1>0. TypeOK /\ LOGSIZE \in Nat /\ Len(lh') <= LOGSIZE /\ Len(dhead') <= LOGSIZE
  BY LogAssumption DEF IInv, Reserved
<1>1. outstanding' \in Nat
  <2>1. IsFiniteSet(Active')
    BY FiniteAssumption, FS_Subset DEF Active
  <2> QED
    BY <2>1, FS_CardinalityType DEF Control
<1>2. dhead' \in Seq(Block) /\ lh' \in Seq(Block)
  <2>1. ASSUME NEW t \in Thread, LogWrite(t) PROVE dhead' \in Seq(Block) /\ lh' \in Seq(Block)
    BY <1>0, <2>1, LogWriteAppends DEF LogWrite, TypeOK
  <2>2. CASE WriteHead \/ EraseHead \/ Crash \/ ReadHead
    <3>1. <<>> \in Seq(Block) /\ lh \in Seq(Block) /\ dhead \in Seq(Block)
      BY <1>0, EmptySeq DEF TypeOK
    <3>2. lh' \in {lh, dhead, <<>>} /\ dhead' \in {lh, dhead, <<>>}
      BY <2>2 DEF WriteHead, EraseHead, Crash, ReadHead
    <3> QED
      BY <3>1, <3>2
  <2>3. CASE UNCHANGED <<dhead, lh>>
    BY <1>0, <2>3 DEF TypeOK
  <2> QED
    BY <2>1, <2>2, <2>3
    DEF Next, BeginCall, BeginOp, BeginSleep, KillWakes, LogWriteCheck, EndOp, CommitEnd,
        Modify, Bread, Bget, WriteLog, InstallTrans, vars
<1>3. home' \in [Block -> Val]
  <2>1. CASE InstallTrans
    BY <1>0, <2>1, Indices DEF InstallTrans, TypeOK
  <2> QED
    BY <1>0, <2>1
    DEF Next, TypeOK, BeginCall, BeginOp, BeginSleep, KillWakes, LogWriteCheck, LogWrite, EndOp,
        CommitEnd, Modify, Bread, Bget, WriteLog, WriteHead, EraseHead, Crash, ReadHead, vars
<1>4. dlog' \in [LogIndex -> Val]
  <2>1. CASE WriteLog
    <3>1. \A b \in Block : Buffer(b) \in Val
      BY <1>0 DEF TypeOK, Buffer
    <3> QED
      BY <1>0, <2>1, <3>1, Indices DEF WriteLog, TypeOK
  <2> QED
    BY <1>0, <2>1
    DEF Next, TypeOK, BeginCall, BeginOp, BeginSleep, KillWakes, LogWriteCheck, LogWrite, EndOp,
        CommitEnd, Modify, Bread, Bget, InstallTrans, WriteHead, EraseHead, Crash, ReadHead, vars
<1>5. cache' \in [Block -> Val \union {None}] /\ dirty' \subseteq Block
  <2>1. CASE InstallTrans
    BY <1>0, <2>1, Indices DEF InstallTrans, TypeOK
  <2>2. ASSUME NEW t \in Thread, LogWrite(t)
        PROVE  cache' \in [Block -> Val \union {None}] /\ dirty' \subseteq Block
    BY <1>0, <2>2, LogWriteAppends DEF LogWrite, TypeOK
  <2>3. ASSUME NEW b \in Block, Bread(b) \/ Bget(b) \/ \E t \in Thread, v \in Val : Modify(t, b, v)
        PROVE  cache' \in [Block -> Val \union {None}] /\ dirty' \subseteq Block
    <3>1. dirty' = dirty /\ \E x \in Val \union {None} : cache' = [cache EXCEPT ![b] = x]
      BY <1>0, <2>3 DEF Bread, Bget, Modify, TypeOK
    <3> QED
      BY <1>0, <3>1 DEF TypeOK
  <2>4. CASE UNCHANGED <<cache, dirty>>
    BY <1>0, <2>4 DEF TypeOK
  <2>5. CASE Crash
    <3>1. cache' = [b \in Block |-> None] /\ dirty' = {}
      BY <2>5 DEF Crash
    <3> QED
      BY <3>1
  <2> QED
    BY <2>1, <2>2, <2>3, <2>4, <2>5
    DEF Next, BeginCall, BeginOp, BeginSleep, KillWakes, LogWriteCheck, EndOp,
        CommitEnd, WriteLog, WriteHead, EraseHead, ReadHead, vars
<1>6. committing' \in BOOLEAN /\ phase' \in Phase
  BY <1>0
  DEF Next, TypeOK, Phase, BeginCall, BeginOp, BeginSleep, KillWakes, LogWriteCheck, LogWrite,
      EndOp, CommitEnd, Modify, Bread, Bget, WriteLog, WriteHead, InstallTrans, EraseHead, Crash,
      ReadHead, vars
<1>7. tail' \in 0 .. LOGSIZE
  <2>1. CASE WriteLog \/ InstallTrans
    <3>1. tail' = tail + 1 /\ tail < Len(lh)
      BY <2>1 DEF WriteLog, InstallTrans
    <3> QED
      BY <1>0, <3>1, Indices DEF TypeOK
  <2>2. CASE tail' = tail
    BY <1>0, <2>2 DEF TypeOK
  <2>3. CASE tail' = 0
    BY <1>0, <2>3
  <2> QED
    BY <2>1, <2>2, <2>3
    DEF Next, BeginCall, BeginOp, BeginSleep, KillWakes, LogWriteCheck, LogWrite, EndOp, CommitEnd,
        Modify, Bread, Bget, WriteHead, EraseHead, Crash, ReadHead, vars
<1>8. pc' \in [Thread -> Label]
  BY <1>0
  DEF Next, TypeOK, Label, Wakeup, BeginCall, BeginOp, BeginSleep, KillWakes, LogWriteCheck,
      LogWrite, EndOp, CommitEnd, Modify, Bread, Bget, WriteLog, WriteHead, InstallTrans, EraseHead,
      Crash, ReadHead, vars
<1>9. wb' \in [Thread -> Block \union {None}] /\ opw' \in [Thread -> SUBSET Block]
  <2>1. ASSUME NEW t \in Thread, LogWrite(t) \/ EndOp(t)
        PROVE  wb' \in [Thread -> Block \union {None}] /\ opw' \in [Thread -> SUBSET Block]
    BY <1>0, <2>1 DEF LogWrite, EndOp, TypeOK
  <2>2. ASSUME NEW t \in Thread, NEW b \in Block, NEW v \in Val, Modify(t, b, v)
        PROVE  wb' \in [Thread -> Block \union {None}] /\ opw' \in [Thread -> SUBSET Block]
    BY <1>0, <2>2 DEF Modify, TypeOK
  <2>3. CASE Crash
    BY <2>3 DEF Crash
  <2>4. CASE UNCHANGED <<wb, opw>>
    BY <1>0, <2>4 DEF TypeOK
  <2> QED
    BY <2>1, <2>2, <2>3, <2>4
    DEF Next, BeginCall, BeginOp, BeginSleep, KillWakes, LogWriteCheck, CommitEnd, Bread, Bget,
        WriteLog, WriteHead, InstallTrans, EraseHead, ReadHead, vars
<1> QED
  BY <1>0, <1>1, <1>2, <1>3, <1>4, <1>5, <1>6, <1>7, <1>8, <1>9 DEF TypeOK

(* A disk fresh from mkfs.                                                 *)
LEMMA InitInvariant == Init => IInv
<1> SUFFICES ASSUME Init PROVE IInv
  OBVIOUS
<1> USE LogAssumption DEF Init
<1>0. Active = {} /\ IsFiniteSet({}) /\ Cardinality({}) = 0
  BY FS_EmptySet DEF Active, InOp
<1>1. TypeOK
  <2>1. dlog \in [LogIndex -> Val]
    OBVIOUS
  <2>2. dhead \in Seq(Block) /\ lh \in Seq(Block) /\ Len(dhead) = 0 /\ Len(lh) = 0
    BY EmptySeq
  <2>3. pc \in [Thread -> Label] /\ phase \in Phase /\ tail \in 0 .. LOGSIZE
    BY DEF Label, Phase
  <2>4. cache \in [Block -> Val \union {None}] /\ wb \in [Thread -> Block \union {None}]
    OBVIOUS
  <2>5. opw \in [Thread -> SUBSET Block] /\ dirty \subseteq Block
    OBVIOUS
  <2>6. home \in [Block -> Val] /\ outstanding \in Nat /\ committing \in BOOLEAN
    OBVIOUS
  <2>7. Len(dhead) <= LOGSIZE /\ Len(lh) <= LOGSIZE
    BY <2>2
  <2> HIDE LogAssumption DEF Init
  <2> QED
    BY <2>1, <2>2, <2>3, <2>4, <2>5, <2>6, <2>7 DEF TypeOK
<1>2. Control
  BY <1>0 DEF Control, Recovering
<1>3. Locks
  BY <1>0 DEF Locks
<1>4. Headers
  BY DEF Headers, Distinct
<1>5. Pinned /\ Copied /\ NoLostWakeup
  BY DEF Pinned, Copied, NoLostWakeup
<1>6. Reserved(LOGSIZE)
  <2>1. Logged = {}
    BY DEF Logged, Written
  <2> QED
    BY <1>0, <2>1 DEF Reserved
<1> QED
  BY <1>1, <1>2, <1>3, <1>4, <1>5, <1>6 DEF IInv

(* The invariant holds throughout, crashes and recoveries included.        *)
LEMMA Invariant == Spec => []IInv
<1>1. IInv /\ [Next]_vars => IInv'
  <2> SUFFICES ASSUME IInv, [Next]_vars PROVE IInv'
    OBVIOUS
  <2>1. Reserved(LOGSIZE)'
    BY ReservedStep, LogsizeAdmits, LogAssumption DEF IInv
  <2>2. Control'
    BY ControlStep
  <2> QED
    BY <2>1, <2>2, TypeStep, LocksStep, HeadersStep, PinnedStep, CopiedStep, SleepersStep DEF IInv
<1> QED
  BY <1>1, InitInvariant, PTL DEF Spec

-----------------------------------------------------------------------------
(* What the invariant says                                                 *)

(* Every variable keeps its type: the log fits its arrays although         *)
(* log_write() tests for room without log.lock.                            *)
THEOREM LogTypeOK == Spec => []TypeOK
<1>1. IInv => TypeOK
  BY DEF IInv
<1> QED
  BY <1>1, Invariant, PTL

(* Whoever sleeps in begin_op() has a commit() or an operation to wake it. *)
THEOREM BeginOpIsWoken == Spec => []NoLostWakeup
<1>1. IInv => NoLostWakeup
  BY DEF IInv
<1> QED
  BY <1>1, Invariant, PTL

(* What recovery makes of homes hm, log blocks dl and a header dh.         *)
RecoveredOf(hm, dl, dh) ==
    [b \in Block |->
        LET S == {i \in 1 .. Len(dh) : dh[i] = b}
        IN IF S = {} THEN hm[b] ELSE dl[CHOOSE i \in S : \A j \in S : j <= i]]

(* A header with distinct entries: each of its blocks comes from the log,  *)
(* the others from their homes.                                            *)
LEMMA RecoveredAt ==
    ASSUME NEW hm, NEW dl, NEW dh \in Seq(Block), Distinct(dh)
    PROVE  /\ \A i \in 1 .. Len(dh) : RecoveredOf(hm, dl, dh)[dh[i]] = dl[i]
           /\ \A b \in Block : (\A i \in 1 .. Len(dh) : dh[i] # b) =>
                  RecoveredOf(hm, dl, dh)[b] = hm[b]
<1>1. ASSUME NEW k \in 1 .. Len(dh) PROVE RecoveredOf(hm, dl, dh)[dh[k]] = dl[k]
  <2> DEFINE S == {i \in 1 .. Len(dh) : dh[i] = dh[k]}
  <2>1. S = {k}
    BY DEF Distinct
  <2>2. (CHOOSE i \in S : \A j \in S : j <= i) = k
    BY <2>1
  <2>3. dh[k] \in Block
    BY ElementOfSeq
  <2>4. S # {}
    BY <2>1
  <2> QED
    BY <2>2, <2>3, <2>4 DEF RecoveredOf
<1>2. ASSUME NEW b \in Block, \A i \in 1 .. Len(dh) : dh[i] # b
      PROVE  RecoveredOf(hm, dl, dh)[b] = hm[b]
  BY <1>2 DEF RecoveredOf
<1> QED
  BY <1>1, <1>2

(* When nothing is active and no commit runs, the disk holds what readers  *)
(* see: an operation whose end_op() has returned survives a crash.         *)
THEOREM EndedOpsAreDurable == Spec => []QuiescentIsDurable
<1>1. IInv => QuiescentIsDurable
  <2> SUFFICES ASSUME IInv, Up, outstanding = 0, ~committing, NEW b \in Block
               PROVE  Buffer(b) = Recovered[b]
    BY DEF QuiescentIsDurable
  <2>1. Active = {} /\ phase = "idle"
    BY FS_Subset, FS_EmptySet, FiniteAssumption DEF Active, IInv, Control, Up, Recovering
  <2>2. lh = <<>> /\ dhead = <<>> /\ Len(lh) = 0
    BY <2>1, EmptySeq DEF IInv, Control, Headers
  <2>3. ~Locked(b) /\ b \notin dirty
    BY <2>1, <2>2, LogAssumption DEF IInv, Locks, Locked, Pinned
  <2>4. Buffer(b) = home[b]
    BY <2>3 DEF IInv, Pinned, Buffer
  <2>5. Recovered[b] = home[b]
    BY <2>2 DEF Recovered
  <2> QED
    BY <2>4, <2>5
<1> QED
  BY <1>1, Invariant, PTL

-----------------------------------------------------------------------------
(* An operation that stays one block under MAXOPBLOCKS                     *)

(* The hypothesis the code needs and param.h does not state: the region on *)
(* disk holds the header too.  With MAXOPBLOCKS 10, LOGSIZE 30 and 30      *)
(* blocks of log, operations of up to 9 blocks satisfy it.                 *)
OneBlockSpare ==
    OpBlocks < MAXOPBLOCKS /\ OpBlocks <= LOGSIZE - 2 /\ LOGSIZE <= NLOG

(* begin_op() then admits no more than LOGSIZE - 2 blocks.                 *)
LEMMA SpareAdmits == OneBlockSpare => Admits(LOGSIZE - 2)
<1> SUFFICES ASSUME OneBlockSpare, NEW n \in Nat, NEW o \in Nat,
                    n + (o + 1) * MAXOPBLOCKS <= LOGSIZE, o = 0 => n = 0
             PROVE  n + (o + 1) * OpBlocks <= LOGSIZE - 2
  BY DEF Admits
<1> USE LogAssumption DEF OneBlockSpare
<1>1. CASE o = 0
  BY <1>1
<1>2. CASE o # 0
  <2>1. (o + 1) * MAXOPBLOCKS >= (o + 1) * (OpBlocks + 1)
    OBVIOUS
  <2>2. (o + 1) * (OpBlocks + 1) = (o + 1) * OpBlocks + o + 1
    OBVIOUS
  <2>3. (o + 1) * OpBlocks \in Nat /\ (o + 1) * MAXOPBLOCKS \in Nat
    OBVIOUS
  <2> QED
    BY <1>2, <2>1, <2>2, <2>3
<1> QED
  BY <1>1, <1>2

(* With one block spare the log keeps two below LOGSIZE.                   *)
LEMMA SpareInvariant == OneBlockSpare => (Spec => [](IInv /\ Reserved(LOGSIZE - 2) /\ NoPanic))
<1> SUFFICES ASSUME OneBlockSpare
             PROVE  Spec => [](IInv /\ Reserved(LOGSIZE - 2) /\ NoPanic)
  OBVIOUS
<1>0. LOGSIZE - 2 \in Nat /\ LOGSIZE - 2 < NLOG - 1 /\ LOGSIZE - 2 < LOGSIZE
  BY LogAssumption DEF OneBlockSpare
<1>1. Init => Reserved(LOGSIZE - 2) /\ NoPanic
  <2> SUFFICES ASSUME Init PROVE Reserved(LOGSIZE - 2) /\ NoPanic
    OBVIOUS
  <2>1. Logged = {}
    BY DEF Logged, Written, Init
  <2>2. Cardinality(Logged) = 0 /\ Len(lh) = 0 /\ Len(dhead) = 0 /\ outstanding * OpBlocks = 0
    BY <2>1, FS_EmptySet, EmptySeq, LogAssumption DEF Init
  <2>3. NoPanic
    BY DEF Init, NoPanic
  <2> QED
    BY <1>0, <2>2, <2>3 DEF Reserved
<1>2. IInv /\ Reserved(LOGSIZE - 2) /\ NoPanic /\ [Next]_vars => Reserved(LOGSIZE - 2)' /\ NoPanic'
  <2> SUFFICES ASSUME IInv, Reserved(LOGSIZE - 2), NoPanic, [Next]_vars
               PROVE  Reserved(LOGSIZE - 2)' /\ NoPanic'
    OBVIOUS
  <2>1. Reserved(LOGSIZE - 2)'
    BY <1>0, SpareAdmits, ReservedStep
  <2>2. pc \in [Thread -> Label] /\ NoPanic /\ outstanding \in Nat
    BY DEF IInv, TypeOK
  <2>3. ASSUME NEW t \in Thread, LogWriteCheck(t) PROVE NoPanic'
    <3>1. ~TooBig
      BY <1>0, LogAssumption DEF TooBig, Reserved, IInv, TypeOK
    <3>2. Active # {} /\ IsFiniteSet(Active)
      BY <2>3, FS_Subset, FiniteAssumption DEF LogWriteCheck, Active, InOp
    <3>3. outstanding >= 1
      BY <2>2, <3>2, FS_EmptySet DEF IInv, Control
    <3> QED
      BY <2>2, <2>3, <3>1, <3>3 DEF LogWriteCheck, NoPanic
  <2>4. ASSUME NEW t \in Thread, EndOp(t) PROVE NoPanic'
    <3>1. ~committing
      BY <2>4 DEF EndOp, IInv, Control, Active, InOp
    <3> QED
      BY <2>2, <2>4, <3>1 DEF EndOp, Wakeup, NoPanic
  <2>5. ASSUME NEW t \in Thread,
               BeginCall(t) \/ BeginOp(t) \/ BeginSleep(t) \/ KillWakes(t) \/ LogWrite(t)
               \/ CommitEnd(t) \/ \E b \in Block, v \in Val : Modify(t, b, v)
        PROVE  NoPanic'
    BY <2>2, <2>5
    DEF BeginCall, BeginOp, BeginSleep, KillWakes, LogWrite, CommitEnd, Modify, Wakeup, NoPanic
  <2>6. ASSUME pc' = pc PROVE NoPanic'
    BY <2>2, <2>6 DEF NoPanic
  <2>7. ASSUME Crash PROVE NoPanic'
    BY <2>7 DEF Crash, NoPanic
  <2>8. NoPanic'
    BY <2>3, <2>4, <2>5, <2>6, <2>7
    DEF Next, Bread, Bget, WriteLog, WriteHead, InstallTrans, EraseHead, ReadHead, vars, threadVars
  <2> QED
    BY <2>1, <2>8
<1> QED
  BY <1>1, <1>2, Invariant, PTL DEF Spec

(* log_write() and end_op() do not panic when every operation stays one    *)
(* block under MAXOPBLOCKS.                                                *)
THEOREM LogNeverPanics == OneBlockSpare => (Spec => []NoPanic)
BY SpareInvariant, PTL

(* Nor do two threads that pass log_write()'s unlocked check together run  *)
(* past the log region; run log_full shows that they do without that.      *)
THEOREM LogStaysInRegion == OneBlockSpare => (Spec => []LogFits)
<1> SUFFICES ASSUME OneBlockSpare PROVE Spec => []LogFits
  OBVIOUS
<1>1. IInv /\ Reserved(LOGSIZE - 2) /\ NoPanic => LogFits
  BY LogAssumption DEF OneBlockSpare, IInv, TypeOK, Reserved, LogFits
<1> QED
  BY <1>1, SpareInvariant, PTL

-----------------------------------------------------------------------------
(* The log implements the atomic disk                                      *)

(* What readers see, as the refinement maps it.                            *)
Mem == IF Recovering THEN Recovered ELSE [b \in Block |-> Buffer(b)]

(* Recovered as a function of the disk.                                    *)
LEMMA RecoveredIs ==
    /\ Recovered = RecoveredOf(home, dlog, dhead)
    /\ Recovered' = RecoveredOf(home', dlog', dhead')
    /\ DOMAIN Recovered = Block /\ DOMAIN Recovered' = Block
BY DEF Recovered, RecoveredOf

(* The disk's own facts before a step.                                     *)
LEMMA DiskFacts ==
    ASSUME IInv
    PROVE  /\ home \in [Block -> Val] /\ dlog \in [LogIndex -> Val]
           /\ dhead \in Seq(Block) /\ Distinct(dhead) /\ Len(dhead) \in Nat
           /\ lh \in Seq(Block) /\ Distinct(lh) /\ Len(lh) \in Nat
           /\ cache \in [Block -> Val \union {None}] /\ None \notin Val
BY LogAssumption DEF IInv, TypeOK, Headers

(* Steps that touch neither the disk nor the buffers.                      *)
LEMMA MemFrame ==
    ASSUME UNCHANGED <<home, dlog, dhead, cache>>, Recovering' = Recovering
    PROVE  Mem' = Mem /\ Recovered' = Recovered
BY DEF Mem, Recovered, Buffer

(* With n = 0 in the header the disk is the homes.                         *)
LEMMA RecoveredEmpty ==
    ASSUME NEW hm \in [Block -> Val], NEW dl
    PROVE  RecoveredOf(hm, dl, <<>>) = hm
BY DEF RecoveredOf

(* Moving buffers in and out of the cache changes nothing.                 *)
LEMMA CacheMovesMap ==
    ASSUME IInv, NEW d \in Block, Bread(d) \/ Bget(d)
    PROVE  Mem' = Mem /\ Recovered' = Recovered /\ pc' = pc
<1>1. UNCHANGED <<home, dlog, dhead, phase, committing, pc>>
  BY DEF Bread, Bget, diskVars, logVars, threadVars
<1>2. \A b \in Block : Buffer(b)' = Buffer(b)
  BY CacheMoves
<1>3. Recovered' = Recovered
  BY <1>1 DEF Recovered
<1>4. [b \in Block |-> Buffer(b)]' = [b \in Block |-> Buffer(b)]
  BY <1>2
<1> QED
  BY <1>1, <1>3, <1>4 DEF Mem, Recovering

(* write_log() writes where no header points.                              *)
LEMMA WriteLogMap ==
    ASSUME IInv, WriteLog
    PROVE  Mem' = Mem /\ Recovered' = Recovered /\ pc' = pc
<1>1. UNCHANGED <<home, dhead, cache, phase, committing, pc>> /\ dhead = <<>>
  BY DEF WriteLog, cacheVars, logVars, threadVars, IInv, Headers
<1>2. Recovered' = home /\ Recovered = home
  BY <1>1, RecoveredIs, RecoveredEmpty, DiskFacts
<1> QED
  BY <1>1, <1>2 DEF Mem, Recovering, Buffer

(* write_head() commits: what readers see becomes durable.                 *)
LEMMA WriteHeadMap ==
    ASSUME IInv, WriteHead
    PROVE  Mem' = Mem /\ Recovered' = Mem /\ Active = {} /\ pc' = pc
<1>1. /\ UNCHANGED <<home, dlog, cache, committing, pc>> /\ dhead' = lh
      /\ phase = "write_log" /\ phase' = "install" /\ tail = Len(lh)
  BY DEF WriteHead, cacheVars, logVars, threadVars
<1>2. committing /\ Active = {} /\ ~Recovering /\ ~Recovering'
  BY <1>1 DEF IInv, Control, Recovering
<1>3. Mem' = Mem /\ Mem = [b \in Block |-> Buffer(b)]
  BY <1>1, <1>2 DEF Mem, Buffer
<1>4. ASSUME NEW b \in Block PROVE Recovered'[b] = Buffer(b)
  <2>1. CASE \E i \in 1 .. Len(lh) : lh[i] = b
    <3>1. PICK i \in 1 .. Len(lh) : lh[i] = b
      BY <2>1
    <3>2. Recovered'[lh[i]] = dlog[i]
      BY <1>1, RecoveredIs, RecoveredAt, DiskFacts
    <3>3. dlog[i] = Buffer(lh[i])
      BY <1>1, Indices DEF IInv, Copied
    <3> QED
      BY <3>1, <3>2, <3>3
  <2>2. CASE ~\E i \in 1 .. Len(lh) : lh[i] = b
    <3>1. Recovered'[b] = home[b]
      BY <1>1, <2>2, RecoveredIs, RecoveredAt, DiskFacts
    <3>2. Buffer(b) = home[b]
      BY <1>2, <2>2, NoLocks DEF IInv, Pinned, Buffer
    <3> QED
      BY <3>1, <3>2
  <2> QED
    BY <2>1, <2>2
<1>5. Recovered' = [b \in Block |-> Buffer(b)]
  BY <1>4, RecoveredIs DEF RecoveredOf
<1> QED
  BY <1>1, <1>2, <1>3, <1>5

(* install_trans() writes to a home the header overrides, what is already  *)
(* in the buffer.                                                          *)
LEMMA InstallMap ==
    ASSUME IInv, InstallTrans
    PROVE  Mem' = Mem /\ Recovered' = Recovered /\ pc' = pc
<1>1. PICK d \in Block : d = lh[tail + 1]
  BY Indices DEF InstallTrans
<1>2. /\ home' = [home EXCEPT ![d] = dlog[tail + 1]]
      /\ cache' = [cache EXCEPT ![d] = dlog[tail + 1]]
      /\ UNCHANGED <<dlog, dhead, phase, committing, pc>> /\ phase = "install"
      /\ tail + 1 \in 1 .. Len(lh) /\ dhead = lh
  BY <1>1, Indices DEF InstallTrans, logVars, threadVars, IInv, Headers
<1>3. ASSUME NEW b \in Block PROVE Recovered'[b] = Recovered[b]
  <2>1. CASE \E i \in 1 .. Len(dhead) : dhead[i] = b
    BY <1>2, <2>1, RecoveredIs, RecoveredAt, DiskFacts
  <2>2. CASE ~\E i \in 1 .. Len(dhead) : dhead[i] = b
    <3>1. RecoveredOf(home', dlog, dhead)[b] = home'[b]
      BY <2>2, RecoveredAt, DiskFacts
    <3>3. RecoveredOf(home, dlog, dhead)[b] = home[b]
      BY <2>2, RecoveredAt, DiskFacts
    <3>2. b # d
      BY <1>1, <1>2, <2>2
    <3> QED
      BY <1>2, <3>1, <3>2, <3>3, RecoveredIs, DiskFacts
  <2> QED
    BY <2>1, <2>2
<1>4. Recovered' = Recovered
  BY <1>3, RecoveredIs DEF RecoveredOf
<1>5. ~Recovering => \A b \in Block : Buffer(b)' = Buffer(b)
  <2> SUFFICES ASSUME ~Recovering, NEW b \in Block PROVE Buffer(b)' = Buffer(b)
    OBVIOUS
  <2>1. committing
    BY <1>2 DEF Recovering
  <2>2. Buffer(d) = dlog[tail + 1] /\ dlog[tail + 1] # None
    BY <1>1, <1>2, <2>1, Indices, DiskFacts DEF IInv, Copied
  <2> QED
    BY <1>2, <2>2, DiskFacts DEF Buffer
<1>6. ~Recovering => [b \in Block |-> Buffer(b)]' = [b \in Block |-> Buffer(b)]
  BY <1>5
<1> QED
  BY <1>2, <1>4, <1>6 DEF Mem, Recovering

(* Erasing the header changes nothing any more; after a recovery it lets   *)
(* the readers in.                                                         *)
LEMMA EraseHeadMap ==
    ASSUME IInv, EraseHead
    PROVE  Mem' = Mem /\ Recovered' = Recovered /\ pc' = pc
<1>1. /\ UNCHANGED <<home, dlog, cache, committing, pc>> /\ dhead' = <<>>
      /\ phase = "install" /\ tail = Len(lh) /\ dhead = lh
      /\ phase' = IF committing THEN "done" ELSE "idle"
  BY DEF EraseHead, cacheVars, logVars, threadVars, IInv, Headers
<1>2. Recovered' = home
  BY <1>1, RecoveredIs, RecoveredEmpty, DiskFacts
<1>3. ASSUME NEW b \in Block PROVE Recovered[b] = home[b]
  <2>1. CASE \E i \in 1 .. Len(lh) : lh[i] = b
    <3>1. PICK i \in 1 .. Len(lh) : lh[i] = b
      BY <2>1
    <3>2. Recovered[lh[i]] = dlog[i]
      BY <1>1, RecoveredIs, RecoveredAt, DiskFacts
    <3>3. dlog[i] = home[lh[i]]
      BY <1>1, Indices DEF IInv, Copied
    <3> QED
      BY <3>1, <3>2, <3>3
  <2>2. CASE ~\E i \in 1 .. Len(lh) : lh[i] = b
    BY <1>1, <2>2, RecoveredIs, RecoveredAt, DiskFacts
  <2> QED
    BY <2>1, <2>2
<1>4. Recovered = home
  BY <1>3, RecoveredIs, DiskFacts DEF RecoveredOf
<1>5. dirty = {} /\ \A b \in Block : ~Locked(b)
  <2>1. committing \/ Recovering
    BY <1>1 DEF Recovering
  <2> QED
    BY <1>1, <2>1, NoLocks, Indices DEF IInv, Pinned, TypeOK
<1>6. \A b \in Block : Buffer(b) = home[b]
  BY <1>5 DEF IInv, Pinned, Buffer
<1>7. [b \in Block |-> Buffer(b)] = home
  BY <1>6, DiskFacts
<1>8. [b \in Block |-> Buffer(b)]' = home
  BY <1>1, <1>7 DEF Buffer
<1>9. Mem' = home
  BY <1>1, <1>8 DEF Mem, Recovering
<1>10. Mem = home
  BY <1>4, <1>7 DEF Mem
<1> QED
  BY <1>1, <1>2, <1>4, <1>9, <1>10

(* A crash leaves what is durable; readers see it after the recovery.      *)
LEMMA CrashMap ==
    ASSUME Crash
    PROVE  Mem' = Recovered /\ Recovered' = Recovered /\ Active' = {}
BY DEF Crash, Mem, Recovering, Recovered, diskVars, Active, InOp

(* A buffer that an operation modifies is a write readers see at once.     *)
LEMMA ModifyMap ==
    ASSUME IInv, NEW t \in Thread, NEW d \in Block, NEW v \in Val, Modify(t, d, v)
    PROVE  Mem' = [Mem EXCEPT ![d] = v] /\ Recovered' = Recovered /\ Active' = Active /\ t \in Active
<1>1. /\ UNCHANGED <<home, dlog, dhead, phase, committing>> /\ cache' = [cache EXCEPT ![d] = v]
      /\ ~Recovering
  BY DEF Modify, diskVars, logVars, Up
<1>2. \A b \in Block : Buffer(b)' = IF b = d THEN v ELSE Buffer(b)
  BY <1>1, DiskFacts DEF Buffer
<1>3. Recovered' = Recovered
  BY <1>1 DEF Recovered
<1>4. Mem = [b \in Block |-> Buffer(b)] /\ Mem' = [b \in Block |-> Buffer(b)]'
  BY <1>1 DEF Mem, Recovering
<1>5. Mem' = [Mem EXCEPT ![d] = v]
  BY <1>2, <1>4
<1>6. Active' = Active /\ t \in Active
  BY DEF Modify, Active, InOp, IInv, TypeOK
<1> QED
  BY <1>3, <1>5, <1>6

(* The write-ahead log implements the atomic disk: operations become       *)
(* durable all together, at write_head(), while none is active, and a      *)
(* crash at any disk write leaves the last such state, also a crash in the *)
(* middle of the recovery.                                                 *)
THEOREM LogIsAtomicDisk == Spec => ImplementsAtomicDisk
<1>1. Init => AD!ADInit
  <2> SUFFICES ASSUME Init PROVE AD!ADInit
    OBVIOUS
  <2>1. Recovered = home /\ Recovering
    BY RecoveredIs, RecoveredEmpty DEF Init, Recovering
  <2>2. Active = {}
    BY DEF Init, Active, InOp
  <2> QED
    BY <2>1, <2>2 DEF Init, AD!ADInit, Active
<1>2. IInv /\ [Next]_vars => [AD!ADNext]_(AD!advars)
  <2> SUFFICES ASSUME IInv, [Next]_vars PROVE [AD!ADNext]_(AD!advars)
    OBVIOUS
  <2>1. ASSUME Mem' = Mem, Recovered' = Recovered, Active' = Active
        PROVE  UNCHANGED AD!advars
    BY <2>1 DEF AD!advars, Mem, Active
  <2>2. ASSUME UNCHANGED <<diskVars, cache, phase, committing>>
        PROVE  Mem' = Mem /\ Recovered' = Recovered
    BY <2>2, MemFrame DEF diskVars, Recovering
  <2>3. ASSUME NEW t \in Thread, BeginCall(t) \/ BeginSleep(t) \/ KillWakes(t)
                                 \/ LogWriteCheck(t) \/ LogWrite(t)
        PROVE  UNCHANGED AD!advars
    <3>1. Active' = Active
      BY <2>3 DEF BeginCall, BeginSleep, KillWakes, LogWriteCheck, LogWrite, Active, InOp, IInv,
                  TypeOK
    <3>2. UNCHANGED <<diskVars, cache, phase, committing>>
      BY <2>3 DEF BeginCall, BeginSleep, KillWakes, LogWriteCheck, LogWrite, cacheVars, logVars
    <3> QED
      BY <2>1, <2>2, <3>1, <3>2
  <2>4. ASSUME NEW t \in Thread, CommitEnd(t) PROVE UNCHANGED AD!advars
    <3>1. Active' = Active
      BY <2>4 DEF CommitEnd, Wakeup, Active, InOp, IInv, TypeOK
    <3>2. UNCHANGED <<home, dlog, dhead, cache>> /\ Recovering' = Recovering
      BY <2>4 DEF CommitEnd, Up, Recovering, diskVars, cacheVars
    <3> QED
      BY <2>1, <3>1, <3>2, MemFrame
  <2>5. ASSUME NEW t \in Thread, BeginOp(t) PROVE AD!ADNext
    <3>1. Active' = Active \union {t} /\ t \notin Active
      BY <2>5 DEF BeginOp, Active, InOp, IInv, TypeOK
    <3>2. Mem' = Mem /\ Recovered' = Recovered
      BY <2>2, <2>5 DEF BeginOp, cacheVars
    <3>3. AD!ADBegin(t)
      BY <3>1, <3>2 DEF AD!ADBegin, Mem, Active
    <3> QED
      BY <3>3 DEF AD!ADNext
  <2>6. ASSUME NEW t \in Thread, EndOp(t) PROVE AD!ADNext
    <3>1. ~committing /\ phase = "idle" /\ t \in Active
      BY <2>6 DEF EndOp, IInv, Control, Active, InOp, Up, Recovering
    <3>2. Active' = Active \ {t}
      BY <2>6, <3>1 DEF EndOp, Wakeup, Active, InOp, IInv, TypeOK
    <3>3. UNCHANGED <<home, dlog, dhead, cache>> /\ Recovering' = Recovering
      BY <2>6, <3>1 DEF EndOp, Recovering, diskVars, cacheVars
    <3>4. AD!ADEnd(t)
      BY <3>1, <3>2, <3>3, MemFrame DEF AD!ADEnd, Mem, Active
    <3> QED
      BY <3>4 DEF AD!ADNext
  <2>7. ASSUME NEW t \in Thread, NEW d \in Block, NEW v \in Val, Modify(t, d, v) PROVE AD!ADNext
    <3>1. AD!ADWrite(t, d, v)
      BY <2>7, ModifyMap DEF AD!ADWrite, Mem, Active
    <3> QED
      BY <3>1 DEF AD!ADNext
  <2>8. ASSUME NEW d \in Block, Bread(d) \/ Bget(d) PROVE UNCHANGED AD!advars
    BY <2>1, <2>8, CacheMovesMap DEF Active
  <2>9. ASSUME WriteLog \/ InstallTrans \/ EraseHead PROVE UNCHANGED AD!advars
    BY <2>1, <2>9, WriteLogMap, InstallMap, EraseHeadMap DEF Active
  <2>10. ASSUME WriteHead PROVE AD!ADNext
    <3>1. Mem' = Mem /\ Recovered' = Mem /\ Active = {} /\ Active' = {}
      BY <2>10, WriteHeadMap DEF Active
    <3>2. AD!ADCommit
      BY <3>1 DEF AD!ADCommit, Mem, Active
    <3> QED
      BY <3>2 DEF AD!ADNext
  <2>11. ASSUME Crash PROVE AD!ADNext
    <3>1. AD!ADCrash
      BY <2>11, CrashMap DEF AD!ADCrash, Mem, Active
    <3> QED
      BY <3>1 DEF AD!ADNext
  <2>12. ASSUME ReadHead PROVE UNCHANGED AD!advars
    <3>1. UNCHANGED <<home, dlog, dhead, cache, pc>> /\ Recovering' = Recovering
      BY <2>12 DEF ReadHead, Recovering, IInv, Control, diskVars, cacheVars, logVars, threadVars
    <3> QED
      BY <2>1, <3>1, MemFrame DEF Active
  <2>13. ASSUME UNCHANGED vars PROVE UNCHANGED AD!advars
    BY <2>1, <2>2, <2>13 DEF vars, diskVars, cacheVars, logVars, threadVars, Active
  <2> QED
    BY <2>3, <2>4, <2>5, <2>6, <2>7, <2>8, <2>9, <2>10, <2>11, <2>12, <2>13 DEF Next
<1> QED
  BY <1>1, <1>2, Invariant, PTL DEF Spec, ImplementsAtomicDisk, AD!ADSpec
=============================================================================
