------------------------------ MODULE BioProofs ------------------------------
(***************************************************************************)
(* The buffer cache and the IDE queue for any sets of threads, buffers,    *)
(* blocks and contents: a block has one buffer, which stays while somebody *)
(* refers to it, the disk works on the head of its queue, no sleeper of    *)
(* iderw() is forgotten, and caching changes no block.                     *)
(***************************************************************************)
EXTENDS Bio, FiniteSetTheorems, SequenceTheorems, TLAPS

-----------------------------------------------------------------------------
(* Lists of buffers                                                        *)

(* A member of a list is a buffer, at some place of it.                    *)
LEMMA Place ==
    ASSUME NEW s \in Seq(Buf), NEW b \in ToSet(s)
    PROVE  b \in Buf /\ \E i \in 1 .. Len(s) : s[i] = b
BY DEF ToSet

(* Append adds the buffer to the members, at one place if it is new.       *)
LEMMA AppendMembers ==
    ASSUME NEW s \in Seq(Buf), NEW b \in Buf
    PROVE  /\ Append(s, b) \in Seq(Buf)
           /\ ToSet(Append(s, b)) = ToSet(s) \union {b}
           /\ IsInjective(s) /\ b \notin ToSet(s) => IsInjective(Append(s, b))
           /\ s # <<>> => Head(Append(s, b)) = Head(s)
           /\ Head(<<b>>) = b /\ Append(<<>>, b) = <<b>>
<1>1. Append(s, b) \in Seq(Buf) /\ Len(Append(s, b)) = Len(s) + 1 /\ Len(s) \in Nat
  OBVIOUS
<1>2. \A i \in 1 .. Len(s) + 1 : Append(s, b)[i] = IF i = Len(s) + 1 THEN b ELSE s[i]
  OBVIOUS
<1>3. DOMAIN s = 1 .. Len(s) /\ DOMAIN Append(s, b) = 1 .. Len(s) + 1
  OBVIOUS
<1>4. ToSet(Append(s, b)) = ToSet(s) \union {b}
  BY <1>1, <1>2, <1>3 DEF ToSet
<1>5. IsInjective(s) /\ b \notin ToSet(s) => IsInjective(Append(s, b))
  BY <1>1, <1>2, <1>3 DEF ToSet, IsInjective
<1>6. s # <<>> => Head(Append(s, b)) = Head(s)
  BY <1>1, <1>2
<1> QED
  BY <1>1, <1>4, <1>5, <1>6

(* Tail takes the head out of the members, and it is there no more.        *)
LEMMA TailMembers ==
    ASSUME NEW s \in Seq(Buf), s # <<>>, IsInjective(s)
    PROVE  /\ Head(s) \in ToSet(s) /\ Head(s) \in Buf
           /\ Tail(s) \in Seq(Buf) /\ IsInjective(Tail(s))
           /\ ToSet(Tail(s)) = ToSet(s) \ {Head(s)}
<1>1. Tail(s) \in Seq(Buf) /\ Len(Tail(s)) = Len(s) - 1 /\ Len(s) \in Nat \ {0} /\ Head(s) = s[1]
  OBVIOUS
<1>2. \A i \in 1 .. Len(s) - 1 : Tail(s)[i] = s[i + 1]
  OBVIOUS
<1>3. DOMAIN s = 1 .. Len(s) /\ DOMAIN Tail(s) = 1 .. Len(s) - 1
  BY <1>1
<1>4. Head(s) \in ToSet(s) /\ Head(s) \in Buf
  BY <1>1, <1>3 DEF ToSet
<1>5. IsInjective(Tail(s))
  BY <1>1, <1>2, <1>3 DEF IsInjective
<1>6. ASSUME NEW x \in ToSet(s), x # Head(s) PROVE x \in ToSet(Tail(s))
  <2>1. PICK i \in 1 .. Len(s) : s[i] = x
    BY <1>3 DEF ToSet
  <2>2. i - 1 \in 1 .. Len(s) - 1 /\ Tail(s)[i - 1] = x
    BY <1>1, <1>2, <1>6, <2>1
  <2> QED
    BY <1>3, <2>2 DEF ToSet
<1>7. ASSUME NEW x \in ToSet(Tail(s)) PROVE x \in ToSet(s) /\ x # Head(s)
  <2>1. PICK i \in 1 .. Len(s) - 1 : Tail(s)[i] = x
    BY <1>3 DEF ToSet
  <2>2. i + 1 \in 1 .. Len(s) /\ s[i + 1] = x /\ i + 1 # 1
    BY <1>1, <1>2, <2>1
  <2> QED
    BY <1>1, <1>3, <2>2 DEF ToSet, IsInjective
<1> QED
  BY <1>1, <1>4, <1>5, <1>6, <1>7

(* The members of a nonempty list are there, of an empty one not.          *)
LEMMA EmptyMembers == ToSet(<<>>) = {} /\ IsInjective(<<>>)
BY DEF ToSet, IsInjective

(* binit() links every buffer into the list, once.                         *)
LEMMA InitialList == SetToSeq(Buf) \in Seq(Buf) /\ IsInjective(SetToSeq(Buf)) /\ ToSet(SetToSeq(Buf)) = Buf
<1> DEFINE n == Cardinality(Buf)
           f == SetToSeq(Buf)
<1>1. n \in Nat /\ ExistsBijection(1 .. n, Buf)
  BY BioAssumption, FS_CardinalityType
<1>2. \E g \in [1 .. n -> Buf] : IsInjective(g)
  BY <1>1 DEF ExistsBijection, Bijection, Injection
<1>3. f \in [1 .. n -> Buf] /\ IsInjective(f)
  BY <1>2 DEF SetToSeq
<1> HIDE DEF n, f
<1>4. IsFiniteSet(1 .. n) /\ Cardinality(1 .. n) = n
  BY <1>1, FS_Interval
<1>5. f \in Surjection(1 .. n, Buf)
  BY <1>3, <1>4, FS_Injection, BioAssumption DEF Injection, n
<1>6. ToSet(f) = Buf
  BY <1>3, <1>5 DEF Surjection, ToSet
<1>7. f \in Seq(Buf)
  BY <1>1, <1>3
<1> QED
  BY <1>3, <1>6, <1>7 DEF f

(* brelse() relinks a buffer: the list has the same members, once each.    *)
LEMMA MoveToHeadMembers ==
    ASSUME lru \in Seq(Buf), IsInjective(lru), ToSet(lru) = Buf, NEW b \in Buf
    PROVE  MoveToHead(b) \in Seq(Buf) /\ IsInjective(MoveToHead(b)) /\ ToSet(MoveToHead(b)) = Buf
<1> DEFINE n == Len(lru)
           i == CHOOSE j \in 1 .. Len(lru) : lru[j] = b
           q == MoveToHead(b)
           l == SubSeq(lru, 1, i - 1)
           r == SubSeq(lru, i + 1, n)
<1>1. i \in 1 .. n /\ lru[i] = b /\ n \in Nat /\ DOMAIN lru = 1 .. n
  BY Place
<1>2. q = <<b>> \o (l \o r)
  BY DEF MoveToHead, RemoveAt
<1> HIDE DEF i, q
<1>3. /\ l \in Seq(Buf) /\ Len(l) = i - 1
      /\ \A j \in 1 .. i - 1 : l[j] = lru[j]
  BY <1>1
<1>4. /\ r \in Seq(Buf) /\ Len(r) = n - i
      /\ \A j \in 1 .. n - i : r[j] = lru[i + j]
  <2>1. i + 1 \in Int /\ n \in Int /\ \A j \in i + 1 .. n : lru[j] \in Buf
    BY <1>1
  <2> HIDE DEF n
  <2>2. /\ r \in Seq(Buf) /\ Len(r) = IF i + 1 <= n THEN n - (i + 1) + 1 ELSE 0
        /\ \A j \in 1 .. n - (i + 1) + 1 : r[j] = lru[(i + 1) + j - 1]
    BY <2>1, SubSeqProperties
  <2> HIDE DEF r
  <2>3. n - (i + 1) + 1 = n - i /\ \A j \in 1 .. n - i : (i + 1) + j - 1 = i + j
    BY <1>1
  <2> QED
    BY <1>1, <2>2, <2>3
<1> HIDE DEF n, l, r
<1>5. /\ l \o r \in Seq(Buf) /\ Len(l \o r) = n - 1
      /\ \A j \in 1 .. n - 1 : (l \o r)[j] = IF j < i THEN lru[j] ELSE lru[j + 1]
  <2>1. l \o r \in Seq(Buf) /\ Len(l \o r) = n - 1
    <3>1. l \o r \in Seq(Buf) /\ Len(l \o r) = Len(l) + Len(r)
      BY <1>3, <1>4, ConcatProperties
    <3> QED
      BY <1>1, <1>3, <1>4, <3>1
  <2>2. ASSUME NEW j \in 1 .. n - 1, j < i PROVE (l \o r)[j] = lru[j]
    BY <1>1, <1>3, <1>4, <2>2
  <2>3. ASSUME NEW j \in 1 .. n - 1, ~(j < i) PROVE (l \o r)[j] = lru[j + 1]
    <3>1. (l \o r)[j] = r[j - (i - 1)]
      BY <1>1, <1>3, <1>4, <2>3
    <3>2. j - (i - 1) \in 1 .. n - i /\ i + (j - (i - 1)) = j + 1
      BY <1>1, <2>3
    <3> QED
      BY <1>4, <3>1, <3>2
  <2> QED
    BY <2>1, <2>2, <2>3
<1>6. /\ q \in Seq(Buf) /\ Len(q) = n /\ DOMAIN q = 1 .. n /\ q[1] = b
      /\ \A j \in 2 .. n : q[j] = (l \o r)[j - 1]
  BY <1>1, <1>2, <1>5
<1>7. \A j \in 2 .. n : q[j] = IF j <= i THEN lru[j - 1] ELSE lru[j]
  <2> TAKE j \in 2 .. n
  <2>1. j - 1 \in 1 .. n - 1 /\ (j - 1) + 1 = j /\ (j - 1 < i <=> j <= i)
    BY <1>1
  <2> QED
    BY <1>5, <1>6, <2>1
<1>8. IsInjective(q)
  <2> SUFFICES ASSUME NEW j \in 1 .. n, NEW k \in 1 .. n, q[j] = q[k] PROVE j = k
    BY <1>6 DEF IsInjective
  <2>1. \A x, y \in 1 .. n : lru[x] = lru[y] => x = y
    BY <1>1 DEF IsInjective
  <2>2. \A x \in 2 .. n : \E y \in 1 .. n \ {i} : q[x] = lru[y] /\ y = IF x <= i THEN x - 1 ELSE x
    BY <1>1, <1>7
  <2>3. \A x \in 2 .. n : q[x] # b
    BY <1>1, <2>1, <2>2
  <2>4. CASE j = 1 \/ k = 1
    BY <1>6, <2>3, <2>4
  <2>5. CASE j # 1 /\ k # 1
    <3>1. PICK x \in 1 .. n \ {i} : q[j] = lru[x] /\ x = IF j <= i THEN j - 1 ELSE j
      BY <2>2, <2>5
    <3>2. PICK y \in 1 .. n \ {i} : q[k] = lru[y] /\ y = IF k <= i THEN k - 1 ELSE k
      BY <2>2, <2>5
    <3>3. x = y
      BY <2>1, <3>1, <3>2
    <3> QED
      BY <1>1, <3>1, <3>2, <3>3
  <2> QED
    BY <2>4, <2>5
<1>9. ASSUME NEW d \in Buf PROVE d \in ToSet(q)
  <2>1. PICK j \in 1 .. n : lru[j] = d
    BY <1>1 DEF ToSet
  <2>2. CASE j = i
    <3>1. 1 \in DOMAIN q /\ q[1] = d
      BY <1>1, <1>6, <2>1, <2>2
    <3> QED
      BY <3>1 DEF ToSet
  <2>3. CASE j < i
    <3>1. j + 1 \in 2 .. n /\ j + 1 <= i /\ q[j + 1] = d
      BY <1>1, <1>7, <2>1, <2>3
    <3>2. j + 1 \in 1 .. n
      BY <1>1, <3>1
    <3> QED
      BY <1>6, <3>1, <3>2 DEF ToSet
  <2>4. CASE j > i
    <3>1. j \in 2 .. n /\ q[j] = d
      BY <1>1, <1>7, <2>1, <2>4
    <3> QED
      BY <1>6, <2>1, <3>1 DEF ToSet
  <2> QED
    BY <1>1, <2>2, <2>3, <2>4
<1>10. ToSet(q) \subseteq Buf
  BY <1>6 DEF ToSet
<1> QED
  BY <1>6, <1>8, <1>9, <1>10 DEF q

-----------------------------------------------------------------------------
(* Reference counts                                                        *)

(* The threads that refer to a buffer are finitely many.                   *)
LEMMA RefsFinite ==
    ASSUME NEW b
    PROVE  LET R == {t \in Thread : buf[t] = b}
           IN  IsFiniteSet(R) /\ Cardinality(R) \in Nat /\ (Cardinality(R) = 0 <=> R = {})
<1>1. {t \in Thread : buf[t] = b} \in SUBSET Thread
  OBVIOUS
<1>2. IsFiniteSet({t \in Thread : buf[t] = b})
  BY <1>1, FS_Subset, BioAssumption
<1> QED
  BY <1>2, FS_CardinalityType, FS_EmptySet

(* A buffer a thread refers to is counted, and one of count 0 is nobody's. *)
LEMMA Referenced ==
    ASSUME Counted, NEW t \in Thread, buf[t] \in Buf
    PROVE  refcnt[buf[t]] \in Nat /\ refcnt[buf[t]] > 0
<1> DEFINE R == {u \in Thread : buf[u] = buf[t]}
<1>1. R # {}
  OBVIOUS
<1>2. refcnt[buf[t]] = Cardinality(R)
  BY DEF Counted
<1>3. Cardinality(R) \in Nat /\ Cardinality(R) # 0
  BY <1>1, RefsFinite
<1> QED
  BY <1>2, <1>3

(* bget() counts the reference it hands out.                               *)
LEMMA CountedBget ==
    ASSUME TypeOK, Counted, NEW t \in Thread, NEW b \in Buf, buf[t] = NoBuf,
           buf' = [buf EXCEPT ![t] = b], refcnt' = [refcnt EXCEPT ![b] = refcnt[b] + 1]
    PROVE  Counted'
<1> SUFFICES ASSUME NEW d \in Buf
             PROVE  refcnt'[d] = Cardinality({u \in Thread : buf'[u] = d})
  BY DEF Counted
<1> DEFINE R == {u \in Thread : buf[u] = d}
           S == {u \in Thread : buf'[u] = d}
<1>1. IsFiniteSet(R) /\ refcnt[d] = Cardinality(R)
  BY RefsFinite DEF Counted
<1>2. CASE d = b
  <2>1. S = R \union {t} /\ t \notin R
    BY <1>2, BioAssumption DEF TypeOK
  <2>2. Cardinality(R \union {t}) = Cardinality(R) + 1
    BY <1>1, <2>1, FS_AddElement
  <2>3. refcnt'[d] = refcnt[d] + 1
    BY <1>2 DEF TypeOK
  <2> QED
    BY <1>1, <2>1, <2>2, <2>3
<1>3. CASE d # b
  <2>1. S = R /\ refcnt'[d] = refcnt[d]
    BY <1>3, BioAssumption DEF TypeOK
  <2> QED
    BY <1>1, <2>1
<1> QED
  BY <1>2, <1>3

(* brelse() takes it back.                                                 *)
LEMMA CountedBrelse ==
    ASSUME TypeOK, Counted, NEW t \in Thread, buf[t] \in Buf,
           buf' = [buf EXCEPT ![t] = NoBuf],
           refcnt' = [refcnt EXCEPT ![buf[t]] = refcnt[buf[t]] - 1]
    PROVE  Counted'
<1> SUFFICES ASSUME NEW d \in Buf
             PROVE  refcnt'[d] = Cardinality({u \in Thread : buf'[u] = d})
  BY DEF Counted
<1> DEFINE R == {u \in Thread : buf[u] = d}
           S == {u \in Thread : buf'[u] = d}
<1>1. IsFiniteSet(R) /\ refcnt[d] = Cardinality(R)
  BY RefsFinite DEF Counted
<1>2. CASE d = buf[t]
  <2>1. S = R \ {t} /\ t \in R
    BY <1>2, BioAssumption DEF TypeOK
  <2>2. Cardinality(R \ {t}) = Cardinality(R) - 1
    BY <1>1, <2>1, FS_RemoveElement
  <2>3. refcnt'[d] = refcnt[d] - 1
    BY <1>2 DEF TypeOK
  <2> QED
    BY <1>1, <2>1, <2>2, <2>3
<1>3. CASE d # buf[t]
  <2>1. S = R /\ refcnt'[d] = refcnt[d]
    BY <1>3, BioAssumption DEF TypeOK
  <2> QED
    BY <1>1, <2>1
<1> QED
  BY <1>2, <1>3

(* Steps that hand out and take back no reference.                         *)
LEMMA CountedFrame ==
    ASSUME Counted, UNCHANGED <<refcnt, buf>>
    PROVE  Counted'
BY DEF Counted

(* A buffer of count 0 is nobody's, and nobody holds its lock.             *)
LEMMA Unreferenced ==
    ASSUME IInv, NEW b \in Buf, refcnt[b] = 0
    PROVE  owner[b] = NoThread /\ b \notin ToSet(idequeue) /\ \A t \in Thread : buf[t] # b
<1>1. \A t \in Thread : buf[t] # b
  BY Referenced DEF IInv
<1>2. owner[b] = NoThread
  BY <1>1 DEF IInv, TypeOK, Threads
<1> QED
  BY <1>1, <1>2 DEF IInv, DiskServesHead

-----------------------------------------------------------------------------
(* The invariant, action by action                                         *)

(* A thread with a buffer, and the lock if it is past acquiresleep().      *)
LEMMA Handle ==
    ASSUME IInv, NEW t \in Thread, pc[t] \in Refs
    PROVE  /\ buf[t] \in Buf /\ want[t] \in Block /\ blockno[buf[t]] = want[t]
           /\ pc[t] \in Holds => owner[buf[t]] = t
BY DEF IInv, TypeOK, Threads, Refs, Holds

(* binit()                                                                 *)
LEMMA InitInvariant == Init => IInv
<1> SUFFICES ASSUME Init PROVE IInv
  OBVIOUS
<1> USE BioAssumption DEF Init
<1>1. TypeOK
  BY InitialList DEF TypeOK, Label
<1>2. Threads /\ Flags /\ OneBufferPerBlock /\ CleanIsDisk
  BY DEF Threads, Flags, OneBufferPerBlock, Cached, CleanIsDisk, Refs, Holds
<1>3. Counted
  <2>1. \A b \in Buf : {t \in Thread : buf[t] = b} = {}
    OBVIOUS
  <2> QED
    BY <2>1, FS_EmptySet DEF Counted
<1>4. DiskServesHead /\ NoLostIo /\ Queued
  BY EmptyMembers DEF DiskServesHead, NoLostIo, Queued
<1> QED
  BY <1>1, <1>2, <1>3, <1>4 DEF IInv

(* A thread asks for a block.                                              *)
LEMMA CallInvariant ==
    ASSUME IInv, NEW t \in Thread, NEW k \in Block, Call(t, k)
    PROVE  IInv'
<1> USE DEF IInv, Call, Goto, cacheVars, ideVars
<1>1. TypeOK'
  BY DEF TypeOK, Label
<1>2. Threads'
  BY DEF TypeOK, Threads, Refs, Holds
<1>3. Counted' /\ OneBufferPerBlock'
  BY DEF Counted, OneBufferPerBlock, Cached
<1>4. Flags' /\ CleanIsDisk'
  BY DEF TypeOK, Threads, Flags, CleanIsDisk, Synced, Holds
<1>5. DiskServesHead' /\ NoLostIo' /\ Queued'
  BY DEF TypeOK, Threads, DiskServesHead, NoLostIo, Queued, Synced, Holds
<1> QED
  BY <1>1, <1>2, <1>3, <1>4, <1>5

(* bget() finds the block.                                                 *)
LEMMA BgetHitInvariant ==
    ASSUME IInv, NEW t \in Thread, BgetHit(t)
    PROVE  IInv'
<1>1. PICK b \in Cached(want[t]) : /\ refcnt' = [refcnt EXCEPT ![b] = refcnt[b] + 1]
                                   /\ buf' = [buf EXCEPT ![t] = b]
  BY DEF BgetHit
<1>2. /\ pc[t] = "bget" /\ pc' = [pc EXCEPT ![t] = "lock"] /\ b \in Buf /\ blockno[b] = want[t]
      /\ UNCHANGED <<lru, blockno, data, valid, dirty, owner, ideVars, want>>
  BY <1>1 DEF BgetHit, Goto, Cached
<1>3. buf[t] = NoBuf
  BY <1>2 DEF IInv, Threads, Refs, Holds
<1> USE <1>1, <1>2, <1>3 DEF IInv, ideVars
<1>4. TypeOK'
  BY DEF TypeOK, Label
<1>5. Threads'
  BY BioAssumption DEF TypeOK, Threads, Refs, Holds
<1>6. Counted'
  BY CountedBget
<1>7. Flags'
  BY BioAssumption DEF TypeOK, Threads, Flags, Synced, Refs, Holds
<1>8. CleanIsDisk' /\ OneBufferPerBlock'
  BY BioAssumption DEF TypeOK, Threads, CleanIsDisk, OneBufferPerBlock, Cached, Holds
<1>9. DiskServesHead' /\ NoLostIo' /\ Queued'
  BY DEF TypeOK, Threads, DiskServesHead, NoLostIo, Queued, Synced, Holds
<1> QED
  BY <1>4, <1>5, <1>6, <1>7, <1>8, <1>9

(* bget() recycles a buffer that is nobody's.                              *)
LEMMA BgetMissInvariant ==
    ASSUME IInv, NEW t \in Thread, BgetMiss(t)
    PROVE  IInv'
<1>1. PICK b \in Buf : /\ Victim(b)
                       /\ blockno' = [blockno EXCEPT ![b] = want[t]]
                       /\ valid' = valid \ {b} /\ dirty' = dirty \ {b} /\ failed' = failed \ {b}
                       /\ refcnt' = [refcnt EXCEPT ![b] = 1]
                       /\ buf' = [buf EXCEPT ![t] = b]
  BY DEF BgetMiss
<1>2. /\ pc[t] = "bget" /\ pc' = [pc EXCEPT ![t] = "lock"] /\ refcnt[b] = 0
      /\ \A d \in Buf : blockno[d] # want[t]
      /\ UNCHANGED <<lru, data, owner, idequeue, active, disk, want>>
  BY <1>1 DEF BgetMiss, Goto, Cached, Victim, Recyclable
<1>3. buf[t] = NoBuf /\ want[t] \in Block
  BY <1>2 DEF IInv, Threads, Refs, Holds
<1>4. owner[b] = NoThread /\ b \notin ToSet(idequeue) /\ \A u \in Thread : buf[u] # b
  BY <1>2, Unreferenced
<1> USE <1>1, <1>2, <1>3, <1>4 DEF IInv
<1>5. TypeOK'
  BY DEF TypeOK, Label
<1>6. Threads'
  BY BioAssumption DEF TypeOK, Threads, Refs, Holds
<1>7. Counted'
  <2>1. refcnt' = [refcnt EXCEPT ![b] = refcnt[b] + 1]
    OBVIOUS
  <2> QED
    BY <2>1, CountedBget
<1>8. Flags'
  BY BioAssumption DEF TypeOK, Threads, Flags, Synced, Refs, Holds
<1>9. CleanIsDisk'
  BY BioAssumption DEF TypeOK, Threads, Flags, CleanIsDisk
<1>10. OneBufferPerBlock'
  BY DEF TypeOK, OneBufferPerBlock, Cached
<1>11. DiskServesHead' /\ NoLostIo' /\ Queued'
  BY BioAssumption DEF TypeOK, Threads, DiskServesHead, NoLostIo, Queued, Synced, Refs, Holds
<1> QED
  BY <1>5, <1>6, <1>7, <1>8, <1>9, <1>10, <1>11

(* bget() finds no buffer.                                                 *)
LEMMA BgetPanicInvariant ==
    ASSUME IInv, NEW t \in Thread, BgetPanic(t)
    PROVE  IInv'
<1> USE DEF IInv, BgetPanic, Goto, cacheVars, ideVars
<1>1. TypeOK'
  BY DEF TypeOK, Label
<1>2. Threads'
  BY DEF TypeOK, Threads, Refs, Holds
<1>3. Counted' /\ OneBufferPerBlock'
  BY DEF Counted, OneBufferPerBlock, Cached
<1>4. Flags' /\ CleanIsDisk'
  BY DEF TypeOK, Threads, Flags, CleanIsDisk, Synced, Holds
<1>5. DiskServesHead' /\ NoLostIo' /\ Queued'
  BY DEF TypeOK, Threads, DiskServesHead, NoLostIo, Queued, Synced, Holds
<1> QED
  BY <1>1, <1>2, <1>3, <1>4, <1>5

(* acquiresleep(&b->lock)                                                  *)
LEMMA BgetLockInvariant ==
    ASSUME IInv, NEW t \in Thread, BgetLock(t)
    PROVE  IInv'
<1>1. buf[t] \in Buf /\ owner[buf[t]] = NoThread /\ pc[t] = "lock"
  BY Handle DEF BgetLock, Refs
<1> USE <1>1, BioAssumption DEF IInv, BgetLock, Goto, cacheVars, ideVars
<1>2. TypeOK'
  BY DEF TypeOK, Label
<1>3. Threads'
  BY DEF TypeOK, Threads, Refs, Holds
<1>4. Counted' /\ OneBufferPerBlock'
  BY DEF Counted, OneBufferPerBlock, Cached
<1>5. Flags' /\ CleanIsDisk'
  BY DEF TypeOK, Threads, Flags, CleanIsDisk, Synced, Holds
<1>6. DiskServesHead' /\ NoLostIo' /\ Queued'
  BY DEF TypeOK, Threads, DiskServesHead, NoLostIo, Queued, Synced, Holds
<1> QED
  BY <1>2, <1>3, <1>4, <1>5, <1>6

(* bread() tests B_VALID.                                                  *)
LEMMA BreadInvariant ==
    ASSUME IInv, NEW t \in Thread, Bread(t)
    PROVE  IInv'
<1>1. buf[t] \in Buf /\ pc[t] = "got" /\ owner[buf[t]] = t
  BY Handle DEF Bread, Refs, Holds
<1> USE <1>1, BioAssumption DEF IInv, Bread, Goto, cacheVars, ideVars
<1>2. TypeOK'
  BY DEF TypeOK, Label
<1>3. Threads'
  BY DEF TypeOK, Threads, Refs, Holds
<1>4. Counted' /\ OneBufferPerBlock'
  BY DEF Counted, OneBufferPerBlock, Cached
<1>5. Flags' /\ CleanIsDisk'
  BY DEF TypeOK, Threads, Flags, CleanIsDisk, Synced, Holds
<1>6. DiskServesHead' /\ NoLostIo' /\ Queued'
  BY DEF TypeOK, Threads, DiskServesHead, NoLostIo, Queued, Synced, Holds
<1> QED
  BY <1>2, <1>3, <1>4, <1>5, <1>6

(* The holder changes the contents.                                        *)
LEMMA ModifyInvariant ==
    ASSUME IInv, NEW t \in Thread, NEW v \in Val, Modify(t, v)
    PROVE  IInv'
<1>1. buf[t] \in Buf /\ pc[t] = "have" /\ owner[buf[t]] = t
  BY Handle DEF Modify, Refs, Holds
<1> USE <1>1, BioAssumption DEF IInv, Modify, Goto, cacheVars, ideVars
<1>2. TypeOK'
  BY DEF TypeOK, Label
<1>3. Threads'
  BY DEF TypeOK, Threads, Refs, Holds
<1>4. Counted' /\ OneBufferPerBlock'
  BY DEF Counted, OneBufferPerBlock, Cached
<1>5. Flags' /\ CleanIsDisk'
  BY DEF TypeOK, Threads, Flags, CleanIsDisk, Synced, Holds
<1>6. DiskServesHead' /\ NoLostIo' /\ Queued'
  BY DEF TypeOK, Threads, DiskServesHead, NoLostIo, Queued, Synced, Holds
<1> QED
  BY <1>2, <1>3, <1>4, <1>5, <1>6

(* bwrite()                                                                *)
LEMMA BwriteInvariant ==
    ASSUME IInv, NEW t \in Thread, Bwrite(t)
    PROVE  IInv'
<1>1. buf[t] \in Buf /\ pc[t] \in {"have", "modified"} /\ owner[buf[t]] = t
  BY Handle DEF Bwrite, Refs, Holds
<1> USE <1>1, BioAssumption DEF IInv, Bwrite, Goto, cacheVars, ideVars
<1>2. TypeOK'
  BY DEF TypeOK, Label
<1>3. Threads'
  BY DEF TypeOK, Threads, Refs, Holds
<1>4. Counted' /\ OneBufferPerBlock'
  BY DEF Counted, OneBufferPerBlock, Cached
<1>5. Flags'
  BY DEF TypeOK, Threads, Flags, Synced, Holds
<1>6. CleanIsDisk'
  BY DEF TypeOK, Threads, CleanIsDisk, Holds
<1>7. DiskServesHead' /\ NoLostIo' /\ Queued'
  BY DEF TypeOK, Threads, DiskServesHead, NoLostIo, Queued, Synced, Holds
<1> QED
  BY <1>2, <1>3, <1>4, <1>5, <1>6, <1>7

(* log_write()                                                             *)
LEMMA LogWriteInvariant ==
    ASSUME IInv, NEW t \in Thread, LogWrite(t)
    PROVE  IInv'
<1>1. buf[t] \in Buf /\ pc[t] = "modified" /\ owner[buf[t]] = t
  BY Handle DEF LogWrite, Refs, Holds
<1> USE <1>1, BioAssumption DEF IInv, LogWrite, Goto, cacheVars, ideVars
<1>2. TypeOK'
  BY DEF TypeOK, Label
<1>3. Threads'
  BY DEF TypeOK, Threads, Refs, Holds
<1>4. Counted' /\ OneBufferPerBlock'
  BY DEF Counted, OneBufferPerBlock, Cached
<1>5. Flags'
  BY DEF TypeOK, Threads, Flags, Synced, Holds
<1>6. CleanIsDisk'
  BY DEF TypeOK, Threads, CleanIsDisk, Holds
<1>7. DiskServesHead' /\ NoLostIo' /\ Queued'
  BY DEF TypeOK, Threads, DiskServesHead, NoLostIo, Queued, Synced, Holds
<1> QED
  BY <1>2, <1>3, <1>4, <1>5, <1>6, <1>7

(* releasesleep(&b->lock)                                                  *)
LEMMA BrelseUnlockInvariant ==
    ASSUME IInv, NEW t \in Thread, BrelseUnlock(t)
    PROVE  IInv'
<1>1. buf[t] \in Buf /\ pc[t] = "have" /\ owner[buf[t]] = t
  BY Handle DEF BrelseUnlock, Refs, Holds
<1>2. buf[t] \notin ToSet(idequeue)
  BY <1>1 DEF IInv, Queued
<1> USE <1>1, <1>2, BioAssumption DEF IInv, BrelseUnlock, Goto, cacheVars, ideVars
<1>3. TypeOK'
  BY DEF TypeOK, Label
<1>4. Threads'
  BY DEF TypeOK, Threads, Refs, Holds
<1>5. Counted' /\ OneBufferPerBlock'
  BY DEF Counted, OneBufferPerBlock, Cached
<1>6. Flags' /\ CleanIsDisk'
  BY DEF TypeOK, Threads, Flags, CleanIsDisk, Synced, Holds
<1>7. DiskServesHead' /\ NoLostIo' /\ Queued'
  BY DEF TypeOK, Threads, DiskServesHead, NoLostIo, Queued, Synced, Holds
<1> QED
  BY <1>3, <1>4, <1>5, <1>6, <1>7

(* brelse() gives up the reference, and relinks the buffer if it was the   *)
(* last.                                                                   *)
LEMMA BrelseInvariant ==
    ASSUME IInv, NEW t \in Thread, Brelse(t)
    PROVE  IInv'
<1>1. buf[t] \in Buf /\ pc[t] = "unref"
  BY Handle DEF Brelse, Refs
<1>2. refcnt[buf[t]] \in Nat /\ refcnt[buf[t]] > 0
  BY <1>1, Referenced DEF IInv
<1>3. lru' \in Seq(Buf) /\ IsInjective(lru') /\ ToSet(lru') = Buf
  BY <1>1, MoveToHeadMembers DEF Brelse, IInv, TypeOK
<1> USE <1>1, <1>2, <1>3, BioAssumption DEF IInv, Goto, ideVars
<1>4. TypeOK'
  BY DEF TypeOK, Label, Brelse
<1>5. Threads'
  BY DEF TypeOK, Threads, Refs, Holds, Brelse
<1>6. Counted'
  BY CountedBrelse DEF Brelse
<1>7. Flags' /\ CleanIsDisk' /\ OneBufferPerBlock'
  BY DEF TypeOK, Threads, Flags, CleanIsDisk, OneBufferPerBlock, Cached, Synced, Holds, Brelse
<1>8. DiskServesHead' /\ NoLostIo' /\ Queued'
  BY DEF TypeOK, Threads, DiskServesHead, NoLostIo, Queued, Synced, Holds, Brelse
<1> QED
  BY <1>4, <1>5, <1>6, <1>7, <1>8

(* iderw() queues the request and starts the disk if it is idle.           *)
LEMMA IderwInvariant ==
    ASSUME IInv, NEW t \in Thread, Iderw(t)
    PROVE  IInv'
<1>1. buf[t] \in Buf /\ pc[t] = "rw" /\ owner[buf[t]] = t
  BY Handle DEF Iderw, Refs, Holds
<1>2. buf[t] \notin ToSet(idequeue)
  BY <1>1 DEF IInv, Queued
<1>3. /\ idequeue' \in Seq(Buf) /\ IsInjective(idequeue')
      /\ ToSet(idequeue') = ToSet(idequeue) \union {buf[t]} /\ idequeue' # <<>>
  <2>1. idequeue' = Append(idequeue, buf[t]) /\ idequeue \in Seq(Buf) /\ IsInjective(idequeue)
    BY DEF Iderw, IInv, TypeOK, DiskServesHead
  <2>2. idequeue' # <<>>
    BY <1>1, <2>1
  <2> QED
    BY <1>1, <1>2, <2>1, <2>2, AppendMembers
<1>4. active' = Head(idequeue')
  BY <1>1, AppendMembers DEF Iderw, IInv, TypeOK, DiskServesHead
<1>5. pc' = [pc EXCEPT ![t] = "asleep"]
      /\ UNCHANGED <<cacheVars, data, valid, dirty, owner, disk, failed, want, buf>>
  BY DEF Iderw, Goto
<1> USE <1>1, <1>2, <1>3, <1>4, <1>5, BioAssumption DEF IInv, cacheVars
<1>6. TypeOK'
  <2>1. active' \in Buf
    BY DEF TypeOK, Iderw
  <2> QED
    BY <2>1 DEF TypeOK, Label
<1>7. Threads'
  BY DEF TypeOK, Threads, Refs, Holds
<1>8. Counted' /\ OneBufferPerBlock'
  BY DEF Counted, OneBufferPerBlock, Cached
<1>9. Flags' /\ CleanIsDisk'
  BY DEF TypeOK, Threads, Flags, CleanIsDisk, Synced, Holds
<1>10. DiskServesHead'
  BY DEF TypeOK, Flags, DiskServesHead, Synced
<1>11. NoLostIo' /\ Queued'
  BY DEF TypeOK, Threads, DiskServesHead, NoLostIo, Queued, Synced, Holds
<1> QED
  BY <1>6, <1>7, <1>8, <1>9, <1>10, <1>11

(* iderw() tests the flags after a wakeup.                                 *)
LEMMA IderwTestInvariant ==
    ASSUME IInv, NEW t \in Thread, IderwTest(t)
    PROVE  IInv'
<1>1. buf[t] \in Buf /\ pc[t] = "woken" /\ owner[buf[t]] = t
  BY Handle DEF IderwTest, Refs, Holds
<1> USE <1>1, BioAssumption DEF IInv, IderwTest, Goto, cacheVars, ideVars
<1>2. TypeOK'
  BY DEF TypeOK, Label
<1>3. Threads'
  BY DEF TypeOK, Threads, Refs, Holds
<1>4. Counted' /\ OneBufferPerBlock'
  BY DEF Counted, OneBufferPerBlock, Cached
<1>5. Flags' /\ CleanIsDisk'
  BY DEF TypeOK, Threads, Flags, CleanIsDisk, Synced, Holds
<1>6. DiskServesHead' /\ NoLostIo'
  BY DEF TypeOK, DiskServesHead, NoLostIo, Queued, Synced
<1>7. Queued'
  <2>1. \A b \in ToSet(idequeue) : owner[b] = t => b = buf[t] /\ ~Synced(b)
    BY Place DEF TypeOK, Threads, DiskServesHead
  <2> QED
    BY <2>1 DEF TypeOK, Queued, Synced
<1> QED
  BY <1>2, <1>3, <1>4, <1>5, <1>6, <1>7

(* kill() wakes a thread that waits for the disk.                          *)
LEMMA KillWakesInvariant ==
    ASSUME IInv, NEW t \in Thread, KillWakes(t)
    PROVE  IInv'
<1> USE BioAssumption DEF IInv, KillWakes, Goto, cacheVars, ideVars
<1>1. TypeOK'
  BY DEF TypeOK, Label
<1>2. Threads'
  BY DEF TypeOK, Threads, Refs, Holds
<1>3. Counted' /\ OneBufferPerBlock'
  BY DEF Counted, OneBufferPerBlock, Cached
<1>4. Flags' /\ CleanIsDisk'
  BY DEF TypeOK, Threads, Flags, CleanIsDisk, Synced, Holds
<1>5. DiskServesHead' /\ NoLostIo' /\ Queued'
  BY DEF TypeOK, Threads, DiskServesHead, NoLostIo, Queued, Synced, Holds
<1> QED
  BY <1>1, <1>2, <1>3, <1>4, <1>5

(* ideintr() ends the request at the head, wakes its thread and starts the *)
(* next.                                                                   *)
LEMMA IdeintrInvariant ==
    ASSUME IInv, NEW ok \in BOOLEAN, Ideintr(ok)
    PROVE  IInv'
<1> DEFINE b == Head(idequeue)
           h == owner[b]
           q == Tail(idequeue)
<1>1. /\ b \in ToSet(idequeue) /\ b \in Buf /\ q \in Seq(Buf) /\ IsInjective(q)
      /\ ToSet(q) = ToSet(idequeue) \ {b}
  BY TailMembers DEF Ideintr, IInv, TypeOK, DiskServesHead
<1>2. /\ h \in Thread /\ pc[h] \in {"asleep", "woken"} /\ buf[h] = b
      /\ blockno[b] \in Block
  BY <1>1, Handle DEF IInv, TypeOK, Threads, Queued, DiskServesHead, Refs, Holds
<1>3. /\ disk' = IF b \in dirty /\ ok THEN [disk EXCEPT ![blockno[b]] = data[b]] ELSE disk
      /\ data' = IF b \notin dirty /\ ok THEN [data EXCEPT ![b] = disk[blockno[b]]] ELSE data
      /\ failed' = IF ok THEN failed \ {b} ELSE failed \union {b}
      /\ valid' = valid \union {b} /\ dirty' = dirty \ {b}
      /\ pc' = [t \in Thread |-> IF pc[t] = "asleep" /\ buf[t] = b THEN "woken" ELSE pc[t]]
      /\ idequeue' = q /\ active' = IF q = <<>> THEN NoBuf ELSE Head(q)
      /\ UNCHANGED <<lru, blockno, refcnt, owner, want, buf>>
  BY DEF Ideintr, Wakeup, StartNext, cacheVars
<1>4. Head(q) \in Buf \/ q = <<>>
  BY <1>1
<1> HIDE DEF b, q
<1> USE BioAssumption DEF IInv
<1>5. TypeOK'
  BY <1>1, <1>2, <1>3, <1>4 DEF TypeOK, Label
<1>6. Threads'
  BY <1>3 DEF TypeOK, Threads, Refs, Holds
<1>7. Counted' /\ OneBufferPerBlock'
  BY <1>3 DEF Counted, OneBufferPerBlock, Cached
<1>8. ASSUME NEW t \in Thread, buf[t] = b, pc[t] \in Holds PROVE t = h
  BY <1>1, <1>8 DEF TypeOK, Threads
<1>9. Flags'
  <2>1. \A t \in Thread : pc'[t] = "rw" => pc[t] = "rw" /\ buf[t] # b
    BY <1>2, <1>3, <1>8 DEF TypeOK, Holds
  <2> QED
    BY <1>1, <1>2, <1>3, <2>1 DEF TypeOK, Flags, Synced
<1>10. CleanIsDisk'
  <2> SUFFICES ASSUME NEW d \in valid' \ dirty'
               PROVE  \/ data'[d] = disk'[blockno[d]] \/ d \in failed'
                      \/ owner[d] # NoThread /\ pc'[owner[d]] = "modified"
    BY <1>3 DEF CleanIsDisk
  <2>1. CASE d = b
    BY <1>1, <1>2, <1>3, <2>1 DEF TypeOK
  <2>2. CASE d # b
    <3>1. d \in valid \ dirty /\ d \in Buf /\ blockno[d] \in Block /\ blockno[d] # blockno[b]
      BY <1>1, <1>3, <2>2 DEF TypeOK, Flags, OneBufferPerBlock, Cached
    <3>2. data'[d] = data[d] /\ disk'[blockno[d]] = disk[blockno[d]] /\ (d \in failed => d \in failed')
      BY <1>1, <1>2, <1>3, <2>2, <3>1 DEF TypeOK
    <3>3. owner[d] # NoThread /\ pc[owner[d]] = "modified" => pc'[owner[d]] = "modified"
      BY <1>3, <3>1 DEF TypeOK
    <3> QED
      BY <3>1, <3>2, <3>3 DEF CleanIsDisk
  <2> QED
    BY <2>1, <2>2
<1>11. DiskServesHead'
  BY <1>1, <1>3 DEF TypeOK, DiskServesHead, Synced
<1>12. NoLostIo'
  BY <1>1, <1>3 DEF TypeOK, NoLostIo
<1>13. Queued'
  <2>1. ASSUME NEW d \in ToSet(q) PROVE pc'[owner[d]] \in {"asleep", "woken"}
    <3>1. d \in Buf /\ owner[d] \in Thread /\ pc[owner[d]] \in {"asleep", "woken"}
      BY <1>1, Place DEF TypeOK, Queued, DiskServesHead
    <3> QED
      BY <1>3, <3>1
  <2>2. ASSUME NEW t \in Thread, pc'[t] = "woken"
        PROVE  (buf[t] \in valid' /\ buf[t] \notin dirty') \/ buf[t] \in ToSet(q)
    <3>1. buf[t] = b \/ (buf[t] # b /\ pc[t] = "woken")
      BY <1>3, <2>2
    <3> QED
      BY <1>1, <1>3, <3>1 DEF Queued, Synced
  <2> QED
    BY <1>3, <2>1, <2>2 DEF Queued, Synced
<1> QED
  BY <1>5, <1>6, <1>7, <1>9, <1>10, <1>11, <1>12, <1>13

(* The invariant holds in every state.                                     *)
LEMMA Invariant == Spec => []IInv
<1>1. ASSUME IInv, [Next]_vars PROVE IInv'
  <2>1. CASE UNCHANGED vars
    BY <1>1, <2>1 DEF vars, cacheVars, ideVars, IInv, TypeOK, Threads, Counted, Flags,
       OneBufferPerBlock, Cached, DiskServesHead, NoLostIo, Queued, CleanIsDisk, Synced
  <2>2. CASE Next
    BY <1>1, <2>2, CallInvariant, BgetHitInvariant, BgetMissInvariant, BgetPanicInvariant,
       BgetLockInvariant, BreadInvariant, ModifyInvariant, BwriteInvariant, LogWriteInvariant,
       BrelseUnlockInvariant, BrelseInvariant, IderwInvariant, IderwTestInvariant,
       KillWakesInvariant, IdeintrInvariant DEF Next, ThreadStep
  <2> QED
    BY <1>1, <2>1, <2>2
<1> QED
  BY InitInvariant, <1>1, PTL DEF Spec

-----------------------------------------------------------------------------
(* What the buffer cache and the driver promise                            *)

(* Every variable keeps its type: the list of brelse() stays a list of all *)
(* the buffers, and no reference count goes below 0.                       *)
THEOREM BioTypeOK == Spec => []TypeOK
<1>1. IInv => TypeOK
  BY DEF IInv
<1> QED
  BY <1>1, Invariant, PTL

(* bget(): two threads that miss at once do not both get a buffer.         *)
THEOREM BlockHasOneBuffer == Spec => []OneBufferPerBlock
<1>1. IInv => OneBufferPerBlock
  BY DEF IInv
<1> QED
  BY <1>1, Invariant, PTL

(* bget() recycles no buffer that a thread refers to, and bread() returns  *)
(* a valid one to one thread at a time.                                    *)
THEOREM BuffersStay == Spec => []BufferStays
<1>1. IInv => BufferStays
  <2> SUFFICES ASSUME IInv, NEW t \in Thread
               PROVE  /\ buf[t] # NoBuf => blockno[buf[t]] = want[t] /\ refcnt[buf[t]] > 0
                      /\ pc[t] \in {"have", "modified"} => owner[buf[t]] = t /\ buf[t] \in valid
    BY DEF BufferStays
  <2>1. buf[t] # NoBuf => blockno[buf[t]] = want[t] /\ refcnt[buf[t]] > 0
    BY Referenced DEF IInv, TypeOK, Threads
  <2>2. pc[t] \in {"have", "modified"} => owner[buf[t]] = t /\ buf[t] \in valid
    BY DEF IInv, Threads, Flags, Holds
  <2> QED
    BY <2>1, <2>2
<1> QED
  BY <1>1, Invariant, PTL

(* iderw() and ideintr(): the disk works on the head of the queue.         *)
THEOREM DiskWorksOnHead == Spec => []DiskServesHead
<1>1. IInv => DiskServesHead
  BY DEF IInv
<1> QED
  BY <1>1, Invariant, PTL

(* iderw(): a sleeper has its request in the queue.                        *)
THEOREM IoIsNotLost == Spec => []NoLostIo
<1>1. IInv => NoLostIo
  BY DEF IInv
<1> QED
  BY <1>1, Invariant, PTL

(* The contents of a block are those of its valid buffer, if it has one.   *)
LEMMA CurrentIs ==
    ASSUME TypeOK, OneBufferPerBlock, NEW k \in Block
    PROVE  /\ \A b \in valid : blockno[b] = k => Current(k) = data[b]
           /\ (\A b \in valid : blockno[b] # k) => Current(k) = disk[k]
<1>1. ASSUME NEW b \in valid, blockno[b] = k PROVE Current(k) = data[b]
  <2>1. b \in Cached(k) /\ \A d \in Cached(k) : d = b
    BY <1>1 DEF TypeOK, OneBufferPerBlock, Cached
  <2>2. (CHOOSE d \in Cached(k) : d \in valid) = b
    BY <2>1
  <2> QED
    BY <2>1, <2>2 DEF Current
<1>2. ASSUME \A b \in valid : blockno[b] # k PROVE Current(k) = disk[k]
  BY <1>2 DEF Current, Cached
<1> QED
  BY <1>1, <1>2

(* The same in the next state.                                             *)
LEMMA CurrentIsNext ==
    ASSUME TypeOK', OneBufferPerBlock', NEW k \in Block
    PROVE  /\ \A b \in valid' : blockno'[b] = k => Current(k)' = data'[b]
           /\ (\A b \in valid' : blockno'[b] # k) => Current(k)' = disk'[k]
<1>1. ASSUME NEW b \in valid', blockno'[b] = k PROVE Current(k)' = data'[b]
  <2>1. b \in Cached(k)' /\ \A d \in Cached(k)' : d = b
    BY <1>1 DEF TypeOK, OneBufferPerBlock, Cached
  <2>2. (CHOOSE d \in Cached(k)' : d \in valid') = b
    BY <2>1
  <2> QED
    BY <2>1, <2>2 DEF Current
<1>2. ASSUME \A b \in valid' : blockno'[b] # k PROVE Current(k)' = disk'[k]
  BY <1>2 DEF Current, Cached
<1> QED
  BY <1>1, <1>2

(* bget() recycles a buffer: the disk has its contents, or its last        *)
(* transfer failed.                                                        *)
LEMMA BgetMissKeeps ==
    ASSUME IInv, IInv', NEW t \in Thread, BgetMiss(t), NEW k \in Block, Current(k)' # Current(k)
    PROVE  \E b \in Buf : blockno[b] = k /\ b \in failed
<1>1. PICK b \in Buf : /\ Victim(b)
                       /\ blockno' = [blockno EXCEPT ![b] = want[t]] /\ valid' = valid \ {b}
  BY DEF BgetMiss
<1>2. /\ refcnt[b] = 0 /\ b \notin dirty /\ UNCHANGED <<data, disk>>
      /\ \A d \in Buf : blockno[d] # want[t]
  BY <1>1 DEF BgetMiss, Cached, Victim, Recyclable
<1>3. owner[b] = NoThread
  BY <1>2, Unreferenced
<1>4. TypeOK /\ TypeOK' /\ OneBufferPerBlock /\ OneBufferPerBlock'
  BY DEF IInv
<1>5. ASSUME NEW d \in Buf, d # b PROVE blockno'[d] = blockno[d] /\ (d \in valid' <=> d \in valid)
  BY <1>1, <1>4, <1>5 DEF TypeOK
<1>6. CASE \E d \in valid : d # b /\ blockno[d] = k
  <2>1. PICK d \in valid : d # b /\ blockno[d] = k
    BY <1>6
  <2>2. d \in Buf /\ d \in valid' /\ blockno'[d] = k
    BY <1>4, <1>5, <2>1 DEF TypeOK
  <2> QED
    BY <1>2, <1>4, <2>1, <2>2, CurrentIs, CurrentIsNext
<1>7. CASE \A d \in valid : d # b => blockno[d] # k
  <2>1. \A d \in valid' : blockno'[d] # k
    BY <1>1, <1>4, <1>5, <1>7 DEF TypeOK
  <2>2. Current(k)' = disk[k]
    BY <1>2, <1>4, <2>1, CurrentIsNext
  <2>3. b \in valid /\ blockno[b] = k
    BY <1>4, <1>7, <2>2, CurrentIs
  <2>4. Current(k) = data[b]
    BY <1>4, <2>3, CurrentIs
  <2>5. b \in failed
    BY <1>2, <1>3, <2>2, <2>3, <2>4 DEF IInv, CleanIsDisk
  <2> QED
    BY <2>3, <2>5
<1> QED
  BY <1>6, <1>7

(* The holder of a buffer changes its block and no other.                  *)
LEMMA ModifyChangesOwn ==
    ASSUME IInv, IInv', NEW t \in Thread, NEW v \in Val, Modify(t, v),
           NEW k \in Block, Current(k)' # Current(k)
    PROVE  want[t] = k /\ pc[t] = "have" /\ pc'[t] = "modified"
<1>1. /\ buf[t] \in Buf /\ blockno[buf[t]] = want[t] /\ pc[t] = "have"
  BY Handle DEF Modify, Refs, Holds
<1>2. pc'[t] = "modified"
  BY DEF Modify, Goto, IInv, TypeOK
<1>3. data' = [data EXCEPT ![buf[t]] = v] /\ UNCHANGED <<blockno, valid, disk>>
  BY DEF Modify, cacheVars, ideVars
<1>4. TypeOK /\ TypeOK' /\ OneBufferPerBlock /\ OneBufferPerBlock'
  BY DEF IInv
<1>5. CASE \E b \in valid : blockno[b] = k
  <2>1. PICK b \in valid : blockno[b] = k
    BY <1>5
  <2>2. Current(k) = data[b] /\ Current(k)' = data'[b]
    BY <1>3, <1>4, <2>1, CurrentIs, CurrentIsNext
  <2>3. b = buf[t]
    BY <1>3, <1>4, <2>1, <2>2 DEF TypeOK
  <2> QED
    BY <1>1, <1>2, <2>1, <2>3
<1>6. CASE \A b \in valid : blockno[b] # k
  BY <1>3, <1>4, <1>6, CurrentIs, CurrentIsNext
<1> QED
  BY <1>5, <1>6

(* A transfer changes a block only when its read fails.                    *)
LEMMA IdeintrKeeps ==
    ASSUME IInv, IInv', NEW ok \in BOOLEAN, Ideintr(ok), NEW k \in Block, Current(k)' # Current(k)
    PROVE  \E b \in Buf : blockno'[b] = k /\ b \in failed'
<1> DEFINE b == Head(idequeue)
<1>1. b \in ToSet(idequeue) /\ b \in Buf
  BY TailMembers DEF Ideintr, IInv, TypeOK, DiskServesHead
<1>2. ~(b \in valid /\ b \notin dirty) /\ (b \in dirty => b \in valid)
  BY <1>1 DEF IInv, DiskServesHead, Synced, Flags
<1>3. /\ disk' = IF b \in dirty /\ ok THEN [disk EXCEPT ![blockno[b]] = data[b]] ELSE disk
      /\ data' = IF b \notin dirty /\ ok THEN [data EXCEPT ![b] = disk[blockno[b]]] ELSE data
      /\ failed' = IF ok THEN failed \ {b} ELSE failed \union {b}
      /\ valid' = valid \union {b} /\ UNCHANGED blockno
  BY DEF Ideintr, cacheVars
<1> HIDE DEF b
<1>4. TypeOK /\ TypeOK' /\ OneBufferPerBlock /\ OneBufferPerBlock'
  BY DEF IInv
<1>5. CASE blockno[b] # k
  <2>1. disk'[k] = disk[k] /\ \A d \in valid : blockno[d] = k => d # b /\ data'[d] = data[d]
    BY <1>1, <1>3, <1>4, <1>5 DEF TypeOK
  <2>2. CASE \E d \in valid : blockno[d] = k
    <3>1. PICK d \in valid : blockno[d] = k
      BY <2>2
    <3>2. Current(k) = data[d] /\ Current(k)' = data'[d]
      BY <1>3, <1>4, <3>1, CurrentIs, CurrentIsNext
    <3> QED
      BY <2>1, <3>1, <3>2
  <2>3. CASE \A d \in valid : blockno[d] # k
    <3>1. Current(k) = disk[k] /\ Current(k)' = disk'[k]
      BY <1>3, <1>4, <1>5, <2>3, CurrentIs, CurrentIsNext
    <3> QED
      BY <2>1, <3>1
  <2> QED
    BY <2>2, <2>3
<1>6. CASE blockno[b] = k
  <2>1. Current(k)' = data'[b]
    BY <1>3, <1>4, <1>6, CurrentIsNext
  <2>2. CASE b \in dirty
    <3>1. Current(k) = data[b]
      BY <1>2, <1>4, <1>6, <2>2, CurrentIs
    <3> QED
      BY <1>3, <2>1, <2>2, <3>1
  <2>3. CASE b \notin dirty
    <3>1. \A d \in valid : blockno[d] # k
      BY <1>1, <1>2, <1>4, <1>6, <2>3 DEF TypeOK, OneBufferPerBlock, Cached
    <3>2. Current(k) = disk[k]
      BY <1>4, <3>1, CurrentIs
    <3>3. ~ok
      BY <1>1, <1>3, <1>4, <1>6, <2>1, <2>3, <3>2 DEF TypeOK
    <3> QED
      BY <1>1, <1>3, <1>6, <3>3
  <2> QED
    BY <2>2, <2>3
<1> QED
  BY <1>5, <1>6

(* Other steps move no contents.                                           *)
LEMMA CurrentFrame ==
    ASSUME UNCHANGED <<blockno, valid, data, disk>>, NEW k
    PROVE  Current(k)' = Current(k)
BY DEF Current, Cached

(* The cache is transparent: bget()'s recycling and the transfers of the   *)
(* driver change no block, only bread()'s caller does, and a transfer that *)
(* failed.                                                                 *)
THEOREM CacheIsTransparent == Spec => OnlyHoldersChange
<1> DEFINE Changed(k) ==
        Current(k)' # Current(k) =>
            \/ \E t \in Thread : want[t] = k /\ pc[t] = "have" /\ pc'[t] = "modified"
            \/ \E b \in Buf : (blockno[b] = k /\ b \in failed) \/ (blockno'[b] = k /\ b \in failed')
<1>1. ASSUME IInv, IInv', [Next]_vars, NEW k \in Block PROVE Changed(k)
  <2>1. CASE UNCHANGED <<blockno, valid, data, disk>>
    BY <2>1, CurrentFrame
  <2>2. ASSUME NEW t \in Thread, BgetMiss(t) PROVE Changed(k)
    BY <1>1, <2>2, BgetMissKeeps
  <2>3. ASSUME NEW t \in Thread, NEW v \in Val, Modify(t, v) PROVE Changed(k)
    BY <1>1, <2>3, ModifyChangesOwn
  <2>4. ASSUME NEW ok \in BOOLEAN, Ideintr(ok) PROVE Changed(k)
    BY <1>1, <2>4, IdeintrKeeps
  <2>5. CASE UNCHANGED vars
    BY <2>1, <2>5 DEF vars, cacheVars, ideVars
  <2> HIDE DEF Changed
  <2>6. ASSUME NEW t \in Thread, ThreadStep(t) PROVE Changed(k)
    BY <2>1, <2>2, <2>6 DEF ThreadStep, BgetHit, BgetPanic, BgetLock, Bread, Bwrite, LogWrite,
       BrelseUnlock, Brelse, Iderw, IderwTest, KillWakes, cacheVars, ideVars
  <2>7. ASSUME NEW t \in Thread, NEW j \in Block, Call(t, j) PROVE Changed(k)
    BY <2>1, <2>7 DEF Call, cacheVars, ideVars
  <2> QED
    BY <1>1, <2>3, <2>4, <2>5, <2>6, <2>7 DEF Next
<1>2. ASSUME IInv, IInv', [Next]_vars PROVE [\A k \in Block : Changed(k)]_vars
  BY <1>1, <1>2
<1> QED
  BY <1>2, Invariant, PTL DEF Spec, OnlyHoldersChange
=============================================================================
