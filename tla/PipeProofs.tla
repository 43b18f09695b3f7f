----------------------------- MODULE PipeProofs -----------------------------
(***************************************************************************)
(* For any sets of readers and writers and any PIPESIZE that divides the   *)
(* range of the counters: p->lock and the reference counts protect the     *)
(* pipe, nobody oversleeps, and the ring buffer is a bounded FIFO.         *)
(***************************************************************************)
EXTENDS Pipe, SequenceTheorems, TLAPS

-----------------------------------------------------------------------------
(* Arithmetic of the wrapping counters                                     *)

(* Division with remainder.                                                *)
LEMMA DivMod ==
    ASSUME NEW m \in Nat \ {0}, NEW a \in Int
    PROVE  a % m \in 0 .. m - 1 /\ a \div m \in Int /\ a = m * (a \div m) + (a % m)
OBVIOUS

(* The remainder is the only one.                                          *)
LEMMA ModUnique ==
    ASSUME NEW m \in Nat \ {0}, NEW q \in Int, NEW r \in 0 .. m - 1
    PROVE  (m * q + r) % m = r
OBVIOUS

(* Two different multiples of m are at least m apart.                      *)
LEMMA MultiplesApart ==
    ASSUME NEW m \in Nat \ {0}, NEW q \in Int, NEW k \in Int, q # k
    PROVE  m * q - m * k >= m \/ m * q - m * k <= -m
OBVIOUS

(* A value that wrapped at most once, in either direction.                 *)
LEMMA ModCases ==
    ASSUME NEW m \in Nat \ {0}, NEW a \in Int, -m <= a, a < 2 * m
    PROVE  a % m = IF a < 0 THEN a + m ELSE IF a < m THEN a ELSE a - m
OBVIOUS

(* A counter that wraps at a multiple of PIPESIZE keeps its index in data. *)
LEMMA ModWrap ==
    ASSUME NEW m \in Nat \ {0}, NEW u \in Nat, u % m = 0, NEW a \in Int
    PROVE  (a - u) % m = a % m
<1> DEFINE q == a \div m
           k == u \div m
           r == a % m
<1>1. a = m * q + r /\ q \in Int /\ r \in 0 .. m - 1
  BY DivMod
<1>2. u = m * k /\ k \in Int
  BY DivMod
<1> HIDE DEF q, k, r
<1>3. a - u = m * (q - k) + r /\ q - k \in Int
  BY <1>1, <1>2
<1>4. (m * (q - k) + r) % m = r
  BY <1>1, <1>3, ModUnique
<1> QED
  BY <1>3, <1>4 DEF r

(* Fewer than PIPESIZE consecutive counts have different indices in data.  *)
LEMMA ModDistinct ==
    ASSUME NEW m \in Nat \ {0}, NEW a \in Int, NEW b \in Int, a < b, b < a + m
    PROVE  a % m # b % m
<1> SUFFICES ASSUME a % m = b % m PROVE FALSE
  OBVIOUS
<1> DEFINE q == a \div m
           k == b \div m
           r == a % m
<1>1. a = m * q + r /\ q \in Int /\ r \in 0 .. m - 1
  BY DivMod
<1>2. b = m * k + r /\ k \in Int
  BY DivMod
<1> HIDE DEF q, k, r
<1>3. m * k - m * q = b - a
  BY <1>1, <1>2
<1> QED
  BY <1>1, <1>2, <1>3, MultiplesApart

(* The constants of the pipe without their remainder.                      *)
LEMMA Sizes == UintMod \in Nat \ {0} /\ PIPESIZE \in Nat \ {0} /\ PIPESIZE < UintMod
BY PipeAssumption

(* nwrite - nread and nread + PIPESIZE without remainders.                 *)
LEMMA Distance ==
    ASSUME NEW r \in 0 .. UintMod - 1, NEW w \in 0 .. UintMod - 1
    PROVE  /\ (w - r) % UintMod = IF w < r THEN w - r + UintMod ELSE w - r
           /\ (w - r) % UintMod \in 0 .. UintMod - 1
           /\ r = w <=> (w - r) % UintMod = 0
           /\ w = (r + PIPESIZE) % UintMod <=> (w - r) % UintMod = PIPESIZE
<1> DEFINE d == w - r
           e == r + PIPESIZE
<1> USE Sizes
<1>1. /\ d \in Int /\ -UintMod <= d /\ d < 2 * UintMod
      /\ e \in Int /\ -UintMod <= e /\ e < 2 * UintMod
  OBVIOUS
<1> HIDE DEF d, e
<1>2. d % UintMod = IF d < 0 THEN d + UintMod ELSE IF d < UintMod THEN d ELSE d - UintMod
  BY <1>1, ModCases
<1>3. e % UintMod = IF e < 0 THEN e + UintMod ELSE IF e < UintMod THEN e ELSE e - UintMod
  BY <1>1, ModCases
<1>4. d % UintMod = IF w < r THEN w - r + UintMod ELSE w - r
  BY <1>1, <1>2 DEF d
<1>5. e % UintMod = IF r + PIPESIZE < UintMod THEN r + PIPESIZE ELSE r + PIPESIZE - UintMod
  BY <1>1, <1>3 DEF e
<1> QED
  BY <1>4, <1>5 DEF d, e

(* nread++ and nwrite++ without remainders.                                *)
LEMMA IncCases ==
    ASSUME NEW n \in 0 .. UintMod - 1
    PROVE  /\ Inc(n) = IF n = UintMod - 1 THEN 0 ELSE n + 1
           /\ Inc(n) \in 0 .. UintMod - 1
<1> DEFINE d == n + 1
<1> USE Sizes
<1>1. d \in Int /\ -UintMod <= d /\ d < 2 * UintMod
  OBVIOUS
<1> HIDE DEF d
<1>2. d % UintMod = IF d < 0 THEN d + UintMod ELSE IF d < UintMod THEN d ELSE d - UintMod
  BY <1>1, ModCases
<1> QED
  BY <1>2 DEF Inc, d

(* What one byte in and one byte out do to the count.                      *)
LEMMA CountInc ==
    ASSUME NEW r \in 0 .. UintMod - 1, NEW w \in 0 .. UintMod - 1
    PROVE  /\ (w - r) % UintMod < PIPESIZE =>
                  (Inc(w) - r) % UintMod = ((w - r) % UintMod) + 1
           /\ r # w => (w - Inc(r)) % UintMod = ((w - r) % UintMod) - 1
<1> USE Sizes
<1>1. /\ (w - r) % UintMod = IF w < r THEN w - r + UintMod ELSE w - r
      /\ (Inc(w) - r) % UintMod = IF Inc(w) < r THEN Inc(w) - r + UintMod ELSE Inc(w) - r
      /\ (w - Inc(r)) % UintMod = IF w < Inc(r) THEN w - Inc(r) + UintMod ELSE w - Inc(r)
  BY Distance, IncCases
<1> QED
  BY <1>1, IncCases

(* The pipe's own counters.                                                *)
LEMMA Counters ==
    ASSUME TypeOK
    PROVE  /\ Count \in 0 .. UintMod - 1
           /\ Empty <=> Count = 0
           /\ Full <=> Count = PIPESIZE
BY Distance DEF TypeOK, Count, Empty, Full

-----------------------------------------------------------------------------
(* The inductive invariant                                                 *)

(* The invariant holds after pipealloc().                                  *)
LEMMA InitInvariant == Init => IInv
<1> SUFFICES ASSUME Init PROVE IInv
  OBVIOUS
<1> USE PipeAssumption DEF Init
<1>1. TypeOK
  <2>1. pc \in [Proc -> Label]
    BY DEF Label
  <2>2. nread \in 0 .. UintMod - 1 /\ nwrite \in 0 .. UintMod - 1
    BY Sizes
  <2>3. left \in [Proc -> 0 .. MaxCount]
    OBVIOUS
  <2>4. killed \in [Proc -> BOOLEAN]
    OBVIOUS
  <2> QED
    BY <2>1, <2>2, <2>3, <2>4 DEF TypeOK
<1>2. LockHeld /\ WriterWaits /\ ReaderWaits
  BY DEF LockHeld, WriterWaits, ReaderWaits, Proc
<1>3. EndsOpen
  BY DEF EndsOpen, SameEnd, Proc
<1>4. Count <= PIPESIZE
  BY <1>1, Counters, Sizes DEF Empty
<1> QED
  BY <1>1, <1>2, <1>3, <1>4 DEF IInv

(* A byte moves under p->lock: only its holder is awake in the pipe.       *)
LEMMA WriteByteInvariant ==
    ASSUME IInv, NEW p \in Proc, NEW v \in Val, WriteByte(p, v)
    PROVE  IInv'
<1> USE DEF IInv, WriteByte
<1>1. TypeOK'
  <2>1. nwrite' \in 0 .. UintMod - 1
    BY IncCases DEF TypeOK
  <2>2. left' \in [Proc -> 0 .. MaxCount]
    BY PipeAssumption DEF TypeOK
  <2> QED
    BY <2>1, <2>2 DEF TypeOK
<1>2. Count' = Count + 1 /\ Count < PIPESIZE
  BY CountInc, Counters, Sizes DEF TypeOK, Count
<1>3. LockHeld' /\ EndsOpen'
  BY DEF LockHeld, EndsOpen, SameEnd
<1>4. WriterWaits'
  BY PipeAssumption DEF WriterWaits, LockHeld, Proc
<1>5. ReaderWaits'
  BY PipeAssumption DEF ReaderWaits, LockHeld, Proc
<1> QED
  BY <1>1, <1>2, <1>3, <1>4, <1>5, Counters, Sizes

(* The same of a byte read.                                                *)
LEMMA ReadByteInvariant ==
    ASSUME IInv, NEW p \in Proc, ReadByte(p)
    PROVE  IInv'
<1> USE DEF IInv, ReadByte
<1>1. TypeOK'
  <2>1. nread' \in 0 .. UintMod - 1
    BY IncCases DEF TypeOK
  <2>2. left' \in [Proc -> 0 .. MaxCount]
    BY PipeAssumption DEF TypeOK
  <2> QED
    BY <2>1, <2>2 DEF TypeOK
<1>2. Count' = Count - 1 /\ Count > 0
  BY CountInc, Counters, Sizes DEF TypeOK, Count, Empty
<1>3. LockHeld' /\ EndsOpen'
  BY DEF LockHeld, EndsOpen, SameEnd
<1>4. WriterWaits'
  BY PipeAssumption DEF WriterWaits, LockHeld, Proc
<1>5. ReaderWaits'
  BY PipeAssumption DEF ReaderWaits, LockHeld, Proc
<1> QED
  BY <1>1, <1>2, <1>3, <1>4, <1>5, Counters, Sizes

(* The steps that move no byte leave the counters alone.                   *)
LEMMA CountFrame ==
    ASSUME UNCHANGED <<nread, nwrite>>
    PROVE  Count' = Count /\ Full' = Full /\ Empty' = Empty
BY DEF Count, Full, Empty

(* Every other step of a process inside the kernel.                        *)
LEMMA KernelInvariant ==
    ASSUME IInv, NEW p \in Proc,
           \/ WriteFail(p) \/ WriteFull(p) \/ WriteDone(p)
           \/ ReadFail(p) \/ ReadEmpty(p) \/ ReadReady(p) \/ ReadDone(p)
           \/ Sleep(p) \/ Relock(p) \/ PipeClose(p)
    PROVE  IInv'
<1> USE PipeAssumption DEF IInv, TypeOK, LockHeld, EndsOpen, Label, Proc, pipeVars, Return, Wakeup
<1>0. Count' <= PIPESIZE
  BY CountFrame DEF WriteFail, WriteFull, WriteDone, ReadFail, ReadEmpty, ReadReady, ReadDone,
                    Sleep, Relock, PipeClose
<1>1. CASE WriteFail(p)
  <2>1. TypeOK' /\ LockHeld'
    BY <1>1 DEF WriteFail
  <2>2. EndsOpen'
    BY <1>1 DEF WriteFail, SameEnd
  <2>3. WriterWaits'
    BY <1>1, CountFrame DEF WriteFail, WriterWaits
  <2>4. ReaderWaits'
    BY <1>1, CountFrame DEF WriteFail, ReaderWaits
  <2> QED
    BY <2>1, <2>2, <2>3, <2>4, <1>0
<1>2. CASE WriteFull(p)
  <2>1. TypeOK' /\ LockHeld'
    BY <1>2 DEF WriteFull
  <2>2. EndsOpen'
    BY <1>2 DEF WriteFull, SameEnd
  <2>3. WriterWaits'
    BY <1>2, CountFrame DEF WriteFull, WriterWaits
  <2>4. ReaderWaits'
    BY <1>2, CountFrame DEF WriteFull, ReaderWaits
  <2> QED
    BY <2>1, <2>2, <2>3, <2>4, <1>0
<1>3. CASE WriteDone(p)
  <2>1. TypeOK' /\ LockHeld'
    BY <1>3 DEF WriteDone
  <2>2. EndsOpen'
    BY <1>3 DEF WriteDone, SameEnd
  <2>3. WriterWaits'
    BY <1>3, CountFrame DEF WriteDone, WriterWaits
  <2>4. ReaderWaits'
    BY <1>3, CountFrame DEF WriteDone, ReaderWaits
  <2> QED
    BY <2>1, <2>2, <2>3, <2>4, <1>0
<1>4. CASE ReadFail(p)
  <2>1. TypeOK' /\ LockHeld'
    BY <1>4 DEF ReadFail
  <2>2. EndsOpen'
    BY <1>4 DEF ReadFail, SameEnd
  <2>3. WriterWaits'
    BY <1>4, CountFrame DEF ReadFail, WriterWaits
  <2>4. ReaderWaits'
    BY <1>4, CountFrame DEF ReadFail, ReaderWaits
  <2> QED
    BY <2>1, <2>2, <2>3, <2>4, <1>0
<1>5. CASE ReadEmpty(p)
  <2>1. TypeOK' /\ LockHeld'
    BY <1>5 DEF ReadEmpty
  <2>2. EndsOpen'
    BY <1>5 DEF ReadEmpty, SameEnd
  <2>3. WriterWaits'
    BY <1>5, CountFrame DEF ReadEmpty, WriterWaits
  <2>4. ReaderWaits'
    BY <1>5, CountFrame DEF ReadEmpty, ReaderWaits
  <2> QED
    BY <2>1, <2>2, <2>3, <2>4, <1>0
<1>6. CASE ReadReady(p)
  <2>1. TypeOK' /\ LockHeld'
    BY <1>6 DEF ReadReady
  <2>2. EndsOpen'
    BY <1>6 DEF ReadReady, SameEnd
  <2>3. WriterWaits'
    BY <1>6, CountFrame DEF ReadReady, WriterWaits
  <2>4. ReaderWaits'
    BY <1>6, CountFrame DEF ReadReady, ReaderWaits
  <2> QED
    BY <2>1, <2>2, <2>3, <2>4, <1>0
<1>7. CASE ReadDone(p)
  <2>1. TypeOK' /\ LockHeld'
    BY <1>7 DEF ReadDone
  <2>2. EndsOpen'
    BY <1>7 DEF ReadDone, SameEnd
  <2>3. WriterWaits'
    BY <1>7, CountFrame DEF ReadDone, WriterWaits
  <2>4. ReaderWaits'
    BY <1>7, CountFrame DEF ReadDone, ReaderWaits
  <2> QED
    BY <2>1, <2>2, <2>3, <2>4, <1>0
<1>8. CASE Sleep(p)
  <2>1. TypeOK' /\ LockHeld'
    BY <1>8 DEF Sleep
  <2>2. EndsOpen'
    BY <1>8 DEF Sleep, SameEnd
  <2>3. WriterWaits'
    BY <1>8, CountFrame DEF Sleep, WriterWaits
  <2>4. ReaderWaits'
    BY <1>8, CountFrame DEF Sleep, ReaderWaits
  <2> QED
    BY <2>1, <2>2, <2>3, <2>4, <1>0
<1>9. CASE Relock(p)
  <2>1. TypeOK' /\ LockHeld'
    BY <1>9 DEF Relock
  <2>2. EndsOpen'
    BY <1>9 DEF Relock, SameEnd
  <2>3. WriterWaits'
    BY <1>9, CountFrame DEF Relock, WriterWaits
  <2>4. ReaderWaits'
    BY <1>9, CountFrame DEF Relock, ReaderWaits
  <2> QED
    BY <2>1, <2>2, <2>3, <2>4, <1>0
<1>10. CASE PipeClose(p)
  <2>1. TypeOK' /\ LockHeld'
    BY <1>10 DEF PipeClose
  <2>2. EndsOpen'
    BY <1>10 DEF PipeClose, SameEnd
  <2>3. WriterWaits'
    BY <1>10, CountFrame DEF PipeClose, WriterWaits, SameEnd
  <2>4. ReaderWaits'
    BY <1>10, CountFrame DEF PipeClose, ReaderWaits, SameEnd
  <2> QED
    BY <2>1, <2>2, <2>3, <2>4, <1>0
<1> QED
  BY <1>1, <1>2, <1>3, <1>4, <1>5, <1>6, <1>7, <1>8, <1>9, <1>10

(* Calls, fork(), fileclose() and kill().                                  *)
LEMMA UserInvariant ==
    ASSUME IInv, NEW p \in Proc, UserStep(p) \/ Kill(p)
    PROVE  IInv'
<1> USE PipeAssumption DEF IInv, TypeOK, LockHeld, EndsOpen, Label, Proc, pipeVars
<1>0. Count' <= PIPESIZE
  BY CountFrame DEF UserStep, Call, Inherit, FileClose, Kill
<1>1. ASSUME NEW n \in 1 .. MaxCount, Call(p, n) PROVE IInv'
  <2>1. TypeOK' /\ LockHeld'
    BY <1>1 DEF Call
  <2>2. EndsOpen'
    BY <1>1 DEF Call, SameEnd
  <2>3. WriterWaits'
    BY <1>1, CountFrame DEF Call, WriterWaits
  <2>4. ReaderWaits'
    BY <1>1, CountFrame DEF Call, ReaderWaits
  <2> QED
    BY <2>1, <2>2, <2>3, <2>4, <1>0
<1>2. ASSUME NEW q \in Proc, Inherit(p, q) PROVE IInv'
  <2>1. TypeOK' /\ LockHeld'
    BY <1>2 DEF Inherit
  <2>2. EndsOpen'
    BY <1>2 DEF Inherit, SameEnd
  <2>3. WriterWaits'
    BY <1>2, CountFrame DEF Inherit, WriterWaits
  <2>4. ReaderWaits'
    BY <1>2, CountFrame DEF Inherit, ReaderWaits
  <2> QED
    BY <2>1, <2>2, <2>3, <2>4, <1>0
<1>3. ASSUME FileClose(p) PROVE IInv'
  <2>1. TypeOK' /\ LockHeld'
    BY <1>3 DEF FileClose
  <2>2. EndsOpen'
    BY <1>3 DEF FileClose, SameEnd, LastRef
  <2>3. WriterWaits'
    BY <1>3, CountFrame DEF FileClose, WriterWaits
  <2>4. ReaderWaits'
    BY <1>3, CountFrame DEF FileClose, ReaderWaits
  <2> QED
    BY <2>1, <2>2, <2>3, <2>4, <1>0
<1>4. ASSUME Kill(p) PROVE IInv'
  <2>1. TypeOK' /\ LockHeld'
    BY <1>4 DEF Kill
  <2>2. EndsOpen'
    BY <1>4 DEF Kill, SameEnd
  <2>3. WriterWaits'
    BY <1>4, CountFrame DEF Kill, WriterWaits
  <2>4. ReaderWaits'
    BY <1>4, CountFrame DEF Kill, ReaderWaits
  <2> QED
    BY <2>1, <2>2, <2>3, <2>4, <1>0
<1> QED
  BY <1>1, <1>2, <1>3, <1>4 DEF UserStep

(* The invariant holds throughout.                                         *)
LEMMA Invariant == Spec => []IInv
<1>1. Init => IInv
  BY InitInvariant
<1>2. IInv /\ [Next]_vars => IInv'
  <2> SUFFICES ASSUME IInv, [Next]_vars PROVE IInv'
    OBVIOUS
  <2>1. CASE UNCHANGED vars
    BY <2>1, CountFrame
    DEF vars, pipeVars, IInv, TypeOK, LockHeld, EndsOpen, WriterWaits, ReaderWaits, SameEnd
  <2>2. CASE Next
    BY <2>2, WriteByteInvariant, ReadByteInvariant, KernelInvariant, UserInvariant
    DEF Next, KernelStep
  <2> QED
    BY <2>1, <2>2
<1> QED
  BY <1>1, <1>2, PTL DEF Spec

(* Every field of struct pipe keeps its type: the indices stay in data.    *)
THEOREM PipeTypeOK == Spec => []TypeOK
<1>1. IInv => TypeOK
  BY DEF IInv
<1> QED
  BY <1>1, Invariant, PTL

(* kfree() in pipeclose() comes after the last use of the pipe: nobody is  *)
(* in piperead(), pipewrite() or pipeclose() or can enter them any more.   *)
THEOREM FreedPipeIsUnused == Spec => []NoUseAfterFree
<1>1. IInv => NoUseAfterFree
  BY PipeAssumption DEF IInv, TypeOK, LockHeld, EndsOpen, NoUseAfterFree, Proc
<1> QED
  BY <1>1, Invariant, PTL

(* While p->lock is free, pipewrite() sleeps only on a full pipe that can  *)
(* still be read.                                                          *)
THEOREM WritersAreWoken == Spec => []WriterSleepsOnFull
<1>1. IInv => WriterSleepsOnFull
  BY PipeAssumption DEF IInv, LockHeld, WriterWaits, WriterSleepsOnFull, Proc
<1> QED
  BY <1>1, Invariant, PTL

(* While p->lock is free, piperead() sleeps only on an empty pipe that can *)
(* still be written, as long as no writer was killed.                      *)
THEOREM ReadersAreWoken == Spec => []ReaderSleepsOnEmptyOrKill
<1>1. IInv => ReaderSleepsOnEmptyOrKill
  BY PipeAssumption DEF IInv, LockHeld, ReaderWaits, ReaderSleepsOnEmptyOrKill, Proc
<1> QED
  BY <1>1, Invariant, PTL

-----------------------------------------------------------------------------
(* The ring buffer is a FIFO                                               *)

(* The i-th byte under way in data d with nread at r.                      *)
Byte(d, r, i) == d[(r + i - 1) % PIPESIZE]

(* nwrite is in the slot after the bytes under way, also after it wrapped. *)
LEMMA NextSlot ==
    ASSUME TypeOK
    PROVE  nwrite % PIPESIZE = (nread + Count) % PIPESIZE
<1> USE Sizes
<1> DEFINE w == nread + Count
<1>1. /\ nread \in 0 .. UintMod - 1 /\ nwrite \in 0 .. UintMod - 1
      /\ Count \in 0 .. UintMod - 1 /\ w \in Int
  BY Counters DEF TypeOK
<1>2. nwrite = w \/ nwrite = w - UintMod
  BY <1>1, Distance DEF Count
<1> HIDE DEF w
<1>3. (w - UintMod) % PIPESIZE = w % PIPESIZE
  BY <1>1, ModWrap, PipeAssumption
<1>4. nwrite % PIPESIZE = w % PIPESIZE
  BY <1>2, <1>3
<1> QED
  BY <1>4 DEF w

(* After pipewrite() stores a byte the ones under way are the old ones and *)
(* it: none of them occupies the slot it lands in.                         *)
LEMMA WriteAppends ==
    ASSUME IInv, NEW p \in Proc, NEW v \in Val, WriteByte(p, v)
    PROVE  /\ Count < PIPESIZE /\ Count' = Count + 1
           /\ Byte(data', nread', Count + 1) = v
           /\ \A i \in 1 .. Count : Byte(data', nread', i) = Byte(data, nread, i)
<1> USE Sizes
<1> DEFINE w == nread + Count
<1>1. /\ nread \in 0 .. UintMod - 1 /\ nwrite \in 0 .. UintMod - 1
      /\ Count \in 0 .. UintMod - 1 /\ w \in Int
      /\ data \in [0 .. PIPESIZE - 1 -> Val]
  BY Counters DEF IInv, TypeOK
<1>2. Count < PIPESIZE /\ Count' = Count + 1
  <2>1. Count < PIPESIZE
    BY <1>1, Counters DEF IInv, WriteByte
  <2> QED
    BY <2>1, <1>1, CountInc DEF WriteByte, Count
<1>3. data' = [data EXCEPT ![w % PIPESIZE] = v] /\ nread' = nread
  BY NextSlot DEF WriteByte, IInv
<1>4. w % PIPESIZE \in 0 .. PIPESIZE - 1
  BY <1>1, DivMod
<1>5. ASSUME NEW i \in 1 .. Count PROVE Byte(data', nread', i) = Byte(data, nread, i)
  <2> DEFINE b == nread + i - 1
  <2>1. b \in Int /\ b < w /\ w < b + PIPESIZE
    BY <1>1, <1>2
  <2> HIDE DEF b, w
  <2>2. b % PIPESIZE # w % PIPESIZE
    BY <1>1, <2>1, ModDistinct
  <2>3. b % PIPESIZE \in 0 .. PIPESIZE - 1
    BY <2>1, DivMod
  <2>4. data'[b % PIPESIZE] = data[b % PIPESIZE]
    BY <1>1, <1>3, <2>2, <2>3
  <2> QED
    BY <1>3, <2>4 DEF Byte, b
<1>6. Byte(data', nread', Count + 1) = v
  <2>1. nread + (Count + 1) - 1 = w
    BY <1>1
  <2> HIDE DEF w
  <2> QED
    BY <1>1, <1>3, <1>4, <2>1 DEF Byte
<1> QED
  BY <1>2, <1>5, <1>6

(* piperead() takes the first byte under way and leaves the others.        *)
LEMMA ReadTakesFirst ==
    ASSUME IInv, NEW p \in Proc, ReadByte(p)
    PROVE  /\ Count > 0 /\ Count' = Count - 1
           /\ \A i \in 1 .. Count - 1 : Byte(data', nread', i) = Byte(data, nread, i + 1)
<1> USE Sizes
<1>1. /\ nread \in 0 .. UintMod - 1 /\ nwrite \in 0 .. UintMod - 1
      /\ Count \in 0 .. UintMod - 1
  BY Counters DEF IInv, TypeOK
<1>2. Count > 0 /\ Count' = Count - 1
  <2>1. Count > 0 /\ nread # nwrite
    BY <1>1, Counters DEF IInv, ReadByte, Empty
  <2> QED
    BY <2>1, <1>1, CountInc DEF ReadByte, Count
<1>3. data' = data /\ (nread' = nread + 1 \/ nread' = nread + 1 - UintMod)
  BY <1>1, IncCases DEF ReadByte
<1>4. ASSUME NEW i \in 1 .. Count - 1
      PROVE  Byte(data', nread', i) = Byte(data, nread, i + 1)
  <2> DEFINE b == nread + (i + 1) - 1
  <2>1. b \in Int /\ (nread' + i - 1 = b \/ nread' + i - 1 = b - UintMod)
    BY <1>1, <1>3
  <2> HIDE DEF b
  <2>2. (b - UintMod) % PIPESIZE = b % PIPESIZE
    BY <2>1, ModWrap, PipeAssumption
  <2>3. (nread' + i - 1) % PIPESIZE = b % PIPESIZE
    BY <2>1, <2>2
  <2> QED
    BY <1>3, <2>3 DEF Byte, b
<1> QED
  BY <1>2, <1>4

(* The bytes under way: n of them in data d from nread at r on.            *)
Queue(d, r, n) == [i \in 1 .. n |-> Byte(d, r, i)]

(* They are a sequence of bytes.                                           *)
LEMMA QueueIsSeq ==
    ASSUME NEW d \in [0 .. PIPESIZE - 1 -> Val], NEW r \in Int, NEW n \in Nat
    PROVE  Queue(d, r, n) \in Seq(Val) /\ Len(Queue(d, r, n)) = n
<1>1. ASSUME NEW i \in 1 .. n PROVE Byte(d, r, i) \in Val
  <2> DEFINE b == r + i - 1
  <2>1. b \in Int
    OBVIOUS
  <2> HIDE DEF b
  <2>2. b % PIPESIZE \in 0 .. PIPESIZE - 1
    BY <2>1, DivMod, Sizes
  <2> QED
    BY <2>2 DEF Byte, b
<1>2. Queue(d, r, n) \in [1 .. n -> Val]
  BY <1>1 DEF Queue
<1>3. Queue(d, r, n) \in Seq(Val)
  BY <1>2
<1> QED
  BY <1>2, <1>3

(* The mapped queue of the refinement.                                     *)
LEMMA MappedQueue ==
    ASSUME IInv
    PROVE  /\ Queue(data, nread, Count) \in Seq(Val)
           /\ Len(Queue(data, nread, Count)) = Count
BY QueueIsSeq, Counters, Sizes DEF IInv, TypeOK

(* pipewrite() storing a byte is a Put.                                    *)
LEMMA WriteIsPut ==
    ASSUME IInv, NEW p \in Proc, NEW v \in Val, WriteByte(p, v)
    PROVE  Fifo!Put(v)
<1> DEFINE q == Queue(data, nread, Count)
<1>1. /\ q \in Seq(Val) /\ Len(q) = Count /\ Count \in Nat
      /\ \A i \in 1 .. Count : q[i] = Byte(data, nread, i)
  BY MappedQueue, Counters, Sizes DEF IInv, Queue
<1>2. /\ Count < PIPESIZE /\ Count' = Count + 1
      /\ Byte(data', nread', Count + 1) = v
      /\ \A i \in 1 .. Count : Byte(data', nread', i) = Byte(data, nread, i)
  BY WriteAppends
<1> HIDE DEF q
<1>3. Queue(data', nread', Count') = Append(q, v)
  <2> DEFINE t == Queue(data', nread', Count')
             u == Append(q, v)
  <2>1. /\ t \in Seq(Val) /\ Len(t) = Count + 1
        /\ \A i \in 1 .. Count + 1 : t[i] = Byte(data', nread', i)
    <3>1. data' \in [0 .. PIPESIZE - 1 -> Val] /\ nread' \in Int /\ Count' \in Nat
      BY WriteByteInvariant, <1>1, <1>2, Sizes DEF IInv, TypeOK
    <3>2. t \in Seq(Val) /\ Len(t) = Count'
      BY <3>1, QueueIsSeq
    <3> QED
      BY <1>2, <3>2 DEF Queue
  <2>2. /\ u \in Seq(Val) /\ Len(u) = Count + 1 /\ u[Count + 1] = v
        /\ \A i \in 1 .. Count : u[i] = q[i]
    BY <1>1, AppendProperties
  <2> HIDE DEF t, u
  <2>3. \A i \in 1 .. Count + 1 : t[i] = u[i]
    BY <1>1, <1>2, <2>1, <2>2
  <2>4. t = u
    BY <2>1, <2>2, <2>3, SeqEqual
  <2> QED
    BY <2>4 DEF t, u
<1>4. writeopen /\ UNCHANGED <<readopen, writeopen>>
  BY DEF IInv, EndsOpen, WriteByte
<1>5. Len(q) < PIPESIZE
  BY <1>1, <1>2
<1> QED
  BY <1>3, <1>4, <1>5 DEF Fifo!Put, q, Queue, Byte

(* piperead() taking a byte is a Get.                                      *)
LEMMA ReadIsGet ==
    ASSUME IInv, NEW p \in Proc, ReadByte(p)
    PROVE  Fifo!Get
<1> DEFINE q == Queue(data, nread, Count)
<1>1. /\ q \in Seq(Val) /\ Len(q) = Count /\ Count \in Nat
      /\ \A i \in 1 .. Count : q[i] = Byte(data, nread, i)
  BY MappedQueue, Counters, Sizes DEF IInv, Queue
<1>2. /\ Count > 0 /\ Count' = Count - 1
      /\ \A i \in 1 .. Count - 1 : Byte(data', nread', i) = Byte(data, nread, i + 1)
  BY ReadTakesFirst
<1> HIDE DEF q
<1>3. q # <<>>
  BY <1>1, <1>2
<1>4. Queue(data', nread', Count') = Tail(q)
  <2> DEFINE t == Queue(data', nread', Count')
             u == Tail(q)
  <2>1. /\ t \in Seq(Val) /\ Len(t) = Count - 1
        /\ \A i \in 1 .. Count - 1 : t[i] = Byte(data', nread', i)
    <3>1. data' \in [0 .. PIPESIZE - 1 -> Val] /\ nread' \in Int /\ Count' \in Nat
      BY ReadByteInvariant, <1>1, <1>2, Sizes DEF IInv, TypeOK
    <3>2. t \in Seq(Val) /\ Len(t) = Count'
      BY <3>1, QueueIsSeq
    <3> QED
      BY <1>2, <3>2 DEF Queue
  <2>2. /\ u \in Seq(Val) /\ Len(u) = Count - 1
        /\ \A i \in 1 .. Count - 1 : u[i] = q[i + 1]
    BY <1>1, <1>3, HeadTailProperties
  <2> HIDE DEF t, u
  <2>3. \A i \in 1 .. Count - 1 : t[i] = u[i]
    BY <1>1, <1>2, <2>1, <2>2
  <2>4. t = u
    BY <2>1, <2>2, <2>3, SeqEqual
  <2> QED
    BY <2>4 DEF t, u
<1>5. readopen /\ UNCHANGED <<readopen, writeopen>>
  BY DEF IInv, EndsOpen, ReadByte
<1> QED
  BY <1>3, <1>4, <1>5 DEF Fifo!Get, q, Queue, Byte

(* The pipe refines the bounded FIFO: bytes come out in the order they     *)
(* went in, each once, at most PIPESIZE are under way, and nothing is      *)
(* written or read after its end was closed.                               *)
THEOREM PipeIsFifo == Spec => ImplementsFifo
<1>1. Init => Fifo!FifoInit
  <2> SUFFICES ASSUME Init PROVE Fifo!FifoInit
    OBVIOUS
  <2>1. Count = 0
    BY InitInvariant, Counters DEF Init, IInv, Empty
  <2>2. [i \in 1 .. Count |-> data[(nread + i - 1) % PIPESIZE]] = <<>>
    BY <2>1
  <2> QED
    BY <2>2 DEF Init, Fifo!FifoInit
<1>2. IInv /\ [Next]_vars => [Fifo!FifoNext]_(Fifo!fifoVars)
  <2> SUFFICES ASSUME IInv, [Next]_vars PROVE [Fifo!FifoNext]_(Fifo!fifoVars)
    OBVIOUS
  <2>1. ASSUME UNCHANGED <<data, nread, nwrite, readopen, writeopen>>
        PROVE  UNCHANGED Fifo!fifoVars
    BY <2>1 DEF Fifo!fifoVars, Count
  <2>2. CASE UNCHANGED vars
    BY <2>1, <2>2 DEF vars, pipeVars
  <2>3. ASSUME NEW p \in Proc, NEW v \in Val, WriteByte(p, v)
        PROVE  Fifo!FifoNext
    BY <2>3, WriteIsPut DEF Fifo!FifoNext
  <2>4. ASSUME NEW p \in Proc, ReadByte(p)
        PROVE  Fifo!FifoNext
    BY <2>4, ReadIsGet DEF Fifo!FifoNext
  <2>5. ASSUME NEW p \in Proc, PipeClose(p)
        PROVE  Fifo!FifoNext
    <3>1. UNCHANGED [i \in 1 .. Count |-> data[(nread + i - 1) % PIPESIZE]]
      BY <2>5 DEF PipeClose, Count
    <3>2. IF p \in Writer THEN writeopen /\ writeopen' = FALSE /\ UNCHANGED readopen
                          ELSE readopen /\ readopen' = FALSE /\ UNCHANGED writeopen
      BY <2>5 DEF PipeClose, IInv, EndsOpen, Proc
    <3> QED
      BY <3>1, <3>2 DEF Fifo!FifoNext, Fifo!CloseRead, Fifo!CloseWrite
  <2>6. ASSUME NEW p \in Proc, KernelStep(p) \/ UserStep(p) \/ Kill(p),
               \A v \in Val : ~WriteByte(p, v), ~ReadByte(p), ~PipeClose(p)
        PROVE  UNCHANGED Fifo!fifoVars
    BY <2>1, <2>6
    DEF KernelStep, UserStep, Kill, WriteFail, WriteFull, WriteDone, ReadFail, ReadEmpty,
        ReadReady, ReadDone, Sleep, Relock, Call, Inherit, FileClose, pipeVars
  <2> QED
    BY <2>2, <2>3, <2>4, <2>5, <2>6 DEF Next
<1> QED
  BY <1>1, <1>2, Invariant, PTL DEF Spec, ImplementsFifo, Fifo!FifoSpec
=============================================================================
