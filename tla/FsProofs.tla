------------------------------- MODULE FsProofs -------------------------------
(***************************************************************************)
(* The inode cache under the file-system calls, for any number of          *)
(* processes, inodes, names, open files and calls: the reference count of  *)
(* an inode is the number of its holders at every moment, and the cached   *)
(* copy of an inode is the dinode.                                         *)
(***************************************************************************)
EXTENDS Fs, FiniteSetTheorems, TLAPS

-----------------------------------------------------------------------------
(* Counting                                                                *)

(* Sets that differ in one element at most.                                *)
LEMMA CardChange ==
    ASSUME NEW A, NEW B, NEW x, IsFiniteSet(A), A \ {x} = B \ {x}
    PROVE  /\ IsFiniteSet(B)
           /\ Cardinality(A) \in Nat /\ Cardinality(B) \in Nat
           /\ Cardinality(B) = Cardinality(A) - (IF x \in A THEN 1 ELSE 0)
                                              + (IF x \in B THEN 1 ELSE 0)
<1>1. IsFiniteSet(A \ {x}) /\ Cardinality(A \ {x}) \in Nat /\ Cardinality(A) \in Nat
  BY FS_RemoveElement, FS_CardinalityType
<1>2. Cardinality(A \ {x}) = Cardinality(A) - (IF x \in A THEN 1 ELSE 0)
  BY <1>1, FS_RemoveElement
<1>3. CASE x \in B
  <2>1. B = (A \ {x}) \union {x} /\ x \notin A \ {x}
    BY <1>3
  <2>2. IsFiniteSet(B) /\ Cardinality(B) = Cardinality(A \ {x}) + 1
    BY <2>1, <1>1, FS_AddElement
  <2> QED
    BY <2>2, <1>1, <1>2, <1>3
<1>4. CASE x \notin B
  <2>1. B = A \ {x}
    BY <1>4
  <2> QED
    BY <2>1, <1>1, <1>2, <1>4
<1> QED
  BY <1>3, <1>4

(* 1 if a process holds i by the variable that has the value a.            *)
One(a, i) == IF a = i THEN 1 ELSE 0

(* The references to i of a process with the current directory w, at step  *)
(* p of a call with the variables l and with the list s to work off.       *)
OwnIn(w, p, l, s, i) == One(w, i) + One(IpIn(p, l), i) + One(DpIn(p, l), i)
                        + Cardinality(Pending(s, i))

(* The references that process t holds.                                    *)
Own(t, i) == OwnIn(cwd[t], pc[t], local[t], todo[t], i)

-----------------------------------------------------------------------------
(* Lists of iput() and iunlock() calls                                     *)

Item == (PutStep \union {"unlock"}) \X Inum

(* 1 if the entry x of the list is an iput() on i.                         *)
Puts(x, i) == IF x \in PutStep \X {i} THEN 1 ELSE 0

(* A list has finitely many iput() calls on i, the empty one has none.     *)
LEMMA PendingType ==
    ASSUME NEW s \in Seq(Item), NEW i
    PROVE  /\ IsFiniteSet(Pending(s, i)) /\ Cardinality(Pending(s, i)) \in Nat
           /\ s = <<>> => Pending(s, i) = {} /\ Cardinality(Pending(s, i)) = 0
<1>1. Len(s) \in Nat /\ IsFiniteSet(0 .. Len(s) - 1)
  BY FS_Interval
<1>2. IsFiniteSet(Pending(s, i)) /\ Cardinality(Pending(s, i)) \in Nat
  BY <1>1, FS_Subset, FS_CardinalityType DEF Pending
<1>3. s = <<>> => Pending(s, i) = {}
  BY <1>1 DEF Pending
<1> QED
  BY <1>2, <1>3, FS_EmptySet

(* A call in front of the list changes the place of no other.              *)
LEMMA PendingPush ==
    ASSUME NEW s \in Seq(Item), NEW x \in Item, NEW i
    PROVE  /\ <<x>> \o s \in Seq(Item)
           /\ Cardinality(Pending(<<x>> \o s, i)) = Cardinality(Pending(s, i)) + Puts(x, i)
<1> DEFINE q == <<x>> \o s
<1>1. q \in Seq(Item) /\ Len(q) = Len(s) + 1 /\ Len(s) \in Nat /\ q[1] = x
  OBVIOUS
<1>2. \A k \in 1 .. Len(s) : q[k + 1] = s[k]
  OBVIOUS
<1>3. ASSUME NEW k \in 0 .. Len(s) - 1 PROVE q[Len(q) - k] = s[Len(s) - k]
  BY <1>1, <1>2
<1> HIDE DEF q
<1>4. Pending(q, i) \ {Len(s)} = Pending(s, i) /\ Len(s) \notin Pending(s, i)
  <2>1. 0 .. Len(q) - 1 = (0 .. Len(s) - 1) \union {Len(s)} /\ Len(s) \notin 0 .. Len(s) - 1
    BY <1>1
  <2>2. \A k : k \in 0 .. Len(s) - 1 =>
            (k \in Pending(q, i) <=> k \in Pending(s, i))
    BY <1>3, <2>1 DEF Pending
  <2>3. Pending(q, i) \subseteq 0 .. Len(q) - 1 /\ Pending(s, i) \subseteq 0 .. Len(s) - 1
    BY DEF Pending
  <2> QED
    BY <2>1, <2>2, <2>3
<1>5. Len(s) \in Pending(q, i) <=> x \in PutStep \X {i}
  BY <1>1 DEF Pending
<1>6. Pending(s, i) \ {Len(s)} = Pending(q, i) \ {Len(s)}
  BY <1>4
<1>7. IsFiniteSet(Pending(s, i))
  BY PendingType
<1>8. /\ Cardinality(Pending(s, i)) \in Nat
      /\ Cardinality(Pending(q, i)) = Cardinality(Pending(s, i))
             - (IF Len(s) \in Pending(s, i) THEN 1 ELSE 0) + (IF Len(s) \in Pending(q, i) THEN 1 ELSE 0)
  BY <1>6, <1>7, CardChange
<1>9. Cardinality(Pending(q, i)) = Cardinality(Pending(s, i)) + Puts(x, i)
  BY <1>4, <1>5, <1>8 DEF Puts
<1> QED
  BY <1>1, <1>9 DEF q

(* The rest of a list, and the list with another head.                     *)
LEMMA PendingPop ==
    ASSUME NEW s \in Seq(Item), s # <<>>, NEW i
    PROVE  /\ Head(s) \in Item /\ Tail(s) \in Seq(Item)
           /\ Cardinality(Pending(s, i)) = Cardinality(Pending(Tail(s), i)) + Puts(Head(s), i)
<1>1. Head(s) \in Item /\ Tail(s) \in Seq(Item) /\ s = <<Head(s)>> \o Tail(s)
  OBVIOUS
<1>2. Cardinality(Pending(<<Head(s)>> \o Tail(s), i)) = Cardinality(Pending(Tail(s), i)) + Puts(Head(s), i)
  BY <1>1, PendingPush
<1> QED
  BY <1>1, <1>2, Zenon

(* The lists that the calls of Fs make.                                    *)
LEMMA PendingLists ==
    ASSUME NEW q, NEW x \in Item, NEW y \in Item, NEW z \in Item, NEW i
    PROVE  /\ q = <<>> => q \in Seq(Item) /\ Cardinality(Pending(q, i)) = 0
           /\ q = <<x>> => q \in Seq(Item) /\ Cardinality(Pending(q, i)) = Puts(x, i)
           /\ q = <<x, y>> => /\ q \in Seq(Item)
                              /\ Cardinality(Pending(q, i)) = Puts(x, i) + Puts(y, i)
           /\ q = <<x, y, z>> => /\ q \in Seq(Item)
                                 /\ Cardinality(Pending(q, i)) = Puts(x, i) + Puts(y, i) + Puts(z, i)
<1>0. ASSUME NEW u PROVE Puts(u, i) \in Nat
  BY DEF Puts
<1>1. ASSUME NEW r, r = <<>> PROVE r \in Seq(Item) /\ Cardinality(Pending(r, i)) = 0
  <2>1. r \in Seq(Item)
    BY <1>1
  <2> QED
    BY <2>1, <1>1, PendingType, Zenon
<1>2. ASSUME NEW r, NEW u \in Item, r = <<u>>
      PROVE  r \in Seq(Item) /\ Cardinality(Pending(r, i)) = Puts(u, i)
  <2>1. r \in Seq(Item) /\ r # <<>> /\ Head(r) = u /\ Tail(r) = <<>>
    BY <1>2
  <2>2. Cardinality(Pending(r, i)) = Cardinality(Pending(Tail(r), i)) + Puts(Head(r), i)
    BY <2>1, PendingPop
  <2>3. Cardinality(Pending(Tail(r), i)) = 0
    BY <2>1, <1>1, Zenon
  <2> QED
    BY <2>1, <2>2, <2>3, <1>0
<1>3. ASSUME NEW r, NEW u \in Item, NEW v \in Item, r = <<u, v>>
      PROVE  r \in Seq(Item) /\ Cardinality(Pending(r, i)) = Puts(u, i) + Puts(v, i)
  <2>1. r \in Seq(Item) /\ r # <<>> /\ Head(r) = u /\ Tail(r) = <<v>>
    BY <1>3
  <2>2. Cardinality(Pending(r, i)) = Cardinality(Pending(Tail(r), i)) + Puts(Head(r), i)
    BY <2>1, PendingPop
  <2>3. Cardinality(Pending(Tail(r), i)) = Puts(v, i)
    BY <2>1, <1>2
  <2> QED
    BY <2>1, <2>2, <2>3, <1>0
<1>4. ASSUME q = <<x, y, z>>
      PROVE  q \in Seq(Item) /\ Cardinality(Pending(q, i)) = Puts(x, i) + Puts(y, i) + Puts(z, i)
  <2>1. q \in Seq(Item) /\ q # <<>> /\ Head(q) = x /\ Tail(q) = <<y, z>>
    BY <1>4
  <2>2. Cardinality(Pending(q, i)) = Cardinality(Pending(Tail(q), i)) + Puts(Head(q), i)
    BY <2>1, PendingPop
  <2>3. Cardinality(Pending(Tail(q), i)) = Puts(y, i) + Puts(z, i)
    BY <2>1, <1>3
  <2> QED
    BY <2>1, <2>2, <2>3, <1>0
<1> QED
  BY <1>1, <1>2, <1>3, <1>4

-----------------------------------------------------------------------------
(* What a step of one process does to the number of holders of an inode    *)

(* The pairs of one process are as many as its iput() calls.               *)
LEMMA CardPairs ==
    ASSUME NEW t, NEW A, IsFiniteSet(A)
    PROVE  IsFiniteSet({t} \X A) /\ Cardinality({t} \X A) = Cardinality(A)
<1>1. IsFiniteSet({t}) /\ Cardinality({t}) = 1 /\ Cardinality(A) \in Nat
  BY FS_Singleton, FS_CardinalityType
<1>2. IsFiniteSet({t} \X A) /\ Cardinality({t} \X A) = Cardinality({t}) * Cardinality(A)
  BY <1>1, FS_Product
<1> QED
  BY <1>1, <1>2

(* Disjoint finite sets.                                                   *)
LEMMA CardUnion ==
    ASSUME NEW A, NEW B, IsFiniteSet(A), IsFiniteSet(B), A \intersect B = {}
    PROVE  /\ IsFiniteSet(A \union B) /\ Cardinality(A) \in Nat /\ Cardinality(B) \in Nat
           /\ Cardinality(A \union B) = Cardinality(A) + Cardinality(B)
<1>1. Cardinality(A \intersect B) = 0
  BY FS_EmptySet
<1>2. Cardinality(A) \in Nat /\ Cardinality(B) \in Nat
  BY FS_CardinalityType
<1>3. /\ IsFiniteSet(A \union B)
      /\ Cardinality(A \union B) = Cardinality(A) + Cardinality(B) - Cardinality(A \intersect B)
  BY FS_Union, Zenon
<1> QED
  BY <1>1, <1>2, <1>3

(* The lists of one process change.                                        *)
LEMMA PutsRecount ==
    ASSUME NEW t \in Process, NEW i, todo[t] \in Seq(Item), todo'[t] \in Seq(Item),
           \A u \in Process \ {t} : todo'[u] = todo[u], IsFiniteSet(PutRefs(i))
    PROVE  /\ IsFiniteSet(PutRefs(i)') /\ Cardinality(PutRefs(i)) \in Nat
           /\ Cardinality(PutRefs(i)') = Cardinality(PutRefs(i)) - Cardinality(Pending(todo[t], i))
                                         + Cardinality(Pending(todo'[t], i))
<1> DEFINE A == Pending(todo[t], i)
           B == Pending(todo'[t], i)
           R == UNION {{u} \X Pending(todo[u], i) : u \in Process \ {t}}
<1>1. IsFiniteSet(A) /\ IsFiniteSet(B) /\ Cardinality(A) \in Nat /\ Cardinality(B) \in Nat
  BY PendingType
<1>2. PutRefs(i) = R \union ({t} \X A)
  BY DEF PutRefs
<1>3. PutRefs(i)' = R \union ({t} \X B)
  <2>1. \A u \in Process \ {t} : Pending(todo'[u], i) = Pending(todo[u], i)
    OBVIOUS
  <2>2. R = UNION {{u} \X Pending(todo'[u], i) : u \in Process \ {t}}
    BY <2>1
  <2>3. PutRefs(i)' = UNION {{u} \X Pending(todo'[u], i) : u \in Process}
    BY DEF PutRefs, Pending
  <2> HIDE DEF R
  <2> QED
    BY <2>2, <2>3
<1>4. \A e \in R : e[1] # t
  OBVIOUS
<1>5. IsFiniteSet(R)
  BY <1>2, FS_Subset
<1>6. R \intersect ({t} \X A) = {} /\ R \intersect ({t} \X B) = {}
  BY <1>4
<1> HIDE DEF A, B, R
<1>7. /\ IsFiniteSet({t} \X A) /\ Cardinality({t} \X A) = Cardinality(A)
      /\ IsFiniteSet({t} \X B) /\ Cardinality({t} \X B) = Cardinality(B)
  BY <1>1, CardPairs
<1>8. /\ Cardinality(PutRefs(i)) = Cardinality(R) + Cardinality(A)
      /\ Cardinality(PutRefs(i)') = Cardinality(R) + Cardinality(B)
      /\ Cardinality(R) \in Nat /\ IsFiniteSet(PutRefs(i)')
  <2>1. /\ Cardinality(R \union ({t} \X A)) = Cardinality(R) + Cardinality({t} \X A)
        /\ Cardinality(R) \in Nat
    BY <1>5, <1>6, <1>7, CardUnion, Zenon
  <2>2. /\ Cardinality(R \union ({t} \X B)) = Cardinality(R) + Cardinality({t} \X B)
        /\ IsFiniteSet(R \union ({t} \X B))
    BY <1>5, <1>6, <1>7, CardUnion, Zenon
  <2> QED
    BY <1>2, <1>3, <1>7, <2>1, <2>2, Zenon
<1>9. /\ IsFiniteSet(PutRefs(i)') /\ Cardinality(PutRefs(i)) \in Nat
      /\ Cardinality(PutRefs(i)') = Cardinality(PutRefs(i)) - Cardinality(A) + Cardinality(B)
  BY <1>1, <1>8
<1> QED
  BY <1>9 DEF A, B

(* Only process t has moved.                                               *)
OnlyMoved(t) == \A u \in Process \ {t} : /\ todo'[u] = todo[u] /\ cwd'[u] = cwd[u]
                                         /\ pc'[u] = pc[u] /\ local'[u] = local[u]

(* A process holds a natural number of references.                         *)
LEMMA OwnType ==
    ASSUME NEW w, NEW p, NEW l, NEW s \in Seq(Item), NEW i
    PROVE  OwnIn(w, p, l, s, i) \in Nat
<1>1. Cardinality(Pending(s, i)) \in Nat
  BY PendingType
<1>2. One(w, i) \in Nat /\ One(IpIn(p, l), i) \in Nat /\ One(DpIn(p, l), i) \in Nat
  BY DEF One
<1> QED
  BY <1>1, <1>2 DEF OwnIn

(* Subsets of the processes and of the open files are finite.              *)
LEMMA FiniteRefs ==
    ASSUME NEW i
    PROVE  /\ IsFiniteSet(CwdRefs(i)) /\ IsFiniteSet(IpRefs(i)) /\ IsFiniteSet(DpRefs(i))
           /\ IsFiniteSet(FileRefs(i))
           /\ Cardinality(CwdRefs(i)) \in Nat /\ Cardinality(IpRefs(i)) \in Nat
           /\ Cardinality(DpRefs(i)) \in Nat /\ Cardinality(FileRefs(i)) \in Nat
<1>1. IsFiniteSet(Process) /\ IsFiniteSet(File)
  BY FsAssumption, FS_Interval DEF File
<1>2. /\ CwdRefs(i) \in SUBSET Process /\ IpRefs(i) \in SUBSET Process
      /\ DpRefs(i) \in SUBSET Process /\ FileRefs(i) \in SUBSET File
  BY DEF CwdRefs, IpRefs, DpRefs, FileRefs
<1>3. /\ IsFiniteSet(CwdRefs(i)) /\ IsFiniteSet(IpRefs(i)) /\ IsFiniteSet(DpRefs(i))
      /\ IsFiniteSet(FileRefs(i))
  BY <1>1, <1>2, FS_Subset
<1> QED
  BY <1>3, FS_CardinalityType

(* A step of t changes the count by what t gets and gives up.              *)
LEMMA Recount ==
    ASSUME NEW t \in Process, NEW i, todo[t] \in Seq(Item), todo'[t] \in Seq(Item),
           OnlyMoved(t), IsFiniteSet(PutRefs(i))
    PROVE  /\ IsFiniteSet(PutRefs(i)') /\ Held(i) \in Nat
           /\ Held(i)' = Held(i) - Own(t, i) + Own(t, i)'
<1>1. \A u \in Process \ {t} : IpIn(pc'[u], local'[u]) = IpIn(pc[u], local[u])
                                 /\ DpIn(pc'[u], local'[u]) = DpIn(pc[u], local[u])
  BY DEF OnlyMoved
<1>2. /\ CwdRefs(i) \ {t} = CwdRefs(i)' \ {t}
      /\ IpRefs(i) \ {t} = IpRefs(i)' \ {t}
      /\ DpRefs(i) \ {t} = DpRefs(i)' \ {t}
  <2>1. CwdRefs(i) \ {t} = CwdRefs(i)' \ {t}
    BY DEF OnlyMoved, CwdRefs
  <2>2. IpRefs(i) \ {t} = IpRefs(i)' \ {t}
    BY <1>1 DEF IpRefs
  <2>3. DpRefs(i) \ {t} = DpRefs(i)' \ {t}
    BY <1>1 DEF DpRefs
  <2> QED
    BY <2>1, <2>2, <2>3
<1>3. /\ (t \in CwdRefs(i) <=> cwd[t] = i) /\ (t \in CwdRefs(i)' <=> cwd'[t] = i)
      /\ (t \in IpRefs(i) <=> IpIn(pc[t], local[t]) = i) /\ (t \in IpRefs(i)' <=> IpIn(pc'[t], local'[t]) = i)
      /\ (t \in DpRefs(i) <=> DpIn(pc[t], local[t]) = i) /\ (t \in DpRefs(i)' <=> DpIn(pc'[t], local'[t]) = i)
  BY DEF CwdRefs, IpRefs, DpRefs
<1>4. Cardinality(CwdRefs(i)') = Cardinality(CwdRefs(i)) - One(cwd[t], i) + One(cwd'[t], i)
  <2>1. IsFiniteSet(CwdRefs(i))
    BY FiniteRefs
  <2>2. Cardinality(CwdRefs(i)') = Cardinality(CwdRefs(i)) - (IF t \in CwdRefs(i) THEN 1 ELSE 0)
                                  + (IF t \in CwdRefs(i)' THEN 1 ELSE 0)
    BY <2>1, <1>2, CardChange
  <2> QED
    BY <2>2, <1>3 DEF One
<1>5. Cardinality(IpRefs(i)') = Cardinality(IpRefs(i)) - One(IpIn(pc[t], local[t]), i) + One(IpIn(pc'[t], local'[t]), i)
  <2>1. IsFiniteSet(IpRefs(i))
    BY FiniteRefs
  <2>2. Cardinality(IpRefs(i)') = Cardinality(IpRefs(i)) - (IF t \in IpRefs(i) THEN 1 ELSE 0)
                                  + (IF t \in IpRefs(i)' THEN 1 ELSE 0)
    BY <2>1, <1>2, CardChange
  <2> QED
    BY <2>2, <1>3 DEF One
<1>6. Cardinality(DpRefs(i)') = Cardinality(DpRefs(i)) - One(DpIn(pc[t], local[t]), i) + One(DpIn(pc'[t], local'[t]), i)
  <2>1. IsFiniteSet(DpRefs(i))
    BY FiniteRefs
  <2>2. Cardinality(DpRefs(i)') = Cardinality(DpRefs(i)) - (IF t \in DpRefs(i) THEN 1 ELSE 0)
                                  + (IF t \in DpRefs(i)' THEN 1 ELSE 0)
    BY <2>1, <1>2, CardChange
  <2> QED
    BY <2>2, <1>3 DEF One
<1>7. /\ IsFiniteSet(PutRefs(i)') /\ Cardinality(PutRefs(i)) \in Nat
      /\ Cardinality(PutRefs(i)') = Cardinality(PutRefs(i)) - Cardinality(Pending(todo[t], i))
                                    + Cardinality(Pending(todo'[t], i))
  BY PutsRecount DEF OnlyMoved
<1>8. /\ Own(t, i)' = One(cwd'[t], i) + One(IpIn(pc'[t], local'[t]), i) + One(DpIn(pc'[t], local'[t]), i)
                      + Cardinality(Pending(todo'[t], i))
      /\ Held(i)' = Cardinality(CwdRefs(i)') + Cardinality(IpRefs(i)') + Cardinality(DpRefs(i)')
                    + Cardinality(PutRefs(i)')
  BY DEF Own, OwnIn, IpIn, DpIn, UsesIp, Held, One, Pending
<1>9. /\ One(cwd[t], i) \in Nat /\ One(IpIn(pc[t], local[t]), i) \in Nat /\ One(DpIn(pc[t], local[t]), i) \in Nat
      /\ One(cwd'[t], i) \in Nat /\ One(IpIn(pc'[t], local'[t]), i) \in Nat /\ One(DpIn(pc'[t], local'[t]), i) \in Nat
  BY DEF One
<1>10. Cardinality(Pending(todo[t], i)) \in Nat /\ Cardinality(Pending(todo'[t], i)) \in Nat
  BY PendingType
<1>11. /\ Cardinality(CwdRefs(i)) \in Nat /\ Cardinality(IpRefs(i)) \in Nat
       /\ Cardinality(DpRefs(i)) \in Nat
  BY FiniteRefs
<1>12. Held(i) \in Nat
  BY <1>7, <1>11 DEF Held
<1>13. Held(i)' = Held(i) - Own(t, i) + Own(t, i)'
  <2>1. /\ Own(t, i) = One(cwd[t], i) + One(IpIn(pc[t], local[t]), i) + One(DpIn(pc[t], local[t]), i)
                       + Cardinality(Pending(todo[t], i))
        /\ Held(i) = Cardinality(CwdRefs(i)) + Cardinality(IpRefs(i)) + Cardinality(DpRefs(i))
                     + Cardinality(PutRefs(i))
    BY DEF Own, OwnIn, Held
  <2>2. Held(i)' = (Cardinality(CwdRefs(i)) - One(cwd[t], i) + One(cwd'[t], i))
                   + (Cardinality(IpRefs(i)) - One(IpIn(pc[t], local[t]), i) + One(IpIn(pc'[t], local'[t]), i))
                   + (Cardinality(DpRefs(i)) - One(DpIn(pc[t], local[t]), i) + One(DpIn(pc'[t], local'[t]), i))
                   + (Cardinality(PutRefs(i)) - Cardinality(Pending(todo[t], i))
                      + Cardinality(Pending(todo'[t], i)))
    BY <1>4, <1>5, <1>6, <1>7, <1>8, Zenon
  <2>3. (Cardinality(CwdRefs(i)) - One(cwd[t], i) + One(cwd'[t], i))
        + (Cardinality(IpRefs(i)) - One(IpIn(pc[t], local[t]), i) + One(IpIn(pc'[t], local'[t]), i))
        + (Cardinality(DpRefs(i)) - One(DpIn(pc[t], local[t]), i) + One(DpIn(pc'[t], local'[t]), i))
        + (Cardinality(PutRefs(i)) - Cardinality(Pending(todo[t], i))
           + Cardinality(Pending(todo'[t], i)))
        =          (Cardinality(CwdRefs(i)) + Cardinality(IpRefs(i)) + Cardinality(DpRefs(i))
                    + Cardinality(PutRefs(i)))
                   - (One(cwd[t], i) + One(IpIn(pc[t], local[t]), i) + One(DpIn(pc[t], local[t]), i)
                      + Cardinality(Pending(todo[t], i)))
                   + (One(cwd'[t], i) + One(IpIn(pc'[t], local'[t]), i) + One(DpIn(pc'[t], local'[t]), i)
                      + Cardinality(Pending(todo'[t], i)))
    <3>1. PICK a1 \in Nat, a2 \in Nat, a3 \in Nat, a4 \in Nat :
              /\ a1 = Cardinality(CwdRefs(i)) /\ a2 = Cardinality(IpRefs(i))
              /\ a3 = Cardinality(DpRefs(i)) /\ a4 = Cardinality(PutRefs(i))
      BY <1>7, <1>11, Zenon
    <3>2. PICK b1 \in Nat, b2 \in Nat, b3 \in Nat, b4 \in Nat :
              /\ b1 = One(cwd[t], i) /\ b2 = One(IpIn(pc[t], local[t]), i)
              /\ b3 = One(DpIn(pc[t], local[t]), i) /\ b4 = Cardinality(Pending(todo[t], i))
      BY <1>9, <1>10, Zenon
    <3>3. PICK c1 \in Nat, c2 \in Nat, c3 \in Nat, c4 \in Nat :
              /\ c1 = One(cwd'[t], i) /\ c2 = One(IpIn(pc'[t], local'[t]), i)
              /\ c3 = One(DpIn(pc'[t], local'[t]), i) /\ c4 = Cardinality(Pending(todo'[t], i))
      BY <1>9, <1>10, Zenon
    <3>4. (a1 - b1 + c1) + (a2 - b2 + c2) + (a3 - b3 + c3) + (a4 - b4 + c4)
          = (a1 + a2 + a3 + a4) - (b1 + b2 + b3 + b4) + (c1 + c2 + c3 + c4)
      OBVIOUS
    <3> QED
      BY <3>1, <3>2, <3>3, <3>4, Zenon
  <2> QED
    BY <2>1, <2>2, <2>3, <1>8, Zenon
<1> QED
  BY <1>7, <1>12, <1>13

(* One open file changes its inode.                                        *)
LEMMA FileRecount ==
    ASSUME NEW f \in File, NEW i, \A g \in File \ {f} : file'[g].ip = file[g].ip
    PROVE  Cardinality(FileRefs(i)') = Cardinality(FileRefs(i)) - One(file[f].ip, i)
                                       + One(file'[f].ip, i)
<1>1. FileRefs(i) \ {f} = FileRefs(i)' \ {f}
  BY DEF FileRefs
<1>2. (f \in FileRefs(i) <=> file[f].ip = i) /\ (f \in FileRefs(i)' <=> file'[f].ip = i)
  BY DEF FileRefs
<1> QED
  BY <1>1, <1>2, FiniteRefs, CardChange DEF One

(* The list is worked off, or one inode is put.                            *)
LEMMA Lists ==
    ASSUME NEW x \in Inum, NEW i, NEW q
    PROVE  /\ q = <<>> => q \in Seq(Item) /\ Cardinality(Pending(q, i)) = 0
           /\ q = <<Put(x)>> => q \in Seq(Item) /\ Cardinality(Pending(q, i)) = One(x, i)
<1>1. Put(x) \in Item /\ Puts(Put(x), i) = One(x, i)
  BY DEF Put, Item, PutStep, Puts, One
<1>2. q = <<>> => q \in Seq(Item) /\ Cardinality(Pending(q, i)) = 0
  BY <1>1, PendingLists
<1>3. q = <<Put(x)>> => q \in Seq(Item) /\ Cardinality(Pending(q, i)) = Puts(Put(x), i)
  BY <1>1, PendingLists
<1> QED
  BY <1>1, <1>2, <1>3

(* iput() of x, then of y.                                                 *)
PutBoth(x, y) == <<Put(x), Put(y)>>

(* This list puts both.                                                    *)
LEMMA BothList ==
    ASSUME NEW x \in Inum, NEW y \in Inum, NEW q, q = PutBoth(x, y)
    PROVE  q \in Seq(Item) /\ \A i : Cardinality(Pending(q, i)) = One(x, i) + One(y, i)
<1>1. Put(x) \in Item /\ Put(y) \in Item /\ q = <<Put(x), Put(y)>>
  BY DEF Put, Item, PutStep, PutBoth
<1>2. ASSUME NEW i PROVE q \in Seq(Item) /\ Cardinality(Pending(q, i)) = One(x, i) + One(y, i)
  <2>1. q \in Seq(Item) /\ Cardinality(Pending(q, i)) = Puts(Put(x), i) + Puts(Put(y), i)
    BY <1>1, PendingLists
  <2>2. Puts(Put(x), i) = One(x, i) /\ Puts(Put(y), i) = One(y, i)
    BY DEF Puts, Put, One, PutStep
  <2> QED
    BY <2>1, <2>2
<1> QED
  BY <1>2

(* iput() of x with y locked, then iunlockput() of y.                      *)
PutLocked(x, y) == <<Put(x), <<"unlock", y>>, Put(y)>>

(* This list puts both, too.                                               *)
LEMMA LockedList ==
    ASSUME NEW x \in Inum, NEW y \in Inum, NEW q, q = PutLocked(x, y)
    PROVE  q \in Seq(Item) /\ \A i : Cardinality(Pending(q, i)) = One(x, i) + One(y, i)
<1>1. Put(x) \in Item /\ Put(y) \in Item /\ <<"unlock", y>> \in Item
  BY DEF Put, Item, PutStep
<1>2. PICK u \in Item : u = <<"unlock", y>>
  BY <1>1, Zenon
<1>3. q = <<Put(x), u, Put(y)>>
  BY <1>2, Zenon DEF PutLocked
<1>4. ASSUME NEW i PROVE q \in Seq(Item) /\ Cardinality(Pending(q, i)) = One(x, i) + One(y, i)
  <2>1. q \in Seq(Item) /\ Cardinality(Pending(q, i)) = Puts(Put(x), i) + Puts(u, i) + Puts(Put(y), i)
    BY <1>1, <1>3, PendingLists
  <2>2. Puts(Put(x), i) = One(x, i) /\ Puts(Put(y), i) = One(y, i) /\ Puts(u, i) = 0
    BY <1>2 DEF Puts, Put, One, PutStep
  <2>3. One(x, i) \in Nat /\ One(y, i) \in Nat
    BY DEF One
  <2> QED
    BY <2>1, <2>2, <2>3
<1> QED
  BY <1>4

-----------------------------------------------------------------------------
(* The cache                                                               *)

(* Copies in the cache c of the dinodes d.                                 *)
Copies(c, d) == \A i \in Inum : c[i].valid => /\ c[i].type = d[i].type /\ c[i].nlink = d[i].nlink
                                              /\ c[i].type # "free"

(* iget() and idup() add one reference and copy nothing.                   *)
LEMMA IgetFacts ==
    ASSUME NEW c \in [Inum -> Inode], NEW i \in Inum
    PROVE  /\ Iget(c, i) \in [Inum -> Inode]
           /\ \A j \in Inum : Iget(c, i)[j].ref = c[j].ref + One(i, j)
           /\ \A d : Copies(c, d) => Copies(Iget(c, i), d)
<1>1. NoEntry \in Inode /\ NoEntry.valid = FALSE /\ NoEntry.ref = 0 /\ [NoEntry EXCEPT !.ref = 1] \in Inode
      /\ [NoEntry EXCEPT !.ref = 1].ref = 1 /\ [NoEntry EXCEPT !.ref = 1].valid = FALSE
  <2>1. NoEntry \in Inode /\ NoEntry.valid = FALSE /\ NoEntry.ref = 0
    BY DEF NoEntry, Inode, Type
  <2> QED
    BY <2>1 DEF Inode
<1>2. ASSUME NEW j \in Inum
      PROVE  /\ Iget(c, i)[j] \in Inode
             /\ Iget(c, i)[j].ref = c[j].ref + One(i, j)
             /\ Iget(c, i)[j].valid => /\ c[j].valid /\ Iget(c, i)[j].type = c[j].type
                                       /\ Iget(c, i)[j].nlink = c[j].nlink
  <2>1. CASE i # j
    <3>1. Iget(c, i)[j] = c[j] /\ c[j] \in Inode
      BY <2>1 DEF Iget
    <3> QED
      BY <3>1, <2>1 DEF One, Inode
  <2>2. CASE i = j /\ c[i].ref > 0
    <3>1. c[i] \in Inode
      OBVIOUS
    <3> QED
      BY <3>1, <2>2 DEF Iget, One, Inode
  <2>3. CASE i = j /\ ~(c[i].ref > 0)
    <3>1. Iget(c, i)[j] = [NoEntry EXCEPT !.ref = 1] /\ c[i] \in Inode
      BY <2>3 DEF Iget
    <3>2. c[i].ref = 0
      BY <3>1, <2>3 DEF Inode
    <3> QED
      BY <3>1, <3>2, <2>3, <1>1 DEF One
  <2> QED
    BY <2>1, <2>2, <2>3
<1>3. Iget(c, i) \in [Inum -> Inode]
  <2>1. Iget(c, i) = [j \in Inum |-> Iget(c, i)[j]]
    BY DEF Iget
  <2> QED
    BY <2>1, <1>2
<1>4. \A d : Copies(c, d) => Copies(Iget(c, i), d)
  BY <1>2 DEF Copies
<1> QED
  BY <1>2, <1>3, <1>4

(* The cache with inode i in memory.                                       *)
InMemory(c, i) == c = [cache EXCEPT ![i] = Loaded(i)]

(* ilock() copies the dinode of an inode that is not in memory.            *)
LEMMA LoadFacts ==
    ASSUME TypeOK, Coherent, NEW i \in Inum, ~NoType(i), NEW c, InMemory(c, i)
    PROVE  /\ c \in [Inum -> Inode] /\ Copies(c, disk)
           /\ \A j \in Inum : c[j].ref = cache[j].ref
<1>1. cache \in [Inum -> Inode] /\ disk \in [Inum -> Dinode]
  BY DEF TypeOK
<1>2. /\ Loaded(i) \in Inode /\ Loaded(i).valid /\ Loaded(i).ref = cache[i].ref
      /\ Loaded(i).type = disk[i].type /\ Loaded(i).nlink = disk[i].nlink /\ Loaded(i).type # "free"
  <2>1. CASE cache[i].valid
    <3>1. Loaded(i) = cache[i]
      BY <2>1 DEF Loaded
    <3> QED
      BY <3>1, <2>1, <1>1 DEF Coherent
  <2>2. CASE ~cache[i].valid
    <3>1. Loaded(i) = [cache[i] EXCEPT !.valid = TRUE, !.type = disk[i].type, !.nlink = disk[i].nlink]
      BY <2>2 DEF Loaded
    <3>2. disk[i].type # "free" /\ disk[i] \in Dinode /\ cache[i] \in Inode
      BY <2>2, <1>1 DEF NoType
    <3> QED
      BY <3>1, <3>2 DEF Inode, Dinode
  <2> QED
    BY <2>1, <2>2
<1>3. c[i] = Loaded(i) /\ \A j \in Inum \ {i} : c[j] = cache[j]
  BY <1>1 DEF InMemory
<1>4. c \in [Inum -> Inode]
  BY <1>1, <1>2 DEF InMemory
<1>5. Copies(c, disk)
  BY <1>2, <1>3 DEF Copies, Coherent
<1> QED
  BY <1>2, <1>3, <1>4, <1>5

(* iupdate() writes the link count through.                                *)
Written(d, e, i, n) == e = [d EXCEPT ![i].nlink = n]

(* A link count is changed in the cache and on the disk.                   *)
LEMMA SetLinksFacts ==
    ASSUME NEW c \in [Inum -> Inode], NEW d \in [Inum -> Dinode], NEW i \in Inum, NEW n \in Int,
           NEW e, Written(d, e, i, n), Copies(c, d)
    PROVE  /\ SetLinks(c, i, n) \in [Inum -> Inode] /\ e \in [Inum -> Dinode]
           /\ Copies(SetLinks(c, i, n), e)
           /\ \A j \in Inum : SetLinks(c, i, n)[j].ref = c[j].ref
<1> DEFINE s == SetLinks(c, i, n)
<1>1. /\ s[i] = [c[i] EXCEPT !.nlink = n] /\ \A j \in Inum \ {i} : s[j] = c[j]
      /\ e[i] = [d[i] EXCEPT !.nlink = n] /\ \A j \in Inum \ {i} : e[j] = d[j]
  BY DEF SetLinks, Written
<1>2. c[i] \in Inode /\ d[i] \in Dinode
  OBVIOUS
<1>3. /\ s[i] \in Inode /\ e[i] \in Dinode /\ s[i].ref = c[i].ref /\ s[i].valid = c[i].valid
      /\ s[i].type = c[i].type /\ e[i].type = d[i].type /\ s[i].nlink = n /\ e[i].nlink = n
  BY <1>1, <1>2 DEF Inode, Dinode
<1>4. s \in [Inum -> Inode] /\ e \in [Inum -> Dinode]
  <2>1. s = [j \in Inum |-> s[j]] /\ e = [j \in Inum |-> e[j]]
    BY DEF SetLinks, Written
  <2>2. \A j \in Inum : s[j] \in Inode /\ e[j] \in Dinode
    BY <1>1, <1>3
  <2> HIDE DEF s
  <2> QED
    BY <2>1, <2>2
<1> HIDE DEF s
<1>5. Copies(s, e)
  <2> SUFFICES ASSUME NEW j \in Inum, s[j].valid
               PROVE  s[j].type = e[j].type /\ s[j].nlink = e[j].nlink /\ s[j].type # "free"
    BY DEF Copies
  <2>1. c[j].valid => c[j].type = d[j].type /\ c[j].nlink = d[j].nlink /\ c[j].type # "free"
    BY DEF Copies
  <2>2. CASE j = i
    BY <2>1, <2>2, <1>3
  <2>3. CASE j # i
    BY <2>1, <2>3, <1>1
  <2> QED
    BY <2>2, <2>3
<1>6. \A j \in Inum : s[j].ref = c[j].ref
  BY <1>1, <1>3
<1> QED
  BY <1>4, <1>5, <1>6 DEF s

(* A step that sets a link count.                                          *)
LEMMA LinksWritten ==
    ASSUME TypeOK, NEW c \in [Inum -> Inode], NEW i \in Inum, NEW n \in Int, Copies(c, disk),
           cache' = SetLinks(c, i, n), Written(disk, disk', i, n)
    PROVE  /\ cache' \in [Inum -> Inode] /\ disk' \in [Inum -> Dinode] /\ Copies(cache', disk')
           /\ \A j \in Inum : cache'[j].ref = c[j].ref
<1>1. disk \in [Inum -> Dinode]
  BY DEF TypeOK
<1>2. /\ c \in [Inum -> Inode] /\ disk \in [Inum -> Dinode] /\ i \in Inum /\ n \in Int
      /\ Written(disk, disk', i, n) /\ Copies(c, disk)
  BY <1>1, Zenon
<1>3. /\ SetLinks(c, i, n) \in [Inum -> Inode] /\ disk' \in [Inum -> Dinode]
      /\ Copies(SetLinks(c, i, n), disk')
      /\ \A j \in Inum : SetLinks(c, i, n)[j].ref = c[j].ref
  BY <1>2, SetLinksFacts, Zenon
<1> QED
  BY <1>3, Zenon

(* The number under a name.                                                *)
LEMMA LookupType ==
    ASSUME TypeOK, NEW d \in Inum, NEW n \in Entry, Dirlookup(d, n) # 0
    PROVE  Dirlookup(d, n) \in Inum
<1>1. dir[d] \in [Entry -> OptInum]
  BY DEF TypeOK, Contents
<1> QED
  BY <1>1 DEF Dirlookup, OptInum

-----------------------------------------------------------------------------
(* A step of one process                                                   *)

Move(t, s, p, l) == /\ todo' = [todo EXCEPT ![t] = s]
                    /\ pc' = [pc EXCEPT ![t] = p]
                    /\ local' = [local EXCEPT ![t] = l]

(* The variables that are not those of a process.                          *)
SharedOK ==
    /\ disk \in [Inum -> Dinode] /\ dir \in [Inum -> Contents] /\ cache \in [Inum -> Inode]
    /\ lock \in [Inum -> OptHolder] /\ panicked \in Message
    /\ lost \subseteq Inum /\ stranded \subseteq Inum /\ strayed \in BOOLEAN

(* Where t goes, and what that does to the counts.                         *)
LEMMA MoveFacts ==
    ASSUME TypeOK, Counted, NEW t \in Process, NEW s \in Seq(Item), NEW p \in Step, NEW l \in Local,
           NEW w \in OptInum, Move(t, s, p, l), cwd' = [cwd EXCEPT ![t] = w]
    PROVE  /\ todo' \in [Process -> Todo] /\ pc' \in [Process -> Step]
           /\ local' \in [Process -> Local] /\ cwd' \in [Process -> OptInum]
           /\ todo'[t] = s /\ pc'[t] = p /\ local'[t] = l /\ cwd'[t] = w
           /\ OnlyMoved(t)
           /\ \A i \in Inum : /\ IsFiniteSet(PutRefs(i)') /\ Held(i) \in Nat
                              /\ Held(i)' = Held(i) - Own(t, i) + OwnIn(w, p, l, s, i)
<1>1. /\ todo \in [Process -> Seq(Item)] /\ pc \in [Process -> Step]
      /\ local \in [Process -> Local] /\ cwd \in [Process -> OptInum]
  BY DEF TypeOK, Todo, Item
<1>2. /\ todo' \in [Process -> Todo] /\ pc' \in [Process -> Step]
      /\ local' \in [Process -> Local] /\ cwd' \in [Process -> OptInum]
  BY <1>1 DEF Move, Todo, Item
<1>3. todo'[t] = s /\ pc'[t] = p /\ local'[t] = l /\ cwd'[t] = w
  BY <1>1 DEF Move
<1>4. OnlyMoved(t)
  BY <1>1 DEF Move, OnlyMoved
<1>5. ASSUME NEW i \in Inum
      PROVE  /\ IsFiniteSet(PutRefs(i)') /\ Held(i) \in Nat
             /\ Held(i)' = Held(i) - Own(t, i) + OwnIn(w, p, l, s, i)
  <2>1. todo[t] \in Seq(Item) /\ todo'[t] \in Seq(Item) /\ IsFiniteSet(PutRefs(i))
    BY <1>1, <1>3 DEF Counted
  <2>2. Own(t, i)' = OwnIn(w, p, l, s, i)
    BY <1>3 DEF Own, OwnIn, One, IpIn, UsesIp, DpIn, Pending
  <2> QED
    BY <2>1, <2>2, <1>4, Recount
<1> QED
  BY <1>2, <1>3, <1>4, <1>5

(* The type invariant after a step of t.                                   *)
LEMMA MoveTypeOK ==
    ASSUME TypeOK, Counted, NEW t \in Process, NEW s \in Seq(Item), NEW p \in Step, NEW l \in Local,
           NEW w \in OptInum, Move(t, s, p, l), cwd' = [cwd EXCEPT ![t] = w],
           SharedOK', file' \in [File -> FileRec], ofile' \in [Process -> Ofile]
    PROVE  TypeOK'
BY MoveFacts DEF TypeOK, SharedOK

(* Every process other than t is where it was.                             *)
LEMMA MoveShapes ==
    ASSUME TypeOK, Counted, NEW t \in Process, NEW s \in Seq(Item), NEW p \in Step, NEW l \in Local,
           NEW w \in OptInum, Move(t, s, p, l), cwd' = [cwd EXCEPT ![t] = w],
           Shapes, Shape(w, p, l)
    PROVE  Shapes'
<1>1. ASSUME NEW u \in Process PROVE Shape(cwd'[u], pc'[u], local'[u])
  <2>1. CASE u = t
    BY <2>1, MoveFacts
  <2>2. CASE u # t
    BY <2>2, MoveFacts DEF OnlyMoved, Shapes
  <2> QED
    BY <2>1, <2>2
<1>2. Shapes' <=> \A u \in Process : Shape(cwd'[u], pc'[u], local'[u])
  BY DEF Shapes, Shape, UsesIp
<1> QED
  BY <1>1, <1>2

(* A step of t that leaves the open files alone: the count of every inode  *)
(* changes by what t holds, and copies stay copies.                        *)
Goes(t, s, p, l, w) ==
    /\ Move(t, s, p, l) /\ cwd' = [cwd EXCEPT ![t] = w] /\ UNCHANGED fileVars
    /\ Shape(w, p, l) /\ (w = 0 => OpenFds(t) = {})
    /\ SharedOK' /\ Copies(cache', disk')
    /\ \A i \in Inum : cache'[i].ref = cache[i].ref - Own(t, i) + OwnIn(w, p, l, s, i)

(* The invariant after such a step.                                        *)
LEMMA MoveInv ==
    ASSUME IInv, NEW t \in Process, NEW s \in Seq(Item), NEW p \in Step, NEW l \in Local,
           NEW w \in OptInum, Goes(t, s, p, l, w)
    PROVE  IInv'
<1> USE DEF Goes
<1>1. TypeOK /\ Counted /\ FilesCounted /\ Shapes /\ file' = file /\ ofile' = ofile
  BY DEF IInv, fileVars
<1>2. TypeOK'
  BY <1>1, MoveTypeOK DEF TypeOK
<1>3. Shapes'
  BY <1>1, MoveShapes
<1>4. Coherent'
  BY DEF Copies, Coherent
<1>5. FilesCounted'
  <2>1. \A f \in File : FdRefs(f)' = FdRefs(f)
    BY <1>1 DEF FdRefs
  <2>2. \A u \in Process : cwd'[u] = 0 => OpenFds(u)' = {}
    BY <1>1, MoveFacts DEF FilesCounted, OpenFds, OnlyMoved
  <2> QED
    BY <1>1, <2>1, <2>2 DEF FilesCounted
<1>6. Counted'
  <2> SUFFICES ASSUME NEW i \in Inum
               PROVE  IsFiniteSet(PutRefs(i)') /\ cache'[i].ref = Holders(i)'
    BY DEF Counted
  <2>1. /\ IsFiniteSet(PutRefs(i)') /\ Held(i) \in Nat
        /\ Held(i)' = Held(i) - Own(t, i) + OwnIn(w, p, l, s, i)
    <3>1. \A j \in Inum : /\ IsFiniteSet(PutRefs(j)') /\ Held(j) \in Nat
                          /\ Held(j)' = Held(j) - Own(t, j) + OwnIn(w, p, l, s, j)
      BY <1>1, MoveFacts, ZenonT(60)
    <3> QED
      BY <3>1, Zenon
  <2>2. FileRefs(i)' = FileRefs(i) /\ Cardinality(FileRefs(i)) \in Nat
    BY <1>1, FiniteRefs DEF FileRefs
  <2>3. cache[i].ref = Cardinality(FileRefs(i)) + Held(i)
    BY <1>1 DEF Counted, Holders
  <2>4. Holders(i)' = Cardinality(FileRefs(i)) + Held(i)'
    BY <2>2 DEF Holders
  <2>5. cache'[i].ref = cache[i].ref - Own(t, i) + OwnIn(w, p, l, s, i)
    OBVIOUS
  <2>6. Own(t, i) \in Int /\ OwnIn(w, p, l, s, i) \in Int
    <3>1. todo[t] \in Seq(Item)
      BY <1>1 DEF TypeOK, Todo, Item
    <3> QED
      BY <3>1, OwnType DEF Own
  <2> QED
    BY <2>1, <2>2, <2>3, <2>4, <2>5, <2>6
<1> QED
  BY <1>2, <1>3, <1>4, <1>5, <1>6 DEF IInv

(* A process that works off its list stays at its step of the call.        *)
LEMMA ListInv ==
    ASSUME IInv, NEW t \in Process, NEW s \in Seq(Item), Do(t, s),
           UNCHANGED <<pc, local, cwd, fileVars>>, SharedOK', Copies(cache', disk'),
           \A i \in Inum : cache'[i].ref = cache[i].ref - Cardinality(Pending(todo[t], i))
                                           + Cardinality(Pending(s, i))
    PROVE  IInv'
<1>1. TypeOK /\ Counted /\ FilesCounted /\ Shapes
  BY DEF IInv
<1>2. /\ todo[t] \in Seq(Item) /\ pc[t] \in Step /\ local[t] \in Local /\ cwd[t] \in OptInum
      /\ cache \in [Inum -> Inode]
  BY <1>1 DEF TypeOK, Todo, Item
<1>3. Move(t, s, pc[t], local[t]) /\ cwd' = [cwd EXCEPT ![t] = cwd[t]]
  BY <1>1 DEF TypeOK, Move, Do
<1>4. Shape(cwd[t], pc[t], local[t]) /\ (cwd[t] = 0 => OpenFds(t) = {})
  BY <1>1 DEF Shapes, FilesCounted
<1>5. ASSUME NEW i \in Inum
      PROVE  cache'[i].ref = cache[i].ref - Own(t, i) + OwnIn(cwd[t], pc[t], local[t], s, i)
  <2>1. Cardinality(Pending(s, i)) \in Nat /\ Cardinality(Pending(todo[t], i)) \in Nat
    BY <1>2, PendingType
  <2>2. cache[i].ref \in Nat
    BY <1>2 DEF Inode
  <2>3. PICK a \in Nat : a = One(cwd[t], i) + One(IpIn(pc[t], local[t]), i) + One(DpIn(pc[t], local[t]), i)
    BY DEF One
  <2>4. /\ Own(t, i) = a + Cardinality(Pending(todo[t], i))
        /\ OwnIn(cwd[t], pc[t], local[t], s, i) = a + Cardinality(Pending(s, i))
    BY <2>3 DEF Own, OwnIn
  <2>5. cache'[i].ref = cache[i].ref - Cardinality(Pending(todo[t], i)) + Cardinality(Pending(s, i))
    OBVIOUS
  <2> QED
    BY <2>1, <2>2, <2>4, <2>5
<1>6. UNCHANGED fileVars
  OBVIOUS
<1>7. \A i \in Inum : cache'[i].ref = cache[i].ref - Own(t, i) + OwnIn(cwd[t], pc[t], local[t], s, i)
  BY <1>5
<1> QED
  <2>1. PICK w \in OptInum, p \in Step, l \in Local : w = cwd[t] /\ p = pc[t] /\ l = local[t]
    BY <1>2, Zenon
  <2>2. /\ Move(t, s, p, l) /\ cwd' = [cwd EXCEPT ![t] = w] /\ Shape(w, p, l)
        /\ (w = 0 => OpenFds(t) = {})
    BY <1>3, <1>4, <2>1, Zenon
  <2>3. \A i \in Inum : cache'[i].ref = cache[i].ref - Own(t, i) + OwnIn(w, p, l, s, i)
    BY <1>7, <2>1, Zenon
  <2>4. Goes(t, s, p, l, w)
    BY <2>2, <2>3, <1>6, Zenon DEF Goes
  <2> QED
    BY <2>4, MoveInv, Zenon

(* A process at a step of its call goes on to step p.                      *)
Continues(t, s, p, l) ==
    /\ todo[t] = <<>> /\ Move(t, s, p, l) /\ UNCHANGED <<cwd, fileVars>> /\ Shape(cwd[t], p, l)
    /\ SharedOK' /\ Copies(cache', disk')
    /\ \A i \in Inum : cache'[i].ref = cache[i].ref
           - (One(IpIn(pc[t], local[t]), i) + One(DpIn(pc[t], local[t]), i))
           + (One(IpIn(p, l), i) + One(DpIn(p, l), i) + Cardinality(Pending(s, i)))

(* The invariant after such a step.                                        *)
LEMMA CallInv ==
    ASSUME IInv, NEW t \in Process, NEW s \in Seq(Item), NEW p \in Step, NEW l \in Local,
           Continues(t, s, p, l)
    PROVE  IInv'
<1> USE DEF Continues
<1>1. TypeOK /\ Counted /\ FilesCounted /\ Shapes
  BY DEF IInv
<1>2. todo[t] \in Seq(Item) /\ cwd[t] \in OptInum /\ cache \in [Inum -> Inode]
  BY <1>1 DEF TypeOK, Todo, Item
<1>3. cwd' = [cwd EXCEPT ![t] = cwd[t]]
  BY <1>1 DEF TypeOK
<1>4. cwd[t] = 0 => OpenFds(t) = {}
  BY <1>1 DEF FilesCounted
<1>5. ASSUME NEW i \in Inum
      PROVE  cache'[i].ref = cache[i].ref - Own(t, i) + OwnIn(cwd[t], p, l, s, i)
  <2>1. Cardinality(Pending(s, i)) \in Nat /\ Cardinality(Pending(todo[t], i)) = 0
    BY <1>2, PendingType
  <2>2. cache[i].ref \in Nat
    BY <1>2 DEF Inode
  <2>3. PICK a \in Nat : a = One(IpIn(pc[t], local[t]), i) + One(DpIn(pc[t], local[t]), i)
    BY DEF One
  <2>4. PICK b \in Nat : b = One(IpIn(p, l), i) + One(DpIn(p, l), i)
    BY DEF One
  <2>5. PICK c \in Nat : c = One(cwd[t], i)
    BY DEF One
  <2>6. Own(t, i) = c + a
    <3>1. One(IpIn(pc[t], local[t]), i) \in Nat /\ One(DpIn(pc[t], local[t]), i) \in Nat
      BY DEF One
    <3> QED
      BY <3>1, <2>1, <2>3, <2>5, SMTT(40) DEF Own, OwnIn
  <2>7. OwnIn(cwd[t], p, l, s, i) = c + b + Cardinality(Pending(s, i))
    <3>1. One(IpIn(p, l), i) \in Nat /\ One(DpIn(p, l), i) \in Nat
      BY DEF One
    <3> QED
      BY <3>1, <2>1, <2>4, <2>5 DEF OwnIn
  <2>8. cache'[i].ref = cache[i].ref - a + (b + Cardinality(Pending(s, i)))
    BY <2>3, <2>4
  <2> QED
    BY <2>1, <2>2, <2>6, <2>7, <2>8
<1>6. UNCHANGED fileVars
  OBVIOUS
<1>7. \A i \in Inum : cache'[i].ref = cache[i].ref - Own(t, i) + OwnIn(cwd[t], p, l, s, i)
  BY <1>5
<1> QED
  <2>1. PICK w \in OptInum : w = cwd[t]
    BY <1>2, Zenon
  <2>2. /\ Move(t, s, p, l) /\ cwd' = [cwd EXCEPT ![t] = w] /\ Shape(w, p, l)
        /\ (w = 0 => OpenFds(t) = {})
    BY <1>3, <1>4, <2>1, Zenon
  <2>3. \A i \in Inum : cache'[i].ref = cache[i].ref - Own(t, i) + OwnIn(w, p, l, s, i)
    BY <1>7, <2>1, Zenon
  <2>4. Goes(t, s, p, l, w)
    BY <2>2, <2>3, <1>6, Zenon DEF Goes
  <2> QED
    BY <2>4, MoveInv, Zenon

(* A call is over, but for the iput() calls of s.                          *)
LEMMA FinishInv ==
    ASSUME IInv, NEW t \in Process, todo[t] = <<>>, NEW s \in Seq(Item), Finish(t, s),
           UNCHANGED <<cwd, fileVars>>, SharedOK', Copies(cache', disk'),
           \A i \in Inum : cache'[i].ref = cache[i].ref
               - (One(IpIn(pc[t], local[t]), i) + One(DpIn(pc[t], local[t]), i))
               + Cardinality(Pending(s, i))
    PROVE  IInv'
<1>1. Move(t, s, "user", Idle)
  BY DEF Finish, Goto, Do, Move
<1>2. "user" \in Step /\ Idle \in Local /\ IpIn("user", Idle) = 0 /\ DpIn("user", Idle) = 0
  <2>1. <<>> \in Seq(Entry) /\ 0 \in OptInum
    BY DEF OptInum
  <2>2. Idle \in Local
    BY <2>1 DEF Idle, Local
  <2> QED
    BY <2>2 DEF Step, IpIn, DpIn, UsesIp, IpSteps, DpSteps
<1>3. Shape(cwd[t], "user", Idle)
  BY DEF Shape, UsesIp, IpSteps, DpSteps
<1>4. ASSUME NEW i \in Inum
      PROVE  cache'[i].ref = cache[i].ref
               - (One(IpIn(pc[t], local[t]), i) + One(DpIn(pc[t], local[t]), i))
               + (One(IpIn("user", Idle), i) + One(DpIn("user", Idle), i) + Cardinality(Pending(s, i)))
  <2>1. One(0, i) = 0
    BY DEF One, Inum
  <2>2. Cardinality(Pending(s, i)) \in Nat
    BY PendingType
  <2>3. One(IpIn("user", Idle), i) + One(DpIn("user", Idle), i) + Cardinality(Pending(s, i))
        = Cardinality(Pending(s, i))
    BY <1>2, <2>1, <2>2
  <2> QED
    BY <2>3
<1>5. Continues(t, s, "user", Idle)
  BY <1>1, <1>3, <1>4 DEF Continues
<1> QED
  BY <1>2, <1>5, CallInv

-----------------------------------------------------------------------------
(* Where a process is                                                      *)

(* A step of a call runs when the list is worked off.                      *)
LEMMA AtCall ==
    ASSUME TypeOK, NEW t \in Process, At(t) \in Step
    PROVE  todo[t] = <<>> /\ pc[t] = At(t)
<1>1. todo[t] \in Seq(Item)
  BY DEF TypeOK, Todo, Item
<1>2. ASSUME todo[t] # <<>> PROVE FALSE
  <2>1. Head(todo[t]) \in Item /\ At(t) = Head(todo[t])[1]
    BY <1>1, <1>2 DEF At
  <2>2. At(t) \in PutStep \union {"unlock"}
    BY <2>1 DEF Item
  <2> QED
    BY <2>2 DEF PutStep, Step
<1> QED
  BY <1>2 DEF At

(* A process works off its list: what is left has one iput() less, and the *)
(* three parts of an iput() count the same.                                *)
LEMMA AtList ==
    ASSUME TypeOK, NEW t \in Process, At(t) \in PutStep \union {"unlock"}
    PROVE  /\ Arg(t) \in Inum /\ Rest(t) \in Seq(Item)
           /\ \A i : /\ Cardinality(Pending(Rest(t), i)) \in Nat
                     /\ At(t) = "unlock" => Cardinality(Pending(todo[t], i)) = Cardinality(Pending(Rest(t), i))
                     /\ At(t) # "unlock" => Cardinality(Pending(todo[t], i))
                                            = Cardinality(Pending(Rest(t), i)) + One(Arg(t), i)
           /\ \A a \in PutStep : /\ <<<<a, Arg(t)>>>> \o Rest(t) \in Seq(Item)
                                 /\ \A i : Cardinality(Pending(<<<<a, Arg(t)>>>> \o Rest(t), i))
                                           = Cardinality(Pending(Rest(t), i)) + One(Arg(t), i)
<1>1. todo[t] \in Seq(Item) /\ pc[t] \in Step
  BY DEF TypeOK, Todo, Item
<1>2. todo[t] # <<>>
  BY <1>1 DEF At, PutStep, Step
<1>3. /\ Head(todo[t]) \in Item /\ Rest(t) \in Seq(Item)
      /\ At(t) = Head(todo[t])[1] /\ Arg(t) = Head(todo[t])[2]
  BY <1>1, <1>2 DEF At, Arg, Rest
<1>4. Arg(t) \in Inum /\ Head(todo[t]) = <<At(t), Arg(t)>>
  BY <1>3 DEF Item
<1>5. ASSUME NEW i
      PROVE  /\ Cardinality(Pending(Rest(t), i)) \in Nat
             /\ At(t) = "unlock" => Cardinality(Pending(todo[t], i)) = Cardinality(Pending(Rest(t), i))
             /\ At(t) # "unlock" => Cardinality(Pending(todo[t], i))
                                    = Cardinality(Pending(Rest(t), i)) + One(Arg(t), i)
  <2>1. Cardinality(Pending(todo[t], i)) = Cardinality(Pending(Rest(t), i)) + Puts(Head(todo[t]), i)
    BY <1>1, <1>2, PendingPop DEF Rest
  <2>2. Cardinality(Pending(Rest(t), i)) \in Nat
    BY <1>3, PendingType
  <2>3. Puts(Head(todo[t]), i) = IF At(t) = "unlock" THEN 0 ELSE One(Arg(t), i)
    BY <1>4 DEF Puts, One, PutStep
  <2> QED
    BY <2>1, <2>2, <2>3
<1>6. ASSUME NEW a \in PutStep
      PROVE  /\ <<<<a, Arg(t)>>>> \o Rest(t) \in Seq(Item)
             /\ \A i : Cardinality(Pending(<<<<a, Arg(t)>>>> \o Rest(t), i))
                       = Cardinality(Pending(Rest(t), i)) + One(Arg(t), i)
  <2>1. PICK x : x = <<a, Arg(t)>>
    OBVIOUS
  <2>2. x \in Item /\ \A i : Puts(x, i) = One(Arg(t), i)
    BY <2>1, <1>4 DEF Item, Puts, One, PutStep
  <2>3. <<x>> \o Rest(t) \in Seq(Item)
        /\ \A i : Cardinality(Pending(<<x>> \o Rest(t), i)) = Cardinality(Pending(Rest(t), i)) + Puts(x, i)
    BY <2>2, <1>3, PendingPush
  <2>4. \A i : Cardinality(Pending(<<x>> \o Rest(t), i)) = Cardinality(Pending(Rest(t), i)) + One(Arg(t), i)
    BY <2>2, <2>3
  <2> QED
    BY <2>1, <2>3, <2>4, Zenon
<1> QED
  BY <1>3, <1>4, <1>5, <1>6

-----------------------------------------------------------------------------
(* iput() and iunlock()                                                    *)

(* From one part of an iput() to the next: nothing is counted.             *)
LEMMA PutInv ==
    ASSUME IInv, NEW t \in Process, At(t) \in PutStep, NEW a \in PutStep,
           Do(t, <<<<a, Arg(t)>>>> \o Rest(t)), UNCHANGED <<pc, local, cwd, fileVars>>,
           SharedOK', Copies(cache', disk'), \A i \in Inum : cache'[i].ref = cache[i].ref
    PROVE  IInv'
<1>1. TypeOK /\ At(t) # "unlock"
  BY DEF IInv, PutStep
<1>2. PICK s : s = <<<<a, Arg(t)>>>> \o Rest(t)
  OBVIOUS
<1>3. s \in Seq(Item) /\ \A i \in Inum : Cardinality(Pending(s, i)) = Cardinality(Pending(todo[t], i))
  BY <1>1, <1>2, AtList
<1>4. ASSUME NEW i \in Inum
      PROVE  cache'[i].ref = cache[i].ref - Cardinality(Pending(todo[t], i)) + Cardinality(Pending(s, i))
  <2>1. cache[i].ref \in Nat
    BY <1>1 DEF TypeOK, Inode
  <2>2. Cardinality(Pending(s, i)) \in Nat
    BY <1>3, PendingType
  <2> QED
    BY <2>1, <2>2, <1>3
<1>5. Do(t, s)
  BY <1>2
<1> QED
  BY <1>3, <1>4, <1>5, ListInv

(* The check of iput() that finds the last reference.                      *)
LEMMA PutLastInv ==
    ASSUME IInv, NEW t \in Process, PutLast(t)
    PROVE  IInv'
<1>1. TypeOK /\ Coherent /\ At(t) \in PutStep /\ "free" \in PutStep
  BY DEF IInv, PutLast, Runs, PutStep
<1>2. Arg(t) \in Inum
  BY <1>1, AtList
<1>3. SharedOK'
  BY <1>1, <1>2 DEF TypeOK, SharedOK, PutLast, OptHolder, ghosts, diskVars
<1>4. Copies(cache', disk')
  BY <1>1 DEF Coherent, Copies, PutLast, diskVars
<1> QED
  BY <1>1, <1>3, <1>4, PutInv DEF PutLast

(* The check of iput() that finds another reference or a link.             *)
LEMMA PutKeepInv ==
    ASSUME IInv, NEW t \in Process, PutKeep(t)
    PROVE  IInv'
<1>1. TypeOK /\ Coherent /\ At(t) \in PutStep /\ "drop" \in PutStep
  BY DEF IInv, PutKeep, Runs, PutStep
<1>2. Arg(t) \in Inum
  BY <1>1, AtList
<1>3. SharedOK'
  <2>1. lost' \subseteq Inum
    BY <1>1, <1>2 DEF PutKeep, TypeOK
  <2> QED
    BY <1>1, <2>1 DEF TypeOK, SharedOK, PutKeep, diskVars
<1>4. Copies(cache', disk')
  BY <1>1 DEF Coherent, Copies, PutKeep, diskVars
<1> QED
  BY <1>1, <1>3, <1>4, PutInv DEF PutKeep

(* The inode is freed, in memory and on the disk, and stays referenced.    *)
LEMMA PutFreeInv ==
    ASSUME IInv, NEW t \in Process, PutFree(t)
    PROVE  IInv'
<1>1. TypeOK /\ Coherent /\ At(t) \in PutStep /\ "drop" \in PutStep
  BY DEF IInv, PutFree, Runs, PutStep
<1>2. Arg(t) \in Inum
  BY <1>1, AtList
<1>3. PICK i \in Inum : i = Arg(t)
  BY <1>2
<1>4. /\ disk' = [disk EXCEPT ![i] = [type |-> "free", nlink |-> 0]]
      /\ dir' = [dir EXCEPT ![i] = NoDir]
      /\ cache' = [cache EXCEPT ![i].type = "free", ![i].valid = FALSE]
      /\ lock' = [lock EXCEPT ![i] = None]
      /\ lost' = lost \ {i} /\ stranded' = stranded \union ({dir[i][n] : n \in Name} \ {0})
      /\ panicked' = panicked /\ strayed' = strayed
  BY <1>3 DEF PutFree, Itrunc, Freed
<1>5. /\ cache'[i] \in Inode /\ cache'[i].ref = cache[i].ref /\ cache'[i].valid = FALSE
      /\ \A j \in Inum \ {i} : cache'[j] = cache[j]
  <2>1. cache \in [Inum -> Inode] /\ cache[i] \in Inode
    BY <1>1 DEF TypeOK
  <2>2. cache'[i] = [cache[i] EXCEPT !.type = "free", !.valid = FALSE]
        /\ \A j \in Inum \ {i} : cache'[j] = cache[j]
    BY <2>1, <1>4
  <2> QED
    BY <2>1, <2>2 DEF Inode, Type
<1>6. SharedOK'
  <2>1. disk' \in [Inum -> Dinode]
    <3>1. [type |-> "free", nlink |-> 0] \in Dinode
      BY DEF Dinode, Type
    <3> QED
      BY <3>1, <1>1, <1>4 DEF TypeOK
  <2>2. dir' \in [Inum -> Contents]
    <3>1. NoDir \in Contents
      BY DEF NoDir, Contents, OptInum
    <3> QED
      BY <3>1, <1>1, <1>4 DEF TypeOK
  <2>3. cache' \in [Inum -> Inode]
    <3>1. cache' = [j \in Inum |-> cache'[j]] /\ \A j \in Inum : cache[j] \in Inode
      BY <1>1, <1>4 DEF TypeOK
    <3> QED
      BY <3>1, <1>5
  <2>4. lock' \in [Inum -> OptHolder]
    BY <1>1, <1>4 DEF TypeOK, OptHolder
  <2>5. stranded' \subseteq Inum
    <3>1. \A n \in Name : dir[i][n] \in OptInum
      BY <1>1 DEF TypeOK, Contents, Entry
    <3> QED
      BY <3>1, <1>1, <1>4 DEF TypeOK, OptInum
  <2> QED
    BY <2>1, <2>2, <2>3, <2>4, <2>5, <1>1, <1>4 DEF TypeOK, SharedOK
<1>7. Copies(cache', disk')
  <2>1. \A j \in Inum \ {i} : disk'[j] = disk[j]
    BY <1>1, <1>4 DEF TypeOK
  <2> QED
    BY <2>1, <1>1, <1>5 DEF Copies, Coherent
<1>8. \A j \in Inum : cache'[j].ref = cache[j].ref
  BY <1>5
<1>9. Do(t, <<<<"drop", Arg(t)>>>> \o Rest(t)) /\ UNCHANGED <<pc, local, cwd, fileVars>>
  BY DEF PutFree
<1> QED
  BY <1>1, <1>6, <1>7, <1>8, <1>9, PutInv

(* The decrement of iput().                                                *)
LEMMA PutDropInv ==
    ASSUME IInv, NEW t \in Process, PutDrop(t)
    PROVE  IInv'
<1>1. TypeOK /\ Counted /\ Coherent /\ At(t) \in PutStep /\ At(t) # "unlock"
  BY DEF IInv, PutDrop, Runs, PutStep
<1>2. /\ Arg(t) \in Inum /\ Rest(t) \in Seq(Item)
      /\ \A i : /\ Cardinality(Pending(Rest(t), i)) \in Nat
                /\ Cardinality(Pending(todo[t], i)) = Cardinality(Pending(Rest(t), i)) + One(Arg(t), i)
  BY <1>1, AtList
<1>3. PICK i \in Inum : i = Arg(t)
  BY <1>2
<1>4. cache' = IF cache[i].ref = 1 THEN [cache EXCEPT ![i] = NoEntry] ELSE [cache EXCEPT ![i].ref = @ - 1]
  BY <1>3 DEF PutDrop
<1>5. cache[i].ref >= 1
  <2>1. Held(i) \in Nat /\ Cardinality(FileRefs(i)) \in Nat /\ cache[i].ref = Cardinality(FileRefs(i)) + Held(i)
        /\ Held(i) >= 1
    <3>1. /\ Cardinality(CwdRefs(i)) \in Nat /\ Cardinality(IpRefs(i)) \in Nat
          /\ Cardinality(DpRefs(i)) \in Nat /\ Cardinality(FileRefs(i)) \in Nat
      BY FiniteRefs
    <3>2. IsFiniteSet(PutRefs(i)) /\ cache[i].ref = Cardinality(FileRefs(i)) + Held(i)
      BY <1>1 DEF Counted, Holders
    <3>3. Cardinality(PutRefs(i)) \in Nat /\ (Cardinality(PutRefs(i)) = 0 <=> PutRefs(i) = {})
      BY <3>2, FS_CardinalityType, FS_EmptySet
    <3>4. PutRefs(i) # {}
      <4>1. Cardinality(Pending(todo[t], i)) # 0
        BY <1>2, <1>3 DEF One
      <4>2. Pending(todo[t], i) # {}
        BY <4>1, FS_EmptySet
      <4>3. PICK k : k \in Pending(todo[t], i)
        BY <4>2
      <4>4. <<t, k>> \in {t} \X Pending(todo[t], i)
        BY <4>3
      <4> QED
        BY <4>4, Zenon DEF PutRefs
    <3> QED
      BY <3>1, <3>2, <3>3, <3>4 DEF Held
  <2> QED
    BY <2>1
<1>6. /\ cache'[i] \in Inode /\ cache'[i].ref = cache[i].ref - 1
      /\ (cache'[i].valid => /\ cache[i].valid /\ cache'[i].type = cache[i].type
                            /\ cache'[i].nlink = cache[i].nlink)
      /\ \A j \in Inum \ {i} : cache'[j] = cache[j]
  <2>1. cache \in [Inum -> Inode] /\ cache[i] \in Inode
    BY <1>1 DEF TypeOK
  <2>2. CASE cache[i].ref = 1
    <3>1. cache'[i] = NoEntry /\ \A j \in Inum \ {i} : cache'[j] = cache[j]
      BY <2>1, <2>2, <1>4
    <3> QED
      BY <3>1, <2>2 DEF NoEntry, Inode, Type
  <2>3. CASE cache[i].ref # 1
    <3>1. cache'[i] = [cache[i] EXCEPT !.ref = cache[i].ref - 1] /\ \A j \in Inum \ {i} : cache'[j] = cache[j]
      BY <2>1, <2>3, <1>4
    <3> QED
      BY <3>1, <2>1, <1>5 DEF Inode
  <2> QED
    BY <2>2, <2>3
<1>7. SharedOK'
  <2>1. cache' \in [Inum -> Inode]
    <3>1. cache' = [j \in Inum |-> cache'[j]] /\ \A j \in Inum : cache[j] \in Inode
      BY <1>1, <1>4 DEF TypeOK
    <3> QED
      BY <3>1, <1>6
  <2> QED
    BY <2>1, <1>1 DEF TypeOK, SharedOK, PutDrop, ghosts, diskVars
<1>8. Copies(cache', disk')
  <2>1. disk' = disk
    BY DEF PutDrop, diskVars
  <2> QED
    BY <2>1, <1>1, <1>6 DEF Copies, Coherent
<1>9. ASSUME NEW j \in Inum
      PROVE  cache'[j].ref = cache[j].ref - Cardinality(Pending(todo[t], j)) + Cardinality(Pending(Rest(t), j))
  <2>1. cache[j].ref \in Nat
    BY <1>1 DEF TypeOK, Inode
  <2>2. cache'[j].ref = cache[j].ref - One(i, j)
    BY <1>6, <2>1 DEF One
  <2> QED
    BY <2>1, <2>2, <1>2, <1>3 DEF One
<1>10. Do(t, Rest(t)) /\ UNCHANGED <<pc, local, cwd, fileVars>>
  BY DEF PutDrop
<1> QED
  BY <1>2, <1>7, <1>8, <1>9, <1>10, ListInv

(* iunlock() counts nothing.                                               *)
LEMMA UnlockInv ==
    ASSUME IInv, NEW t \in Process, Unlock(t)
    PROVE  IInv'
<1>1. TypeOK /\ Coherent /\ At(t) = "unlock"
  BY DEF IInv, Unlock, Runs
<1>2. /\ Arg(t) \in Inum /\ Rest(t) \in Seq(Item)
      /\ \A i : /\ Cardinality(Pending(Rest(t), i)) \in Nat
                /\ Cardinality(Pending(todo[t], i)) = Cardinality(Pending(Rest(t), i))
  BY <1>1, AtList
<1>3. SharedOK'
  BY <1>1, <1>2 DEF TypeOK, SharedOK, Unlock, OptHolder, ghosts, diskVars
<1>4. Copies(cache', disk')
  BY <1>1 DEF Coherent, Copies, Unlock, diskVars
<1>5. ASSUME NEW i \in Inum
      PROVE  cache'[i].ref = cache[i].ref - Cardinality(Pending(todo[t], i)) + Cardinality(Pending(Rest(t), i))
  <2>1. cache[i].ref \in Nat /\ cache' = cache
    BY <1>1 DEF TypeOK, Inode, Unlock
  <2> QED
    BY <2>1, <1>2
<1> QED
  BY <1>2, <1>3, <1>4, <1>5, ListInv DEF Unlock

-----------------------------------------------------------------------------
(* The steps of the calls                                                  *)

(* A process at step p of its call holds ip and dp if the step uses them.  *)
LEMMA Here ==
    ASSUME IInv, NEW t \in Process, NEW p \in Step, At(t) = p
    PROVE  /\ todo[t] = <<>> /\ pc[t] = p /\ local[t] \in Local /\ cwd[t] \in OptInum
           /\ Shape(cwd[t], p, local[t])
           /\ UsesIp(p, local[t]) => local[t].ip \in Inum /\ IpIn(pc[t], local[t]) = local[t].ip
           /\ ~UsesIp(p, local[t]) => IpIn(pc[t], local[t]) = 0
           /\ p \in DpSteps => local[t].dp \in Inum /\ DpIn(pc[t], local[t]) = local[t].dp
           /\ p \notin DpSteps => DpIn(pc[t], local[t]) = 0
<1>1. TypeOK /\ Shapes
  BY DEF IInv
<1>2. todo[t] = <<>> /\ pc[t] = p
  BY <1>1, AtCall
<1>3. local[t] \in Local /\ cwd[t] \in OptInum
  BY <1>1 DEF TypeOK
<1>4. Shape(cwd[t], p, local[t])
  BY <1>1, <1>2 DEF Shapes
<1>5. local[t].ip \in OptInum /\ local[t].dp \in OptInum
  BY <1>3 DEF Local
<1> QED
  BY <1>2, <1>3, <1>4, <1>5 DEF Shape, IpIn, DpIn, OptInum

(* The inode that a step locks has a type.                                 *)
LEMMA LocksIp ==
    ASSUME NEW t, NEW p, p \in {"chdir", "exec", "link1", "linkbad", "unlink2", "create2", "exists"},
           Runs(t, p), local[t].ip # 0
    PROVE  ~NoType(local[t].ip) /\ At(t) = p /\ lock[local[t].ip] = None
<1>1. LockTarget(t) = local[t].ip
  BY DEF LockTarget, Runs
<1> QED
  BY <1>1 DEF Runs

(* The same for the steps that lock the directory.                         *)
LEMMA LocksDp ==
    ASSUME NEW t, NEW p, p \in {"link2", "unlink1", "create1"}, Runs(t, p), local[t].dp # 0
    PROVE  ~NoType(local[t].dp) /\ At(t) = p /\ lock[local[t].dp] = None
<1>1. LockTarget(t) = local[t].dp
  BY DEF LockTarget, Runs
<1> QED
  BY <1>1 DEF Runs

(* The last step of a call puts the one inode that the call holds.         *)
LEMMA EndInv ==
    ASSUME IInv, NEW t \in Process, todo[t] = <<>>, NEW i \in Inum, Finish(t, <<Put(i)>>),
           \/ IpIn(pc[t], local[t]) = i /\ DpIn(pc[t], local[t]) = 0
           \/ IpIn(pc[t], local[t]) = 0 /\ DpIn(pc[t], local[t]) = i,
           UNCHANGED <<cwd, fileVars>>, SharedOK', Copies(cache', disk'),
           \A j \in Inum : cache'[j].ref = cache[j].ref
    PROVE  IInv'
<1>1. PICK s : s = <<Put(i)>>
  OBVIOUS
<1>2. s \in Seq(Item) /\ \A j \in Inum : Cardinality(Pending(s, j)) = One(i, j)
  BY <1>1, Lists
<1>3. ASSUME NEW j \in Inum
      PROVE  cache'[j].ref = cache[j].ref
               - (One(IpIn(pc[t], local[t]), j) + One(DpIn(pc[t], local[t]), j))
               + Cardinality(Pending(s, j))
  <2>1. One(0, j) = 0 /\ One(i, j) \in Nat
    BY DEF One, Inum
  <2>2. One(IpIn(pc[t], local[t]), j) + One(DpIn(pc[t], local[t]), j) = One(i, j)
    BY <2>1
  <2>3. cache[j].ref \in Nat
    BY DEF IInv, TypeOK, Inode
  <2> QED
    BY <2>1, <2>2, <2>3, <1>2
<1>4. Finish(t, s)
  BY <1>1
<1> QED
  BY <1>2, <1>3, <1>4, FinishInv

(* ip of the call, locked and loaded.                                      *)
LEMMA AtIp ==
    ASSUME IInv, NEW t \in Process, NEW c, c = [cache EXCEPT ![local[t].ip] = Loaded(local[t].ip)],
           NEW p \in {"chdir", "exec", "link1", "linkbad", "unlink2", "create2", "exists"}, Runs(t, p)
    PROVE  /\ TypeOK /\ Coherent /\ todo[t] = <<>> /\ pc[t] = p /\ At(t) = p /\ local[t] \in Local
           /\ Shape(cwd[t], p, local[t])
           /\ local[t].ip \in Inum /\ IpIn(pc[t], local[t]) = local[t].ip
           /\ p \in {"unlink2", "create2"} => local[t].dp \in Inum /\ DpIn(pc[t], local[t]) = local[t].dp
           /\ p \notin {"unlink2", "create2"} => DpIn(pc[t], local[t]) = 0
           /\ c \in [Inum -> Inode] /\ Copies(c, disk)
           /\ \A j \in Inum : c[j].ref = cache[j].ref
<1>1. TypeOK /\ Coherent /\ At(t) = p
  BY DEF IInv, Runs
<1>2. p \in Step /\ UsesIp(p, local[t]) /\ (p \in DpSteps <=> p \in {"unlink2", "create2"})
  BY DEF Step, UsesIp, IpSteps, DpSteps
<1>3. /\ todo[t] = <<>> /\ pc[t] = p /\ local[t] \in Local /\ Shape(cwd[t], p, local[t])
      /\ local[t].ip \in Inum /\ IpIn(pc[t], local[t]) = local[t].ip
      /\ p \in {"unlink2", "create2"} => local[t].dp \in Inum /\ DpIn(pc[t], local[t]) = local[t].dp
      /\ p \notin {"unlink2", "create2"} => DpIn(pc[t], local[t]) = 0
  BY <1>1, <1>2, Here
<1>4. ~NoType(local[t].ip)
  BY <1>3, LocksIp DEF Inum
<1>5. /\ c \in [Inum -> Inode] /\ Copies(c, disk)
      /\ \A j \in Inum : c[j].ref = cache[j].ref
  <2>1. PICK i \in Inum : i = local[t].ip
    BY <1>3, Zenon
  <2>2. TypeOK /\ Coherent /\ i \in Inum /\ ~NoType(i) /\ InMemory(c, i)
    BY <2>1, <1>1, <1>4, Zenon DEF InMemory
  <2>3. /\ c \in [Inum -> Inode] /\ Copies(c, disk)
        /\ \A j \in Inum : c[j].ref = cache[j].ref
    BY <2>2, LoadFacts, Zenon
  <2> QED
    BY <2>1, <2>3, Zenon
<1> QED
  BY <1>1, <1>3, <1>5

(* dp of the call, locked and loaded.                                      *)
LEMMA AtDp ==
    ASSUME IInv, NEW t \in Process, NEW c, c = [cache EXCEPT ![local[t].dp] = Loaded(local[t].dp)],
           NEW p \in {"link2", "unlink1", "create1"}, Runs(t, p)
    PROVE  /\ TypeOK /\ Coherent /\ todo[t] = <<>> /\ pc[t] = p /\ At(t) = p /\ local[t] \in Local
           /\ Shape(cwd[t], p, local[t])
           /\ local[t].dp \in Inum /\ DpIn(pc[t], local[t]) = local[t].dp
           /\ p = "link2" => local[t].ip \in Inum /\ IpIn(pc[t], local[t]) = local[t].ip
           /\ p # "link2" => IpIn(pc[t], local[t]) = 0
           /\ local[t].path[1] \in Entry
           /\ c \in [Inum -> Inode] /\ Copies(c, disk)
           /\ \A j \in Inum : c[j].ref = cache[j].ref
<1>1. TypeOK /\ Coherent /\ At(t) = p
  BY DEF IInv, Runs
<1>2. p \in Step /\ p \in DpSteps /\ p # "nameiparent" /\ (UsesIp(p, local[t]) <=> p = "link2")
  BY DEF Step, UsesIp, IpSteps, DpSteps
<1>3. /\ todo[t] = <<>> /\ pc[t] = p /\ local[t] \in Local /\ Shape(cwd[t], p, local[t])
      /\ local[t].dp \in Inum /\ DpIn(pc[t], local[t]) = local[t].dp
      /\ p = "link2" => local[t].ip \in Inum /\ IpIn(pc[t], local[t]) = local[t].ip
      /\ p # "link2" => IpIn(pc[t], local[t]) = 0
  BY <1>1, <1>2, Here
<1>4. ~NoType(local[t].dp)
  BY <1>3, LocksDp DEF Inum
<1>5. /\ c \in [Inum -> Inode] /\ Copies(c, disk)
      /\ \A j \in Inum : c[j].ref = cache[j].ref
  <2>1. PICK i \in Inum : i = local[t].dp
    BY <1>3, Zenon
  <2>2. TypeOK /\ Coherent /\ i \in Inum /\ ~NoType(i) /\ InMemory(c, i)
    BY <2>1, <1>1, <1>4, Zenon DEF InMemory
  <2>3. /\ c \in [Inum -> Inode] /\ Copies(c, disk)
        /\ \A j \in Inum : c[j].ref = cache[j].ref
    BY <2>2, LoadFacts, Zenon
  <2> QED
    BY <2>1, <2>3, Zenon
<1>6. local[t].path[1] \in Entry
  <2>1. local[t].path \in Seq(Entry) /\ local[t].path # <<>>
    BY <1>2, <1>3 DEF Local, Shape
  <2> QED
    BY <2>1
<1> QED
  BY <1>1, <1>3, <1>5, <1>6

(* exec() reads the program.                                               *)
LEMMA ExecInv ==
    ASSUME IInv, NEW t \in Process, Exec(t)
    PROVE  IInv'
<1>1. PICK i, c : i = local[t].ip /\ c = [cache EXCEPT ![i] = Loaded(i)]
  OBVIOUS
<1>2. Runs(t, "exec") /\ cache' = c
  BY <1>1 DEF Exec
<1>3. /\ TypeOK /\ todo[t] = <<>> /\ i \in Inum
      /\ IpIn(pc[t], local[t]) = i /\ DpIn(pc[t], local[t]) = 0
      /\ c \in [Inum -> Inode] /\ Copies(c, disk)
      /\ \A j \in Inum : c[j].ref = cache[j].ref
  BY <1>1, <1>2, AtIp, ZenonT(60)
<1>4. SharedOK' /\ disk' = disk
  BY <1>2, <1>3 DEF TypeOK, SharedOK, Exec, diskVars, ghosts
<1>5. Finish(t, <<Put(i)>>) /\ UNCHANGED <<cwd, fileVars>>
  BY <1>1 DEF Exec
<1> QED
  BY <1>2, <1>3, <1>4, <1>5, EndInv

(* The error path of link() takes the count back.                          *)
LEMMA LinkBadInv ==
    ASSUME IInv, NEW t \in Process, LinkBad(t)
    PROVE  IInv'
<1>1. PICK i, c : i = local[t].ip /\ c = [cache EXCEPT ![i] = Loaded(i)]
  OBVIOUS
<1>2. /\ Runs(t, "linkbad") /\ cache' = SetLinks(c, i, c[i].nlink - 1)
      /\ disk' = [disk EXCEPT ![i].nlink = c[i].nlink - 1]
      /\ Finish(t, <<Put(i)>>) /\ UNCHANGED <<cwd, fileVars>>
  BY <1>1 DEF LinkBad
<1>3. /\ TypeOK /\ todo[t] = <<>> /\ i \in Inum
      /\ IpIn(pc[t], local[t]) = i /\ DpIn(pc[t], local[t]) = 0
      /\ c \in [Inum -> Inode] /\ Copies(c, disk)
      /\ \A j \in Inum : c[j].ref = cache[j].ref
  BY <1>1, <1>2, AtIp
<1>4. PICK n \in Int : n = c[i].nlink - 1
  BY <1>3 DEF Inode
<1>5. /\ cache' \in [Inum -> Inode] /\ disk' \in [Inum -> Dinode] /\ Copies(cache', disk')
      /\ \A j \in Inum : cache'[j].ref = c[j].ref
  <2>1. cache' = SetLinks(c, i, n) /\ Written(disk, disk', i, n)
    BY <1>2, <1>4, SMTT(40) DEF Written
  <2> QED
    BY <2>1, <1>3, LinksWritten
<1>6. SharedOK'
  BY <1>3, <1>5 DEF TypeOK, SharedOK, LinkBad, ghosts
<1>7. \A j \in Inum : cache'[j].ref = cache[j].ref
  BY <1>3, <1>5
<1> QED
  BY <1>2, <1>3, <1>5, <1>6, <1>7, EndInv

(* create() has found the name.                                            *)
LEMMA ExistsInv ==
    ASSUME IInv, NEW t \in Process, Exists(t)
    PROVE  IInv'
<1>1. PICK i : i = local[t].ip
  OBVIOUS
<1>2. Runs(t, "exists") /\ cache' = [cache EXCEPT ![i] = Loaded(i)] /\ UNCHANGED <<cwd, fileVars>>
  BY <1>1 DEF Exists
<1>3. /\ TypeOK /\ todo[t] = <<>> /\ i \in Inum /\ pc[t] = "exists" /\ local[t] \in Local
      /\ Shape(cwd[t], "exists", local[t])
      /\ IpIn(pc[t], local[t]) = i /\ DpIn(pc[t], local[t]) = 0
      /\ cache' \in [Inum -> Inode] /\ Copies(cache', disk)
      /\ \A j \in Inum : cache'[j].ref = cache[j].ref
  BY <1>1, <1>2, AtIp
<1>4. SharedOK' /\ disk' = disk
  <2>1. lock' \in [Inum -> OptHolder]
    BY <1>1, <1>3 DEF TypeOK, OptHolder, Exists
  <2> QED
    BY <2>1, <1>3 DEF TypeOK, SharedOK, Exists, diskVars, ghosts
<1>5. CASE Finish(t, <<Put(i)>>)
  BY <1>2, <1>3, <1>4, <1>5, EndInv
<1>6. CASE Goto(t, <<>>, "openfd") /\ UNCHANGED local
  <2>1. PICK s : s = <<>>
    OBVIOUS
  <2>l. PICK l \in Local : l = local[t]
    BY <1>3, Zenon
  <2>2. s \in Seq(Item) /\ \A j \in Inum : Cardinality(Pending(s, j)) = 0
    BY <2>1, <1>3, Lists
  <2>3. Move(t, s, "openfd", l)
    BY <2>1, <2>l, <1>3, <1>6 DEF Move, Goto, Do, TypeOK
  <2>4. Shape(cwd[t], "openfd", l) /\ "openfd" \in Step /\ IpIn("openfd", l) = i /\ DpIn("openfd", l) = 0
    BY <2>l, <1>1, <1>3 DEF Shape, Step, IpIn, DpIn, UsesIp, IpSteps, DpSteps
  <2>5. ASSUME NEW j \in Inum
        PROVE  cache'[j].ref = cache[j].ref
               - (One(IpIn(pc[t], local[t]), j) + One(DpIn(pc[t], local[t]), j))
               + (One(IpIn("openfd", l), j) + One(DpIn("openfd", l), j) + Cardinality(Pending(s, j)))
    <3>1. cache[j].ref \in Nat /\ One(i, j) \in Nat /\ One(0, j) \in Nat
      BY <1>3 DEF TypeOK, Inode, One
    <3> QED
      BY <3>1, <2>2, <2>4, <1>3
  <2>6. Continues(t, s, "openfd", l)
    BY <2>1, <2>l, <2>3, <2>4, <2>5, <1>2, <1>3, <1>4 DEF Continues
  <2> QED
    BY <2>2, <2>4, <2>6, CallInv
<1> QED
  BY <1>1, <1>5, <1>6 DEF Exists

(* unlink() takes the link away and puts the inode.                        *)
LEMMA Unlink3Inv ==
    ASSUME IInv, NEW t \in Process, Unlink3(t)
    PROVE  IInv'
<1>1. PICK i : i = local[t].ip
  OBVIOUS
<1>2. /\ At(t) = "unlink3" /\ cache' = SetLinks(cache, i, cache[i].nlink - 1)
      /\ disk' = [disk EXCEPT ![i].nlink = cache[i].nlink - 1]
      /\ Finish(t, <<Put(i)>>) /\ UNCHANGED <<cwd, fileVars>>
  BY <1>1 DEF Unlink3, Runs
<1>3. "unlink3" \in Step /\ UsesIp("unlink3", local[t]) /\ "unlink3" \notin DpSteps
  BY DEF Step, UsesIp, IpSteps, DpSteps
<1>4. /\ todo[t] = <<>> /\ i \in Inum /\ IpIn(pc[t], local[t]) = i /\ DpIn(pc[t], local[t]) = 0
  BY <1>1, <1>2, <1>3, Here
<1>5. TypeOK /\ cache \in [Inum -> Inode] /\ Copies(cache, disk)
  BY DEF IInv, TypeOK, Coherent, Copies
<1>6. PICK n \in Int : n = cache[i].nlink - 1
  BY <1>4, <1>5 DEF Inode
<1>7. /\ cache' \in [Inum -> Inode] /\ disk' \in [Inum -> Dinode] /\ Copies(cache', disk')
      /\ \A j \in Inum : cache'[j].ref = cache[j].ref
  <2>1. cache' = SetLinks(cache, i, n) /\ Written(disk, disk', i, n)
    BY <1>2, <1>6 DEF Written
  <2> QED
    BY <2>1, <1>4, <1>5, LinksWritten
<1>8. SharedOK'
  BY <1>1, <1>4, <1>5, <1>7 DEF TypeOK, SharedOK, Unlink3, OptHolder, ghosts
<1> QED
  BY <1>2, <1>4, <1>7, <1>8, EndInv

(* The call gets another ip.                                               *)
NewIp(t, x) == local' = [local EXCEPT ![t].ip = x]

(* The variables of the call after that.                                   *)
LEMMA SetIp ==
    ASSUME TypeOK, NEW t \in Process, NEW x \in Inum, NewIp(t, x)
    PROVE  \E l \in Local : /\ l.ip = x /\ l.dp = local[t].dp /\ l.path = local[t].path
                            /\ l.call = local[t].call /\ local' = [local EXCEPT ![t] = l]
<1>1. local \in [Process -> Local] /\ local[t] \in Local /\ x \in OptInum
  BY DEF TypeOK, OptInum
<1>2. PICK l : l = [local[t] EXCEPT !.ip = x]
  OBVIOUS
<1>3. /\ l \in Local /\ l.ip = x /\ l.dp = local[t].dp /\ l.path = local[t].path
      /\ l.call = local[t].call /\ local' = [local EXCEPT ![t] = l]
  BY <1>1, <1>2 DEF Local, NewIp
<1> QED
  BY <1>3, Zenon

(* unlink() looks the name up.                                             *)
LEMMA Unlink1Inv ==
    ASSUME IInv, NEW t \in Process, Unlink1(t)
    PROVE  IInv'
<1>1. PICK d, c, name, x : /\ d = local[t].dp /\ c = [cache EXCEPT ![d] = Loaded(d)]
                           /\ name = local[t].path[1] /\ x = Dirlookup(d, name)
  OBVIOUS
<1>2. Runs(t, "unlink1") /\ UNCHANGED <<diskVars, fileVars, cwd, panicked, ghosts>>
  BY DEF Unlink1
<1>3. /\ TypeOK /\ todo[t] = <<>> /\ pc[t] = "unlink1" /\ local[t] \in Local
      /\ Shape(cwd[t], "unlink1", local[t]) /\ d \in Inum /\ name \in Entry
      /\ IpIn(pc[t], local[t]) = 0 /\ DpIn(pc[t], local[t]) = d
      /\ c \in [Inum -> Inode] /\ Copies(c, disk)
      /\ \A j \in Inum : c[j].ref = cache[j].ref
  BY <1>1, <1>2, AtDp
<1>4. disk' = disk /\ lock' \in [Inum -> OptHolder]
  BY <1>1, <1>2, <1>3 DEF TypeOK, OptHolder, Unlink1, diskVars
<1>5. CASE cache' = c /\ Finish(t, <<Put(d)>>)
  <2>1. SharedOK'
    BY <1>2, <1>3, <1>4, <1>5 DEF TypeOK, SharedOK, diskVars, ghosts
  <2> QED
    BY <1>2, <1>3, <1>4, <1>5, <2>1, EndInv
<1>6. CASE /\ x # 0 /\ cache' = Iget(c, x) /\ local' = [local EXCEPT ![t].ip = x]
           /\ Goto(t, <<>>, "unlink2")
  <2>1. x \in Inum /\ x \in OptInum
    BY <1>1, <1>3, <1>6, LookupType DEF OptInum
  <2>2. /\ cache' \in [Inum -> Inode] /\ Copies(cache', disk')
        /\ \A j \in Inum : cache'[j].ref = cache[j].ref + One(x, j)
    <3>1. /\ Iget(c, x) \in [Inum -> Inode] /\ Copies(Iget(c, x), disk)
          /\ \A j \in Inum : Iget(c, x)[j].ref = c[j].ref + One(x, j)
      BY <2>1, <1>3, IgetFacts
    <3> QED
      BY <3>1, <1>3, <1>4, <1>6
  <2>3. SharedOK'
    BY <2>2, <1>2, <1>3, <1>4 DEF TypeOK, SharedOK, diskVars, ghosts
  <2>4. PICK l \in Local : /\ l.ip = x /\ l.dp = local[t].dp /\ l.path = local[t].path
                            /\ l.call = local[t].call /\ local' = [local EXCEPT ![t] = l]
    BY <2>1, <1>3, <1>6, SetIp DEF NewIp
  <2>5. /\ l \in Local /\ l.ip = x /\ l.dp = d /\ l.path = local[t].path /\ l.call = local[t].call
        /\ local' = [local EXCEPT ![t] = l]
    BY <2>4, <1>1
  <2>6. PICK s : s = <<>>
    OBVIOUS
  <2>7. s \in Seq(Item) /\ \A j \in Inum : Cardinality(Pending(s, j)) = 0
    BY <2>1, <2>6, Lists
  <2>8. Move(t, s, "unlink2", l)
    BY <2>5, <2>6, <1>6 DEF Move, Goto, Do
  <2>9. /\ Shape(cwd[t], "unlink2", l) /\ "unlink2" \in Step
        /\ IpIn("unlink2", l) = x /\ DpIn("unlink2", l) = d
    BY <2>1, <2>5, <1>3 DEF Shape, Step, IpIn, DpIn, UsesIp, IpSteps, DpSteps, Inum
  <2>10. ASSUME NEW j \in Inum
         PROVE  cache'[j].ref = cache[j].ref
                - (One(IpIn(pc[t], local[t]), j) + One(DpIn(pc[t], local[t]), j))
                + (One(IpIn("unlink2", l), j) + One(DpIn("unlink2", l), j) + Cardinality(Pending(s, j)))
    <3>1. cache[j].ref \in Nat /\ One(d, j) \in Nat /\ One(x, j) \in Nat /\ One(0, j) = 0
      BY <1>3 DEF TypeOK, Inode, One, Inum
    <3> QED
      BY <3>1, <2>2, <2>7, <2>9, <1>3
  <2>11. Continues(t, s, "unlink2", l)
    BY <2>2, <2>3, <2>8, <2>9, <2>10, <1>2, <1>3 DEF Continues
  <2> QED
    BY <2>5, <2>7, <2>9, <2>11, CallInv
<1> QED
  BY <1>1, <1>5, <1>6 DEF Unlink1

(* A panic, and a step of something else, leave the file system alone.     *)
LEMMA PanicInv ==
    ASSUME IInv, panicked' \in Message,
           UNCHANGED <<diskVars, cache, lock, fileVars, cwd, control, local, ghosts>>
    PROVE  IInv'
<1>1. /\ disk' = disk /\ dir' = dir /\ cache' = cache /\ lock' = lock /\ file' = file
      /\ ofile' = ofile /\ cwd' = cwd /\ pc' = pc /\ todo' = todo /\ local' = local
      /\ lost' = lost /\ stranded' = stranded /\ strayed' = strayed
  BY DEF diskVars, fileVars, control, ghosts
<1>2. TypeOK'
  BY <1>1 DEF IInv, TypeOK
<1>3. \A i : /\ FileRefs(i)' = FileRefs(i) /\ CwdRefs(i)' = CwdRefs(i) /\ IpRefs(i)' = IpRefs(i)
             /\ DpRefs(i)' = DpRefs(i) /\ PutRefs(i)' = PutRefs(i)
  BY <1>1 DEF FileRefs, CwdRefs, IpRefs, DpRefs, PutRefs, IpIn, DpIn, UsesIp, Pending
<1>4. Counted'
  BY <1>1, <1>3 DEF IInv, Counted, Holders, Held
<1>5. FilesCounted'
  BY <1>1 DEF IInv, FilesCounted, FdRefs, OpenFds
<1>6. Shapes'
  BY <1>1 DEF IInv, Shapes, Shape, UsesIp
<1>7. Coherent'
  BY <1>1 DEF IInv, Coherent
<1> QED
  BY <1>2, <1>4, <1>5, <1>6, <1>7 DEF IInv

(* ilock() of an inode without a type.                                     *)
LEMMA IlockPanicInv ==
    ASSUME IInv, NEW t \in Process, IlockPanic(t)
    PROVE  IInv'
BY PanicInv DEF IlockPanic, Message

(* unlink() removes the entry, or gives up.                                *)
LEMMA Unlink2Inv ==
    ASSUME IInv, NEW t \in Process, Unlink2(t)
    PROVE  IInv'
<1>1. PICK d, i, c : d = local[t].dp /\ i = local[t].ip /\ c = [cache EXCEPT ![i] = Loaded(i)]
  OBVIOUS
<1>n. PICK n : n = IF c[i].type = "dir" THEN c[d].nlink - 1 ELSE c[d].nlink
  OBVIOUS
<1>2. Runs(t, "unlink2") /\ UNCHANGED <<fileVars, cwd, ghosts>>
  BY DEF Unlink2
<1>3. /\ TypeOK /\ todo[t] = <<>> /\ pc[t] = "unlink2" /\ local[t] \in Local
      /\ Shape(cwd[t], "unlink2", local[t]) /\ d \in Inum /\ i \in Inum
      /\ IpIn(pc[t], local[t]) = i /\ DpIn(pc[t], local[t]) = d
      /\ c \in [Inum -> Inode] /\ Copies(c, disk)
      /\ \A j \in Inum : c[j].ref = cache[j].ref
  BY <1>1, <1>2, AtIp
<1>4. CASE panicked' = "unlink: nlink < 1" /\ UNCHANGED <<diskVars, cache, lock, control, local>>
  BY <1>2, <1>4, PanicInv DEF Message
<1>5. CASE /\ cache' = c /\ Finish(t, <<Put(i), <<"unlock", d>>, Put(d)>>)
           /\ UNCHANGED <<diskVars, lock, panicked>>
  <2>1. SharedOK' /\ disk' = disk
    BY <1>2, <1>3, <1>5 DEF TypeOK, SharedOK, diskVars, ghosts
  <2>2. PICK s : s = <<Put(i), <<"unlock", d>>, Put(d)>>
    OBVIOUS
  <2>3. s \in Seq(Item) /\ \A j \in Inum : Cardinality(Pending(s, j)) = One(i, j) + One(d, j)
    <3>1. s = PutLocked(i, d)
      BY <2>2 DEF PutLocked
    <3>2. i \in Inum /\ d \in Inum
      BY <1>3
    <3> QED
      BY <3>1, <3>2, LockedList
  <2>4. ASSUME NEW j \in Inum
        PROVE  cache'[j].ref = cache[j].ref
               - (One(IpIn(pc[t], local[t]), j) + One(DpIn(pc[t], local[t]), j))
               + Cardinality(Pending(s, j))
    <3>1. cache[j].ref \in Nat /\ One(d, j) \in Nat /\ One(i, j) \in Nat
      BY <1>3 DEF TypeOK, Inode, One
    <3> QED
      BY <3>1, <2>3, <1>3, <1>5
  <2>5. Finish(t, s)
    BY <2>2, <1>5
  <2> QED
    BY <2>1, <2>3, <2>4, <2>5, <1>2, <1>3, <1>5, FinishInv
<1>6. CASE /\ dir' = [dir EXCEPT ![d][local[t].path[1]] = 0]
           /\ cache' = SetLinks(c, d, n) /\ disk' = [disk EXCEPT ![d].nlink = n]
           /\ lock' = [lock EXCEPT ![d] = None, ![i] = t]
           /\ Goto(t, <<Put(d)>>, "unlink3") /\ UNCHANGED <<local, panicked>>
  <2>1. n \in Int
    BY <1>n, <1>3 DEF Inode
  <2>2. /\ cache' \in [Inum -> Inode] /\ disk' \in [Inum -> Dinode] /\ Copies(cache', disk')
        /\ \A j \in Inum : cache'[j].ref = cache[j].ref
    <3>1. Written(disk, disk', d, n)
      BY <1>6 DEF Written
    <3>2. /\ cache' \in [Inum -> Inode] /\ disk' \in [Inum -> Dinode] /\ Copies(cache', disk')
          /\ \A j \in Inum : cache'[j].ref = c[j].ref
      BY <3>1, <2>1, <1>3, <1>6, LinksWritten
    <3> QED
      BY <3>2, <1>3
  <2>3. SharedOK'
    <3>1. dir' \in [Inum -> Contents] /\ lock' \in [Inum -> OptHolder]
      BY <1>3, <1>6 DEF TypeOK, Contents, OptInum, OptHolder
    <3> QED
      BY <3>1, <2>2, <1>2, <1>3, <1>6 DEF TypeOK, SharedOK, ghosts
  <2>4. PICK s, l : s = <<Put(d)>> /\ l \in Local /\ l = local[t]
    BY <1>3, Zenon
  <2>5. s \in Seq(Item) /\ \A j \in Inum : Cardinality(Pending(s, j)) = One(d, j)
    BY <2>4, <1>3, Lists
  <2>6. Move(t, s, "unlink3", l)
    BY <2>4, <1>3, <1>6 DEF Move, Goto, Do, TypeOK
  <2>7. /\ Shape(cwd[t], "unlink3", l) /\ "unlink3" \in Step
        /\ IpIn("unlink3", l) = i /\ DpIn("unlink3", l) = 0
    BY <2>4, <1>1, <1>3 DEF Shape, Step, IpIn, DpIn, UsesIp, IpSteps, DpSteps
  <2>8. ASSUME NEW j \in Inum
        PROVE  cache'[j].ref = cache[j].ref
               - (One(IpIn(pc[t], local[t]), j) + One(DpIn(pc[t], local[t]), j))
               + (One(IpIn("unlink3", l), j) + One(DpIn("unlink3", l), j) + Cardinality(Pending(s, j)))
    <3>1. cache[j].ref \in Nat /\ One(d, j) \in Nat /\ One(i, j) \in Nat /\ One(0, j) = 0
      BY <1>3 DEF TypeOK, Inode, One, Inum
    <3> QED
      BY <3>1, <2>2, <2>5, <2>7, <1>3
  <2>9. Continues(t, s, "unlink3", l)
    BY <2>2, <2>3, <2>6, <2>7, <2>8, <1>2, <1>3 DEF Continues
  <2> QED
    BY <2>4, <2>5, <2>7, <2>9, CallInv
<1> QED
  BY <1>1, <1>n, <1>4, <1>5, <1>6 DEF Unlink2

-----------------------------------------------------------------------------
(* Paths                                                                   *)

(* The elements of a path, and where its lookup starts.                    *)
LEMMA PathFacts ==
    ASSUME TypeOK, NEW t \in Process, cwd[t] # 0, NEW p \in Path
    PROVE  Start(t, p) \in Inum /\ Elements(p) \in Seq(Entry)
<1>1. cwd[t] \in Inum /\ ROOTINO \in Inum
  BY FsAssumption DEF TypeOK, OptInum, Inum, ROOTINO
<1>2. Start(t, p) \in Inum
  BY <1>1 DEF Start
<1>3. p \in Seq(Entry \union {"/"}) /\ Len(p) \in Nat /\ \A k \in 2 .. Len(p) : p[k] \in Entry
  BY DEF Path
<1>4. CASE p # <<>> /\ Head(p) = "/"
  <2>1. PICK q : q = Tail(p)
    OBVIOUS
  <2>2. q \in Seq(Entry \union {"/"}) /\ Len(q) = Len(p) - 1 /\ \A k \in 1 .. Len(q) : q[k] = p[k + 1]
    BY <2>1, <1>3, <1>4
  <2>3. \A k \in 1 .. Len(q) : q[k] \in Entry
    BY <2>2, <1>3
  <2>4. q = [k \in 1 .. Len(q) |-> q[k]] /\ Len(q) \in Nat
    BY <2>2
  <2>5. q \in Seq(Entry)
    BY <2>3, <2>4
  <2> QED
    BY <2>1, <2>5, <1>2, <1>4 DEF Elements
<1>5. CASE ~(p # <<>> /\ Head(p) = "/")
  <2>1. \A k \in 1 .. Len(p) : p[k] \in Entry
    <3> SUFFICES ASSUME NEW k \in 1 .. Len(p) PROVE p[k] \in Entry
      OBVIOUS
    <3>1. CASE k = 1
      <4>1. p # <<>> /\ Head(p) = p[1] /\ p[1] \in Entry \union {"/"}
        BY <3>1, <1>3
      <4> QED
        BY <4>1, <3>1, <1>5
    <3>2. CASE k # 1
      BY <3>2, <1>3
    <3> QED
      BY <3>1, <3>2
  <2>2. p = [k \in 1 .. Len(p) |-> p[k]]
    BY <1>3
  <2>3. p \in Seq(Entry)
    BY <2>1, <2>2, <1>3
  <2>4. Elements(p) = p
    BY <1>5 DEF Elements
  <2> QED
    BY <2>3, <2>4, <1>2
<1> QED
  BY <1>4, <1>5

(* The paths of a call.                                                    *)
LEMMA CallPaths ==
    ASSUME NEW c \in AllCalls
    PROVE  c.op \in PathOp /\ c.path \in Path /\ c.new \in Path
<1>1. PICK t \in Process : c \in Call[t]
  BY DEF AllCalls
<1> QED
  BY <1>1, FsAssumption

(* The variables of a call after one element of a path.                    *)
LEMMA WalkFacts ==
    ASSUME NEW l \in Local, NEW step, NEW path \in Seq(Entry), NEW i \in OptInum,
           NEW w, w = Walk(l, step, path, i)
    PROVE  /\ w \in Local /\ w.path = path /\ w.call = l.call
           /\ step = "namei" => w.ip = i /\ w.dp = l.dp
           /\ step # "namei" => w.dp = i /\ w.ip = l.ip
<1>1. CASE step = "namei"
  <2>1. w = [l EXCEPT !.path = path, !.ip = i]
    BY <1>1 DEF Walk
  <2> QED
    BY <1>1, <2>1 DEF Local
<1>2. CASE step # "namei"
  <2>1. w = [l EXCEPT !.path = path, !.dp = i]
    BY <1>2 DEF Walk
  <2> QED
    BY <1>2, <2>1 DEF Local
<1> QED
  BY <1>1, <1>2

(* A process goes on with the variables of its call as they are.           *)
LEMMA KeepInv ==
    ASSUME IInv, NEW t \in Process, todo[t] = <<>>, NEW s \in Seq(Item), NEW p \in Step,
           Goto(t, s, p), UNCHANGED <<local, cwd, fileVars>>, Shape(cwd[t], p, local[t]),
           SharedOK', Copies(cache', disk'),
           \A i \in Inum : cache'[i].ref = cache[i].ref
               - (One(IpIn(pc[t], local[t]), i) + One(DpIn(pc[t], local[t]), i))
               + (One(IpIn(p, local[t]), i) + One(DpIn(p, local[t]), i) + Cardinality(Pending(s, i)))
    PROVE  IInv'
<1>1. local \in [Process -> Local]
  BY DEF IInv, TypeOK
<1>2. PICK l : l \in Local /\ l = local[t]
  BY <1>1
<1>3. Move(t, s, p, l)
  BY <1>1, <1>2 DEF Move, Goto, Do
<1>4. Shape(cwd[t], p, l) /\ UNCHANGED <<cwd, fileVars>>
  BY <1>2
<1>5. \A i \in Inum : cache'[i].ref = cache[i].ref
               - (One(IpIn(pc[t], local[t]), i) + One(DpIn(pc[t], local[t]), i))
               + (One(IpIn(p, l), i) + One(DpIn(p, l), i) + Cardinality(Pending(s, i)))
  BY <1>2, Zenon
<1>6. Continues(t, s, p, l)
  BY <1>3, <1>4, <1>5, Zenon DEF Continues
<1> QED
  BY <1>2, <1>6, CallInv

(* link() counts the link and looks for the new path's directory.          *)
LEMMA Link1Inv ==
    ASSUME IInv, NEW t \in Process, Link1(t)
    PROVE  IInv'
<1>1. PICK i, c : i = local[t].ip /\ c = [cache EXCEPT ![i] = Loaded(i)]
  OBVIOUS
<1>2. Runs(t, "link1") /\ UNCHANGED <<dir, lock, fileVars, cwd, panicked, ghosts>>
  BY DEF Link1
<1>3. /\ TypeOK /\ todo[t] = <<>> /\ pc[t] = "link1" /\ local[t] \in Local
      /\ Shape(cwd[t], "link1", local[t]) /\ i \in Inum
      /\ IpIn(pc[t], local[t]) = i /\ DpIn(pc[t], local[t]) = 0
      /\ c \in [Inum -> Inode] /\ Copies(c, disk)
      /\ \A j \in Inum : c[j].ref = cache[j].ref
  <2>1. /\ "link1" \in {"chdir", "exec", "link1", "linkbad", "unlink2", "create2", "exists"}
        /\ "link1" \notin {"unlink2", "create2"}
    OBVIOUS
  <2>2. c = [cache EXCEPT ![local[t].ip] = Loaded(local[t].ip)]
    BY <1>1
  <2>3. /\ TypeOK /\ todo[t] = <<>> /\ pc[t] = "link1" /\ local[t] \in Local
        /\ Shape(cwd[t], "link1", local[t]) /\ local[t].ip \in Inum
        /\ IpIn(pc[t], local[t]) = local[t].ip /\ DpIn(pc[t], local[t]) = 0
        /\ c \in [Inum -> Inode] /\ Copies(c, disk)
        /\ \A j \in Inum : c[j].ref = cache[j].ref
    BY <1>2, <2>1, <2>2, AtIp, Zenon
  <2> QED
    BY <2>3, <1>1
<1>4. CASE cache' = c /\ Finish(t, <<Put(i)>>) /\ UNCHANGED disk
  <2>1. SharedOK'
    BY <1>2, <1>3, <1>4 DEF TypeOK, SharedOK, ghosts
  <2> QED
    BY <1>2, <1>3, <1>4, <2>1, EndInv
<1>5. ASSUME NEW p, NEW x, NEW n, p = Elements(local[t].call.new), x = Start(t, local[t].call.new),
             n = Linked(c[i].nlink), cache' = Iget(SetLinks(c, i, n), x), disk' = [disk EXCEPT ![i].nlink = n],
             local' = [local EXCEPT ![t] = Walk(local[t], "nameiparent", p, x)],
             Goto(t, <<>>, "nameiparent")
      PROVE  IInv'
  <2>1. cwd[t] # 0 /\ local[t].call \in AllCalls /\ local[t].call.op = "link"
    BY <1>3 DEF Shape
  <2>2. local[t].call \in AllCalls
    BY <2>1, <1>3 DEF Local
  <2>3. x \in Inum /\ p \in Seq(Entry) /\ x # 0 /\ x \in OptInum
    <3>1. PICK q : q \in Path /\ q = local[t].call.new
      BY <2>2, CallPaths
    <3>2. Start(t, q) \in Inum /\ Elements(q) \in Seq(Entry)
      BY <3>1, <2>1, <1>3, PathFacts
    <3> QED
      BY <3>1, <3>2, <1>5 DEF Inum, OptInum
  <2>4. n \in Int
    BY <1>3, <1>5 DEF Linked, Inode
  <2>5. /\ SetLinks(c, i, n) \in [Inum -> Inode] /\ disk' \in [Inum -> Dinode]
        /\ Copies(SetLinks(c, i, n), disk')
        /\ \A j \in Inum : SetLinks(c, i, n)[j].ref = cache[j].ref
    <3>1. disk \in [Inum -> Dinode] /\ Written(disk, disk', i, n)
      BY <1>3, <1>5 DEF TypeOK, Written
    <3>2. /\ SetLinks(c, i, n) \in [Inum -> Inode] /\ disk' \in [Inum -> Dinode]
          /\ Copies(SetLinks(c, i, n), disk')
          /\ \A j \in Inum : SetLinks(c, i, n)[j].ref = c[j].ref
      <4>1. /\ c \in [Inum -> Inode] /\ disk \in [Inum -> Dinode] /\ i \in Inum /\ n \in Int
            /\ Written(disk, disk', i, n) /\ Copies(c, disk)
        BY <3>1, <2>4, <1>3
      <4> QED
        BY <4>1, SetLinksFacts, Zenon
    <3> QED
      BY <3>2, <1>3
  <2>6. /\ cache' \in [Inum -> Inode] /\ Copies(cache', disk')
        /\ \A j \in Inum : cache'[j].ref = cache[j].ref + One(x, j)
    <3>1. PICK e : e \in [Inum -> Inode] /\ e = SetLinks(c, i, n)
      BY <2>5, Zenon
    <3>2. /\ Iget(e, x) \in [Inum -> Inode] /\ Copies(Iget(e, x), disk')
          /\ \A j \in Inum : Iget(e, x)[j].ref = e[j].ref + One(x, j)
      BY <3>1, <2>3, <2>5, IgetFacts
    <3> QED
      BY <3>1, <3>2, <2>5, <1>5
  <2>7. SharedOK'
    BY <2>5, <2>6, <1>2, <1>3 DEF TypeOK, SharedOK, ghosts
  <2>8. PICK l : l = Walk(local[t], "nameiparent", p, x)
    OBVIOUS
  <2>9. /\ l \in Local /\ l.dp = x /\ l.ip = i /\ l.call = local[t].call
    <3>1. PICK k : k \in Local /\ k = local[t]
      BY <1>3
    <3>2. l \in Local /\ l.call = k.call /\ l.dp = x /\ l.ip = k.ip
      BY <3>1, <2>3, <2>8, WalkFacts
    <3> QED
      BY <3>1, <3>2, <1>1
  <2>10. PICK s : s = <<>>
    OBVIOUS
  <2>11. s \in Seq(Item) /\ \A j \in Inum : Cardinality(Pending(s, j)) = 0
    BY <2>10, <1>3, Lists
  <2>12. Move(t, s, "nameiparent", l)
    BY <2>8, <2>10, <1>5 DEF Move, Goto, Do
  <2>13. /\ Shape(cwd[t], "nameiparent", l) /\ "nameiparent" \in Step
         /\ IpIn("nameiparent", l) = i /\ DpIn("nameiparent", l) = x
    BY <2>1, <2>3, <2>9, <1>3 DEF Shape, Step, IpIn, DpIn, UsesIp, IpSteps, DpSteps, Inum
  <2>14. ASSUME NEW j \in Inum
         PROVE  cache'[j].ref = cache[j].ref
                - (One(IpIn(pc[t], local[t]), j) + One(DpIn(pc[t], local[t]), j))
                + (One(IpIn("nameiparent", l), j) + One(DpIn("nameiparent", l), j) + Cardinality(Pending(s, j)))
    <3>1. cache[j].ref \in Nat /\ One(i, j) \in Nat /\ One(x, j) \in Nat /\ One(0, j) = 0
      BY <1>3 DEF TypeOK, Inode, One, Inum
    <3> QED
      BY <3>1, <2>6, <2>11, <2>13, <1>3
  <2>15. Continues(t, s, "nameiparent", l)
    BY <2>6, <2>7, <2>12, <2>13, <2>14, <1>2, <1>3 DEF Continues
  <2> QED
    BY <2>9, <2>11, <2>13, <2>15, CallInv
<1> QED
  BY <1>1, <1>4, <1>5 DEF Link1

(* link() makes the entry, or finds the name taken.                        *)
LEMMA Link2Inv ==
    ASSUME IInv, NEW t \in Process, Link2(t)
    PROVE  IInv'
<1>1. PICK d, i, c, name, x : /\ d = local[t].dp /\ i = local[t].ip /\ c = [cache EXCEPT ![d] = Loaded(d)]
                              /\ name = local[t].path[1] /\ x = Dirlookup(d, name)
  OBVIOUS
<1>2. /\ Runs(t, "link2") /\ UNCHANGED <<disk, fileVars, cwd, panicked, lost, stranded>>
      /\ strayed' \in BOOLEAN
  BY DEF Link2, Strays, IInv, TypeOK
<1>3. /\ TypeOK /\ todo[t] = <<>> /\ pc[t] = "link2" /\ local[t] \in Local
      /\ Shape(cwd[t], "link2", local[t]) /\ d \in Inum /\ i \in Inum /\ name \in Entry
      /\ IpIn(pc[t], local[t]) = i /\ DpIn(pc[t], local[t]) = d
      /\ c \in [Inum -> Inode] /\ Copies(c, disk)
      /\ \A j \in Inum : c[j].ref = cache[j].ref
  BY <1>1, <1>2, AtDp
<1>4. CASE /\ x # 0 /\ cache' = Iget(c, x) /\ lock' = [lock EXCEPT ![d] = t]
           /\ LinkFails(t, <<Put(x), <<"unlock", d>>, Put(d)>>) /\ UNCHANGED dir
  <2>1. x \in Inum
    BY <1>1, <1>3, <1>4, LookupType
  <2>2. /\ cache' \in [Inum -> Inode] /\ Copies(cache', disk')
        /\ \A j \in Inum : cache'[j].ref = cache[j].ref + One(x, j)
    <3>1. /\ Iget(c, x) \in [Inum -> Inode] /\ Copies(Iget(c, x), disk)
          /\ \A j \in Inum : Iget(c, x)[j].ref = c[j].ref + One(x, j)
      BY <2>1, <1>3, IgetFacts
    <3> QED
      BY <3>1, <1>2, <1>3, <1>4
  <2>3. SharedOK'
    <3>1. lock' \in [Inum -> OptHolder]
      BY <1>3, <1>4 DEF TypeOK, OptHolder
    <3> QED
      BY <3>1, <2>2, <1>2, <1>3, <1>4 DEF TypeOK, SharedOK
  <2>4. PICK s : s = PutLocked(x, d)
    OBVIOUS
  <2>5. s \in Seq(Item) /\ \A j \in Inum : Cardinality(Pending(s, j)) = One(x, j) + One(d, j)
    BY <2>1, <2>4, <1>3, LockedList
  <2>6. Goto(t, s, "linkbad") /\ UNCHANGED <<local, cwd, fileVars>>
    BY <2>4, <1>2, <1>4 DEF LinkFails, PutLocked
  <2>7. /\ Shape(cwd[t], "linkbad", local[t]) /\ "linkbad" \in Step
        /\ IpIn("linkbad", local[t]) = i /\ DpIn("linkbad", local[t]) = 0
    BY <1>1, <1>3 DEF Shape, Step, IpIn, DpIn, UsesIp, IpSteps, DpSteps
  <2>8. ASSUME NEW j \in Inum
        PROVE  cache'[j].ref = cache[j].ref
               - (One(IpIn(pc[t], local[t]), j) + One(DpIn(pc[t], local[t]), j))
               + (One(IpIn("linkbad", local[t]), j) + One(DpIn("linkbad", local[t]), j) + Cardinality(Pending(s, j)))
    <3>1. cache[j].ref \in Nat /\ One(d, j) \in Nat /\ One(i, j) \in Nat /\ One(x, j) \in Nat /\ One(0, j) = 0
      BY <1>3 DEF TypeOK, Inode, One, Inum
    <3> QED
      BY <3>1, <2>2, <2>5, <2>7, <1>3
  <2> QED
    BY <2>2, <2>3, <2>5, <2>6, <2>7, <2>8, <1>3, KeepInv
<1>5. CASE /\ cache' = c /\ dir' = Dirlink(dir, d, name, i) /\ Finish(t, <<Put(d), Put(i)>>)
           /\ UNCHANGED lock
  <2>1. SharedOK'
    <3>1. dir' \in [Inum -> Contents]
      BY <1>3, <1>5 DEF TypeOK, Contents, OptInum, Dirlink
    <3> QED
      BY <3>1, <1>2, <1>3, <1>5 DEF TypeOK, SharedOK
  <2>2. PICK s : s = <<Put(d), Put(i)>>
    OBVIOUS
  <2>3. s \in Seq(Item) /\ \A j \in Inum : Cardinality(Pending(s, j)) = One(d, j) + One(i, j)
    <3>1. s = PutBoth(d, i)
      BY <2>2 DEF PutBoth
    <3> QED
      BY <3>1, <1>3, BothList
  <2>4. ASSUME NEW j \in Inum
        PROVE  cache'[j].ref = cache[j].ref
               - (One(IpIn(pc[t], local[t]), j) + One(DpIn(pc[t], local[t]), j))
               + Cardinality(Pending(s, j))
    <3>1. cache[j].ref \in Nat /\ One(d, j) \in Nat /\ One(i, j) \in Nat
      BY <1>3 DEF TypeOK, Inode, One
    <3> QED
      BY <3>1, <2>3, <1>3, <1>5
  <2>5. Finish(t, s)
    BY <2>2, <1>5
  <2> QED
    BY <2>1, <2>3, <2>4, <2>5, <1>2, <1>3, <1>5, FinishInv
<1> QED
  BY <1>1, <1>4, <1>5 DEF Link2

(* The last step of a call that changes the current directory.             *)
LEMMA CwdInv ==
    ASSUME IInv, NEW t \in Process, todo[t] = <<>>, NEW s \in Seq(Item), NEW l \in Local,
           Move(t, s, "user", l), NEW w \in OptInum, cwd' = [cwd EXCEPT ![t] = w],
           w = 0 => OpenFds(t) = {}, UNCHANGED fileVars, SharedOK', Copies(cache', disk'),
           \A i \in Inum : cache'[i].ref = cache[i].ref
               - (One(cwd[t], i) + One(IpIn(pc[t], local[t]), i) + One(DpIn(pc[t], local[t]), i))
               + (One(w, i) + Cardinality(Pending(s, i)))
    PROVE  IInv'
<1>1. Shape(w, "user", l) /\ "user" \in Step /\ IpIn("user", l) = 0 /\ DpIn("user", l) = 0
  BY DEF Shape, Step, IpIn, DpIn, UsesIp, IpSteps, DpSteps
<1>2. ASSUME NEW i \in Inum
      PROVE  cache'[i].ref = cache[i].ref - Own(t, i) + OwnIn(w, "user", l, s, i)
  <2>1. /\ One(cwd[t], i) \in Nat /\ One(IpIn(pc[t], local[t]), i) \in Nat
        /\ One(DpIn(pc[t], local[t]), i) \in Nat /\ One(w, i) \in Nat /\ One(0, i) = 0
    BY DEF One, Inum
  <2>2. Cardinality(Pending(s, i)) \in Nat /\ Cardinality(Pending(todo[t], i)) = 0
    <3>1. todo[t] \in Seq(Item)
      BY DEF IInv, TypeOK, Todo, Item
    <3> QED
      BY <3>1, PendingType
  <2>3. Own(t, i) = One(cwd[t], i) + One(IpIn(pc[t], local[t]), i) + One(DpIn(pc[t], local[t]), i)
    BY <2>1, <2>2 DEF Own, OwnIn
  <2>4. OwnIn(w, "user", l, s, i) = One(w, i) + Cardinality(Pending(s, i))
    BY <2>1, <2>2, <1>1 DEF OwnIn
  <2> QED
    BY <2>3, <2>4, Zenon
<1>3. Goes(t, s, "user", l, w)
  BY <1>1, <1>2 DEF Goes
<1> QED
  BY <1>1, <1>3, MoveInv

(* chdir(): the reference to ip becomes that of the current directory.     *)
LEMMA ChdirInv ==
    ASSUME IInv, NEW t \in Process, Chdir(t)
    PROVE  IInv'
<1>1. PICK i, c : i = local[t].ip /\ c = [cache EXCEPT ![i] = Loaded(i)]
  OBVIOUS
<1>2. Runs(t, "chdir") /\ cache' = c /\ UNCHANGED <<diskVars, lock, fileVars, panicked, ghosts>>
  BY <1>1 DEF Chdir
<1>3. /\ TypeOK /\ todo[t] = <<>> /\ local[t] \in Local /\ i \in Inum
      /\ Shape(cwd[t], "chdir", local[t])
      /\ IpIn(pc[t], local[t]) = i /\ DpIn(pc[t], local[t]) = 0
      /\ c \in [Inum -> Inode] /\ Copies(c, disk)
      /\ \A j \in Inum : c[j].ref = cache[j].ref
  BY <1>1, <1>2, AtIp
<1>4. SharedOK' /\ disk' = disk
  BY <1>2, <1>3 DEF TypeOK, SharedOK, diskVars, ghosts
<1>5. CASE Finish(t, <<Put(i)>>) /\ UNCHANGED cwd
  BY <1>2, <1>3, <1>4, <1>5, EndInv
<1>6. CASE Finish(t, <<Put(cwd[t])>>) /\ cwd' = [cwd EXCEPT ![t] = i]
  <2>1. PICK w : w \in Inum /\ w = cwd[t]
    BY <1>3 DEF Shape, TypeOK, OptInum
  <2>2. PICK s : s = <<Put(w)>>
    OBVIOUS
  <2>3. s \in Seq(Item) /\ \A j \in Inum : Cardinality(Pending(s, j)) = One(w, j)
    BY <2>1, <2>2, Lists
  <2>4. Move(t, s, "user", Idle) /\ Idle \in Local
    <3>1. <<>> \in Seq(Entry) /\ 0 \in OptInum
      BY DEF OptInum
    <3>2. Idle \in Local
      BY <3>1 DEF Idle, Local
    <3> QED
      BY <3>2, <2>1, <2>2, <1>6 DEF Finish, Goto, Do, Move
  <2>5. ASSUME NEW j \in Inum
        PROVE  cache'[j].ref = cache[j].ref
               - (One(cwd[t], j) + One(IpIn(pc[t], local[t]), j) + One(DpIn(pc[t], local[t]), j))
               + (One(i, j) + Cardinality(Pending(s, j)))
    <3>1. cache[j].ref \in Nat /\ One(i, j) \in Nat /\ One(w, j) \in Nat /\ One(0, j) = 0
      BY <1>3 DEF TypeOK, Inode, One, Inum
    <3> QED
      BY <3>1, <2>1, <2>3, <1>2, <1>3
  <2>6. i \in OptInum /\ i # 0
    BY <1>3 DEF OptInum, Inum
  <2> QED
    BY <2>3, <2>4, <2>5, <2>6, <1>2, <1>3, <1>4, <1>6, CwdInv
<1> QED
  BY <1>1, <1>5, <1>6 DEF Chdir

(* exit(): the current directory is put, all files are closed.             *)
LEMMA ExitCwdInv ==
    ASSUME IInv, NEW t \in Process, ExitCwd(t)
    PROVE  IInv'
<1>1. TypeOK /\ Coherent /\ At(t) = "close" /\ "close" \in Step
  BY DEF IInv, ExitCwd, Runs, Step
<1>2. /\ todo[t] = <<>> /\ local[t] \in Local /\ Shape(cwd[t], "close", local[t])
      /\ IpIn(pc[t], local[t]) = 0 /\ DpIn(pc[t], local[t]) = 0
  BY <1>1, Here DEF UsesIp, IpSteps, DpSteps
<1>3. PICK w : w \in Inum /\ w = cwd[t]
  BY <1>1, <1>2 DEF Shape, TypeOK, OptInum
<1>4. PICK s, l : s = <<Put(w)>> /\ l \in Local /\ l = local[t]
  BY <1>2, Zenon
<1>5. s \in Seq(Item) /\ \A j \in Inum : Cardinality(Pending(s, j)) = One(w, j)
  BY <1>3, <1>4, Lists
<1>6. Move(t, s, "user", l)
  BY <1>1, <1>3, <1>4 DEF ExitCwd, Goto, Do, Move, TypeOK
<1>7. SharedOK' /\ Copies(cache', disk') /\ cache' = cache
  BY <1>1 DEF TypeOK, SharedOK, Coherent, Copies, ExitCwd, diskVars, ghosts
<1>8. ASSUME NEW j \in Inum
      PROVE  cache'[j].ref = cache[j].ref
               - (One(cwd[t], j) + One(IpIn(pc[t], local[t]), j) + One(DpIn(pc[t], local[t]), j))
               + (One(0, j) + Cardinality(Pending(s, j)))
  <2>1. cache[j].ref \in Nat /\ One(w, j) \in Nat /\ One(0, j) = 0
    BY <1>1 DEF TypeOK, Inode, One, Inum
  <2> QED
    BY <2>1, <1>2, <1>3, <1>5, <1>7
<1>9. cwd' = [cwd EXCEPT ![t] = 0] /\ OpenFds(t) = {} /\ UNCHANGED fileVars /\ 0 \in OptInum
  BY DEF ExitCwd, OptInum
<1> QED
  BY <1>2, <1>4, <1>5, <1>6, <1>7, <1>8, <1>9, CwdInv

(* create() finds the name, or allocates an inode that nobody has copied.  *)
LEMMA Create1Inv ==
    ASSUME IInv, NEW t \in Process, Create1(t)
    PROVE  IInv'
<1>1. PICK d, c, name, f : /\ d = local[t].dp /\ c = [cache EXCEPT ![d] = Loaded(d)]
                           /\ name = local[t].path[1] /\ f = Dirlookup(d, name)
  OBVIOUS
<1>2. /\ Runs(t, "create1") /\ UNCHANGED <<dir, fileVars, cwd, lost, stranded>>
      /\ strayed' \in BOOLEAN
  BY DEF Create1, Strays, IInv, TypeOK
<1>3. /\ TypeOK /\ todo[t] = <<>> /\ pc[t] = "create1" /\ local[t] \in Local
      /\ Shape(cwd[t], "create1", local[t]) /\ d \in Inum /\ name \in Entry
      /\ IpIn(pc[t], local[t]) = 0 /\ DpIn(pc[t], local[t]) = d
      /\ c \in [Inum -> Inode] /\ Copies(c, disk)
      /\ \A j \in Inum : c[j].ref = cache[j].ref
  BY <1>1, <1>2, AtDp
<1>4. CASE panicked' = "ialloc: no inodes" /\ UNCHANGED <<disk, cache, lock, control, local, strayed>>
  BY <1>2, <1>4, PanicInv DEF Message, diskVars, ghosts
<1>5. ASSUME NEW x \in Inum, NEW s \in Seq(Item), NEW p \in {"exists", "create2"},
             cache' = Iget(c, x), local' = [local EXCEPT ![t].ip = x], Goto(t, s, p),
             disk' \in [Inum -> Dinode], Copies(c, disk'), lock' \in [Inum -> OptHolder],
             UNCHANGED panicked,
             \A j \in Inum : Cardinality(Pending(s, j)) = IF p = "exists" THEN One(d, j) ELSE 0
      PROVE  IInv'
  <2>1. /\ cache' \in [Inum -> Inode] /\ Copies(cache', disk')
        /\ \A j \in Inum : cache'[j].ref = cache[j].ref + One(x, j)
    <3>1. /\ Iget(c, x) \in [Inum -> Inode] /\ Copies(Iget(c, x), disk')
          /\ \A j \in Inum : Iget(c, x)[j].ref = c[j].ref + One(x, j)
      BY <1>3, <1>5, IgetFacts
    <3> QED
      BY <3>1, <1>3, <1>5
  <2>2. SharedOK'
    BY <2>1, <1>2, <1>3, <1>5 DEF TypeOK, SharedOK
  <2>3. PICK l \in Local : /\ l.ip = x /\ l.dp = local[t].dp /\ l.path = local[t].path
                            /\ l.call = local[t].call /\ local' = [local EXCEPT ![t] = l]
    <3>1. TypeOK /\ NewIp(t, x)
      BY <1>3, <1>5 DEF NewIp
    <3> QED
      BY <3>1, SetIp, Zenon
  <2>4. /\ l \in Local /\ l.ip = x /\ l.dp = d /\ l.path = local[t].path /\ l.call = local[t].call
        /\ local' = [local EXCEPT ![t] = l]
    BY <2>3, <1>1
  <2>5. Move(t, s, p, l)
    BY <2>4, <1>5 DEF Move, Goto, Do
  <2>6. /\ Shape(cwd[t], p, l) /\ p \in Step
        /\ IpIn(p, l) = x /\ DpIn(p, l) = IF p = "exists" THEN 0 ELSE d
    BY <2>4, <1>3 DEF Shape, Step, IpIn, DpIn, UsesIp, IpSteps, DpSteps, Inum
  <2>7. ASSUME NEW j \in Inum
        PROVE  cache'[j].ref = cache[j].ref
                - (One(IpIn(pc[t], local[t]), j) + One(DpIn(pc[t], local[t]), j))
                + (One(IpIn(p, l), j) + One(DpIn(p, l), j) + Cardinality(Pending(s, j)))
    <3>1. cache[j].ref \in Nat /\ One(d, j) \in Nat /\ One(x, j) \in Nat /\ One(0, j) = 0
      BY <1>3 DEF TypeOK, Inode, One, Inum
    <3>2. One(DpIn(p, l), j) + Cardinality(Pending(s, j)) = One(d, j)
      BY <3>1, <2>6, <1>5
    <3>3. Cardinality(Pending(s, j)) \in Nat /\ One(DpIn(p, l), j) \in Nat
      BY PendingType DEF One
    <3> QED
      BY <3>1, <3>2, <3>3, <2>1, <2>6, <1>3
  <2>8. Continues(t, s, p, l)
    BY <2>1, <2>2, <2>5, <2>6, <2>7, <1>2, <1>3 DEF Continues
  <2> QED
    BY <2>4, <2>6, <2>8, CallInv
<1>6. CASE /\ f # 0 /\ cache' = Iget(c, f) /\ local' = [local EXCEPT ![t].ip = f]
           /\ Goto(t, <<Put(d)>>, "exists") /\ UNCHANGED <<disk, lock, panicked>>
  <2>1. f \in Inum
    BY <1>1, <1>3, <1>6, LookupType
  <2>2. PICK s : s = <<Put(d)>>
    OBVIOUS
  <2>3. s \in Seq(Item) /\ \A j \in Inum : Cardinality(Pending(s, j)) = One(d, j)
    BY <2>2, <1>3, Lists
  <2>4. disk' \in [Inum -> Dinode] /\ Copies(c, disk') /\ lock' \in [Inum -> OptHolder]
    BY <1>3, <1>6 DEF TypeOK
  <2> QED
    BY <2>1, <2>2, <2>3, <2>4, <1>5, <1>6
<1>7. ASSUME NEW x \in Inum, Ialloc(x, TypeOf(local[t].call.op)), cache' = Iget(c, x),
             local' = [local EXCEPT ![t].ip = x], lock' = [lock EXCEPT ![d] = t],
             Goto(t, <<>>, "create2"), UNCHANGED panicked
      PROVE  IInv'
  <2>1. PICK y : y \in Type /\ y = TypeOf(local[t].call.op)
    BY DEF TypeOf, Type
  <2>2. disk[x].type = "free" /\ disk' = [disk EXCEPT ![x] = [type |-> y, nlink |-> 0]]
    BY <2>1, <1>7 DEF Ialloc, First, FreeInodes
  <2>3. disk' \in [Inum -> Dinode] /\ \A j \in Inum \ {x} : disk'[j] = disk[j]
    <3>1. [type |-> y, nlink |-> 0] \in Dinode
      BY <2>1 DEF Dinode
    <3> QED
      BY <3>1, <2>2, <1>3 DEF TypeOK
  <2>4. ~c[x].valid
    BY <2>2, <1>3 DEF Copies
  <2>5. Copies(c, disk')
    BY <2>3, <2>4, <1>3 DEF Copies
  <2>6. lock' \in [Inum -> OptHolder]
    BY <1>3, <1>7 DEF TypeOK, OptHolder
  <2>7. PICK s : s = <<>>
    OBVIOUS
  <2>8. s \in Seq(Item) /\ \A j \in Inum : Cardinality(Pending(s, j)) = 0
    BY <2>7, <1>3, Lists
  <2> QED
    BY <2>3, <2>5, <2>6, <2>7, <2>8, <1>5, <1>7
<1> QED
  BY <1>1, <1>4, <1>6, <1>7 DEF Create1

(* create() sets the new inode up.                                         *)
LEMMA Create2Inv ==
    ASSUME IInv, NEW t \in Process, Create2(t)
    PROVE  IInv'
<1>1. PICK d, i, c, name : /\ d = local[t].dp /\ i = local[t].ip /\ c = [cache EXCEPT ![i] = Loaded(i)]
                           /\ name = local[t].path[1]
  OBVIOUS
<1>2. PICK b, n : /\ b = (TypeOf(local[t].call.op) = "dir")
                  /\ n = IF TypeOf(local[t].call.op) = "dir" THEN c[d].nlink + 1 ELSE c[d].nlink
  OBVIOUS
<1>3. /\ Runs(t, "create2") /\ UNCHANGED <<fileVars, cwd, panicked, ghosts>>
      /\ cache' = SetLinks(SetLinks(c, i, 1), d, n)
      /\ disk' = [disk EXCEPT ![i].nlink = 1, ![d].nlink = n]
      /\ lock' = [lock EXCEPT ![d] = None, ![i] = t]
      /\ dir' = Dirlink(IF TypeOf(local[t].call.op) = "dir" THEN Dirlink(Dirlink(dir, i, ".", i), i, "..", d)
                                                            ELSE dir, d, name, i)
  BY <1>1, <1>2 DEF Create2
<1>4. /\ TypeOK /\ todo[t] = <<>> /\ pc[t] = "create2" /\ local[t] \in Local
      /\ Shape(cwd[t], "create2", local[t]) /\ d \in Inum /\ i \in Inum
      /\ IpIn(pc[t], local[t]) = i /\ DpIn(pc[t], local[t]) = d
      /\ c \in [Inum -> Inode] /\ Copies(c, disk)
      /\ \A j \in Inum : c[j].ref = cache[j].ref
  BY <1>1, <1>3, AtIp
<1>5. name \in Entry /\ n \in Int /\ 1 \in Int
  <2>1. local[t].path \in Seq(Entry) /\ local[t].path # <<>>
    BY <1>4 DEF Local, Shape, DpSteps
  <2>2. name \in Entry
    BY <2>1, <1>1
  <2> QED
    BY <2>2, <1>2, <1>4 DEF Inode
<1>6. /\ cache' \in [Inum -> Inode] /\ disk' \in [Inum -> Dinode] /\ Copies(cache', disk')
      /\ \A j \in Inum : cache'[j].ref = cache[j].ref
  <2>1. PICK e, x : e = [disk EXCEPT ![i].nlink = 1] /\ x = SetLinks(c, i, 1)
    OBVIOUS
  <2>2. /\ c \in [Inum -> Inode] /\ disk \in [Inum -> Dinode] /\ i \in Inum /\ 1 \in Int
        /\ Written(disk, e, i, 1) /\ Copies(c, disk)
    BY <2>1, <1>4 DEF TypeOK, Written
  <2>3. /\ SetLinks(c, i, 1) \in [Inum -> Inode] /\ e \in [Inum -> Dinode] /\ Copies(SetLinks(c, i, 1), e)
        /\ \A j \in Inum : SetLinks(c, i, 1)[j].ref = c[j].ref
    BY <2>2, SetLinksFacts, Zenon
  <2>4. Written(e, disk', d, n)
    BY <2>1, <1>3, <1>4 DEF TypeOK, Written
  <2>5. /\ x \in [Inum -> Inode] /\ e \in [Inum -> Dinode] /\ d \in Inum /\ n \in Int
        /\ Written(e, disk', d, n) /\ Copies(x, e)
    BY <2>1, <2>3, <2>4, <1>4, <1>5
  <2>6. /\ SetLinks(x, d, n) \in [Inum -> Inode] /\ disk' \in [Inum -> Dinode]
        /\ Copies(SetLinks(x, d, n), disk')
        /\ \A j \in Inum : SetLinks(x, d, n)[j].ref = x[j].ref
    BY <2>5, SetLinksFacts, Zenon
  <2> QED
    BY <2>1, <2>3, <2>6, <1>3, <1>4, SMTT(40)
<1>7. SharedOK'
  <2>1. dir' \in [Inum -> Contents]
    <3>1. ASSUME NEW e \in [Inum -> Contents], NEW y \in Inum, NEW m \in Entry, NEW x \in Inum
          PROVE  Dirlink(e, y, m, x) \in [Inum -> Contents]
      BY DEF Dirlink, Contents, OptInum
    <3>2. "." \in Entry /\ ".." \in Entry /\ dir \in [Inum -> Contents]
      BY <1>4 DEF Entry, Dots, TypeOK
    <3>3. Dirlink(dir, i, ".", i) \in [Inum -> Contents]
      BY <3>1, <3>2, <1>4
    <3>4. Dirlink(Dirlink(dir, i, ".", i), i, "..", d) \in [Inum -> Contents]
      BY <3>1, <3>2, <3>3, <1>4
    <3>5. PICK e \in [Inum -> Contents] : dir' = Dirlink(e, d, name, i)
      BY <3>2, <3>4, <1>3
    <3> QED
      BY <3>1, <3>5, <1>4, <1>5
  <2>2. lock' \in [Inum -> OptHolder]
    BY <1>3, <1>4 DEF TypeOK, OptHolder
  <2> QED
    BY <2>1, <2>2, <1>3, <1>4, <1>6 DEF TypeOK, SharedOK, ghosts
<1>8. CASE Goto(t, <<Put(d)>>, "openfd") /\ UNCHANGED local
  <2>1. PICK s : s = <<Put(d)>>
    OBVIOUS
  <2>2. s \in Seq(Item) /\ \A j \in Inum : Cardinality(Pending(s, j)) = One(d, j)
    BY <2>1, <1>4, Lists
  <2>3. Goto(t, s, "openfd") /\ UNCHANGED <<local, cwd, fileVars>>
    BY <2>1, <1>3, <1>8
  <2>4. /\ Shape(cwd[t], "openfd", local[t]) /\ "openfd" \in Step
        /\ IpIn("openfd", local[t]) = i /\ DpIn("openfd", local[t]) = 0
    BY <1>1, <1>4 DEF Shape, Step, IpIn, DpIn, UsesIp, IpSteps, DpSteps
  <2>5. ASSUME NEW j \in Inum
        PROVE  cache'[j].ref = cache[j].ref
               - (One(IpIn(pc[t], local[t]), j) + One(DpIn(pc[t], local[t]), j))
               + (One(IpIn("openfd", local[t]), j) + One(DpIn("openfd", local[t]), j) + Cardinality(Pending(s, j)))
    <3>1. cache[j].ref \in Nat /\ One(d, j) \in Nat /\ One(i, j) \in Nat /\ One(0, j) = 0
      BY <1>4 DEF TypeOK, Inode, One, Inum
    <3> QED
      BY <3>1, <2>2, <2>4, <1>4, <1>6
  <2> QED
    BY <2>2, <2>3, <2>4, <2>5, <1>4, <1>6, <1>7, KeepInv
<1>9. CASE Finish(t, <<Put(d), <<"unlock", i>>, Put(i)>>)
  <2>1. PICK s : s = PutLocked(d, i)
    OBVIOUS
  <2>2. s \in Seq(Item) /\ \A j \in Inum : Cardinality(Pending(s, j)) = One(d, j) + One(i, j)
    BY <2>1, <1>4, LockedList
  <2>3. ASSUME NEW j \in Inum
        PROVE  cache'[j].ref = cache[j].ref
               - (One(IpIn(pc[t], local[t]), j) + One(DpIn(pc[t], local[t]), j))
               + Cardinality(Pending(s, j))
    <3>1. cache[j].ref \in Nat /\ One(d, j) \in Nat /\ One(i, j) \in Nat
      BY <1>4 DEF TypeOK, Inode, One
    <3> QED
      BY <3>1, <2>2, <1>4, <1>6
  <2>4. Finish(t, s)
    BY <2>1, <1>9 DEF PutLocked
  <2> QED
    BY <2>2, <2>3, <2>4, <1>3, <1>4, <1>6, <1>7, FinishInv, ZenonT(60)
<1> QED
  BY <1>1, <1>8, <1>9 DEF Create2

(* A process in namex() holds the inode it has reached; the nameiparent()  *)
(* of link() also holds ip.                                                *)
LEMMA AtWalk ==
    ASSUME IInv, NEW t \in Process, At(t) \in {"namei", "nameiparent"}
    PROVE  /\ TypeOK /\ Coherent /\ todo[t] = <<>> /\ pc[t] = At(t) /\ local[t] \in Local /\ cwd[t] # 0
           /\ Shape(cwd[t], At(t), local[t])
           /\ local[t].call \in AllCalls /\ local[t].call.op \in PathOp
           /\ Walked(t) \in Inum
           /\ At(t) = "namei" => IpIn(pc[t], local[t]) = Walked(t) /\ DpIn(pc[t], local[t]) = 0
           /\ At(t) = "nameiparent" =>
                /\ DpIn(pc[t], local[t]) = Walked(t)
                /\ local[t].call.op = "link" => /\ local[t].ip \in Inum
                                                /\ IpIn(pc[t], local[t]) = local[t].ip
                /\ local[t].call.op # "link" => IpIn(pc[t], local[t]) = 0
<1>1. TypeOK /\ Coherent
  BY DEF IInv
<1>2. PICK p : p \in Step /\ p = At(t) /\ p \in {"namei", "nameiparent"}
  BY DEF Step
<1>3. /\ todo[t] = <<>> /\ pc[t] = p /\ local[t] \in Local /\ Shape(cwd[t], p, local[t])
      /\ UsesIp(p, local[t]) => local[t].ip \in Inum /\ IpIn(pc[t], local[t]) = local[t].ip
      /\ ~UsesIp(p, local[t]) => IpIn(pc[t], local[t]) = 0
      /\ p \in DpSteps => local[t].dp \in Inum /\ DpIn(pc[t], local[t]) = local[t].dp
      /\ p \notin DpSteps => DpIn(pc[t], local[t]) = 0
  BY <1>2, Here
<1>4. local[t].call \in AllCalls /\ cwd[t] # 0
  BY <1>2, <1>3 DEF Shape
<1>5. local[t].call \in AllCalls
  BY <1>3, <1>4 DEF Local
<1>6. local[t].call.op \in PathOp
  BY <1>5, CallPaths
<1>7. CASE p = "namei"
  <2>1. UsesIp(p, local[t]) /\ p \notin DpSteps /\ Walked(t) = local[t].ip
    BY <1>2, <1>7 DEF UsesIp, IpSteps, DpSteps, Walked
  <2> QED
    BY <2>1, <1>1, <1>2, <1>3, <1>4, <1>5, <1>6, <1>7
<1>8. CASE p = "nameiparent"
  <2>1. /\ UsesIp(p, local[t]) <=> local[t].call.op = "link"
        /\ p \in DpSteps /\ Walked(t) = local[t].dp
    BY <1>2, <1>8 DEF UsesIp, IpSteps, DpSteps, Walked
  <2> QED
    BY <2>1, <1>1, <1>2, <1>3, <1>4, <1>5, <1>6, <1>8
<1> QED
  BY <1>2, <1>7, <1>8

(* namex() returns 0.                                                      *)
LEMMA NotFoundInv ==
    ASSUME IInv, NEW t \in Process, At(t) \in {"namei", "nameiparent"}, NotFound(t, Walked(t)),
           UNCHANGED <<cwd, fileVars>>, SharedOK', Copies(cache', disk'),
           \A j \in Inum : cache'[j].ref = cache[j].ref
    PROVE  IInv'
<1>1. PICK i : i = Walked(t)
  OBVIOUS
<1>2. /\ TypeOK /\ todo[t] = <<>> /\ pc[t] = At(t) /\ i \in Inum /\ Shape(cwd[t], At(t), local[t])
      /\ cwd[t] # 0 /\ local[t].call \in AllCalls
      /\ At(t) = "namei" => IpIn(pc[t], local[t]) = i /\ DpIn(pc[t], local[t]) = 0
      /\ At(t) = "nameiparent" =>
           /\ DpIn(pc[t], local[t]) = i
           /\ local[t].call.op = "link" => local[t].ip \in Inum /\ IpIn(pc[t], local[t]) = local[t].ip
           /\ local[t].call.op # "link" => IpIn(pc[t], local[t]) = 0
  BY <1>1, AtWalk
<1>3. CASE ~(At(t) = "nameiparent" /\ local[t].call.op = "link")
  <2>1. Finish(t, <<Put(i)>>)
    BY <1>1, <1>3 DEF NotFound
  <2> QED
    BY <2>1, <1>2, <1>3, EndInv
<1>4. CASE At(t) = "nameiparent" /\ local[t].call.op = "link"
  <2>1. PICK s, x : s = <<Put(i)>> /\ x = local[t].ip
    OBVIOUS
  <2>2. s \in Seq(Item) /\ \A j \in Inum : Cardinality(Pending(s, j)) = One(i, j)
    BY <2>1, <1>2, Lists
  <2>3. Goto(t, s, "linkbad") /\ UNCHANGED <<local, cwd, fileVars>>
    BY <2>1, <1>1, <1>4 DEF NotFound, LinkFails
  <2>4. /\ Shape(cwd[t], "linkbad", local[t]) /\ "linkbad" \in Step
        /\ IpIn("linkbad", local[t]) = x /\ DpIn("linkbad", local[t]) = 0
    BY <2>1, <1>2, <1>4 DEF Shape, Step, IpIn, DpIn, UsesIp, IpSteps, DpSteps, Inum
  <2>5. ASSUME NEW j \in Inum
        PROVE  cache'[j].ref = cache[j].ref
               - (One(IpIn(pc[t], local[t]), j) + One(DpIn(pc[t], local[t]), j))
               + (One(IpIn("linkbad", local[t]), j) + One(DpIn("linkbad", local[t]), j) + Cardinality(Pending(s, j)))
    <3>1. cache[j].ref \in Nat /\ One(x, j) \in Nat /\ One(i, j) \in Nat /\ One(0, j) = 0
      BY <1>2 DEF TypeOK, Inode, One, Inum
    <3> QED
      BY <3>1, <2>1, <2>2, <2>4, <1>2, <1>4
  <2> QED
    BY <2>2, <2>3, <2>4, <2>5, <1>2, KeepInv
<1> QED
  BY <1>3, <1>4

(* The lookup is over and the call goes on with what it has found.         *)
LEMMA FoundInv ==
    ASSUME IInv, NEW t \in Process, At(t) \in {"namei", "nameiparent"},
           At(t) = "nameiparent" => local[t].path # <<>>,
           Goto(t, <<>>, Found(t)), UNCHANGED <<local, cwd, fileVars>>, SharedOK', Copies(cache', disk'),
           \A j \in Inum : cache'[j].ref = cache[j].ref
    PROVE  IInv'
<1>1. /\ TypeOK /\ todo[t] = <<>> /\ pc[t] = At(t) /\ Walked(t) \in Inum /\ Shape(cwd[t], At(t), local[t])
      /\ cwd[t] # 0 /\ local[t].call \in AllCalls /\ local[t].call.op \in PathOp
  BY AtWalk
<1>2. PICK p, l, op, s : p = Found(t) /\ l = local[t] /\ op = local[t].call.op /\ s = <<>>
  OBVIOUS
<1>3. /\ p \in Step /\ Shape(cwd[t], p, l)
      /\ IpIn(p, l) = IpIn(pc[t], l) /\ DpIn(p, l) = DpIn(pc[t], l)
  <2>1. CASE At(t) = "namei"
    <3>1. LookupOf(op) = "namei" /\ p = AfterNamei(op) /\ l.ip # 0
      BY <2>1, <1>1, <1>2 DEF Shape, Found, UsesIp, IpSteps
    <3>2. op \in {"open", "openw", "link", "chdir", "exec"}
      BY <3>1, <1>1, <1>2 DEF LookupOf, PathOp, Creates
    <3>3. p \in {"openfd", "link1", "chdir", "exec"} /\ (p = "link1" => op = "link")
      BY <3>1, <3>2 DEF AfterNamei
    <3>4. /\ p \in Step /\ UsesIp(p, l) /\ p \notin DpSteps /\ p \notin {"user", "close", "namei", "nameiparent"}
          /\ UsesIp(pc[t], l) /\ pc[t] \notin DpSteps
      BY <3>3, <2>1, <1>1 DEF Step, UsesIp, IpSteps, DpSteps
    <3> QED
      BY <3>1, <3>3, <3>4, <1>1, <1>2 DEF Shape, IpIn, DpIn
  <2>2. CASE At(t) = "nameiparent"
    <3>1. /\ op = "link" \/ LookupOf(op) = "nameiparent"
          /\ p = AfterNameiparent(op) /\ l.dp # 0 /\ (op = "link" => l.ip # 0)
      BY <2>2, <1>1, <1>2 DEF Shape, Found, UsesIp, DpSteps
    <3>2. p \in {"link2", "unlink1", "create1"} /\ (p = "link2" <=> op = "link")
      BY <3>1 DEF AfterNameiparent
    <3>3. /\ p \in Step /\ p \in DpSteps /\ p \notin {"user", "close", "namei", "nameiparent", "link1"}
          /\ pc[t] \in DpSteps /\ (UsesIp(p, l) <=> op = "link") /\ (UsesIp(pc[t], l) <=> op = "link")
      BY <3>2, <2>2, <1>1, <1>2 DEF Step, UsesIp, IpSteps, DpSteps
    <3> QED
      BY <3>1, <3>3, <2>2, <1>1, <1>2 DEF Shape, IpIn, DpIn
  <2> QED
    BY <2>1, <2>2
<1>4. s \in Seq(Item) /\ \A j \in Inum : Cardinality(Pending(s, j)) = 0
  BY <1>1, <1>2, Lists
<1>5. Goto(t, s, p) /\ Shape(cwd[t], p, local[t])
  BY <1>2, <1>3
<1>6. ASSUME NEW j \in Inum
      PROVE  cache'[j].ref = cache[j].ref
               - (One(IpIn(pc[t], local[t]), j) + One(DpIn(pc[t], local[t]), j))
               + (One(IpIn(p, local[t]), j) + One(DpIn(p, local[t]), j) + Cardinality(Pending(s, j)))
  <2>1. /\ cache[j].ref \in Nat /\ One(IpIn(pc[t], local[t]), j) \in Nat
        /\ One(DpIn(pc[t], local[t]), j) \in Nat
    BY <1>1 DEF TypeOK, Inode, One
  <2>2. IpIn(p, local[t]) = IpIn(pc[t], local[t]) /\ DpIn(p, local[t]) = DpIn(pc[t], local[t])
    BY <1>2, <1>3
  <2> QED
    BY <2>1, <2>2, <1>4
<1> QED
  BY <1>1, <1>3, <1>4, <1>5, <1>6, KeepInv

(* The path is used up.                                                    *)
LEMMA NamexEndInv ==
    ASSUME IInv, NEW t \in Process, NamexEnd(t)
    PROVE  IInv'
<1>1. TypeOK /\ Coherent /\ At(t) \in {"namei", "nameiparent"}
  BY DEF IInv, NamexEnd
<1>2. SharedOK' /\ Copies(cache', disk') /\ cache' = cache /\ UNCHANGED <<cwd, fileVars>>
  BY <1>1 DEF TypeOK, SharedOK, Coherent, Copies, NamexEnd, diskVars, ghosts
<1>3. CASE At(t) = "namei"
  <2>1. Goto(t, <<>>, Found(t)) /\ UNCHANGED local
    BY <1>3 DEF NamexEnd
  <2> QED
    BY <2>1, <1>1, <1>2, <1>3, FoundInv
<1>4. CASE At(t) = "nameiparent"
  <2>1. NotFound(t, Walked(t))
    BY <1>4 DEF NamexEnd, Walked
  <2> QED
    BY <2>1, <1>1, <1>2, NotFoundInv
<1> QED
  BY <1>1, <1>3, <1>4

(* One element of the path.                                                *)
LEMMA NamexInv ==
    ASSUME IInv, NEW t \in Process, Namex(t)
    PROVE  IInv'
<1>1. PICK i, c, name, x : /\ i = Walked(t) /\ c = [cache EXCEPT ![i] = Loaded(i)]
                           /\ name = Head(local[t].path) /\ x = Dirlookup(i, name)
  OBVIOUS
<1>2. /\ At(t) \in {"namei", "nameiparent"} /\ Runs(t, At(t)) /\ local[t].path # <<>>
      /\ UNCHANGED <<diskVars, lock, fileVars, cwd, panicked, lost, stranded>>
  BY DEF Namex
<1>3. /\ TypeOK /\ Coherent /\ todo[t] = <<>> /\ pc[t] = At(t) /\ local[t] \in Local /\ i \in Inum
      /\ Shape(cwd[t], At(t), local[t])
      /\ At(t) = "namei" => IpIn(pc[t], local[t]) = i /\ DpIn(pc[t], local[t]) = 0
      /\ At(t) = "nameiparent" =>
           /\ DpIn(pc[t], local[t]) = i
           /\ local[t].call.op = "link" => local[t].ip \in Inum /\ IpIn(pc[t], local[t]) = local[t].ip
           /\ local[t].call.op # "link" => IpIn(pc[t], local[t]) = 0
  BY <1>1, <1>2, AtWalk
<1>4. name \in Entry /\ Tail(local[t].path) \in Seq(Entry)
  <2>1. local[t].path \in Seq(Entry)
    BY <1>3 DEF Local
  <2> QED
    BY <2>1, <1>1, <1>2
<1>5. ~NoType(i)
  <2>1. LockTarget(t) = i /\ i # 0 /\ At(t) # "put"
    BY <1>1, <1>2, <1>3 DEF LockTarget, Inum
  <2> QED
    BY <2>1, <1>2 DEF Runs
<1>6. /\ c \in [Inum -> Inode] /\ Copies(c, disk)
      /\ \A j \in Inum : c[j].ref = cache[j].ref
  <2>1. TypeOK /\ Coherent /\ i \in Inum /\ ~NoType(i) /\ InMemory(c, i)
    BY <1>1, <1>3, <1>5 DEF InMemory
  <2> QED
    BY <2>1, LoadFacts, Zenon
<1>7. ASSUME cache' = c, strayed' = strayed PROVE SharedOK' /\ Copies(cache', disk') /\ UNCHANGED <<cwd, fileVars>>
                                                  /\ \A j \in Inum : cache'[j].ref = cache[j].ref
  BY <1>2, <1>3, <1>6, <1>7 DEF TypeOK, SharedOK, diskVars
<1>8. CASE cache' = c /\ strayed' = strayed /\ NotFound(t, i)
  BY <1>1, <1>2, <1>7, <1>8, NotFoundInv
<1>9. CASE cache' = c /\ Goto(t, <<>>, Found(t)) /\ UNCHANGED <<local, strayed>>
  BY <1>2, <1>7, <1>9, FoundInv
<1>10. CASE /\ x # 0 /\ cache' = Iget(c, x) /\ Goto(t, <<Put(i)>>, pc[t])
            /\ local' = [local EXCEPT ![t] = Walk(local[t], pc[t], Tail(local[t].path), x)]
            /\ strayed' = (strayed \/ Strays(name, x))
  <2>1. x \in Inum /\ x \in OptInum
    BY <1>1, <1>3, <1>4, <1>10, LookupType DEF OptInum
  <2>2. /\ cache' \in [Inum -> Inode] /\ Copies(cache', disk')
        /\ \A j \in Inum : cache'[j].ref = cache[j].ref + One(x, j)
    <3>1. /\ Iget(c, x) \in [Inum -> Inode] /\ Copies(Iget(c, x), disk)
          /\ \A j \in Inum : Iget(c, x)[j].ref = c[j].ref + One(x, j)
      BY <2>1, <1>6, IgetFacts
    <3> QED
      BY <3>1, <1>2, <1>6, <1>10 DEF diskVars
  <2>3. SharedOK'
    <3>1. strayed' \in BOOLEAN
      BY <1>10
    <3> QED
      BY <3>1, <2>2, <1>2, <1>3 DEF TypeOK, SharedOK, diskVars
  <2>4. PICK l, k, q, p : /\ q = Tail(local[t].path) /\ k = local[t] /\ p = pc[t]
                          /\ l = Walk(local[t], pc[t], Tail(local[t].path), x)
    OBVIOUS
  <2>5. p \in {"namei", "nameiparent"} /\ k \in Local /\ q \in Seq(Entry) /\ l = Walk(k, p, q, x)
    BY <2>4, <1>2, <1>3, <1>4
  <2>6. /\ l \in Local /\ l.path = q /\ l.call = k.call
        /\ p = "namei" => l.ip = x /\ l.dp = k.dp
        /\ p # "namei" => l.dp = x /\ l.ip = k.ip
    BY <2>1, <2>5, WalkFacts
  <2>7. PICK s : s = <<Put(i)>>
    OBVIOUS
  <2>8. s \in Seq(Item) /\ \A j \in Inum : Cardinality(Pending(s, j)) = One(i, j)
    BY <2>7, <1>3, Lists
  <2>9. Move(t, s, p, l)
    BY <2>4, <2>7, <1>10 DEF Move, Goto, Do
  <2>10. /\ Shape(cwd[t], p, l) /\ p \in Step
         /\ p = "namei" => IpIn(p, l) = x /\ DpIn(p, l) = DpIn(pc[t], local[t])
         /\ p # "namei" => DpIn(p, l) = x /\ IpIn(p, l) = IpIn(pc[t], local[t])
    <3>1. Shape(cwd[t], p, k)
      BY <2>4, <1>3
    <3>2. x # 0
      BY <1>10
    <3>3. CASE p = "namei"
      <4>1. UsesIp(p, l) /\ p \notin DpSteps
        BY <3>3 DEF UsesIp, IpSteps, DpSteps
      <4> QED
        BY <4>1, <3>1, <3>2, <3>3, <2>4, <2>6 DEF Shape, Step, IpIn, DpIn
    <3>4. CASE p = "nameiparent"
      <4>1. (UsesIp(p, l) <=> l.call.op = "link") /\ (UsesIp(p, k) <=> k.call.op = "link") /\ p \in DpSteps
        BY <3>4 DEF UsesIp, IpSteps, DpSteps
      <4> QED
        BY <4>1, <3>1, <3>2, <3>4, <2>4, <2>6 DEF Shape, Step, IpIn, DpIn
    <3> QED
      BY <3>3, <3>4, <2>5
  <2>11. ASSUME NEW j \in Inum
         PROVE  cache'[j].ref = cache[j].ref
                - (One(IpIn(pc[t], local[t]), j) + One(DpIn(pc[t], local[t]), j))
                + (One(IpIn(p, l), j) + One(DpIn(p, l), j) + Cardinality(Pending(s, j)))
    <3>1. /\ cache[j].ref \in Nat /\ One(x, j) \in Nat /\ One(i, j) \in Nat
          /\ One(IpIn(pc[t], local[t]), j) \in Nat /\ One(DpIn(pc[t], local[t]), j) \in Nat
      BY <1>3 DEF TypeOK, Inode, One
    <3>2. CASE p = "namei"
      <4>1. IpIn(pc[t], local[t]) = i /\ IpIn(p, l) = x /\ DpIn(p, l) = DpIn(pc[t], local[t])
        BY <3>2, <2>4, <2>10, <1>3
      <4> QED
        BY <4>1, <3>1, <2>2, <2>8
    <3>3. CASE p = "nameiparent"
      <4>1. DpIn(pc[t], local[t]) = i /\ DpIn(p, l) = x /\ IpIn(p, l) = IpIn(pc[t], local[t])
        BY <3>3, <2>4, <2>10, <1>3
      <4> QED
        BY <4>1, <3>1, <2>2, <2>8
    <3> QED
      BY <3>2, <3>3, <2>5
  <2>12. Continues(t, s, p, l)
    BY <2>2, <2>3, <2>9, <2>10, <2>11, <1>2, <1>3 DEF Continues
  <2> QED
    BY <2>6, <2>8, <2>10, <2>12, CallInv
<1> QED
  BY <1>1, <1>8, <1>9, <1>10 DEF Namex

(* A process enters a system call with a path.                             *)
LEMMA SysPathInv ==
    ASSUME IInv, NEW t \in Process, NEW c \in Call[t], SysPath(t, c)
    PROVE  IInv'
<1>1. TypeOK /\ Coherent /\ At(t) = "user" /\ cwd[t] # 0 /\ "user" \in Step
  BY DEF IInv, SysPath, Step
<1>2. /\ todo[t] = <<>> /\ local[t] \in Local
      /\ IpIn(pc[t], local[t]) = 0 /\ DpIn(pc[t], local[t]) = 0
  BY <1>1, Here DEF UsesIp, IpSteps, DpSteps
<1>3. c \in AllCalls /\ c.op \in PathOp /\ c.path \in Path
  BY FsAssumption DEF AllCalls
<1>4. PICK x, q, k, p : /\ x = Start(t, c.path) /\ q = Elements(c.path) /\ p = LookupOf(c.op)
                        /\ k = [local[t] EXCEPT !.call = c]
  OBVIOUS
<1>5. x \in Inum /\ x \in OptInum /\ x # 0 /\ q \in Seq(Entry)
  <2>1. PICK y : y \in Path /\ y = c.path
    BY <1>3
  <2>2. Start(t, y) \in Inum /\ Elements(y) \in Seq(Entry)
    BY <2>1, <1>1, PathFacts
  <2> QED
    BY <2>1, <2>2, <1>4 DEF OptInum, Inum
<1>6. k \in Local /\ k.call = c
  BY <1>2, <1>3, <1>4 DEF Local
<1>7. p \in {"namei", "nameiparent"}
  BY <1>4 DEF LookupOf
<1>8. PICK l : l = Walk(k, p, q, x)
  OBVIOUS
<1>9. /\ l \in Local /\ l.call = c /\ (p = "namei" => l.ip = x) /\ (p # "namei" => l.dp = x)
  BY <1>5, <1>6, <1>8, WalkFacts
<1>10. PICK s : s = <<>>
  OBVIOUS
<1>11. s \in Seq(Item) /\ \A j \in Inum : Cardinality(Pending(s, j)) = 0
  BY <1>5, <1>10, Lists
<1>12. cache' = Iget(cache, x) /\ local' = [local EXCEPT ![t] = l] /\ Goto(t, s, p)
       /\ UNCHANGED <<diskVars, lock, fileVars, cwd, panicked, ghosts>>
  BY <1>1, <1>4, <1>8, <1>10 DEF SysPath, TypeOK
<1>13. Move(t, s, p, l)
  BY <1>12 DEF Move, Goto, Do
<1>14. /\ cache' \in [Inum -> Inode] /\ Copies(cache', disk') /\ disk' = disk
       /\ \A j \in Inum : cache'[j].ref = cache[j].ref + One(x, j)
  <2>1. cache \in [Inum -> Inode] /\ Copies(cache, disk)
    BY <1>1 DEF TypeOK, Coherent, Copies
  <2>2. /\ Iget(cache, x) \in [Inum -> Inode] /\ Copies(Iget(cache, x), disk)
        /\ \A j \in Inum : Iget(cache, x)[j].ref = cache[j].ref + One(x, j)
    BY <2>1, <1>5, IgetFacts
  <2> QED
    BY <2>2, <1>12 DEF diskVars
<1>15. SharedOK'
  BY <1>1, <1>12, <1>14 DEF TypeOK, SharedOK, diskVars, ghosts
<1>16. /\ Shape(cwd[t], p, l) /\ p \in Step
       /\ p = "namei" => IpIn(p, l) = x /\ DpIn(p, l) = 0
       /\ p # "namei" => DpIn(p, l) = x /\ IpIn(p, l) = 0
  <2>1. CASE p = "namei"
    <3>1. UsesIp(p, l) /\ p \notin DpSteps /\ LookupOf(l.call.op) = "namei"
      BY <2>1, <1>4, <1>9 DEF UsesIp, IpSteps, DpSteps
    <3> QED
      BY <3>1, <2>1, <1>1, <1>3, <1>5, <1>9 DEF Shape, Step, IpIn, DpIn
  <2>2. CASE p = "nameiparent"
    <3>1. LookupOf(l.call.op) = "nameiparent" /\ l.call.op # "link"
      BY <2>2, <1>4, <1>9 DEF LookupOf, Creates
    <3>2. ~UsesIp(p, l) /\ p \in DpSteps
      BY <3>1, <2>2 DEF UsesIp, IpSteps, DpSteps
    <3> QED
      BY <3>1, <3>2, <2>2, <1>1, <1>3, <1>5, <1>9 DEF Shape, Step, IpIn, DpIn
  <2> QED
    BY <2>1, <2>2, <1>7
<1>17. ASSUME NEW j \in Inum
       PROVE  cache'[j].ref = cache[j].ref
                - (One(IpIn(pc[t], local[t]), j) + One(DpIn(pc[t], local[t]), j))
                + (One(IpIn(p, l), j) + One(DpIn(p, l), j) + Cardinality(Pending(s, j)))
  <2>1. cache[j].ref \in Nat /\ One(x, j) \in Nat /\ One(0, j) = 0
    BY <1>1 DEF TypeOK, Inode, One, Inum
  <2> QED
    BY <2>1, <1>2, <1>11, <1>14, <1>16
<1>18. Continues(t, s, p, l)
  BY <1>2, <1>12, <1>13, <1>14, <1>15, <1>16, <1>17 DEF Continues
<1> QED
  BY <1>9, <1>11, <1>16, <1>18, CallInv

-----------------------------------------------------------------------------
(* Open files                                                              *)

(* A step of t that changes the open files as well.                        *)
GoesWithFiles(t, s, p, l, w) ==
    /\ Move(t, s, p, l) /\ cwd' = [cwd EXCEPT ![t] = w] /\ Shape(w, p, l)
    /\ file' \in [File -> FileRec] /\ ofile' \in [Process -> Ofile] /\ FilesCounted'
    /\ SharedOK' /\ Copies(cache', disk')
    /\ \A i \in Inum : cache'[i].ref = (cache[i].ref - Cardinality(FileRefs(i)) + Cardinality(FileRefs(i)'))
                                       - Own(t, i) + OwnIn(w, p, l, s, i)

(* The invariant after such a step.                                        *)
LEMMA FilesInv ==
    ASSUME IInv, NEW t \in Process, NEW s \in Seq(Item), NEW p \in Step, NEW l \in Local,
           NEW w \in OptInum, GoesWithFiles(t, s, p, l, w)
    PROVE  IInv'
<1> USE DEF GoesWithFiles
<1>1. TypeOK /\ Counted /\ Shapes
  BY DEF IInv
<1>2. TypeOK'
  BY <1>1, MoveTypeOK
<1>3. Shapes'
  BY <1>1, MoveShapes
<1>4. Coherent'
  BY DEF Copies, Coherent
<1>5. Counted'
  <2> SUFFICES ASSUME NEW i \in Inum
               PROVE  IsFiniteSet(PutRefs(i)') /\ cache'[i].ref = Holders(i)'
    BY DEF Counted
  <2>1. /\ IsFiniteSet(PutRefs(i)') /\ Held(i) \in Nat
        /\ Held(i)' = Held(i) - Own(t, i) + OwnIn(w, p, l, s, i)
    <3>1. \A j \in Inum : /\ IsFiniteSet(PutRefs(j)') /\ Held(j) \in Nat
                          /\ Held(j)' = Held(j) - Own(t, j) + OwnIn(w, p, l, s, j)
      BY <1>1, MoveFacts, Zenon
    <3> QED
      BY <3>1, Zenon
  <2>2. Cardinality(FileRefs(i)) \in Nat
    BY FiniteRefs
  <2>3. Cardinality(FileRefs(i)') \in Nat
    <3>1. FileRefs(i)' \in SUBSET File /\ IsFiniteSet(File)
      BY FsAssumption, FS_Interval DEF FileRefs, File
    <3> QED
      BY <3>1, FS_Subset, FS_CardinalityType
  <2>4. cache[i].ref = Cardinality(FileRefs(i)) + Held(i)
    BY <1>1 DEF Counted, Holders
  <2>5. Holders(i)' = Cardinality(FileRefs(i)') + Held(i)'
    BY DEF Holders
  <2>6. cache'[i].ref = (cache[i].ref - Cardinality(FileRefs(i)) + Cardinality(FileRefs(i)'))
                        - Own(t, i) + OwnIn(w, p, l, s, i)
    OBVIOUS
  <2>7. Own(t, i) \in Int /\ OwnIn(w, p, l, s, i) \in Int
    <3>1. todo[t] \in Seq(Item)
      BY <1>1 DEF TypeOK, Todo, Item
    <3> QED
      BY <3>1, OwnType DEF Own
  <2>8. PICK a \in Nat, b \in Nat, h \in Nat, x \in Int, y \in Int :
            /\ a = Cardinality(FileRefs(i)) /\ b = Cardinality(FileRefs(i)') /\ h = Held(i)
            /\ x = Own(t, i) /\ y = OwnIn(w, p, l, s, i)
    BY <2>1, <2>2, <2>3, <2>7, Zenon
  <2>9. cache'[i].ref = (a + h - a + b) - x + y /\ Holders(i)' = b + (h - x + y)
    <3>1. cache[i].ref = a + h
      BY <2>4, <2>8, Zenon
    <3>2. cache'[i].ref = (cache[i].ref - a + b) - x + y
      BY <2>6, <2>8, Zenon
    <3>3. Held(i)' = h - x + y
      BY <2>1, <2>8, Zenon
    <3>4. cache'[i].ref = (a + h - a + b) - x + y
      BY <3>1, <3>2
    <3>5. Holders(i)' = b + Held(i)'
      BY <2>5, <2>8
    <3>6. Holders(i)' = b + (h - x + y)
      BY <3>3, <3>5
    <3> QED
      BY <3>4, <3>6
  <2>10. (a + h - a + b) - x + y = b + (h - x + y)
    OBVIOUS
  <2> QED
    BY <2>1, <2>9, <2>10, Zenon
<1> QED
  BY <1>2, <1>3, <1>4, <1>5 DEF IInv

(* The counts of the open files.                                           *)
LEMMA FileFacts ==
    ASSUME FilesCounted, NEW f \in File
    PROVE  file[f].ref = Cardinality(FdRefs(f)) /\ (file[f].ref = 0 <=> file[f].ip = 0)
<1>1. \A g \in File : file[g].ref = Cardinality(FdRefs(g)) /\ (file[g].ref = 0 <=> file[g].ip = 0)
  BY DEF FilesCounted
<1> QED
  BY <1>1, Zenon

(* Descriptor d of process t gets the file g.                              *)
NewFd(t, d, g) == ofile' = [ofile EXCEPT ![t][d] = g]

(* One descriptor changes.                                                 *)
LEMMA FdRecount ==
    ASSUME TypeOK, NEW t \in Process, NEW d \in Fd, NEW g \in OptFile, NewFd(t, d, g)
    PROVE  /\ ofile' \in [Process -> Ofile]
           /\ ofile'[t][d] = g /\ \A e \in Fd \ {d} : ofile'[t][e] = ofile[t][e]
           /\ \A u \in Process \ {t} : ofile'[u] = ofile[u]
           /\ \A f : /\ Cardinality(FdRefs(f)) \in Nat
                     /\ Cardinality(FdRefs(f)') = Cardinality(FdRefs(f)) - One(ofile[t][d], f) + One(g, f)
<1>1. ofile \in [Process -> [Fd -> OptFile]]
  BY DEF TypeOK, Ofile
<1>2. /\ ofile' \in [Process -> Ofile]
      /\ ofile'[t][d] = g /\ \A e \in Fd \ {d} : ofile'[t][e] = ofile[t][e]
      /\ \A u \in Process \ {t} : ofile'[u] = ofile[u]
  BY <1>1 DEF Ofile, NewFd
<1>3. IsFiniteSet(Process \X Fd)
  <2>1. IsFiniteSet(Process) /\ IsFiniteSet(Fd)
    BY FsAssumption, FS_Interval DEF Fd
  <2> QED
    BY <2>1, FS_Product
<1>4. ASSUME NEW f
      PROVE  /\ Cardinality(FdRefs(f)) \in Nat
             /\ Cardinality(FdRefs(f)') = Cardinality(FdRefs(f)) - One(ofile[t][d], f) + One(g, f)
  <2>1. FdRefs(f) \in SUBSET (Process \X Fd) /\ FdRefs(f)' \in SUBSET (Process \X Fd)
    BY DEF FdRefs
  <2>2. IsFiniteSet(FdRefs(f))
    BY <2>1, <1>3, FS_Subset
  <2>3. PICK x : x = <<t, d>>
    OBVIOUS
  <2>4. (x \in FdRefs(f) <=> ofile[t][d] = f) /\ (x \in FdRefs(f)' <=> g = f)
    BY <2>3, <1>2 DEF FdRefs
  <2>5. FdRefs(f) \ {x} = FdRefs(f)' \ {x}
    <3>1. ASSUME NEW e \in Process \X Fd, e # x PROVE ofile'[e[1]][e[2]] = ofile[e[1]][e[2]]
      <4>1. e[1] \in Process /\ e[2] \in Fd /\ (e[1] # t \/ e[2] # d)
        BY <3>1, <2>3
      <4> QED
        BY <4>1, <1>2
    <3> QED
      BY <3>1 DEF FdRefs
  <2> QED
    BY <2>2, <2>4, <2>5, CardChange DEF One
<1> QED
  BY <1>2, <1>4

(* open() has a locked inode, a free file and a free descriptor, or not.   *)
LEMMA OpenFdInv ==
    ASSUME IInv, NEW t \in Process, OpenFd(t)
    PROVE  IInv'
<1>1. PICK i, c : /\ i = local[t].ip
                  /\ c = IF lock[i] = t THEN cache ELSE [cache EXCEPT ![i] = Loaded(i)]
  OBVIOUS
<1>2. /\ Runs(t, "openfd") /\ cache' = c /\ UNCHANGED <<diskVars, cwd, panicked, ghosts>>
      /\ lock' = IF lock[i] = t THEN [lock EXCEPT ![i] = None] ELSE lock
  BY <1>1 DEF OpenFd
<1>3. TypeOK /\ Coherent /\ FilesCounted /\ At(t) = "openfd" /\ "openfd" \in Step
  BY <1>2 DEF IInv, Runs, Step
<1>4. /\ todo[t] = <<>> /\ i \in Inum /\ Shape(cwd[t], "openfd", local[t])
      /\ IpIn(pc[t], local[t]) = i /\ DpIn(pc[t], local[t]) = 0
  BY <1>1, <1>3, Here DEF UsesIp, IpSteps, DpSteps
<1>5. c \in [Inum -> Inode] /\ Copies(c, disk) /\ \A j \in Inum : c[j].ref = cache[j].ref
  <2>1. CASE lock[i] = t
    BY <2>1, <1>1, <1>3 DEF TypeOK, Coherent, Copies
  <2>2. CASE lock[i] # t
    <3>1. LockTarget(t) = i /\ i # 0
      BY <2>2, <1>1, <1>3, <1>4 DEF LockTarget, Inum
    <3>2. TypeOK /\ Coherent /\ i \in Inum /\ ~NoType(i) /\ InMemory(c, i)
      BY <3>1, <2>2, <1>1, <1>2, <1>3, <1>4 DEF Runs, InMemory
    <3> QED
      BY <3>2, LoadFacts, Zenon
  <2> QED
    BY <2>1, <2>2
<1>6. SharedOK' /\ disk' = disk
  <2>1. lock' \in [Inum -> OptHolder]
    BY <1>2, <1>3, <1>4 DEF TypeOK, OptHolder
  <2> QED
    BY <2>1, <1>2, <1>3, <1>5 DEF TypeOK, SharedOK, diskVars, ghosts
<1>7. CASE Finish(t, <<Put(i)>>) /\ UNCHANGED fileVars
  BY <1>2, <1>4, <1>5, <1>6, <1>7, EndInv
<1>8. ASSUME NEW f \in File, NEW d \in Fd, First(f, FreeFiles), First(d, FreeFds(t)),
             file' = [file EXCEPT ![f] = [ref |-> 1, ip |-> i]],
             ofile' = [ofile EXCEPT ![t][d] = f], Finish(t, <<>>)
      PROVE  IInv'
  <2>1. file[f].ref = 0 /\ file[f].ip = 0 /\ ofile[t][d] = 0 /\ cwd[t] # 0
    <3>1. f \in FreeFiles /\ d \in FreeFds(t)
      BY <1>8 DEF First
    <3>2. file[f].ref = 0 /\ ofile[t][d] = 0
      BY <3>1 DEF FreeFiles, FreeFds
    <3>3. file[f].ref = 0 <=> file[f].ip = 0
      BY <1>3, FileFacts
    <3> QED
      BY <3>2, <3>3, <1>4 DEF Shape
  <2>2. f \in OptFile /\ f # 0 /\ i # 0
    BY <1>4 DEF OptFile, File, Inum
  <2>3. /\ ofile' \in [Process -> Ofile] /\ \A u \in Process \ {t} : ofile'[u] = ofile[u]
        /\ \A g : /\ Cardinality(FdRefs(g)) \in Nat
                  /\ Cardinality(FdRefs(g)') = Cardinality(FdRefs(g)) - One(ofile[t][d], g) + One(f, g)
    <3>1. TypeOK /\ f \in OptFile /\ NewFd(t, d, f)
      BY <2>2, <1>3, <1>8 DEF NewFd
    <3> QED
      BY <3>1, FdRecount, Zenon
  <2>4. /\ file'[f].ref = 1 /\ file'[f].ip = i /\ \A g \in File \ {f} : file'[g] = file[g]
        /\ file' \in [File -> FileRec]
    <3>1. [ref |-> 1, ip |-> i] \in FileRec
      BY <1>4 DEF FileRec, OptInum
    <3> QED
      BY <3>1, <1>3, <1>8 DEF TypeOK
  <2>5. FilesCounted'
    <3>1. ASSUME NEW g \in File
          PROVE  file'[g].ref = Cardinality(FdRefs(g)') /\ (file'[g].ref = 0 <=> file'[g].ip = 0)
      <4>1. /\ file[g].ref = Cardinality(FdRefs(g)) /\ (file[g].ref = 0 <=> file[g].ip = 0)
            /\ Cardinality(FdRefs(g)) \in Nat
            /\ Cardinality(FdRefs(g)') = Cardinality(FdRefs(g)) - One(0, g) + One(f, g)
        <5>1. Cardinality(FdRefs(g)') = Cardinality(FdRefs(g)) - One(0, g) + One(f, g)
          BY <2>1, <2>3, Zenon
        <5> QED
          BY <5>1, <2>3, <1>3, FileFacts
      <4>2. One(0, g) = 0 /\ One(f, g) = IF f = g THEN 1 ELSE 0
        BY DEF One, File
      <4> QED
        BY <4>1, <4>2, <2>1, <2>2, <2>4
    <3>2. ASSUME NEW u \in Process, cwd'[u] = 0 PROVE OpenFds(u)' = {}
      <4>1. u # t /\ cwd[u] = 0
        BY <3>2, <2>1, <1>2
      <4>2. OpenFds(u) = {}
        BY <4>1, <1>3 DEF FilesCounted
      <4> QED
        BY <4>1, <4>2, <2>3 DEF OpenFds
    <3> QED
      BY <3>1, <3>2 DEF FilesCounted
  <2>6. PICK s, w : s = <<>> /\ w \in OptInum /\ w = cwd[t]
    BY <1>3 DEF TypeOK
  <2>7. s \in Seq(Item) /\ \A j \in Inum : Cardinality(Pending(s, j)) = 0
    BY <2>6, <1>4, Lists
  <2>8. /\ Move(t, s, "user", Idle) /\ Idle \in Local /\ "user" \in Step /\ cwd' = [cwd EXCEPT ![t] = w]
        /\ Shape(w, "user", Idle) /\ IpIn("user", Idle) = 0 /\ DpIn("user", Idle) = 0
    <3>1. <<>> \in Seq(Entry) /\ 0 \in OptInum
      BY DEF OptInum
    <3>2. Idle \in Local
      BY <3>1 DEF Idle, Local
    <3>3. Move(t, s, "user", Idle) /\ cwd' = [cwd EXCEPT ![t] = w]
      BY <2>6, <1>2, <1>3, <1>8 DEF Finish, Goto, Do, Move, TypeOK
    <3> QED
      BY <3>2, <3>3 DEF Shape, Step, IpIn, DpIn, UsesIp, IpSteps, DpSteps
  <2>9. ASSUME NEW j \in Inum
        PROVE  cache'[j].ref = (cache[j].ref - Cardinality(FileRefs(j)) + Cardinality(FileRefs(j)'))
                               - Own(t, j) + OwnIn(w, "user", Idle, s, j)
    <3>1. Cardinality(FileRefs(j)') = Cardinality(FileRefs(j)) - One(file[f].ip, j) + One(file'[f].ip, j)
      BY <2>4, FileRecount
    <3>2. Cardinality(FileRefs(j)) \in Nat
      BY FiniteRefs
    <3>3. One(0, j) = 0 /\ One(i, j) \in Nat /\ One(w, j) \in Nat /\ cache[j].ref \in Nat
      BY <1>3 DEF TypeOK, Inode, One, Inum
    <3>4. Cardinality(Pending(todo[t], j)) = 0
      <4>1. todo[t] \in Seq(Item)
        BY <1>3 DEF TypeOK, Todo, Item
      <4> QED
        BY <4>1, <1>4, PendingType
    <3>5. Own(t, j) = One(w, j) + One(i, j)
      BY <3>3, <3>4, <2>6, <1>4 DEF Own, OwnIn
    <3>6. OwnIn(w, "user", Idle, s, j) = One(w, j)
      BY <3>3, <2>7, <2>8 DEF OwnIn
    <3>7. Cardinality(FileRefs(j)') = Cardinality(FileRefs(j)) + One(i, j)
      BY <3>1, <3>2, <3>3, <2>1, <2>4
    <3> QED
      BY <3>2, <3>3, <3>5, <3>6, <3>7, <1>2, <1>5
  <2>10. GoesWithFiles(t, s, "user", Idle, w)
    BY <2>3, <2>4, <2>5, <2>8, <2>9, <1>2, <1>5, <1>6 DEF GoesWithFiles
  <2> QED
    BY <2>6, <2>7, <2>8, <2>10, FilesInv
<1> QED
  BY <1>1, <1>7, <1>8 DEF OpenFd

(* fileclose(): the last reference to the file puts its inode.             *)
LEMMA CloseFdInv ==
    ASSUME IInv, NEW t \in Process, At(t) \in {"user", "close"}, NEW d \in Fd, ofile[t][d] # 0,
           CloseFd(t, d), UNCHANGED <<diskVars, cache, lock, cwd, pc, local, panicked, ghosts>>
    PROVE  IInv'
<1>1. TypeOK /\ Coherent /\ FilesCounted
  BY DEF IInv
<1>2. PICK p : p \in Step /\ p \in {"user", "close"} /\ p = At(t)
  BY DEF Step
<1>3. /\ todo[t] = <<>> /\ pc[t] = p /\ Shape(cwd[t], p, local[t])
      /\ IpIn(pc[t], local[t]) = 0 /\ DpIn(pc[t], local[t]) = 0
  BY <1>2, Here DEF UsesIp, IpSteps, DpSteps
<1>4. PICK f : f \in File /\ f = ofile[t][d]
  BY <1>1 DEF TypeOK, Ofile, OptFile
<1>5. PICK x : x = file[f].ip
  OBVIOUS
<1>6. /\ ofile' = [ofile EXCEPT ![t][d] = 0]
      /\ file' = IF file[f].ref > 1 THEN [file EXCEPT ![f].ref = @ - 1]
                                    ELSE [file EXCEPT ![f] = [ref |-> 0, ip |-> 0]]
      /\ Do(t, IF file[f].ref > 1 THEN <<>> ELSE <<Put(x)>>)
  BY <1>4, <1>5 DEF CloseFd
<1>7. /\ ofile' \in [Process -> Ofile]
      /\ ofile'[t][d] = 0 /\ \A e \in Fd \ {d} : ofile'[t][e] = ofile[t][e]
      /\ \A u \in Process \ {t} : ofile'[u] = ofile[u]
      /\ \A g : /\ Cardinality(FdRefs(g)) \in Nat
                /\ Cardinality(FdRefs(g)') = Cardinality(FdRefs(g)) - One(ofile[t][d], g) + One(0, g)
  <2>1. TypeOK /\ 0 \in OptFile /\ NewFd(t, d, 0)
    BY <1>1, <1>6 DEF OptFile, NewFd
  <2> QED
    BY <2>1, FdRecount, ZenonT(60)
<1>8. file[f] \in FileRec /\ file[f].ref \in Nat /\ file[f].ref >= 1 /\ x \in Inum
  <2>1. file[f] \in FileRec /\ file[f].ref \in Nat /\ x \in OptInum
    BY <1>1, <1>4, <1>5 DEF TypeOK, FileRec
  <2>2. file[f].ref = Cardinality(FdRefs(f)) /\ (file[f].ref = 0 <=> x = 0)
    BY <1>1, <1>4, <1>5, FileFacts
  <2>3. <<t, d>> \in FdRefs(f)
    BY <1>4 DEF FdRefs
  <2>4. IsFiniteSet(FdRefs(f))
    <3>1. IsFiniteSet(Process) /\ IsFiniteSet(Fd)
      BY FsAssumption, FS_Interval DEF Fd
    <3>2. IsFiniteSet(Process \X Fd) /\ FdRefs(f) \in SUBSET (Process \X Fd)
      BY <3>1, FS_Product DEF FdRefs
    <3> QED
      BY <3>2, FS_Subset
  <2>5. Cardinality(FdRefs(f)) # 0
    BY <2>3, <2>4, FS_EmptySet
  <2> QED
    BY <2>1, <2>2, <2>5 DEF OptInum
<1>9. /\ file'[f] \in FileRec /\ file'[f].ref = file[f].ref - 1
      /\ file'[f].ip = IF file[f].ref > 1 THEN x ELSE 0
      /\ \A g \in File \ {f} : file'[g] = file[g]
      /\ file' \in [File -> FileRec]
  <2>0. file \in [File -> FileRec]
    BY <1>1 DEF TypeOK
  <2>1. CASE file[f].ref > 1
    <3>1. file'[f] = [file[f] EXCEPT !.ref = file[f].ref - 1] /\ \A g \in File \ {f} : file'[g] = file[g]
      BY <2>0, <2>1, <1>4, <1>6
    <3>2. file'[f] \in FileRec /\ file'[f].ref = file[f].ref - 1 /\ file'[f].ip = x
      BY <3>1, <2>1, <1>5, <1>8 DEF FileRec
    <3>3. \A g \in File : file'[g] \in FileRec
      BY <3>1, <3>2, <2>0
    <3>4. file' \in [File -> FileRec]
      BY <3>2, <3>3, <3>1, <2>0, <2>1, <1>6, <1>4
    <3> QED
      BY <3>1, <3>2, <3>4, <2>1
  <2>2. CASE ~(file[f].ref > 1)
    <3>1. file'[f] = [ref |-> 0, ip |-> 0] /\ \A g \in File \ {f} : file'[g] = file[g]
      BY <2>0, <2>2, <1>4, <1>6
    <3>2. file'[f] \in FileRec /\ file'[f].ref = 0 /\ file'[f].ip = 0
      BY <3>1 DEF FileRec, OptInum
    <3>3. \A g \in File : file'[g] \in FileRec
      BY <3>1, <3>2, <2>0
    <3>4. file' \in [File -> FileRec]
      BY <3>2, <3>3, <3>1, <2>0, <2>2, <1>6, <1>4
    <3> QED
      BY <3>1, <3>2, <3>4, <2>2, <1>8
  <2> QED
    BY <2>1, <2>2
<1>10. FilesCounted'
  <2>1. ASSUME NEW g \in File
        PROVE  file'[g].ref = Cardinality(FdRefs(g)') /\ (file'[g].ref = 0 <=> file'[g].ip = 0)
    <3>1. /\ file[g].ref = Cardinality(FdRefs(g)) /\ (file[g].ref = 0 <=> file[g].ip = 0)
          /\ Cardinality(FdRefs(g)) \in Nat
          /\ Cardinality(FdRefs(g)') = Cardinality(FdRefs(g)) - One(f, g) + One(0, g)
      <4>1. Cardinality(FdRefs(g)') = Cardinality(FdRefs(g)) - One(f, g) + One(0, g)
        BY <1>4, <1>7, Zenon
      <4> QED
        BY <4>1, <1>1, <1>7, FileFacts
    <3>2. One(0, g) = 0 /\ One(f, g) = IF f = g THEN 1 ELSE 0
      BY DEF One, File
    <3>3. CASE g = f
      BY <3>1, <3>2, <3>3, <1>8, <1>9 DEF Inum
    <3>4. CASE g # f
      BY <3>1, <3>2, <3>4, <1>9
    <3> QED
      BY <3>3, <3>4
  <2>2. ASSUME NEW u \in Process, cwd'[u] = 0 PROVE OpenFds(u)' = {}
    <3>1. cwd[u] = 0
      BY <2>2
    <3>2. OpenFds(u) = {}
      BY <3>1, <1>1 DEF FilesCounted
    <3> QED
      BY <3>2, <1>7 DEF OpenFds
  <2> QED
    BY <2>1, <2>2 DEF FilesCounted
<1>11. PICK s : s = IF file[f].ref > 1 THEN <<>> ELSE <<Put(x)>>
  OBVIOUS
<1>12. s \in Seq(Item) /\ \A j \in Inum : Cardinality(Pending(s, j)) = IF file[f].ref > 1 THEN 0 ELSE One(x, j)
  BY <1>8, <1>11, Lists
<1>13. PICK w, l : w \in OptInum /\ w = cwd[t] /\ l \in Local /\ l = local[t]
  BY <1>1 DEF TypeOK
<1>14. Move(t, s, p, l) /\ cwd' = [cwd EXCEPT ![t] = w] /\ Shape(w, p, l)
  BY <1>1, <1>3, <1>6, <1>11, <1>13 DEF Do, Move, TypeOK
<1>15. SharedOK' /\ Copies(cache', disk') /\ cache' = cache
  BY <1>1 DEF TypeOK, SharedOK, Coherent, Copies, diskVars, ghosts
<1>16. ASSUME NEW j \in Inum
       PROVE  cache'[j].ref = (cache[j].ref - Cardinality(FileRefs(j)) + Cardinality(FileRefs(j)'))
                              - Own(t, j) + OwnIn(w, p, l, s, j)
  <2>1. Cardinality(FileRefs(j)') = Cardinality(FileRefs(j)) - One(file[f].ip, j) + One(file'[f].ip, j)
    BY <1>4, <1>9, FileRecount
  <2>2. Cardinality(FileRefs(j)) \in Nat
    BY FiniteRefs
  <2>3. One(0, j) = 0 /\ One(x, j) \in Nat /\ One(w, j) \in Nat /\ cache[j].ref \in Nat
    BY <1>1 DEF TypeOK, Inode, One, Inum
  <2>4. Cardinality(Pending(todo[t], j)) = 0
    <3>1. todo[t] \in Seq(Item)
      BY <1>1 DEF TypeOK, Todo, Item
    <3> QED
      BY <3>1, <1>3, PendingType
  <2>5. Own(t, j) = One(w, j)
    BY <2>3, <2>4, <1>3, <1>13 DEF Own, OwnIn
  <2>6. OwnIn(w, p, l, s, j) = One(w, j) + Cardinality(Pending(s, j)) /\ Cardinality(Pending(s, j)) \in Nat
    <3>1. IpIn(p, l) = 0 /\ DpIn(p, l) = 0 /\ Cardinality(Pending(s, j)) \in Nat
      BY <1>3, <1>12, <1>13, PendingType
    <3> QED
      BY <3>1, <2>3 DEF OwnIn
  <2>7. Cardinality(FileRefs(j)') = Cardinality(FileRefs(j)) - Cardinality(Pending(s, j))
    BY <2>1, <2>2, <2>3, <1>5, <1>9, <1>12
  <2> QED
    BY <2>2, <2>3, <2>5, <2>6, <2>7, <1>15
<1>17. GoesWithFiles(t, s, p, l, w)
  BY <1>7, <1>9, <1>10, <1>14, <1>15, <1>16 DEF GoesWithFiles
<1> QED
  BY <1>2, <1>12, <1>13, <1>17, FilesInv

(* close() of an open descriptor.                                          *)
LEMMA SysCloseInv ==
    ASSUME IInv, NEW t \in Process, SysClose(t)
    PROVE  IInv'
<1>1. PICK d \in Fd : ofile[t][d] # 0 /\ CloseFd(t, d)
  BY DEF SysClose
<1>2. At(t) \in {"user", "close"} /\ UNCHANGED <<diskVars, cache, lock, cwd, pc, local, panicked, ghosts>>
  BY DEF SysClose
<1> QED
  BY <1>1, <1>2, CloseFdInv

(* exit() closes its first open descriptor.                                *)
LEMMA ExitCloseInv ==
    ASSUME IInv, NEW t \in Process, ExitClose(t)
    PROVE  IInv'
<1>1. PICK d \in Fd : First(d, OpenFds(t)) /\ CloseFd(t, d)
  BY DEF ExitClose
<1>2. ofile[t][d] # 0
  BY <1>1 DEF First, OpenFds
<1>3. At(t) \in {"user", "close"} /\ UNCHANGED <<diskVars, cache, lock, cwd, pc, local, panicked, ghosts>>
  BY DEF ExitClose, Runs
<1> QED
  BY <1>1, <1>2, <1>3, CloseFdInv

(* exit() starts to close.                                                 *)
LEMMA ExitInv ==
    ASSUME IInv, NEW t \in Process, Exit(t)
    PROVE  IInv'
<1>1. TypeOK /\ Coherent /\ At(t) = "user" /\ cwd[t] # 0 /\ "user" \in Step /\ "close" \in Step
  BY DEF IInv, Exit, Step
<1>2. /\ todo[t] = <<>> /\ IpIn(pc[t], local[t]) = 0 /\ DpIn(pc[t], local[t]) = 0
  BY <1>1, Here DEF UsesIp, IpSteps, DpSteps
<1>3. /\ Shape(cwd[t], "close", local[t]) /\ IpIn("close", local[t]) = 0 /\ DpIn("close", local[t]) = 0
  BY <1>1 DEF Shape, IpIn, DpIn, UsesIp, IpSteps, DpSteps
<1>4. PICK s : s = <<>>
  OBVIOUS
<1>5. s \in Seq(Item) /\ \A j \in Inum : Cardinality(Pending(s, j)) = 0
  <2>1. s \in Seq(Item)
    BY <1>4
  <2> QED
    BY <2>1, <1>4, PendingType
<1>6. Goto(t, s, "close") /\ UNCHANGED <<local, cwd, fileVars>>
  BY <1>4 DEF Exit
<1>7. SharedOK' /\ Copies(cache', disk') /\ cache' = cache
  BY <1>1 DEF TypeOK, SharedOK, Coherent, Copies, Exit, diskVars, ghosts
<1>8. ASSUME NEW j \in Inum
      PROVE  cache'[j].ref = cache[j].ref
               - (One(IpIn(pc[t], local[t]), j) + One(DpIn(pc[t], local[t]), j))
               + (One(IpIn("close", local[t]), j) + One(DpIn("close", local[t]), j) + Cardinality(Pending(s, j)))
  <2>1. cache[j].ref \in Nat /\ One(0, j) = 0
    BY <1>1 DEF TypeOK, Inode, One, Inum
  <2> QED
    BY <2>1, <1>2, <1>3, <1>5, <1>7
<1> QED
  BY <1>1, <1>2, <1>3, <1>5, <1>6, <1>7, <1>8, KeepInv

(* fork() copies the descriptors of t to u, which has none.                *)
LEMMA FdCopy ==
    ASSUME TypeOK, NEW t \in Process, NEW u \in Process, OpenFds(u) = {},
           ofile' = [ofile EXCEPT ![u] = ofile[t]], NEW f \in File
    PROVE  /\ Cardinality(FdRefs(f)) \in Nat /\ Cardinality({d \in Fd : ofile[t][d] = f}) \in Nat
           /\ Cardinality(FdRefs(f)') = Cardinality(FdRefs(f)) + Cardinality({d \in Fd : ofile[t][d] = f})
           /\ Cardinality(FdRefs(f)) = 0 => Cardinality({d \in Fd : ofile[t][d] = f}) = 0
<1>1. PICK D : D = {d \in Fd : ofile[t][d] = f}
  OBVIOUS
<1>2. IsFiniteSet(Process) /\ IsFiniteSet(Fd)
  <2>1. IsFiniteSet(Process) /\ 1 \in Int /\ NOFILE \in Int
    BY FsAssumption
  <2>2. IsFiniteSet(1 .. NOFILE)
    BY <2>1, FS_Interval
  <2> QED
    BY <2>1, <2>2 DEF Fd
<1>3. IsFiniteSet(D) /\ IsFiniteSet(FdRefs(f))
  <2>1. IsFiniteSet(Process \X Fd) /\ FdRefs(f) \in SUBSET (Process \X Fd) /\ D \in SUBSET Fd
    BY <1>1, <1>2, FS_Product DEF FdRefs
  <2> QED
    BY <2>1, <1>2, FS_Subset
<1>4. IsFiniteSet({u} \X D) /\ Cardinality({u} \X D) = Cardinality(D)
  BY <1>3, CardPairs
<1>5. FdRefs(f)' = FdRefs(f) \union ({u} \X D)
  <2>1. /\ ofile \in [Process -> [Fd -> OptFile]] /\ ofile'[u] = ofile[t]
        /\ \A v \in Process \ {u} : ofile'[v] = ofile[v]
    BY DEF TypeOK, Ofile
  <2>2. \A d \in Fd : ofile[u][d] # f
    BY DEF OpenFds, File
  <2>3. ASSUME NEW v \in Process, NEW d \in Fd
        PROVE  ofile'[v][d] = f <=> (ofile[v][d] = f \/ (v = u /\ d \in D))
    BY <2>1, <2>2, <1>1
  <2>4. D \in SUBSET Fd
    BY <1>1
  <2>5. FdRefs(f)' = {e \in Process \X Fd : ofile'[e[1]][e[2]] = f}
    BY DEF FdRefs
  <2>6. FdRefs(f) = {e \in Process \X Fd : ofile[e[1]][e[2]] = f}
    BY DEF FdRefs
  <2>7. \A e \in Process \X Fd : e[1] \in Process /\ e[2] \in Fd /\ e = <<e[1], e[2]>>
    OBVIOUS
  <2> QED
    BY <2>3, <2>4, <2>5, <2>6, <2>7
<1>6. FdRefs(f) \intersect ({u} \X D) = {}
  <2>1. \A d \in Fd : ofile[u][d] # f
    BY DEF OpenFds, File
  <2> QED
    BY <2>1, <1>1 DEF FdRefs
<1>7. Cardinality(FdRefs(f)') = Cardinality(FdRefs(f)) + Cardinality(D) /\ Cardinality(D) \in Nat
      /\ Cardinality(FdRefs(f)) \in Nat
  <2>1. PICK A, B : A = FdRefs(f) /\ B = {u} \X D
    OBVIOUS
  <2>2. /\ Cardinality(A) \in Nat /\ Cardinality(B) \in Nat
        /\ Cardinality(A \union B) = Cardinality(A) + Cardinality(B)
    BY <2>1, <1>3, <1>4, <1>6, CardUnion
  <2> QED
    BY <2>1, <2>2, <1>4, <1>5
<1>8. Cardinality(FdRefs(f)) = 0 => Cardinality(D) = 0
  <2>1. SUFFICES ASSUME Cardinality(FdRefs(f)) = 0 PROVE D = {}
    BY FS_EmptySet
  <2>2. FdRefs(f) = {}
    BY <2>1, <1>3, FS_EmptySet
  <2>3. \A d \in D : <<t, d>> \in FdRefs(f)
    BY <1>1 DEF FdRefs
  <2> QED
    BY <2>2, <2>3
<1> QED
  BY <1>1, <1>7, <1>8

(* fork(): u starts with the files and the directory of t.                 *)
LEMMA ForkInv ==
    ASSUME IInv, NEW t \in Process, NEW u \in Process, Fork(t, u)
    PROVE  IInv'
<1>1. TypeOK /\ Coherent /\ FilesCounted /\ At(u) = "user" /\ "user" \in Step
  BY DEF IInv, Fork, Step
<1>2. /\ todo[u] = <<>> /\ pc[u] = "user" /\ local[u] \in Local
      /\ IpIn(pc[u], local[u]) = 0 /\ DpIn(pc[u], local[u]) = 0
  BY <1>1, Here DEF UsesIp, IpSteps, DpSteps
<1>3. PICK w : w \in Inum /\ w = cwd[t]
  BY <1>1 DEF Fork, TypeOK, OptInum
<1>4. /\ file' = [f \in File |-> [file[f] EXCEPT !.ref = @ + Cardinality({d \in Fd : ofile[t][d] = f})]]
      /\ ofile' = [ofile EXCEPT ![u] = ofile[t]]
      /\ cache' = Iget(cache, w) /\ cwd' = [cwd EXCEPT ![u] = w] /\ cwd[u] = 0
      /\ UNCHANGED <<diskVars, lock, control, local, panicked, ghosts>>
  BY <1>3 DEF Fork
<1>5. OpenFds(u) = {}
  BY <1>1, <1>4 DEF FilesCounted
<1>6. ofile' \in [Process -> Ofile]
  BY <1>1, <1>4 DEF TypeOK
<1>7. ASSUME NEW f \in File
      PROVE  /\ file'[f] \in FileRec /\ file'[f].ip = file[f].ip
             /\ file'[f].ref = Cardinality(FdRefs(f)') /\ (file'[f].ref = 0 <=> file'[f].ip = 0)
  <2>1. PICK n : n = Cardinality({d \in Fd : ofile[t][d] = f})
    OBVIOUS
  <2>2. /\ Cardinality(FdRefs(f)) \in Nat /\ n \in Nat
        /\ Cardinality(FdRefs(f)') = Cardinality(FdRefs(f)) + n
        /\ Cardinality(FdRefs(f)) = 0 => n = 0
    BY <2>1, <1>1, <1>4, <1>5, FdCopy
  <2>3. file[f].ref = Cardinality(FdRefs(f)) /\ (file[f].ref = 0 <=> file[f].ip = 0)
    BY <1>1, FileFacts
  <2>4. file[f] \in FileRec
    BY <1>1 DEF TypeOK
  <2>5. file'[f] = [file[f] EXCEPT !.ref = file[f].ref + n]
    BY <2>1, <1>4
  <2>6. file'[f] \in FileRec /\ file'[f].ip = file[f].ip /\ file'[f].ref = file[f].ref + n
    BY <2>2, <2>4, <2>5 DEF FileRec
  <2> QED
    BY <2>2, <2>3, <2>6
<1>8. file' \in [File -> FileRec]
  <2>1. \A f \in File : [file[f] EXCEPT !.ref = @ + Cardinality({d \in Fd : ofile[t][d] = f})] \in FileRec
    BY <1>4, <1>7
  <2> QED
    BY <1>4, <2>1
<1>9. FilesCounted'
  <2>1. ASSUME NEW v \in Process, cwd'[v] = 0 PROVE OpenFds(v)' = {}
    <3>1. cwd \in [Process -> OptInum] /\ w # 0 /\ ofile \in [Process -> Ofile]
      BY <1>1, <1>3 DEF TypeOK, Inum
    <3>2. v # u /\ cwd[v] = 0 /\ ofile'[v] = ofile[v]
      BY <2>1, <3>1, <1>4
    <3>3. OpenFds(v) = {}
      BY <3>2, <1>1 DEF FilesCounted
    <3> QED
      BY <3>2, <3>3 DEF OpenFds
  <2> QED
    BY <2>1, <1>7 DEF FilesCounted
<1>10. /\ cache' \in [Inum -> Inode] /\ Copies(cache', disk') /\ disk' = disk
       /\ \A j \in Inum : cache'[j].ref = cache[j].ref + One(w, j)
  <2>1. cache \in [Inum -> Inode] /\ Copies(cache, disk)
    BY <1>1 DEF TypeOK, Coherent, Copies
  <2>2. /\ Iget(cache, w) \in [Inum -> Inode] /\ Copies(Iget(cache, w), disk)
        /\ \A j \in Inum : Iget(cache, w)[j].ref = cache[j].ref + One(w, j)
    BY <2>1, <1>3, IgetFacts
  <2> QED
    BY <2>2, <1>4 DEF diskVars
<1>11. SharedOK'
  BY <1>1, <1>4, <1>10 DEF TypeOK, SharedOK, diskVars, ghosts
<1>12. PICK s, l : s = todo[u] /\ l = local[u]
  OBVIOUS
<1>13. s \in Seq(Item) /\ l \in Local /\ Move(u, s, "user", l) /\ Shape(w, "user", l) /\ w \in OptInum
  <2>1. s \in Seq(Item)
    BY <1>1, <1>12 DEF TypeOK, Todo, Item
  <2>2. Move(u, s, "user", l)
    BY <1>1, <1>2, <1>4, <1>12 DEF Move, TypeOK, control
  <2>3. Shape(w, "user", l)
    BY DEF Shape, UsesIp, IpSteps, DpSteps
  <2> QED
    BY <2>1, <2>2, <2>3, <1>2, <1>3, <1>12 DEF OptInum
<1>14. ASSUME NEW j \in Inum
       PROVE  cache'[j].ref = (cache[j].ref - Cardinality(FileRefs(j)) + Cardinality(FileRefs(j)'))
                              - Own(u, j) + OwnIn(w, "user", l, s, j)
  <2>1. FileRefs(j)' = FileRefs(j)
    BY <1>7 DEF FileRefs
  <2>2. Cardinality(FileRefs(j)) \in Nat /\ Cardinality(FileRefs(j)') = Cardinality(FileRefs(j))
    BY <2>1, FiniteRefs
  <2>3. One(0, j) = 0 /\ One(w, j) \in Nat /\ cache[j].ref \in Nat
    BY <1>1 DEF TypeOK, Inode, One, Inum
  <2>4. Cardinality(Pending(s, j)) = 0
    BY <1>2, <1>12, <1>13, PendingType
  <2>5. Own(u, j) = 0 /\ OwnIn(w, "user", l, s, j) = One(w, j)
    BY <2>3, <2>4, <1>2, <1>4, <1>12 DEF Own, OwnIn
  <2> QED
    BY <2>2, <2>3, <2>5, <1>10
<1>15. GoesWithFiles(u, s, "user", l, w)
  BY <1>4, <1>6, <1>8, <1>9, <1>10, <1>11, <1>13, <1>14 DEF GoesWithFiles
<1> QED
  BY <1>1, <1>13, <1>15, FilesInv

-----------------------------------------------------------------------------
(* The start of the system, and the start after a crash                    *)

(* All but the disk of a system that has just started.                     *)
Booted ==
    /\ cache = [i \in Inum |-> IF i = ROOTINO THEN [NoEntry EXCEPT !.ref = 1] ELSE NoEntry]
    /\ lock = [i \in Inum |-> None]
    /\ file = [f \in File |-> [ref |-> 0, ip |-> 0]]
    /\ ofile = [t \in Process |-> [d \in Fd |-> 0]]
    /\ cwd = [t \in Process |-> IF t = InitProc THEN ROOTINO ELSE 0]
    /\ pc = [t \in Process |-> "user"]
    /\ todo = [t \in Process |-> <<>>]
    /\ local = [t \in Process |-> Idle]

(* The types of the rest.                                                  *)
RestOK ==
    /\ disk \in [Inum -> Dinode] /\ dir \in [Inum -> Contents] /\ panicked \in Message
    /\ lost \subseteq Inum /\ stranded \subseteq Inum /\ strayed \in BOOLEAN

(* The first process holds the root directory, and nobody holds more.      *)
LEMMA BootedInv == Booted /\ RestOK => IInv
<1> SUFFICES ASSUME Booted, RestOK PROVE IInv
  OBVIOUS
<1> USE DEF Booted, RestOK
<1>1. ROOTINO \in Inum /\ 0 \notin Inum /\ 0 \notin File /\ InitProc \in Process
  BY FsAssumption DEF ROOTINO, Inum, File
<1>2. TypeOK
  <2>1. cache \in [Inum -> Inode]
    <3>1. "free" \in Type /\ 0 \in Nat /\ 1 \in Nat /\ 0 \in Int /\ FALSE \in BOOLEAN
      BY DEF Type
    <3>2. NoEntry \in Inode
      BY <3>1 DEF NoEntry, Inode
    <3>3. [NoEntry EXCEPT !.ref = 1] \in Inode
      BY <3>1, <3>2 DEF Inode
    <3> QED
      BY <3>2, <3>3
  <2>2. lock \in [Inum -> OptHolder]
    BY DEF OptHolder
  <2>3. file \in [File -> FileRec] /\ ofile \in [Process -> Ofile] /\ cwd \in [Process -> OptInum]
    BY <1>1 DEF FileRec, Ofile, OptInum, OptFile
  <2>4. pc \in [Process -> Step]
    BY DEF Step
  <2>5. todo \in [Process -> Todo]
    <3>1. <<>> \in Todo
      BY DEF Todo
    <3> QED
      BY <3>1
  <2>6. local \in [Process -> Local]
    <3>1. <<>> \in Seq(Entry)
      OBVIOUS
    <3>2. Idle \in Local
      BY <3>1 DEF Idle, Local, OptInum
    <3> QED
      BY <3>2
  <2> QED
    BY <2>1, <2>2, <2>3, <2>4, <2>5, <2>6 DEF TypeOK
<1>3. ASSUME NEW i \in Inum PROVE IsFiniteSet(PutRefs(i)) /\ cache[i].ref = Holders(i)
  <2>1. FileRefs(i) = {}
    BY <1>1 DEF FileRefs
  <2>2. IpRefs(i) = {} /\ DpRefs(i) = {}
    BY <1>1 DEF IpRefs, DpRefs, IpIn, DpIn, UsesIp, IpSteps, DpSteps
  <2>3. PutRefs(i) = {}
    <3>1. Pending(<<>>, i) = {}
      BY DEF Pending
    <3>2. \A t \in Process : todo[t] = <<>>
      OBVIOUS
    <3>3. \A t \in Process : {t} \X Pending(todo[t], i) = {}
      BY <3>1, <3>2
    <3> QED
      BY <3>3 DEF PutRefs
  <2>4. CwdRefs(i) = IF i = ROOTINO THEN {InitProc} ELSE {}
    BY <1>1 DEF CwdRefs
  <2>5. IsFiniteSet({}) /\ Cardinality({}) = 0 /\ Cardinality({InitProc}) = 1
    BY FS_EmptySet, FS_Singleton
  <2>6. cache[i].ref = IF i = ROOTINO THEN 1 ELSE 0
    BY DEF NoEntry
  <2> QED
    BY <2>1, <2>2, <2>3, <2>4, <2>5, <2>6 DEF Holders, Held
<1>4. FilesCounted
  <2>1. ASSUME NEW f \in File
        PROVE  file[f].ref = Cardinality(FdRefs(f)) /\ (file[f].ref = 0 <=> file[f].ip = 0)
    <3>1. FdRefs(f) = {}
      BY <1>1 DEF FdRefs
    <3> QED
      BY <3>1, FS_EmptySet
  <2>2. \A t \in Process : OpenFds(t) = {}
    BY DEF OpenFds
  <2> QED
    BY <2>1, <2>2 DEF FilesCounted
<1>5. Shapes
  BY DEF Shapes, Shape, UsesIp, IpSteps, DpSteps
<1>6. Coherent
  BY DEF Coherent, NoEntry
<1> QED
  BY <1>2, <1>3, <1>4, <1>5, <1>6 DEF IInv, Counted

(* The disk of mkfs.                                                       *)
LEMMA InitInv == Init => IInv
<1> SUFFICES ASSUME Init PROVE IInv
  OBVIOUS
<1>1. Booted
  BY DEF Init, Booted
<1>2. disk \in [Inum -> Dinode] /\ dir \in [Inum -> Contents]
  <2>1. ROOTINO \in Inum
    BY FsAssumption DEF ROOTINO, Inum
  <2>2. disk \in [Inum -> Dinode]
    BY DEF Init, Dinode, Type
  <2>3. NoDir \in Contents /\ [n \in Entry |-> IF n \in Dots THEN ROOTINO ELSE 0] \in Contents
    BY <2>1 DEF NoDir, Contents, OptInum
  <2>4. dir \in [Inum -> Contents]
    BY <2>3 DEF Init
  <2> QED
    BY <2>2, <2>4
<1>3. RestOK
  BY <1>2 DEF Init, RestOK, Message
<1> QED
  BY <1>1, <1>3, BootedInv

(* A crash leaves the disk.                                                *)
LEMMA CrashInv == IInv /\ Crash => IInv'
<1>1. IInv /\ Crash => Booted' /\ RestOK'
  <2> SUFFICES ASSUME IInv, Crash PROVE Booted' /\ RestOK'
    OBVIOUS
  <2>1. Booted'
    BY DEF Crash, Booted
  <2>2. RestOK'
    <3>1. TypeOK
      BY DEF IInv
    <3> QED
      BY <3>1 DEF TypeOK, Crash, RestOK, diskVars
  <2> QED
    BY <2>1, <2>2
<1> QED
  BY <1>1, BootedInv, PTL

-----------------------------------------------------------------------------
(* The theorems                                                            *)

(* IInv is inductive: it holds at first and every step keeps it.           *)
LEMMA NextInv == IInv /\ [Next]_vars => IInv'
<1> SUFFICES ASSUME IInv, [Next]_vars PROVE IInv'
  OBVIOUS
<1>1. CASE UNCHANGED vars
  <2>1. /\ UNCHANGED <<diskVars, cache, lock, fileVars, cwd, control, local, ghosts>>
        /\ panicked' = panicked
    BY <1>1 DEF vars
  <2>2. panicked' \in Message
    BY <2>1 DEF IInv, TypeOK
  <2> QED
    BY <2>1, <2>2, PanicInv
<1>2. CASE Crash
  BY <1>2, CrashInv
<1>3. ASSUME NEW t \in Process, ProcessStep(t) PROVE IInv'
  <2>1. CASE \E c \in Call[t] : SysPath(t, c)
    BY <2>1, SysPathInv
  <2>2. CASE SysClose(t) \/ Exit(t) \/ ExitClose(t) \/ ExitCwd(t) \/ \E u \in Process : Fork(t, u)
    BY <2>2, SysCloseInv, ExitInv, ExitCloseInv, ExitCwdInv, ForkInv
  <2>3. CASE Iput(t) \/ Unlock(t) \/ IlockPanic(t) \/ Lookup(t)
    BY <2>3, PutLastInv, PutFreeInv, PutKeepInv, PutDropInv, UnlockInv, IlockPanicInv,
       NamexEndInv, NamexInv DEF Iput, Lookup
  <2>4. CASE SysLink(t) \/ SysUnlink(t) \/ Create(t)
    BY <2>4, Link1Inv, Link2Inv, LinkBadInv, Unlink1Inv, Unlink2Inv, Unlink3Inv,
       Create1Inv, Create2Inv, ExistsInv DEF SysLink, SysUnlink, Create
  <2>5. CASE OpenFd(t) \/ Chdir(t) \/ Exec(t)
    BY <2>5, OpenFdInv, ChdirInv, ExecInv
  <2> QED
    BY <1>3, <2>1, <2>2, <2>3, <2>4, <2>5 DEF ProcessStep
<1> QED
  BY <1>1, <1>2, <1>3 DEF Next

(* Every reachable state satisfies the inductive invariant: the reference  *)
(* count of every inode is the number of its holders, also in the middle   *)
(* of the calls (fs.c:123-125, "the number of in-memory pointers").        *)
THEOREM FsInductive == Spec => []IInv
BY InitInv, NextInv, PTL DEF Spec

(* The variables keep their types; the counts of references and of open    *)
(* files never become negative.                                            *)
THEOREM FsTypeOK == Spec => []TypeOK
<1>1. IInv => TypeOK
  BY DEF IInv
<1> QED
  BY <1>1, FsInductive, PTL

(* With no call under way the reference count of an inode is the number of *)
(* open files and current directories that hold it: no return path of      *)
(* namex() or of a system call forgets an iput() or does one too many.     *)
THEOREM FsRefsMatchHolders == Spec => []RefsMatchHolders
<1>1. IInv => RefsMatchHolders
  <2> SUFFICES ASSUME IInv, Quiescent, NEW i \in Inum
               PROVE  cache[i].ref = Cardinality({f \in File : file[f].ip = i})
                                     + Cardinality({t \in Process : cwd[t] = i})
    BY DEF RefsMatchHolders
  <2>1. ASSUME NEW t \in Process
        PROVE  todo[t] = <<>> /\ IpIn(pc[t], local[t]) = 0 /\ DpIn(pc[t], local[t]) = 0
    <3>1. At(t) = "user" /\ "user" \in Step
      BY DEF Quiescent, Step
    <3> QED
      BY <3>1, Here DEF UsesIp, IpSteps, DpSteps
  <2>2. IpRefs(i) = {} /\ DpRefs(i) = {}
    BY <2>1 DEF IpRefs, DpRefs, Inum
  <2>3. PutRefs(i) = {}
    <3>1. Pending(<<>>, i) = {}
      BY DEF Pending
    <3>2. \A t \in Process : {t} \X Pending(todo[t], i) = {}
      BY <2>1, <3>1
    <3> QED
      BY <3>2 DEF PutRefs
  <2>4. cache[i].ref = Holders(i)
    BY DEF IInv, Counted
  <2>5. Cardinality(FileRefs(i)) \in Nat /\ Cardinality(CwdRefs(i)) \in Nat /\ Cardinality({}) = 0
    BY FiniteRefs, FS_EmptySet
  <2>6. cache[i].ref = Cardinality(FileRefs(i)) + Cardinality(CwdRefs(i))
    BY <2>2, <2>3, <2>4, <2>5 DEF Holders, Held
  <2> QED
    BY <2>6 DEF FileRefs, CwdRefs
<1> QED
  BY <1>1, FsInductive, PTL

(* The cached copy of an inode nobody has locked is the dinode on the      *)
(* disk, although ialloc() writes the dinode without the inode's lock: a   *)
(* free dinode has no valid copy.                                          *)
THEOREM FsCacheCoherent == Spec => []CacheCoherent
<1>1. IInv => CacheCoherent
  BY DEF IInv, Coherent, CacheCoherent
<1> QED
  BY <1>1, FsInductive, PTL
=============================================================================
