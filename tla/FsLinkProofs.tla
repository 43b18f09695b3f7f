----------------------------- MODULE FsLinkProofs -----------------------------
(***************************************************************************)
(* Theorems about module Fs that need to know who holds which inode lock:  *)
(* circular waits, orphans, and the link counts.  They build on the        *)
(* references of module FsProofs.                                          *)
(***************************************************************************)
EXTENDS FsProofs

-----------------------------------------------------------------------------
(* Locks                                                                   *)

(* The inode that a call at step p with the variables l has locked, 0 for  *)
(* none.                                                                   *)
CallLock(p, l) ==
    IF p \in {"unlink2", "create2"} THEN l.dp
    ELSE IF p = "unlink3" \/ (p = "openfd" /\ l.call.op = "create") THEN l.ip ELSE 0

(* The inode that the list s is going to unlock, and the one it is freeing *)
(* under its lock.                                                         *)
Unlocks(s) == IF Len(s) = 3 THEN s[2][2]
              ELSE IF Len(s) = 2 /\ s[1][1] = "unlock" THEN s[1][2] ELSE 0
Frees(s)   == IF s # <<>> /\ s[1][1] = "free" THEN s[1][2] ELSE 0

(* The lists that occur: at most one unlock; only the first iput() is under *)
(* way.                                                                    *)
ListOK(s) ==
    /\ Len(s) <= 3
    /\ Len(s) = 3 => s[1][1] \in PutStep /\ s[2][1] = "unlock" /\ s[3][1] = "put"
    /\ Len(s) = 2 => s[2][1] = "put"
    /\ Len(s) = 1 => s[1][1] \in PutStep

LocksIn(p, l, s) == {CallLock(p, l), Unlocks(s), Frees(s)} \ {0}
Apart(p, l, s) ==
    /\ CallLock(p, l) # 0 => CallLock(p, l) \notin {Unlocks(s), Frees(s)}
    /\ Unlocks(s) # 0 => Unlocks(s) # Frees(s)
    /\ p \in {"unlink2", "create2"} => s = <<>>

(* Every lock has its owner, whose next steps release it.                  *)
Locked == \A t \in Process :
    /\ ListOK(todo[t]) /\ Apart(pc[t], local[t], todo[t])
    /\ \A i \in Inum : lock[i] = t <=> i \in LocksIn(pc[t], local[t], todo[t])

(* What a call found out about its inodes still is so.                     *)
Freeing(i) == \E t \in Process : Frees(todo[t]) = i
Linking(p, l) == p \in {"link2", "linkbad"} \/ (p = "nameiparent" /\ l.call.op = "link")
CheckedAt(p, l, s) ==
    /\ p \in DpSteps \ {"nameiparent"} => disk[l.dp].type = "dir" /\ ~Freeing(l.dp)
    /\ Linking(p, l) => disk[l.ip].type \notin {"free", "dir"} /\ ~Freeing(l.ip)
    /\ CallLock(p, l) # 0 => cache[CallLock(p, l)].valid
    /\ Frees(s) # 0 => cache[Frees(s)].valid /\ disk[Frees(s)].nlink = 0
    /\ p = "unlink2" => l.path[1] \in Name /\ dir[l.dp][l.path[1]] = l.ip
    /\ p = "create2" => dir[l.dp][l.path[1]] = 0
Checked == \A t \in Process : CheckedAt(pc[t], local[t], todo[t])

(* The inodes named in a directory, or about to be: no circle of them.     *)
Edge(d, i) ==
    \/ \E n \in Name : dir[d][n] = i
    \/ \E t \in Process : /\ pc[t] \in {"unlink2", "create2"}
                          /\ local[t].dp = d /\ local[t].ip = i
Tree ==
    /\ \A i \in Inum : disk[i].type # "dir" => \A n \in Name : dir[i][n] = 0
    /\ \A S \in SUBSET Inum : S # {} => \E d \in S : \A i \in S : ~Edge(d, i)

(* An inode without links is kept by somebody who has yet to check it.     *)
Drops(i) == {t \in Process : todo[t] # <<>> /\ todo[t][1] = <<"drop", i>>}
KeptAt(i) ==
    disk[i].type # "free" /\ disk[i].nlink = 0 /\ i \notin lost =>
        /\ cache[i].ref > Cardinality(Drops(i))
        /\ cache[i].valid \/ \E t \in Process : pc[t] = "create2" /\ local[t].ip = i
Kept == \A i \in Inum : KeptAt(i)

LInv == Locked /\ Checked /\ Tree /\ Kept

-----------------------------------------------------------------------------
(* Links                                                                   *)

(* The links counted in nlink for which there is no name yet, or no more.  *)
Owes(p, l, i) == (Linking(p, l) \/ p = "unlink3") /\ l.ip = i
Owed(i) == {t \in Process : Owes(pc[t], local[t], i)}
Links(i) == (IF i = ROOTINO THEN 1 ELSE 0) + Cardinality(Names(i)) + Cardinality(Subdirs(i))
            + Cardinality(Owed(i))
LinkedAt(i) ==
    disk[i].type # "free" => IF i \in stranded THEN disk[i].nlink > Links(i)
                                               ELSE disk[i].nlink = Links(i)

(* What has a name is not free; nobody else uses an inode that is free, or *)
(* is being freed, or is being set up.                                     *)
Reachable ==
    /\ disk[ROOTINO].type # "free"
    /\ \A i \in stranded : disk[i].type # "free"
    /\ \A d \in Inum, n \in Name : dir[d][n] # 0 => disk[dir[d][n]].type # "free"
UsedAt(i) ==
    /\ disk[i].type = "free" => cache[i].ref = Cardinality(Drops(i))
    /\ \A t \in Process : Frees(todo[t]) = i => cache[i].ref = 1
    /\ \A t \in Process : pc[t] = "create2" /\ local[t].ip = i =>
         /\ cache[i].ref = Cardinality(Drops(i)) + 1
         /\ disk[i].nlink = 0 /\ disk[i].type = TypeOf(local[t].call.op)
         /\ local[t].path[1] \in Name
    /\ disk[i].type = "dir" => \/ dir[i]["."] = i /\ dir[i][".."] # 0
                               \/ \E t \in Process : pc[t] = "create2" /\ local[t].ip = i

AInv == ~strayed => Reachable /\ \A i \in Inum : LinkedAt(i) /\ UsedAt(i)

-----------------------------------------------------------------------------
(* Lower bounds of the reference count                                     *)

(* The processes that are working on an iput() of i.                       *)
Heads(i) == {t \in Process : todo[t] # <<>> /\ todo[t][1] \in PutStep \X {i}}

(* A set with a member, and one with two, has as many elements.            *)
LEMMA CardOne ==
    ASSUME NEW A, IsFiniteSet(A), NEW x \in A
    PROVE  Cardinality(A) \in Nat /\ Cardinality(A) >= 1
<1>1. Cardinality(A) \in Nat /\ Cardinality(A) # 0
  BY FS_EmptySet, FS_CardinalityType
<1> QED
  BY <1>1

(* The two members.                                                        *)
LEMMA CardTwo ==
    ASSUME NEW A, IsFiniteSet(A), NEW x \in A, NEW y \in A, x # y
    PROVE  Cardinality(A) >= 2
<1>1. IsFiniteSet(A \ {x}) /\ Cardinality(A \ {x}) = Cardinality(A) - 1 /\ Cardinality(A) \in Nat
  BY FS_RemoveElement, FS_CardinalityType
<1>2. y \in A \ {x}
  OBVIOUS
<1>3. Cardinality(A \ {x}) >= 1
  BY <1>1, <1>2, CardOne
<1> QED
  BY <1>1, <1>3

(* Who is about to drop a reference is working on the iput().              *)
LEMMA DropsFacts ==
    ASSUME NEW i
    PROVE  /\ IsFiniteSet(Heads(i)) /\ Cardinality(Heads(i)) \in Nat
           /\ IsFiniteSet(Drops(i)) /\ Cardinality(Drops(i)) \in Nat
           /\ Cardinality(Drops(i)) <= Cardinality(Heads(i))
           /\ \A t \in Heads(i) \ Drops(i) : Cardinality(Drops(i)) + 1 <= Cardinality(Heads(i))
<1>1. IsFiniteSet(Process) /\ Heads(i) \in SUBSET Process /\ Drops(i) \in SUBSET Heads(i)
  <2>1. <<"drop", i>> \in PutStep \X {i}
    BY DEF PutStep
  <2>2. Drops(i) \in SUBSET Heads(i)
    BY <2>1 DEF Heads, Drops
  <2> QED
    BY <2>2, FsAssumption DEF Heads
<1>2. IsFiniteSet(Heads(i))
  BY <1>1, FS_Subset
<1>3. /\ IsFiniteSet(Drops(i)) /\ Cardinality(Drops(i)) <= Cardinality(Heads(i))
      /\ Cardinality(Heads(i)) = Cardinality(Drops(i)) => Heads(i) = Drops(i)
  BY <1>1, <1>2, FS_Subset
<1>4. Cardinality(Heads(i)) \in Nat /\ Cardinality(Drops(i)) \in Nat
  BY <1>2, <1>3, FS_CardinalityType
<1>5. ASSUME NEW t \in Heads(i) \ Drops(i) PROVE Cardinality(Drops(i)) + 1 <= Cardinality(Heads(i))
  <2>1. Cardinality(Heads(i)) # Cardinality(Drops(i))
    BY <1>3, <1>5
  <2> QED
    BY <2>1, <1>3, <1>4
<1> QED
  BY <1>2, <1>3, <1>4, <1>5

(* Every holder counts.                                                    *)
LEMMA HoldersBound ==
    ASSUME IInv, NEW i \in Inum
    PROVE  /\ cache[i].ref \in Nat
           /\ cache[i].ref >= Cardinality(FileRefs(i)) + Cardinality(CwdRefs(i)) + Cardinality(IpRefs(i))
                              + Cardinality(DpRefs(i)) + Cardinality(Heads(i))
<1>1. todo \in [Process -> Seq(Item)] /\ cache[i].ref \in Nat
  BY DEF IInv, TypeOK, Todo, Item, Inode
<1>2. IsFiniteSet(PutRefs(i)) /\ cache[i].ref = Holders(i)
  BY DEF IInv, Counted
<1>3. Cardinality(Heads(i)) <= Cardinality(PutRefs(i)) /\ Cardinality(PutRefs(i)) \in Nat
  <2>1. PICK f : f = [t \in Heads(i) |-> <<t, Len(todo[t]) - 1>>]
    OBVIOUS
  <2>2. ASSUME NEW t \in Heads(i) PROVE f[t] \in PutRefs(i)
    <3>1. PICK s : s \in Seq(Item) /\ s = todo[t] /\ t \in Process /\ s # <<>> /\ s[1] \in PutStep \X {i}
      BY <1>1 DEF Heads
    <3>2. Len(s) \in Nat /\ Len(s) # 0 /\ Len(s) - (Len(s) - 1) = 1 /\ Len(s) - 1 \in 0 .. Len(s) - 1
      BY <3>1
    <3>3. Len(s) - 1 \in Pending(s, i)
      BY <3>1, <3>2 DEF Pending
    <3> QED
      BY <3>1, <3>3, <2>1 DEF PutRefs
  <2>3. f \in Injection(Heads(i), PutRefs(i))
    <3>1. f \in [Heads(i) -> PutRefs(i)]
      BY <2>1, <2>2
    <3>2. \A t, u \in Heads(i) : f[t] = f[u] => t = u
      BY <2>1
    <3> QED
      BY <3>1, <3>2 DEF Injection, IsInjective
  <2> QED
    BY <2>3, <1>2, FS_Injection, FS_CardinalityType
<1>4. /\ Cardinality(FileRefs(i)) \in Nat /\ Cardinality(CwdRefs(i)) \in Nat
      /\ Cardinality(IpRefs(i)) \in Nat /\ Cardinality(DpRefs(i)) \in Nat /\ Cardinality(Heads(i)) \in Nat
  BY FiniteRefs, DropsFacts
<1>5. cache[i].ref = Cardinality(FileRefs(i)) + (Cardinality(CwdRefs(i)) + Cardinality(IpRefs(i))
                     + Cardinality(DpRefs(i)) + Cardinality(PutRefs(i)))
  BY <1>2 DEF Holders, Held
<1> QED
  BY <1>1, <1>3, <1>4, <1>5

(* An inode that a process has as its directory or will use.               *)
HasInode(t, i) == cwd[t] = i \/ IpIn(pc[t], local[t]) = i \/ DpIn(pc[t], local[t]) = i

(* A holder who is not about to drop keeps the count above the drops.      *)
LEMMA HeldMore ==
    ASSUME IInv, NEW i \in Inum, NEW t \in Process, HasInode(t, i)
    PROVE  /\ cache[i].ref >= Cardinality(Heads(i)) + 1 /\ Cardinality(Heads(i)) \in Nat
           /\ cache[i].ref > Cardinality(Drops(i)) /\ cache[i].ref \in Nat
<1>1. t \in CwdRefs(i) \/ t \in IpRefs(i) \/ t \in DpRefs(i)
  BY DEF HasInode, CwdRefs, IpRefs, DpRefs
<1>2. Cardinality(CwdRefs(i)) >= 1 \/ Cardinality(IpRefs(i)) >= 1 \/ Cardinality(DpRefs(i)) >= 1
  BY <1>1, FiniteRefs, CardOne
<1>3. /\ Cardinality(FileRefs(i)) \in Nat /\ Cardinality(CwdRefs(i)) \in Nat
      /\ Cardinality(IpRefs(i)) \in Nat /\ Cardinality(DpRefs(i)) \in Nat /\ Cardinality(Heads(i)) \in Nat
      /\ Cardinality(Drops(i)) \in Nat /\ Cardinality(Drops(i)) <= Cardinality(Heads(i))
  BY FiniteRefs, DropsFacts
<1>4. /\ cache[i].ref \in Nat
      /\ cache[i].ref >= Cardinality(FileRefs(i)) + Cardinality(CwdRefs(i)) + Cardinality(IpRefs(i))
                         + Cardinality(DpRefs(i)) + Cardinality(Heads(i))
  BY HoldersBound
<1> QED
  BY <1>2, <1>3, <1>4

(* So does a process whose iput() has not got to its end.                  *)
LEMMA HeadMore ==
    ASSUME IInv, NEW i \in Inum, NEW t \in Heads(i)
    PROVE  /\ cache[i].ref \in Nat /\ cache[i].ref >= 1
           /\ t \notin Drops(i) => cache[i].ref > Cardinality(Drops(i))
           /\ \A u \in Process : HasInode(u, i) => cache[i].ref >= 2
<1>1. /\ Cardinality(FileRefs(i)) \in Nat /\ Cardinality(CwdRefs(i)) \in Nat
      /\ Cardinality(IpRefs(i)) \in Nat /\ Cardinality(DpRefs(i)) \in Nat
      /\ IsFiniteSet(Heads(i)) /\ Cardinality(Heads(i)) \in Nat
      /\ Cardinality(Drops(i)) \in Nat
      /\ t \notin Drops(i) => Cardinality(Drops(i)) + 1 <= Cardinality(Heads(i))
  BY FiniteRefs, DropsFacts
<1>2. Cardinality(Heads(i)) >= 1
  BY <1>1, CardOne
<1>3. /\ cache[i].ref \in Nat
      /\ cache[i].ref >= Cardinality(FileRefs(i)) + Cardinality(CwdRefs(i)) + Cardinality(IpRefs(i))
                         + Cardinality(DpRefs(i)) + Cardinality(Heads(i))
  BY HoldersBound
<1>4. ASSUME NEW u \in Process, HasInode(u, i) PROVE cache[i].ref >= 2
  <2>1. cache[i].ref >= Cardinality(Heads(i)) + 1
    BY <1>4, HeldMore
  <2> QED
    BY <2>1, <1>1, <1>2, <1>3
<1> QED
  BY <1>1, <1>2, <1>3, <1>4

-----------------------------------------------------------------------------
(* What a step of one process leaves alone                                 *)

(* The inode that a process has locked and will use.                       *)
Owns(t, i) == i # 0 /\ (CallLock(pc[t], local[t]) = i \/ Frees(todo[t]) = i)

(* It has the lock and holds a reference.                                  *)
LEMMA OwnsFacts ==
    ASSUME IInv, Locked, NEW t \in Process, NEW i, Owns(t, i)
    PROVE  /\ i \in Inum /\ lock[i] = t /\ (HasInode(t, i) \/ t \in Heads(i) \ Drops(i))
           /\ cache[i].ref \in Nat /\ cache[i].ref >= 1
<1>1. TypeOK /\ Shapes /\ pc[t] \in Step /\ local[t] \in Local /\ todo[t] \in Seq(Item)
  BY DEF IInv, TypeOK, Todo, Item
<1>2. CASE CallLock(pc[t], local[t]) = i
  <2>1. IpIn(pc[t], local[t]) = i \/ DpIn(pc[t], local[t]) = i
    BY <1>2 DEF Owns, CallLock, IpIn, DpIn, UsesIp, IpSteps, DpSteps
  <2>2. i \in OptInum
    BY <2>1, <1>1 DEF IpIn, DpIn, Local, OptInum
  <2>3. i \in Inum /\ HasInode(t, i)
    BY <2>1, <2>2 DEF Owns, OptInum, HasInode
  <2>4. lock[i] = t
    BY <2>3, <1>2 DEF Owns, Locked, LocksIn
  <2>5. cache[i].ref >= Cardinality(Heads(i)) + 1 /\ Cardinality(Heads(i)) \in Nat /\ cache[i].ref \in Nat
    BY <2>3, HeldMore
  <2> QED
    BY <2>3, <2>4, <2>5
<1>3. CASE Frees(todo[t]) = i
  <2>1. PICK s : s \in Seq(Item) /\ s = todo[t]
    BY <1>1
  <2>2. s # <<>> /\ s[1][1] = "free" /\ s[1][2] = i
    BY <2>1, <1>3 DEF Owns, Frees
  <2>3. s[1] \in Item
    BY <2>1, <2>2
  <2>4. i \in Inum /\ s[1] = <<"free", i>>
    BY <2>2, <2>3 DEF Item
  <2>5. t \in Heads(i) \ Drops(i)
    <3>1. <<"free", i>> \in PutStep \X {i} /\ <<"free", i>> # <<"drop", i>>
      BY DEF PutStep
    <3> QED
      BY <3>1, <2>1, <2>2, <2>4 DEF Heads, Drops
  <2>6. lock[i] = t
    BY <2>4, <1>3 DEF Owns, Locked, LocksIn
  <2> QED
    BY <2>4, <2>5, <2>6, HeadMore
<1> QED
  BY <1>2, <1>3 DEF Owns

(* The locks after a step of t.                                            *)
LEMMA LockMove ==
    ASSUME Locked, NEW t \in Process, OnlyMoved(t), t # None,
           ListOK(todo'[t]), Apart(pc'[t], local'[t], todo'[t]),
           \A i \in Inum : lock'[i] = t <=> i \in LocksIn(pc'[t], local'[t], todo'[t]),
           \A i \in Inum : lock'[i] = lock[i] \/ (lock[i] \in {t, None} /\ lock'[i] \in {t, None})
    PROVE  Locked'
<1>1. Locked' <=> \A u \in Process :
        /\ ListOK(todo'[u]) /\ Apart(pc'[u], local'[u], todo'[u])
        /\ \A i \in Inum : lock'[i] = u <=> i \in LocksIn(pc'[u], local'[u], todo'[u])
  BY DEF Locked, ListOK, Apart, LocksIn, CallLock, Unlocks, Frees
<1>2. ASSUME NEW u \in Process \ {t}
      PROVE  /\ ListOK(todo'[u]) /\ Apart(pc'[u], local'[u], todo'[u])
             /\ \A i \in Inum : lock'[i] = u <=> i \in LocksIn(pc'[u], local'[u], todo'[u])
  <2>1. todo'[u] = todo[u] /\ pc'[u] = pc[u] /\ local'[u] = local[u]
    BY DEF OnlyMoved
  <2>2. /\ ListOK(todo[u]) /\ Apart(pc[u], local[u], todo[u])
        /\ \A i \in Inum : lock[i] = u <=> i \in LocksIn(pc[u], local[u], todo[u])
    BY DEF Locked
  <2>3. u # None
    BY FsAssumption
  <2>4. \A i \in Inum : lock'[i] = u <=> lock[i] = u
    BY <2>3
  <2> QED
    BY <2>1, <2>2, <2>4
<1> QED
  BY <1>1, <1>2

(* What the others found out, if t changes no inode under their locks, and *)
(* the type of no inode in use.                                            *)
LEMMA CheckedFrame ==
    ASSUME IInv, Locked, Checked, NEW t \in Process, OnlyMoved(t),
           \A i \in Inum : disk[i].type # "free" /\ ~Freeing(i) => disk'[i].type = disk[i].type,
           \A i \in Inum, u \in Process \ {t} : HasInode(u, i) /\ Freeing(i)' => Freeing(i),
           \A u \in Process \ {t}, i \in Inum : Owns(u, i) =>
                /\ cache[i].valid => cache'[i].valid
                /\ disk'[i].nlink = disk[i].nlink
                /\ \A n \in Entry : dir'[i][n] = dir[i][n],
           CheckedAt(pc[t], local[t], todo[t])'
    PROVE  Checked'
<1>1. ASSUME NEW u \in Process \ {t} PROVE CheckedAt(pc[u], local[u], todo[u])'
  <2>1. PICK p, l, s : p = pc[u] /\ l = local[u] /\ s = todo[u]
    OBVIOUS
  <2>2. pc'[u] = p /\ local'[u] = l /\ todo'[u] = s
    BY <2>1 DEF OnlyMoved
  <2>3. CheckedAt(p, l, s) /\ Shape(cwd[u], p, l) /\ p \in Step /\ l \in Local
    BY <2>1 DEF Checked, IInv, Shapes, TypeOK
  <2>4. p \in DpSteps \ {"nameiparent"} => disk'[l.dp].type = "dir" /\ ~Freeing(l.dp)'
    <3>1. SUFFICES ASSUME p \in DpSteps \ {"nameiparent"} PROVE disk'[l.dp].type = "dir" /\ ~Freeing(l.dp)'
      OBVIOUS
    <3>2. l.dp \in Inum /\ HasInode(u, l.dp) /\ disk[l.dp].type = "dir" /\ ~Freeing(l.dp)
      BY <3>1, <2>1, <2>3 DEF CheckedAt, Shape, Local, OptInum, HasInode, DpIn
    <3> QED
      BY <3>2
  <2>5. Linking(p, l) => disk'[l.ip].type \notin {"free", "dir"} /\ ~Freeing(l.ip)'
    <3>1. SUFFICES ASSUME Linking(p, l) PROVE disk'[l.ip].type \notin {"free", "dir"} /\ ~Freeing(l.ip)'
      OBVIOUS
    <3>2. UsesIp(p, l) /\ disk[l.ip].type \notin {"free", "dir"} /\ ~Freeing(l.ip)
      BY <3>1, <2>3 DEF CheckedAt, Linking, UsesIp, IpSteps
    <3>3. l.ip \in Inum /\ HasInode(u, l.ip)
      BY <3>2, <2>1, <2>3 DEF Shape, Local, OptInum, HasInode, IpIn
    <3> QED
      BY <3>2, <3>3
  <2>6. CallLock(p, l) # 0 => cache'[CallLock(p, l)].valid
    <3>1. SUFFICES ASSUME CallLock(p, l) # 0 PROVE cache'[CallLock(p, l)].valid
      OBVIOUS
    <3>2. PICK i : i = CallLock(p, l) /\ Owns(u, i) /\ cache[i].valid
      BY <3>1, <2>1, <2>3 DEF Owns, CheckedAt
    <3>3. i \in Inum
      BY <3>2, OwnsFacts
    <3> QED
      BY <3>2, <3>3
  <2>7. Frees(s) # 0 => cache'[Frees(s)].valid /\ disk'[Frees(s)].nlink = 0
    <3>1. SUFFICES ASSUME Frees(s) # 0 PROVE cache'[Frees(s)].valid /\ disk'[Frees(s)].nlink = 0
      OBVIOUS
    <3>2. PICK i : i = Frees(s) /\ Owns(u, i) /\ cache[i].valid /\ disk[i].nlink = 0
      BY <3>1, <2>1, <2>3 DEF Owns, CheckedAt
    <3>3. i \in Inum
      BY <3>2, OwnsFacts
    <3> QED
      BY <3>2, <3>3
  <2>8. /\ p = "unlink2" => l.path[1] \in Name /\ dir'[l.dp][l.path[1]] = l.ip
        /\ p = "create2" => dir'[l.dp][l.path[1]] = 0
    <3>1. SUFFICES ASSUME p \in {"unlink2", "create2"}
                   PROVE  dir'[l.dp][l.path[1]] = dir[l.dp][l.path[1]]
      BY <2>3 DEF CheckedAt
    <3>2. CallLock(p, l) = l.dp /\ l.dp # 0
      BY <3>1, <2>3 DEF CallLock, Shape, DpSteps
    <3>3. Owns(u, l.dp)
      BY <3>2, <2>1 DEF Owns
    <3>4. l.dp \in Inum
      BY <3>3, OwnsFacts
    <3>5. l.path[1] \in Entry
      <4>1. l.path \in Seq(Entry) /\ l.path # <<>>
        BY <3>1, <2>3 DEF Local, Shape, DpSteps
      <4> QED
        BY <4>1
    <3> QED
      BY <3>3, <3>4, <3>5
  <2> QED
    BY <2>2, <2>4, <2>5, <2>6, <2>7, <2>8 DEF CheckedAt, Linking, CallLock, Frees
<1> QED
  BY <1>1 DEF Checked

(* Entries only go: no new circle.                                         *)
LEMMA TreeShrinks ==
    ASSUME Tree, \A i \in Inum : disk'[i].type # "dir" => \A n \in Name : dir'[i][n] = 0,
           \A d, i \in Inum : Edge(d, i)' => Edge(d, i)
    PROVE  Tree'
<1>1. ASSUME NEW S \in SUBSET Inum, S # {} PROVE \E d \in S : \A i \in S : ~Edge(d, i)'
  <2>1. PICK d \in S : \A i \in S : ~Edge(d, i)
    BY <1>1 DEF Tree
  <2>2. \A i \in S : ~Edge(d, i)'
    BY <2>1
  <2> QED
    BY <2>2
<1> QED
  BY <1>1 DEF Tree

(* New entries refer to x, which has none itself.                          *)
LEMMA TreeGrows ==
    ASSUME Tree, \A i \in Inum : disk'[i].type # "dir" => \A n \in Name : dir'[i][n] = 0,
           NEW x \in Inum, \A i \in Inum : ~Edge(x, i)',
           \A d, i \in Inum : Edge(d, i)' => Edge(d, i) \/ i = x
    PROVE  Tree'
<1>1. ASSUME NEW S \in SUBSET Inum, S # {} PROVE \E d \in S : \A i \in S : ~Edge(d, i)'
  <2>1. CASE x \in S
    BY <2>1
  <2>2. CASE x \notin S
    <3>1. PICK d \in S : \A i \in S : ~Edge(d, i)
      BY <1>1 DEF Tree
    <3>2. \A i \in S : ~Edge(d, i)'
      BY <3>1, <2>2
    <3> QED
      BY <3>2
  <2> QED
    BY <2>1, <2>2
<1> QED
  BY <1>1 DEF Tree

(* The edges, if names only go, and t has found the one it comes to.       *)
LEMMA EdgesGo ==
    ASSUME NEW t \in Process, OnlyMoved(t),
           pc'[t] \in {"unlink2", "create2"} => Edge(local'[t].dp, local'[t].ip),
           NEW d \in Inum, NEW i \in Inum, \A n \in Name : dir'[d][n] \in {dir[d][n], 0}, Edge(d, i)'
    PROVE  Edge(d, i)
<1>1. CASE \E n \in Name : dir'[d][n] = i
  <2>1. PICK n \in Name : dir'[d][n] = i
    BY <1>1
  <2>2. dir[d][n] = i
    BY <2>1 DEF Inum
  <2> QED
    BY <2>2 DEF Edge
<1>2. CASE \E u \in Process : pc'[u] \in {"unlink2", "create2"} /\ local'[u].dp = d /\ local'[u].ip = i
  <2>1. PICK u \in Process : pc'[u] \in {"unlink2", "create2"} /\ local'[u].dp = d /\ local'[u].ip = i
    BY <1>2
  <2>2. CASE u = t
    BY <2>1, <2>2
  <2>3. CASE u # t
    BY <2>1, <2>3 DEF Edge, OnlyMoved
  <2> QED
    BY <2>2, <2>3
<1>3. (\E n \in Name : dir'[d][n] = i)
      \/ (\E u \in Process : pc'[u] \in {"unlink2", "create2"} /\ local'[u].dp = d /\ local'[u].ip = i)
  BY DEF Edge
<1> QED
  BY <1>1, <1>2, <1>3

(* The drops, if t neither comes to one nor leaves one.                    *)
LEMMA DropsSame ==
    ASSUME NEW t \in Process, OnlyMoved(t), NEW i,
           ~(todo[t] # <<>> /\ todo[t][1][1] = "drop"), ~(todo'[t] # <<>> /\ todo'[t][1][1] = "drop")
    PROVE  Drops(i)' = Drops(i)
<1>1. ASSUME NEW u \in Process PROVE u \in Drops(i)' <=> u \in Drops(i)
  <2>1. CASE u = t
    <3>1. <<"drop", i>>[1] = "drop"
      OBVIOUS
    <3> QED
      BY <2>1, <3>1 DEF Drops
  <2>2. CASE u # t
    BY <2>2 DEF Drops, OnlyMoved
  <2> QED
    BY <2>1, <2>2
<1> QED
  BY <1>1 DEF Drops

(* An inode without links stays kept.                                      *)
LEMMA KeptFrame ==
    ASSUME IInv, NEW i \in Inum, KeptAt(i), disk'[i].type # "free" => disk[i].type # "free",
           disk'[i].nlink = 0 => disk[i].nlink = 0, i \in lost => i \in lost',
           cache'[i].ref \in Nat, cache'[i].ref >= cache[i].ref, Drops(i)' = Drops(i),
           cache[i].valid /\ cache[i].ref >= 1 => cache'[i].valid,
           \A u \in Process : pc[u] = "create2" /\ local[u].ip = i =>
               cache'[i].valid \/ \E v \in Process : pc'[v] = "create2" /\ local'[v].ip = i
    PROVE  KeptAt(i)'
<1>1. SUFFICES ASSUME disk'[i].type # "free", disk'[i].nlink = 0, i \notin lost'
               PROVE  /\ cache'[i].ref > Cardinality(Drops(i)')
                      /\ cache'[i].valid \/ \E v \in Process : pc'[v] = "create2" /\ local'[v].ip = i
  BY DEF KeptAt
<1>2. /\ cache[i].ref > Cardinality(Drops(i))
      /\ cache[i].valid \/ \E u \in Process : pc[u] = "create2" /\ local[u].ip = i
  BY <1>1 DEF KeptAt
<1>3. Cardinality(Drops(i)) \in Nat /\ cache[i].ref \in Nat
  BY DropsFacts DEF IInv, TypeOK, Inode
<1>4. cache'[i].ref > Cardinality(Drops(i)')
  <2>1. Cardinality(Drops(i)') = Cardinality(Drops(i))
    OBVIOUS
  <2> QED
    BY <2>1, <1>2, <1>3
<1> QED
  BY <1>2, <1>3, <1>4

(* A list of iput() calls that have not begun.                             *)
PutsOnly(s) == s \in Seq(Item) /\ Len(s) <= 2 /\ \A k \in 1 .. Len(s) : s[k][1] = "put"

(* It neither holds nor drops anything.                                    *)
LEMMA PutsOnlyFacts ==
    ASSUME NEW s, PutsOnly(s)
    PROVE  /\ ListOK(s) /\ Unlocks(s) = 0 /\ Frees(s) = 0
           /\ ~(s # <<>> /\ s[1][1] = "drop")
<1>1. s \in Seq(Item) /\ Len(s) \in Nat /\ Len(s) <= 2 /\ (s # <<>> => Len(s) >= 1)
  BY DEF PutsOnly
<1>2. (Len(s) >= 1 => s[1][1] = "put") /\ (Len(s) = 2 => s[2][1] = "put")
  BY <1>1 DEF PutsOnly
<1> QED
  BY <1>1, <1>2 DEF ListOK, Unlocks, Frees, PutStep

(* The lists of the code.                                                  *)
LEMMA PutsLists ==
    ASSUME NEW x \in Inum, NEW y \in Inum
    PROVE  PutsOnly(<<>>) /\ PutsOnly(<<Put(x)>>) /\ PutsOnly(<<Put(x), Put(y)>>)
<1>1. Put(x) \in Item /\ Put(y) \in Item /\ Put(x)[1] = "put" /\ Put(y)[1] = "put"
  BY DEF Put, Item, PutStep
<1>2. PutsOnly(<<>>)
  BY DEF PutsOnly
<1>3. PutsOnly(<<Put(x)>>)
  BY <1>1 DEF PutsOnly
<1>4. PutsOnly(<<Put(x), Put(y)>>)
  <2>1. PICK q : q = <<Put(x), Put(y)>>
    OBVIOUS
  <2>2. q \in Seq(Item) /\ Len(q) = 2 /\ q[1] = Put(x) /\ q[2] = Put(y)
    BY <2>1, <1>1
  <2> QED
    BY <2>1, <2>2, <1>1 DEF PutsOnly
<1> QED
  BY <1>2, <1>3, <1>4

(* A process has gone to step p of its call, with variables l and list s.  *)
Went(t, s, p, l) == OnlyMoved(t) /\ todo'[t] = s /\ pc'[t] = p /\ local'[t] = l

(* It has taken and released the locks that go with that.                  *)
LockStep(t, s, p, l) ==
    /\ ListOK(s) /\ Apart(p, l, s)
    /\ \A i \in Inum : /\ lock'[i] = t <=> i \in LocksIn(p, l, s)
                       /\ lock'[i] = lock[i] \/ (lock[i] \in {t, None} /\ lock'[i] \in {t, None})

(* What a call has to find out before it comes to step p.                  *)
Finds(p, l) ==
    /\ p \in DpSteps \ {"nameiparent"} => disk[l.dp].type = "dir" /\ ~Freeing(l.dp)
    /\ Linking(p, l) => disk[l.ip].type \notin {"free", "dir"} /\ ~Freeing(l.ip)
    /\ CallLock(p, l) # 0 => cache'[CallLock(p, l)].valid
    /\ p = "unlink2" => l.path[1] \in Name /\ dir[l.dp][l.path[1]] = l.ip

NotDrop(s) == ~(s # <<>> /\ s[1][1] = "drop")

(* A step of t that leaves the disk alone and gets a reference to x, or to *)
(* none if x is 0.                                                         *)
Quiet(t, s, p, l, x) ==
    /\ NotDrop(todo[t]) /\ NotDrop(s) /\ Frees(s) = 0 /\ pc[t] # "create2" /\ p # "create2"
    /\ Went(t, s, p, l) /\ LockStep(t, s, p, l) /\ Finds(p, l)
    /\ UNCHANGED <<disk, dir, lost, stranded>>
    /\ \A i \in Inum : /\ cache'[i].ref = cache[i].ref + One(x, i)
                       /\ cache[i].valid /\ cache[i].ref >= 1 => cache'[i].valid
    /\ (strayed => strayed') /\ (x # 0 => strayed' \/ ~Gone(x))
    /\ \A i : Owes(p, l, i) <=> Owes(pc[t], local[t], i)

(* Nothing comes to be freed by a step to a list without a free.           *)
LEMMA FreeingGoes ==
    ASSUME NEW t \in Process, OnlyMoved(t), Frees(todo'[t]) \in {0, Frees(todo[t])},
           NEW i \in Inum, Freeing(i)'
    PROVE  Freeing(i)
<1>1. PICK u \in Process : Frees(todo'[u]) = i
  BY DEF Freeing, Frees
<1>2. CASE u = t
  BY <1>1, <1>2 DEF Freeing, Inum
<1>3. CASE u # t
  BY <1>1, <1>3 DEF Freeing, OnlyMoved
<1> QED
  BY <1>2, <1>3

(* The locks, after such a step.                                           *)
LEMMA StepLocked ==
    ASSUME LInv, NEW t \in Process, NEW s, NEW p, NEW l, Went(t, s, p, l), LockStep(t, s, p, l)
    PROVE  Locked'
BY LockMove, FsAssumption DEF LInv, Went, LockStep

(* What t found out, if it keeps the disk as it was.                       *)
LEMMA FindsChecked ==
    ASSUME IInv, NEW t \in Process, NEW s, NEW p, NEW l, Went(t, s, p, l), l \in Local, Shape(cwd'[t], p, l),
           Frees(s) = 0, Finds(p, l), \A i \in Inum : disk'[i].type = disk[i].type, p # "create2",
           p = "unlink2" => UNCHANGED dir
    PROVE  CheckedAt(pc[t], local[t], todo[t])'
<1> USE DEF Went
<1>1. ASSUME NEW i \in Inum PROVE Freeing(i)' => Freeing(i)
  BY FreeingGoes
<1>2. p \in DpSteps \ {"nameiparent"} => disk'[l.dp].type = "dir" /\ ~Freeing(l.dp)'
  <2>1. SUFFICES ASSUME p \in DpSteps \ {"nameiparent"} PROVE disk'[l.dp].type = "dir" /\ ~Freeing(l.dp)'
    OBVIOUS
  <2>2. disk[l.dp].type = "dir" /\ ~Freeing(l.dp) /\ l.dp \in Inum
    BY <2>1 DEF Finds, Shape, Local, OptInum
  <2>3. PICK d \in Inum : d = l.dp
    BY <2>2
  <2>4. ~Freeing(d)'
    BY <2>2, <2>3, <1>1
  <2> QED
    BY <2>2, <2>3, <2>4
<1>3. Linking(p, l) => disk'[l.ip].type \notin {"free", "dir"} /\ ~Freeing(l.ip)'
  <2>1. SUFFICES ASSUME Linking(p, l) PROVE disk'[l.ip].type \notin {"free", "dir"} /\ ~Freeing(l.ip)'
    OBVIOUS
  <2>2. disk[l.ip].type \notin {"free", "dir"} /\ ~Freeing(l.ip) /\ l.ip \in Inum
    BY <2>1 DEF Finds, Shape, Local, OptInum, Linking, UsesIp, IpSteps
  <2>3. PICK i \in Inum : i = l.ip
    BY <2>2
  <2>4. ~Freeing(i)'
    BY <2>2, <2>3, <1>1
  <2> QED
    BY <2>2, <2>3, <2>4
<1>4. /\ CallLock(p, l) # 0 => cache'[CallLock(p, l)].valid
      /\ p = "unlink2" => l.path[1] \in Name /\ dir'[l.dp][l.path[1]] = l.ip
  BY DEF Finds
<1> QED
  BY <1>2, <1>3, <1>4 DEF CheckedAt, Linking, CallLock, Frees

(* The invariant after a quiet step.                                       *)
LEMMA QuietLInv ==
    ASSUME IInv, LInv, IInv', NEW t \in Process, NEW s, NEW p, NEW l, NEW x, Quiet(t, s, p, l, x)
    PROVE  LInv'
<1> USE DEF Quiet, Went
<1>0. Locked /\ Checked /\ Tree /\ Kept
  BY DEF LInv
<1>1. l \in Local /\ Shape(cwd'[t], p, l)
  <2>1. local'[t] \in Local
    BY DEF IInv, TypeOK
  <2>2. Shapes' => Shape(cwd'[t], pc'[t], local'[t])
    BY DEF Shapes, Shape, UsesIp
  <2> QED
    BY <2>1, <2>2 DEF IInv
<1>2. Locked'
  BY StepLocked
<1>3. Checked'
  <2>1. \A i \in Inum : Freeing(i)' => Freeing(i)
    BY FreeingGoes
  <2>2. ASSUME NEW u \in Process \ {t}, NEW i \in Inum, Owns(u, i), cache[i].valid PROVE cache'[i].valid
    BY <2>2, <1>0, OwnsFacts
  <2>3. CheckedAt(pc[t], local[t], todo[t])'
    BY <1>1, FindsChecked
  <2> QED
    BY <2>1, <2>2, <2>3, <1>0, CheckedFrame
<1>4. Tree'
  <2>1. \A i \in Inum : disk'[i].type # "dir" => \A n \in Name : dir'[i][n] = 0
    BY <1>0 DEF Tree
  <2>2. p = "unlink2" => Edge(l.dp, l.ip)
    BY DEF Finds, Edge
  <2>3. \A d, i \in Inum : Edge(d, i)' => Edge(d, i)
    BY <2>2, EdgesGo
  <2> QED
    BY <2>1, <2>3, <1>0, TreeShrinks
<1>5. Kept'
  <2>1. ASSUME NEW i \in Inum PROVE KeptAt(i)'
    <3>1. KeptAt(i) /\ cache[i].ref \in Nat /\ cache'[i].ref \in Nat
      BY <1>0 DEF Kept, IInv, TypeOK, Inode
    <3>2. cache'[i].ref >= cache[i].ref
      BY <3>1 DEF One
    <3>3. Drops(i)' = Drops(i)
      BY DropsSame DEF NotDrop
    <3>4. \A u \in Process : pc[u] = "create2" /\ local[u].ip = i =>
             \E v \in Process : pc'[v] = "create2" /\ local'[v].ip = i
      BY DEF OnlyMoved
    <3> QED
      BY <3>1, <3>2, <3>3, <3>4, KeptFrame
  <2> QED
    BY <2>1 DEF Kept
<1> QED
  BY <1>2, <1>3, <1>4, <1>5 DEF LInv

-----------------------------------------------------------------------------
(* What a step leaves alone of the counts of links                         *)

(* The counted links without a name, if those of t stay.                   *)
LEMMA OwedSame ==
    ASSUME NEW t \in Process, OnlyMoved(t), NEW i,
           Owes(pc'[t], local'[t], i) <=> Owes(pc[t], local[t], i)
    PROVE  Owed(i)' = Owed(i)
<1>1. \A u \in Process : Owes(pc'[u], local'[u], i) <=> Owes(pc[u], local[u], i)
  BY DEF OnlyMoved
<1>2. Owed(i)' = {u \in Process : Owes(pc'[u], local'[u], i)}
  BY DEF Owed, Owes, Linking
<1> QED
  BY <1>1, <1>2 DEF Owed

(* An inode is gone if it is free, or is being freed or set up.            *)
LEMMA GoneFacts ==
    ASSUME IInv, Locked, NEW i \in Inum
    PROVE  Gone(i) <=> \/ disk[i].type = "free"
                       \/ \E u \in Process : Frees(todo[u]) = i \/ (pc[u] = "create2" /\ local[u].ip = i)
<1>1. ASSUME NEW u \in Process PROVE (At(u) = "free" /\ Arg(u) = i) <=> Frees(todo[u]) = i
  <2>1. pc[u] # "free" /\ i # 0
    BY DEF IInv, TypeOK, Step, Inum
  <2> QED
    BY <2>1 DEF At, Arg, Frees
<1>2. ASSUME NEW u \in Process PROVE At(u) = "create2" <=> pc[u] = "create2"
  <2>1. ASSUME pc[u] = "create2" PROVE todo[u] = <<>>
    BY <2>1 DEF Locked, Apart
  <2>2. At(u) = "create2" => pc[u] = "create2"
    BY AtCall DEF IInv, Step
  <2> QED
    BY <2>1, <2>2 DEF At
<1> QED
  BY <1>1, <1>2 DEF Gone

(* Only an inode that is gone is subject to the conditions on its use.     *)
LEMMA UsedFrame ==
    ASSUME IInv, Locked, NEW i \in Inum, UsedAt(i), NEW t \in Process, OnlyMoved(t),
           Drops(i)' = Drops(i), disk'[i].type = disk[i].type,
           dir'[i]["."] = dir[i]["."], dir'[i][".."] = dir[i][".."],
           ~Gone(i) \/ (cache'[i].ref = cache[i].ref /\ disk'[i].nlink = disk[i].nlink),
           Frees(todo'[t]) # i, ~(pc[t] = "create2" /\ local[t].ip = i),
           ~(pc'[t] = "create2" /\ local'[t].ip = i)
    PROVE  UsedAt(i)'
<1>1. /\ disk[i].type = "free" => Gone(i)
      /\ \A u \in Process : Frees(todo[u]) = i \/ (pc[u] = "create2" /\ local[u].ip = i) => Gone(i)
  BY GoneFacts
<1>2. disk'[i].type = "free" => cache'[i].ref = Cardinality(Drops(i)')
  BY <1>1 DEF UsedAt
<1>3. ASSUME NEW u \in Process, Frees(todo'[u]) = i PROVE cache'[i].ref = 1
  <2>1. u # t /\ Frees(todo[u]) = i
    BY <1>3 DEF OnlyMoved
  <2> QED
    BY <2>1, <1>1 DEF UsedAt
<1>4. ASSUME NEW u \in Process, pc'[u] = "create2" /\ local'[u].ip = i
      PROVE  /\ cache'[i].ref = Cardinality(Drops(i)') + 1
             /\ disk'[i].nlink = 0 /\ disk'[i].type = TypeOf(local'[u].call.op)
             /\ local'[u].path[1] \in Name
  <2>1. u # t /\ pc'[u] = pc[u] /\ local'[u] = local[u]
    BY <1>4 DEF OnlyMoved
  <2>2. /\ cache[i].ref = Cardinality(Drops(i)) + 1
        /\ disk[i].nlink = 0 /\ disk[i].type = TypeOf(local[u].call.op)
        /\ local[u].path[1] \in Name
    BY <2>1, <1>4 DEF UsedAt
  <2> QED
    BY <2>1, <2>2, <1>1, <1>4
<1>5. disk'[i].type = "dir" => \/ dir'[i]["."] = i /\ dir'[i][".."] # 0
                               \/ \E u \in Process : pc'[u] = "create2" /\ local'[u].ip = i
  <2>1. \A u \in Process : pc[u] = "create2" /\ local[u].ip = i => pc'[u] = "create2" /\ local'[u].ip = i
    BY DEF OnlyMoved
  <2> QED
    BY <2>1 DEF UsedAt
<1> QED
  BY <1>2, <1>3, <1>4, <1>5 DEF UsedAt, Frees, TypeOf

(* The names and the subdirectories, if neither they nor the types change. *)
LEMMA LinkedFrame ==
    ASSUME NEW i \in Inum, LinkedAt(i), disk' = disk, dir' = dir, stranded' = stranded,
           Owed(i)' = Owed(i)
    PROVE  LinkedAt(i)'
<1>1. Names(i)' = Names(i) /\ Subdirs(i)' = Subdirs(i)
  BY DEF Names, Subdirs
<1>2. Links(i)' = Links(i)
  BY <1>1 DEF Links
<1> QED
  BY <1>2 DEF LinkedAt

(* The counts of links after a quiet step.                                 *)
LEMMA QuietAInv ==
    ASSUME IInv, LInv, AInv, NEW t \in Process, NEW s, NEW p, NEW l, NEW x,
           Quiet(t, s, p, l, x)
    PROVE  AInv'
<1> USE DEF Quiet, Went
<1>1. SUFFICES ASSUME ~strayed' PROVE Reachable' /\ \A i \in Inum : LinkedAt(i)' /\ UsedAt(i)'
  BY DEF AInv
<1>2. Locked /\ Reachable /\ \A i \in Inum : LinkedAt(i) /\ UsedAt(i)
  BY <1>1 DEF AInv, LInv
<1>3. Reachable'
  BY <1>2 DEF Reachable
<1>4. ASSUME NEW i \in Inum PROVE LinkedAt(i)'
  <2>1. Owed(i)' = Owed(i)
    BY OwedSame
  <2> QED
    BY <2>1, <1>2, LinkedFrame
<1>5. ASSUME NEW i \in Inum PROVE UsedAt(i)'
  <2>1. Drops(i)' = Drops(i)
    BY DropsSame DEF NotDrop
  <2>2. ~Gone(i) \/ cache'[i].ref = cache[i].ref
    <3>1. CASE x = i
      BY <3>1, <1>1 DEF Inum
    <3>2. CASE x # i
      <4>1. cache[i].ref \in Nat
        BY DEF IInv, TypeOK, Inode
      <4> QED
        BY <4>1, <3>2 DEF One
    <3> QED
      BY <3>1, <3>2
  <2>3. Frees(todo'[t]) # i
    BY DEF Inum
  <2> QED
    BY <2>1, <2>2, <2>3, <1>2, UsedFrame
<1> QED
  BY <1>3, <1>4, <1>5

-----------------------------------------------------------------------------
(* Which inodes are not gone                                               *)

(* Two processes that have an inode count twice.                           *)
LEMMA TwoHold ==
    ASSUME IInv, NEW i \in Inum, NEW t \in Process, HasInode(t, i),
           NEW u \in Process, HasInode(u, i), t # u
    PROVE  cache[i].ref >= Cardinality(Heads(i)) + 2 /\ Cardinality(Heads(i)) \in Nat /\ cache[i].ref \in Nat
<1>1. PICK a, b, c, h : /\ a = Cardinality(CwdRefs(i)) /\ b = Cardinality(IpRefs(i))
                        /\ c = Cardinality(DpRefs(i)) /\ h = Cardinality(Heads(i))
  OBVIOUS
<1>2. a \in Nat /\ b \in Nat /\ c \in Nat /\ h \in Nat
  BY <1>1, FiniteRefs, DropsFacts
<1>3. cache[i].ref \in Nat /\ cache[i].ref >= a + b + c + h
  <2>1. Cardinality(FileRefs(i)) \in Nat
    BY FiniteRefs
  <2>2. /\ cache[i].ref \in Nat
        /\ cache[i].ref >= Cardinality(FileRefs(i)) + Cardinality(CwdRefs(i)) + Cardinality(IpRefs(i))
                           + Cardinality(DpRefs(i)) + Cardinality(Heads(i))
    BY HoldersBound
  <2> QED
    BY <2>1, <2>2, <1>1, <1>2
<1>4. /\ t \in CwdRefs(i) \/ t \in IpRefs(i) \/ t \in DpRefs(i)
      /\ u \in CwdRefs(i) \/ u \in IpRefs(i) \/ u \in DpRefs(i)
  BY DEF HasInode, CwdRefs, IpRefs, DpRefs
<1>5. ASSUME NEW v, v \in {t, u}
      PROVE  (v \in CwdRefs(i) => a >= 1) /\ (v \in IpRefs(i) => b >= 1) /\ (v \in DpRefs(i) => c >= 1)
  BY <1>1, FiniteRefs, CardOne
<1>6. /\ t \in CwdRefs(i) /\ u \in CwdRefs(i) => a >= 2
      /\ t \in IpRefs(i) /\ u \in IpRefs(i) => b >= 2
      /\ t \in DpRefs(i) /\ u \in DpRefs(i) => c >= 2
  BY <1>1, FiniteRefs, CardTwo
<1>7. a + b + c >= 2
  BY <1>2, <1>4, <1>5, <1>6
<1> QED
  BY <1>1, <1>2, <1>3, <1>7

(* The inode that a process has is not gone, unless it is setting it up.   *)
LEMMA HeldNotGone ==
    ASSUME IInv, Locked, NEW i \in Inum, UsedAt(i), NEW t \in Process, HasInode(t, i),
           ~(pc[t] = "create2" /\ local[t].ip = i)
    PROVE  ~Gone(i)
<1>1. /\ cache[i].ref >= Cardinality(Heads(i)) + 1 /\ Cardinality(Heads(i)) \in Nat
      /\ cache[i].ref > Cardinality(Drops(i)) /\ cache[i].ref \in Nat
      /\ Cardinality(Drops(i)) \in Nat /\ Cardinality(Drops(i)) <= Cardinality(Heads(i))
  BY HeldMore, DropsFacts
<1>2. disk[i].type # "free"
  BY <1>1 DEF UsedAt
<1>3. ASSUME NEW u \in Process, Frees(todo[u]) = i PROVE FALSE
  <2>1. Owns(u, i)
    BY <1>3 DEF Owns, Inum
  <2>2. u \in Heads(i)
    <3>1. PICK q : q = todo[u] /\ q \in Seq(Item)
      BY DEF IInv, TypeOK, Todo, Item
    <3>2. q # <<>> /\ q[1][1] = "free" /\ q[1][2] = i
      BY <3>1, <1>3 DEF Frees, Inum
    <3>3. q[1] \in Item
      BY <3>1, <3>2
    <3>4. q[1] \in PutStep \X {i}
      BY <3>2, <3>3 DEF Item, PutStep
    <3> QED
      BY <3>1, <3>2, <3>4 DEF Heads
  <2>3. cache[i].ref >= 2
    BY <2>2, HeadMore
  <2> QED
    BY <2>3, <1>1, <1>3 DEF UsedAt
<1>4. ASSUME NEW u \in Process, pc[u] = "create2", local[u].ip = i PROVE FALSE
  <2>1. u # t /\ HasInode(u, i)
    BY <1>4 DEF HasInode, IpIn, UsesIp, IpSteps
  <2>2. cache[i].ref >= Cardinality(Heads(i)) + 2
    BY <2>1, TwoHold
  <2>3. cache[i].ref = Cardinality(Drops(i)) + 1
    BY <1>4 DEF UsedAt
  <2> QED
    BY <2>2, <2>3, <1>1
<1> QED
  BY <1>2, <1>3, <1>4, GoneFacts

(* The links of an inode can be counted.                                   *)
LEMMA LinksFacts ==
    ASSUME NEW i
    PROVE  /\ IsFiniteSet(Names(i)) /\ Cardinality(Names(i)) \in Nat
           /\ IsFiniteSet(Subdirs(i)) /\ Cardinality(Subdirs(i)) \in Nat
           /\ IsFiniteSet(Owed(i)) /\ Cardinality(Owed(i)) \in Nat
           /\ Links(i) \in Nat /\ Links(i) >= Cardinality(Names(i))
           /\ Links(i) = 0 => Names(i) = {} /\ Subdirs(i) = {} /\ Owed(i) = {} /\ i # ROOTINO
<1>1. IsFiniteSet(Inum) /\ IsFiniteSet(Name) /\ IsFiniteSet(Process)
  BY FsAssumption, FS_Interval DEF Inum
<1>2. IsFiniteSet(Inum \X Name)
  BY <1>1, FS_Product
<1>3. Names(i) \in SUBSET (Inum \X Name) /\ Subdirs(i) \in SUBSET Name /\ Owed(i) \in SUBSET Process
  BY DEF Names, Subdirs, Owed
<1>4. IsFiniteSet(Names(i)) /\ IsFiniteSet(Subdirs(i)) /\ IsFiniteSet(Owed(i))
  BY <1>1, <1>2, <1>3, FS_Subset
<1>5. /\ Cardinality(Names(i)) \in Nat /\ Cardinality(Subdirs(i)) \in Nat /\ Cardinality(Owed(i)) \in Nat
  BY <1>4, FS_CardinalityType
<1>6. /\ Cardinality(Names(i)) = 0 => Names(i) = {}
      /\ Cardinality(Subdirs(i)) = 0 => Subdirs(i) = {}
      /\ Cardinality(Owed(i)) = 0 => Owed(i) = {}
  BY <1>4, FS_EmptySet
<1>7. PICK r \in {0, 1} : /\ Links(i) = r + Cardinality(Names(i)) + Cardinality(Subdirs(i)) + Cardinality(Owed(i))
                          /\ i = ROOTINO => r = 1
  BY DEF Links
<1>8. Links(i) \in Nat /\ Links(i) >= Cardinality(Names(i))
  BY <1>5, <1>7
<1>9. Links(i) = 0 => /\ r = 0 /\ Cardinality(Names(i)) = 0 /\ Cardinality(Subdirs(i)) = 0
                      /\ Cardinality(Owed(i)) = 0
  <2>1. PICK a \in Nat, b \in Nat, c \in Nat, q \in Nat :
            a = Cardinality(Names(i)) /\ b = Cardinality(Subdirs(i)) /\ c = Cardinality(Owed(i)) /\ q = r
    BY <1>5, <1>7
  <2>2. Links(i) = q + a + b + c
    BY <2>1, <1>7, Zenon
  <2>3. q + a + b + c = 0 => q = 0 /\ a = 0 /\ b = 0 /\ c = 0
    OBVIOUS
  <2> QED
    BY <2>1, <2>2, <2>3, Zenon
<1> QED
  BY <1>4, <1>5, <1>6, <1>7, <1>8, <1>9

(* An inode without links has no names.                                    *)
LEMMA NoLinks ==
    ASSUME NEW i \in Inum, LinkedAt(i), disk[i].type # "free", disk[i].nlink = 0
    PROVE  /\ i \notin stranded /\ Links(i) = 0 /\ Names(i) = {} /\ Subdirs(i) = {} /\ Owed(i) = {}
           /\ i # ROOTINO
<1>1. Links(i) \in Nat
  BY LinksFacts
<1>2. i \notin stranded /\ Links(i) = 0
  BY <1>1 DEF LinkedAt
<1> QED
  BY <1>2, LinksFacts

(* An inode that is gone has no links.                                     *)
LEMMA GoneNoLinks ==
    ASSUME IInv, LInv, NEW i \in Inum, UsedAt(i), Gone(i), disk[i].type # "free"
    PROVE  disk[i].nlink = 0
<1>1. Locked /\ Checked
  BY DEF LInv
<1>2. PICK u \in Process : Frees(todo[u]) = i \/ (pc[u] = "create2" /\ local[u].ip = i)
  BY <1>1, GoneFacts
<1>3. CASE Frees(todo[u]) = i
  BY <1>1, <1>3 DEF Checked, CheckedAt, Inum
<1>4. CASE pc[u] = "create2" /\ local[u].ip = i
  BY <1>4 DEF UsedAt
<1> QED
  BY <1>2, <1>3, <1>4

(* Neither the root nor an inode with a name is gone.                      *)
LEMMA NamedNotGone ==
    ASSUME IInv, LInv, Reachable, NEW i \in Inum, LinkedAt(i), UsedAt(i),
           i = ROOTINO \/ \E d \in Inum, n \in Name : dir[d][n] = i
    PROVE  ~Gone(i)
<1>1. disk[i].type # "free"
  BY DEF Reachable, Inum
<1>2. SUFFICES ASSUME Gone(i) PROVE FALSE
  OBVIOUS
<1>3. disk[i].nlink = 0
  BY <1>1, <1>2, GoneNoLinks
<1>4. Names(i) = {} /\ i # ROOTINO
  BY <1>1, <1>3, NoLinks
<1>5. PICK d \in Inum, n \in Name : dir[d][n] = i
  BY <1>4
<1>6. disk[d].type = "dir"
  BY <1>5 DEF LInv, Tree, Inum
<1>7. <<d, n>> \in Names(i)
  BY <1>5, <1>6 DEF Names
<1> QED
  BY <1>4, <1>7

(* What a process finds in a directory that it has is not gone, or the     *)
(* lookup strays.                                                          *)
LEMMA LookupNotGone ==
    ASSUME IInv, LInv, Reachable, \A i \in Inum : LinkedAt(i) /\ UsedAt(i),
           NEW t \in Process, NEW d \in Inum, HasInode(t, d), pc[t] # "create2", disk[d].type = "dir",
           NEW n \in Entry, NEW x \in Inum, x = Dirlookup(d, n)
    PROVE  Strays(n, x) \/ ~Gone(x)
<1>1. Locked /\ UsedAt(d)
  BY DEF LInv
<1>2. ~Gone(d)
  BY <1>1, HeldNotGone
<1>3. CASE n \in Name
  BY <1>3, NamedNotGone DEF Dirlookup
<1>4. CASE n = "."
  <2>1. ~\E u \in Process : pc[u] = "create2" /\ local[u].ip = d
    BY <1>1, <1>2, GoneFacts
  <2>2. dir[d]["."] = d
    BY <2>1, <1>1 DEF UsedAt
  <2> QED
    BY <2>2, <1>2, <1>4 DEF Dirlookup
<1>5. CASE n = ".."
  BY <1>5 DEF Strays
<1> QED
  BY <1>3, <1>4, <1>5 DEF Entry, Dots

-----------------------------------------------------------------------------
(* Quiet steps                                                             *)

(* A step of t, which has no inode locked and locks none.                  *)
Plain(t, s, p, l, x) ==
    /\ todo[t] = <<>> /\ CallLock(pc[t], local[t]) = 0 /\ pc[t] # "create2"
    /\ Went(t, s, p, l) /\ PutsOnly(s) /\ CallLock(p, l) = 0 /\ p \notin {"unlink2", "create2"}
    /\ UNCHANGED <<disk, dir, lock, lost, stranded>>
    /\ \A i \in Inum : /\ cache'[i].ref = cache[i].ref + One(x, i)
                       /\ cache[i].valid /\ cache[i].ref >= 1 => cache'[i].valid
    /\ p \in DpSteps \ {"nameiparent"} => disk[l.dp].type = "dir" /\ ~Freeing(l.dp)
    /\ Linking(p, l) => disk[l.ip].type \notin {"free", "dir"} /\ ~Freeing(l.ip)
    /\ (strayed => strayed') /\ (x # 0 => strayed' \/ ~Gone(x))
    /\ \A i : Owes(p, l, i) <=> Owes(pc[t], local[t], i)

(* The invariants after such a step.                                       *)
LEMMA PlainInv ==
    ASSUME IInv, LInv, AInv, IInv', NEW t \in Process, NEW s, NEW p, NEW l, NEW x, Plain(t, s, p, l, x)
    PROVE  LInv' /\ AInv'
<1>1. /\ ListOK(s) /\ Unlocks(s) = 0 /\ Frees(s) = 0 /\ NotDrop(s) /\ NotDrop(<<>>)
      /\ Unlocks(<<>>) = 0 /\ Frees(<<>>) = 0 /\ t # None
  BY PutsOnlyFacts, FsAssumption DEF Unlocks, Frees, NotDrop, Plain
<1>2. LocksIn(pc[t], local[t], todo[t]) = {} /\ LocksIn(p, l, s) = {}
  BY <1>1 DEF LocksIn, Plain
<1>3. \A i \in Inum : lock[i] # t
  BY <1>2 DEF LInv, Locked
<1>4. LockStep(t, s, p, l)
  BY <1>1, <1>2, <1>3 DEF LockStep, Apart, Plain
<1>5. Finds(p, l)
  BY DEF Finds, Plain
<1>6. Quiet(t, s, p, l, x)
  BY <1>1, <1>4, <1>5 DEF Quiet, Plain
<1> QED
  BY <1>6, QuietLInv, QuietAInv

(* ilock() and iget() keep the copies of inodes in use.                    *)
LEMMA LoadKeeps ==
    ASSUME TypeOK, NEW i \in Inum, NEW c, InMemory(c, i)
    PROVE  c[i].valid /\ \A j \in Inum : (cache[j].valid => c[j].valid) /\ (j # i => c[j] = cache[j])
<1>1. cache \in [Inum -> Inode] /\ cache[i] \in Inode
  BY DEF TypeOK
<1>2. c[i] = Loaded(i) /\ \A j \in Inum \ {i} : c[j] = cache[j]
  BY <1>1 DEF InMemory
<1>3. Loaded(i).valid
  BY <1>1 DEF Loaded, Inode
<1> QED
  BY <1>2, <1>3

(* iget() of x.                                                            *)
LEMMA IgetKeeps ==
    ASSUME NEW c \in [Inum -> Inode], NEW x \in Inum, NEW j \in Inum, c[j].valid, c[j].ref >= 1
    PROVE  Iget(c, x)[j].valid
<1>1. c[j] \in Inode /\ c[x] \in Inode /\ c[j].ref \in Nat
  BY DEF Inode
<1>2. CASE x = j
  <2>1. Iget(c, x) = [c EXCEPT ![x].ref = @ + 1]
    BY <1>1, <1>2 DEF Iget
  <2> QED
    BY <2>1, <1>1, <1>2 DEF Inode
<1>3. CASE x # j
  BY <1>3 DEF Iget
<1> QED
  BY <1>2, <1>3

(* A process goes to a step with its list and its variables.               *)
LEMMA GotoWent ==
    ASSUME IInv, NEW t \in Process, NEW s, NEW p, Goto(t, s, p), UNCHANGED cwd
    PROVE  /\ UNCHANGED local => Went(t, s, p, local[t])
           /\ \A l : local' = [local EXCEPT ![t] = l] => Went(t, s, p, l)
<1>1. /\ todo \in [Process -> Todo] /\ pc \in [Process -> Step] /\ local \in [Process -> Local]
  BY DEF IInv, TypeOK
<1> QED
  BY <1>1 DEF Went, OnlyMoved, Goto, Do

(* A process ends its call.                                                *)
LEMMA FinishWent ==
    ASSUME IInv, NEW t \in Process, NEW s, Finish(t, s), NEW w, cwd' = [cwd EXCEPT ![t] = w]
    PROVE  Went(t, s, "user", Idle)
<1>1. /\ todo \in [Process -> Todo] /\ pc \in [Process -> Step] /\ local \in [Process -> Local]
      /\ cwd \in [Process -> OptInum]
  BY DEF IInv, TypeOK
<1> QED
  BY <1>1 DEF Went, OnlyMoved, Finish, Goto, Do

(* The steps that hold no lock and owe no link.                            *)
EasySteps == {"user", "close", "namei", "nameiparent", "openfd", "chdir", "exec", "link1", "unlink1",
              "create1", "exists"}

(* The end of a call that has changed nothing.                             *)
LEMMA EndPlain ==
    ASSUME IInv, LInv, AInv, IInv', NEW t \in Process, todo[t] = <<>>, pc[t] \in EasySteps,
           CallLock(pc[t], local[t]) = 0, ~Linking(pc[t], local[t]), NEW s, PutsOnly(s),
           NEW p \in {"user", "close"}, Went(t, s, p, local'[t]),
           UNCHANGED <<disk, dir, lock, lost, stranded, strayed>>,
           \A i \in Inum : /\ cache'[i].ref = cache[i].ref
                           /\ cache[i].valid /\ cache[i].ref >= 1 => cache'[i].valid
    PROVE  LInv' /\ AInv'
<1>1. PICK l : l = local'[t]
  OBVIOUS
<1>2. Went(t, s, p, l) /\ CallLock(p, l) = 0 /\ ~Linking(p, l) /\ p \notin DpSteps
  BY <1>1 DEF CallLock, Linking, DpSteps
<1>3. \A i : ~Owes(p, l, i) /\ ~Owes(pc[t], local[t], i)
  BY <1>2 DEF Owes, EasySteps
<1>4. \A i \in Inum : cache'[i].ref = cache[i].ref + One(0, i)
  <2>1. \A i \in Inum : cache[i].ref \in Nat /\ One(0, i) = 0
    BY DEF IInv, TypeOK, Inode, One, Inum
  <2> QED
    BY <2>1
<1>5. Plain(t, s, p, l, 0)
  BY <1>2, <1>3, <1>4 DEF Plain, EasySteps
<1> QED
  BY <1>5, PlainInv

(* A call that has locked and loaded ip ends.                              *)
LEMMA EndAtIp ==
    ASSUME IInv, LInv, AInv, IInv', NEW t \in Process, NEW p \in {"chdir", "exec", "link1", "exists"},
           Runs(t, p), cache' = [cache EXCEPT ![local[t].ip] = Loaded(local[t].ip)],
           NEW x \in Inum, Finish(t, <<Put(x)>>), NEW w, cwd' = [cwd EXCEPT ![t] = w],
           UNCHANGED <<disk, dir, lock, ghosts>>
    PROVE  LInv' /\ AInv'
<1>1. PICK i, c : i = local[t].ip /\ c = [cache EXCEPT ![i] = Loaded(i)] /\ cache' = c
  OBVIOUS
<1>2. /\ TypeOK /\ todo[t] = <<>> /\ pc[t] = p /\ i \in Inum
      /\ \A j \in Inum : c[j].ref = cache[j].ref
  BY <1>1, AtIp
<1>3. \A j \in Inum : cache[j].valid => c[j].valid
  BY <1>1, <1>2, LoadKeeps DEF InMemory
<1>4. PICK s : s = <<Put(x)>>
  OBVIOUS
<1>5. PutsOnly(s) /\ Went(t, s, "user", Idle)
  BY <1>4, PutsLists, FinishWent
<1>6. Went(t, s, "user", local'[t])
  BY <1>5 DEF Went
<1>7. CallLock(pc[t], local[t]) = 0 /\ ~Linking(pc[t], local[t]) /\ pc[t] \in EasySteps
  BY <1>2 DEF CallLock, Linking, EasySteps
<1> QED
  BY <1>1, <1>2, <1>3, <1>5, <1>6, <1>7, EndPlain DEF ghosts

(* exec() reads the program.                                               *)
LEMMA ExecLinks ==
    ASSUME IInv, LInv, AInv, NEW t \in Process, Exec(t)
    PROVE  LInv' /\ AInv'
<1>1. IInv'
  BY ExecInv
<1>2. Runs(t, "exec") /\ cache' = [cache EXCEPT ![local[t].ip] = Loaded(local[t].ip)]
      /\ Finish(t, <<Put(local[t].ip)>>) /\ UNCHANGED <<disk, dir, lock, cwd, ghosts>>
  BY DEF Exec, diskVars
<1>3. local[t].ip \in Inum
  <2>1. PICK c : c = [cache EXCEPT ![local[t].ip] = Loaded(local[t].ip)]
    OBVIOUS
  <2> QED
    BY <2>1, <1>2, AtIp
<1>4. cwd' = [cwd EXCEPT ![t] = cwd[t]]
  BY <1>2 DEF IInv, TypeOK
<1> QED
  BY <1>1, <1>2, <1>3, <1>4, EndAtIp

(* chdir() changes the directory, or finds that ip is none.                *)
LEMMA ChdirLinks ==
    ASSUME IInv, LInv, AInv, NEW t \in Process, Chdir(t)
    PROVE  LInv' /\ AInv'
<1>1. IInv'
  BY ChdirInv
<1>2. Runs(t, "chdir") /\ cache' = [cache EXCEPT ![local[t].ip] = Loaded(local[t].ip)]
      /\ UNCHANGED <<disk, dir, lock, ghosts>>
  BY DEF Chdir, diskVars
<1>3. local[t].ip \in Inum /\ cwd[t] \in Inum
  <2>1. PICK c : c = [cache EXCEPT ![local[t].ip] = Loaded(local[t].ip)]
    OBVIOUS
  <2>2. local[t].ip \in Inum /\ Shape(cwd[t], "chdir", local[t]) /\ TypeOK
    BY <2>1, <1>2, AtIp
  <2> QED
    BY <2>2 DEF Shape, TypeOK, OptInum
<1>4. CASE Finish(t, <<Put(local[t].ip)>>) /\ UNCHANGED cwd
  <2>1. cwd' = [cwd EXCEPT ![t] = cwd[t]]
    BY <1>4 DEF IInv, TypeOK
  <2> QED
    BY <1>1, <1>2, <1>3, <1>4, <2>1, EndAtIp
<1>5. CASE Finish(t, <<Put(cwd[t])>>) /\ cwd' = [cwd EXCEPT ![t] = local[t].ip]
  BY <1>1, <1>2, <1>3, <1>5, EndAtIp
<1> QED
  BY <1>4, <1>5 DEF Chdir

(* A descriptor is closed, by close() or by exit().                        *)
LEMMA CloseLinks ==
    ASSUME IInv, LInv, AInv, NEW t \in Process, At(t) \in {"user", "close"}, NEW d \in Fd, ofile[t][d] # 0,
           CloseFd(t, d), UNCHANGED <<diskVars, cache, lock, cwd, pc, local, panicked, ghosts>>
    PROVE  LInv' /\ AInv'
<1>1. IInv'
  BY CloseFdInv
<1>2. PICK p \in {"user", "close"} : p = At(t)
  OBVIOUS
<1>3. todo[t] = <<>> /\ pc[t] = p
  BY <1>2, Here DEF Step
<1>4. PICK s : s = IF file[ofile[t][d]].ref > 1 THEN <<>> ELSE <<Put(file[ofile[t][d]].ip)>>
  OBVIOUS
<1>5. Do(t, s)
  BY <1>4 DEF CloseFd
<1>6. Went(t, s, p, local'[t])
  BY <1>3, <1>5 DEF Went, OnlyMoved, Do, IInv, TypeOK
<1>7. PutsOnly(s)
  <2>1. s \in Seq(Item)
    BY <1>1, <1>6 DEF IInv, TypeOK, Todo, Item, Went
  <2>2. Len(s) <= 2 /\ \A k \in 1 .. Len(s) : s[k][1] = "put"
    <3>1. CASE s = <<>>
      BY <3>1
    <3>2. CASE s # <<>>
      <4>1. s = <<Put(file[ofile[t][d]].ip)>>
        BY <3>2, <1>4
      <4> QED
        BY <4>1 DEF Put
    <3> QED
      BY <3>1, <3>2
  <2> QED
    BY <2>1, <2>2 DEF PutsOnly
<1>8. CallLock(pc[t], local[t]) = 0 /\ ~Linking(pc[t], local[t]) /\ pc[t] \in EasySteps
  BY <1>3 DEF CallLock, Linking, EasySteps
<1> QED
  BY <1>1, <1>3, <1>6, <1>7, <1>8, EndPlain DEF ghosts, diskVars

(* close().                                                                *)
LEMMA SysCloseLinks ==
    ASSUME IInv, LInv, AInv, NEW t \in Process, SysClose(t)
    PROVE  LInv' /\ AInv'
<1>1. PICK d \in Fd : ofile[t][d] # 0 /\ CloseFd(t, d)
  BY DEF SysClose
<1> QED
  BY <1>1, CloseLinks DEF SysClose

(* exit() closes a descriptor,                                             *)
LEMMA ExitCloseLinks ==
    ASSUME IInv, LInv, AInv, NEW t \in Process, ExitClose(t)
    PROVE  LInv' /\ AInv'
<1>1. PICK d \in Fd : First(d, OpenFds(t)) /\ CloseFd(t, d)
  BY DEF ExitClose
<1>2. ofile[t][d] # 0
  BY <1>1 DEF First, OpenFds
<1> QED
  BY <1>1, <1>2, CloseLinks DEF ExitClose, Runs

(* begins,                                                                 *)
LEMMA ExitLinks ==
    ASSUME IInv, LInv, AInv, NEW t \in Process, Exit(t)
    PROVE  LInv' /\ AInv'
<1>1. IInv'
  BY ExitInv
<1>2. todo[t] = <<>> /\ pc[t] = "user"
  BY Here DEF Step, Exit
<1>3. PICK s : s = <<>>
  OBVIOUS
<1>4. Goto(t, s, "close") /\ UNCHANGED <<diskVars, cache, lock, cwd, local, ghosts>>
  BY <1>3 DEF Exit
<1>5. Went(t, s, "close", local'[t])
  BY <1>4 DEF Went, OnlyMoved, Goto, Do, IInv, TypeOK
<1>6. PutsOnly(s)
  BY <1>3 DEF PutsOnly
<1>7. CallLock(pc[t], local[t]) = 0 /\ ~Linking(pc[t], local[t]) /\ pc[t] \in EasySteps
  BY <1>2 DEF CallLock, Linking, EasySteps
<1> QED
  BY <1>1, <1>2, <1>4, <1>5, <1>6, <1>7, EndPlain DEF ghosts, diskVars

(* and ends.                                                               *)
LEMMA ExitCwdLinks ==
    ASSUME IInv, LInv, AInv, NEW t \in Process, ExitCwd(t)
    PROVE  LInv' /\ AInv'
<1>1. IInv'
  BY ExitCwdInv
<1>2. At(t) = "close" /\ "close" \in Step
  BY DEF Step, ExitCwd, Runs
<1>3. todo[t] = <<>> /\ pc[t] = "close" /\ cwd[t] \in Inum
  BY <1>2, Here DEF Shape, OptInum
<1>4. PICK s : s = <<Put(cwd[t])>>
  OBVIOUS
<1>5. /\ Goto(t, s, "user") /\ UNCHANGED <<diskVars, cache, lock, local, ghosts>>
      /\ cwd' = [cwd EXCEPT ![t] = 0]
  BY <1>4 DEF ExitCwd
<1>6. Went(t, s, "user", local'[t])
  BY <1>5 DEF Went, OnlyMoved, Goto, Do, IInv, TypeOK
<1>7. PutsOnly(s)
  BY <1>3, <1>4, PutsLists
<1>8. CallLock(pc[t], local[t]) = 0 /\ ~Linking(pc[t], local[t]) /\ pc[t] \in EasySteps
  BY <1>3 DEF CallLock, Linking, EasySteps
<1> QED
  BY <1>1, <1>3, <1>5, <1>6, <1>7, <1>8, EndPlain DEF ghosts, diskVars

(* Neither the root nor a current directory is gone.                       *)
LEMMA StartNotGone ==
    ASSUME IInv, LInv, AInv, ~strayed, NEW t \in Process, NEW x \in Inum, x = ROOTINO \/ cwd[t] = x,
           pc[t] # "create2"
    PROVE  ~Gone(x)
<1>1. Locked /\ Reachable /\ LinkedAt(x) /\ UsedAt(x)
  BY DEF LInv, AInv
<1>2. CASE x = ROOTINO
  BY <1>1, <1>2, NamedNotGone
<1>3. CASE cwd[t] = x
  BY <1>1, <1>3, HeldNotGone DEF HasInode
<1> QED
  BY <1>2, <1>3

(* fork() counts the child's current directory.                            *)
LEMMA ForkLinks ==
    ASSUME IInv, LInv, AInv, NEW t \in Process, NEW u \in Process, Fork(t, u)
    PROVE  LInv' /\ AInv'
<1>1. IInv' /\ TypeOK
  BY ForkInv DEF IInv
<1>2. todo[u] = <<>> /\ pc[u] = "user" /\ pc[t] = "user"
  BY Here DEF Step, Fork
<1>3. PICK w : w \in Inum /\ w = cwd[t]
  BY <1>1 DEF Fork, TypeOK, OptInum
<1>4. /\ cache' = Iget(cache, w) /\ cwd' = [cwd EXCEPT ![u] = w]
      /\ UNCHANGED <<disk, dir, lock, pc, todo, local, lost, stranded, strayed>>
  BY <1>3 DEF Fork, diskVars, control, ghosts
<1>5. PICK s, l : s = <<>> /\ l = local[u]
  OBVIOUS
<1>6. Went(u, s, "user", l) /\ PutsOnly(s)
  BY <1>1, <1>2, <1>4, <1>5 DEF Went, OnlyMoved, TypeOK, PutsOnly
<1>7. \A j \in Inum : /\ cache'[j].ref = cache[j].ref + One(w, j)
                      /\ cache[j].valid /\ cache[j].ref >= 1 => cache'[j].valid
  <2>1. cache \in [Inum -> Inode]
    BY <1>1 DEF TypeOK
  <2> QED
    BY <2>1, <1>3, <1>4, IgetFacts, IgetKeeps
<1>8. strayed' \/ ~Gone(w)
  BY <1>2, <1>3, <1>4, StartNotGone
<1>9. CallLock("user", l) = 0 /\ ~Linking("user", l) /\ "user" \notin DpSteps
  BY DEF CallLock, Linking, DpSteps
<1>10. Plain(u, s, "user", l, w)
  BY <1>2, <1>4, <1>5, <1>6, <1>7, <1>8, <1>9 DEF Plain
<1> QED
  BY <1>1, <1>10, PlainInv

(* A process enters a system call with a path.                             *)
LEMMA SysPathLinks ==
    ASSUME IInv, LInv, AInv, NEW t \in Process, NEW c \in Call[t], SysPath(t, c)
    PROVE  LInv' /\ AInv'
<1>1. IInv' /\ TypeOK /\ cwd[t] # 0
  BY SysPathInv DEF IInv, SysPath
<1>2. todo[t] = <<>> /\ pc[t] = "user" /\ local[t] \in Local
  BY Here DEF Step, SysPath
<1>3. c \in AllCalls /\ c.path \in Path
  BY FsAssumption DEF AllCalls
<1>4. PICK x, q, k, p : /\ x = Start(t, c.path) /\ q = Elements(c.path) /\ p = LookupOf(c.op)
                        /\ k = [local[t] EXCEPT !.call = c]
  OBVIOUS
<1>5. x \in Inum /\ q \in Seq(Entry) /\ (x = ROOTINO \/ x = cwd[t]) /\ x \in OptInum
  <2>1. PICK y : y \in Path /\ y = c.path
    BY <1>3
  <2>2. Start(t, y) \in Inum /\ Elements(y) \in Seq(Entry)
    BY <2>1, <1>1, PathFacts
  <2> QED
    BY <2>1, <2>2, <1>4 DEF Start, OptInum
<1>6. k \in Local /\ k.call = c
  BY <1>2, <1>3, <1>4 DEF Local
<1>7. PICK l : l = Walk(k, p, q, x)
  OBVIOUS
<1>8. l.call = c
  BY <1>5, <1>6, <1>7, WalkFacts
<1>9. PICK s : s = <<>>
  OBVIOUS
<1>10. /\ cache' = Iget(cache, x) /\ local' = [local EXCEPT ![t] = l] /\ Goto(t, s, p)
       /\ UNCHANGED <<disk, dir, lock, cwd, lost, stranded, strayed>>
  BY <1>1, <1>4, <1>7, <1>9 DEF SysPath, TypeOK, diskVars, ghosts
<1>11. Went(t, s, p, l) /\ PutsOnly(s)
  <2>1. Goto(t, s, p) /\ local' = [local EXCEPT ![t] = l] /\ UNCHANGED cwd
    BY <1>10
  <2>2. Went(t, s, p, l)
    BY <2>1, GotoWent
  <2> QED
    BY <2>2, <1>9 DEF PutsOnly
<1>12. \A j \in Inum : /\ cache'[j].ref = cache[j].ref + One(x, j)
                       /\ cache[j].valid /\ cache[j].ref >= 1 => cache'[j].valid
  <2>1. cache \in [Inum -> Inode]
    BY <1>1 DEF TypeOK
  <2> QED
    BY <2>1, <1>5, <1>10, IgetFacts, IgetKeeps
<1>13. strayed' \/ ~Gone(x)
  BY <1>2, <1>5, <1>10, StartNotGone
<1>14. /\ p \in {"namei", "nameiparent"} /\ (p = "nameiparent" => l.call.op # "link")
  BY <1>4, <1>8 DEF LookupOf, Creates
<1>15. CallLock(p, l) = 0 /\ ~Linking(p, l) /\ p \notin DpSteps \ {"nameiparent"}
  BY <1>14 DEF CallLock, Linking, DpSteps
<1>16. CallLock(pc[t], local[t]) = 0 /\ ~Linking(pc[t], local[t])
  BY <1>2 DEF CallLock, Linking
<1>17. \A i : ~Owes(p, l, i) /\ ~Owes(pc[t], local[t], i)
  BY <1>2, <1>14, <1>15, <1>16 DEF Owes
<1>18. Plain(t, s, p, l, x)
  BY <1>2, <1>10, <1>11, <1>12, <1>13, <1>14, <1>15, <1>16, <1>17 DEF Plain
<1> QED
  BY <1>1, <1>18, PlainInv

(* namex() returns 0.                                                      *)
LEMMA NotFoundLinks ==
    ASSUME IInv, LInv, AInv, IInv', NEW t \in Process, At(t) \in {"namei", "nameiparent"},
           NotFound(t, Walked(t)), UNCHANGED <<disk, dir, lock, cwd, lost, stranded, strayed>>,
           \A i \in Inum : /\ cache'[i].ref = cache[i].ref
                           /\ cache[i].valid /\ cache[i].ref >= 1 => cache'[i].valid
    PROVE  LInv' /\ AInv'
<1>1. /\ TypeOK /\ todo[t] = <<>> /\ pc[t] = At(t) /\ Walked(t) \in Inum /\ local[t] \in Local
  BY AtWalk
<1>2. PICK s, l : s = <<Put(Walked(t))>> /\ l = local[t]
  OBVIOUS
<1>3. PutsOnly(s) /\ CallLock(pc[t], l) = 0 /\ pc[t] \in EasySteps
  BY <1>1, <1>2, PutsLists DEF CallLock, EasySteps
<1>4. CASE ~(At(t) = "nameiparent" /\ l.call.op = "link")
  <2>1. Finish(t, s) /\ cwd' = [cwd EXCEPT ![t] = cwd[t]]
    BY <1>1, <1>2, <1>4 DEF NotFound, TypeOK
  <2>2. Went(t, s, "user", Idle)
    BY <2>1, FinishWent
  <2>3. Went(t, s, "user", local'[t])
    BY <2>2 DEF Went
  <2>4. ~Linking(pc[t], local[t])
    BY <1>1, <1>2, <1>4 DEF Linking
  <2> QED
    BY <2>3, <2>4, <1>1, <1>2, <1>3, EndPlain
<1>5. CASE At(t) = "nameiparent" /\ l.call.op = "link"
  <2>1. Goto(t, s, "linkbad") /\ UNCHANGED local
    BY <1>2, <1>5 DEF NotFound, LinkFails
  <2>2. Went(t, s, "linkbad", l)
    BY <2>1, <1>2, GotoWent
  <2>3. Linking("linkbad", l) /\ Linking(pc[t], l) /\ CallLock("linkbad", l) = 0 /\ "linkbad" \notin DpSteps
    BY <1>1, <1>5 DEF Linking, CallLock, DpSteps
  <2>4. disk[l.ip].type \notin {"free", "dir"} /\ ~Freeing(l.ip)
    BY <2>3, <1>2 DEF LInv, Checked, CheckedAt
  <2>5. \A i \in Inum : cache'[i].ref = cache[i].ref + One(0, i)
    <3>1. \A i \in Inum : cache[i].ref \in Nat /\ One(0, i) = 0
      BY <1>1 DEF TypeOK, Inode, One, Inum
    <3> QED
      BY <3>1
  <2>6. \A i : Owes("linkbad", l, i) <=> Owes(pc[t], local[t], i)
    BY <2>3, <1>2 DEF Owes
  <2>7. Plain(t, s, "linkbad", l, 0)
    BY <2>2, <2>3, <2>4, <2>5, <2>6, <1>1, <1>2, <1>3, <1>5 DEF Plain
  <2> QED
    BY <2>7, PlainInv
<1> QED
  BY <1>4, <1>5

(* The lookup is over and the call goes on with what it has found.         *)
LEMMA FoundLinks ==
    ASSUME IInv, LInv, AInv, IInv', NEW t \in Process, At(t) \in {"namei", "nameiparent"},
           At(t) = "nameiparent" => disk[local[t].dp].type = "dir" /\ ~Freeing(local[t].dp),
           Goto(t, <<>>, Found(t)), UNCHANGED <<disk, dir, lock, local, cwd, lost, stranded, strayed>>,
           \A i \in Inum : /\ cache'[i].ref = cache[i].ref
                           /\ cache[i].valid /\ cache[i].ref >= 1 => cache'[i].valid
    PROVE  LInv' /\ AInv'
<1>1. /\ TypeOK /\ todo[t] = <<>> /\ pc[t] = At(t) /\ Shape(cwd[t], At(t), local[t])
      /\ local[t].call.op \in PathOp
  BY AtWalk
<1>2. PICK p, l, op, s : p = Found(t) /\ l = local[t] /\ op = local[t].call.op /\ s = <<>>
  OBVIOUS
<1>3. /\ p \notin {"unlink2", "create2", "unlink3"} /\ (p = "openfd" => op # "create")
      /\ p \in DpSteps => At(t) = "nameiparent" /\ p # "nameiparent"
      /\ Linking(p, l) <=> Linking(pc[t], l)
  <2>1. CASE At(t) = "namei"
    <3>1. LookupOf(op) = "namei" /\ p = AfterNamei(op)
      BY <2>1, <1>1, <1>2 DEF Shape, Found
    <3>2. op \in {"open", "openw", "link", "chdir", "exec"}
      BY <3>1, <1>1, <1>2 DEF LookupOf, PathOp, Creates
    <3>3. p \in {"openfd", "link1", "chdir", "exec"}
      BY <3>1, <3>2 DEF AfterNamei
    <3> QED
      BY <3>2, <3>3, <2>1, <1>1 DEF DpSteps, Linking
  <2>2. CASE At(t) = "nameiparent"
    <3>1. p = AfterNameiparent(op)
      BY <2>2, <1>1, <1>2 DEF Found
    <3>2. p \in {"link2", "unlink1", "create1"} /\ (p = "link2" <=> op = "link")
      BY <3>1 DEF AfterNameiparent
    <3> QED
      BY <3>2, <2>2, <1>1, <1>2 DEF DpSteps, Linking
  <2> QED
    BY <2>1, <2>2
<1>4. Went(t, s, p, l) /\ PutsOnly(s)
  <2>1. Goto(t, s, p)
    BY <1>2
  <2>2. Went(t, s, p, l)
    BY <2>1, <1>2, GotoWent
  <2> QED
    BY <2>2, <1>2 DEF PutsOnly
<1>5. CallLock(p, l) = 0 /\ CallLock(pc[t], l) = 0
  BY <1>1, <1>2, <1>3 DEF CallLock
<1>6. p \in DpSteps \ {"nameiparent"} => disk[l.dp].type = "dir" /\ ~Freeing(l.dp)
  BY <1>2, <1>3
<1>7. Linking(p, l) => disk[l.ip].type \notin {"free", "dir"} /\ ~Freeing(l.ip)
  BY <1>2, <1>3 DEF LInv, Checked, CheckedAt
<1>8. \A i \in Inum : cache'[i].ref = cache[i].ref + One(0, i)
  <2>1. \A i \in Inum : cache[i].ref \in Nat /\ One(0, i) = 0
    BY <1>1 DEF TypeOK, Inode, One, Inum
  <2> QED
    BY <2>1
<1>9. \A i : Owes(p, l, i) <=> Owes(pc[t], l, i)
  BY <1>1, <1>3 DEF Owes
<1>10. Plain(t, s, p, l, 0)
  BY <1>1, <1>2, <1>3, <1>4, <1>5, <1>6, <1>7, <1>8, <1>9 DEF Plain
<1> QED
  BY <1>10, PlainInv

(* The path is used up.                                                    *)
LEMMA NamexEndLinks ==
    ASSUME IInv, LInv, AInv, NEW t \in Process, NamexEnd(t)
    PROVE  LInv' /\ AInv'
<1>1. IInv' /\ At(t) \in {"namei", "nameiparent"}
  BY NamexEndInv DEF NamexEnd
<1>2. cache' = cache /\ UNCHANGED <<disk, dir, lock, cwd, lost, stranded, strayed>>
  BY DEF NamexEnd, diskVars, ghosts
<1>3. CASE At(t) = "namei"
  <2>1. Goto(t, <<>>, Found(t)) /\ UNCHANGED local
    BY <1>3 DEF NamexEnd
  <2> QED
    BY <2>1, <1>1, <1>2, <1>3, FoundLinks
<1>4. CASE At(t) = "nameiparent"
  <2>1. NotFound(t, Walked(t))
    BY <1>4 DEF NamexEnd, Walked
  <2> QED
    BY <2>1, <1>1, <1>2, NotFoundLinks
<1> QED
  BY <1>1, <1>3, <1>4

(* Nobody frees an inode whose lock is free.                               *)
LEMMA LockFree ==
    ASSUME LInv, NEW i \in Inum, lock[i] = None
    PROVE  ~Freeing(i) /\ \A u \in Process : ~Owns(u, i) /\ i \notin LocksIn(pc[u], local[u], todo[u])
<1>1. ASSUME NEW u \in Process PROVE i \notin LocksIn(pc[u], local[u], todo[u])
  BY FsAssumption DEF LInv, Locked
<1>2. \A u \in Process : Frees(todo[u]) # i /\ CallLock(pc[u], local[u]) # i
  BY <1>1 DEF LocksIn, Inum
<1> QED
  BY <1>1, <1>2 DEF Freeing, Owns

(* One element of the path.                                                *)
LEMMA NamexLinks ==
    ASSUME IInv, LInv, AInv, NEW t \in Process, Namex(t)
    PROVE  LInv' /\ AInv'
<1>0. IInv'
  BY NamexInv
<1>1. PICK i, c, name, x : /\ i = Walked(t) /\ c = [cache EXCEPT ![i] = Loaded(i)]
                           /\ name = Head(local[t].path) /\ x = Dirlookup(i, name)
  OBVIOUS
<1>2. /\ At(t) \in {"namei", "nameiparent"} /\ Runs(t, At(t)) /\ local[t].path # <<>>
      /\ UNCHANGED <<disk, dir, lock, cwd, lost, stranded>>
  BY DEF Namex, diskVars
<1>3. /\ TypeOK /\ Coherent /\ todo[t] = <<>> /\ pc[t] = At(t) /\ local[t] \in Local /\ i \in Inum
      /\ At(t) = "namei" => IpIn(pc[t], local[t]) = i
      /\ At(t) = "nameiparent" => DpIn(pc[t], local[t]) = i
  BY <1>1, <1>2, AtWalk
<1>4. name \in Entry /\ Tail(local[t].path) \in Seq(Entry)
  <2>1. local[t].path \in Seq(Entry)
    BY <1>3 DEF Local
  <2> QED
    BY <2>1, <1>1, <1>2
<1>5. ~NoType(i) /\ lock[i] = None
  <2>1. LockTarget(t) = i /\ i # 0 /\ At(t) # "put"
    BY <1>1, <1>2, <1>3 DEF LockTarget, Inum
  <2> QED
    BY <2>1, <1>2 DEF Runs
<1>6. /\ c \in [Inum -> Inode] /\ Copies(c, disk) /\ c[i].valid
      /\ \A j \in Inum : c[j].ref = cache[j].ref /\ (cache[j].valid => c[j].valid)
  <2>1. TypeOK /\ Coherent /\ i \in Inum /\ ~NoType(i) /\ InMemory(c, i)
    BY <1>1, <1>3, <1>5 DEF InMemory
  <2>2. /\ c \in [Inum -> Inode] /\ Copies(c, disk)
        /\ \A j \in Inum : c[j].ref = cache[j].ref
    BY <2>1, LoadFacts, Zenon
  <2>3. c[i].valid /\ \A j \in Inum : cache[j].valid => c[j].valid
    BY <2>1, LoadKeeps
  <2> QED
    BY <2>2, <2>3
<1>7. disk[i].type = c[i].type /\ ~Freeing(i)
  BY <1>3, <1>5, <1>6, LockFree DEF Copies
<1>8. CASE cache' = c /\ strayed' = strayed /\ NotFound(t, i)
  BY <1>0, <1>1, <1>2, <1>6, <1>8, NotFoundLinks
<1>9. CASE c[i].type = "dir" /\ cache' = c /\ Goto(t, <<>>, Found(t)) /\ UNCHANGED <<local, strayed>>
  <2>1. At(t) = "nameiparent" => local[t].dp = i
    BY <1>1 DEF Walked
  <2>2. At(t) = "nameiparent" => disk[local[t].dp].type = "dir" /\ ~Freeing(local[t].dp)
    BY <2>1, <1>7, <1>9
  <2> QED
    BY <2>2, <1>0, <1>2, <1>6, <1>9, FoundLinks
<1>10. CASE /\ c[i].type = "dir" /\ x # 0 /\ cache' = Iget(c, x) /\ Goto(t, <<Put(i)>>, pc[t])
            /\ local' = [local EXCEPT ![t] = Walk(local[t], pc[t], Tail(local[t].path), x)]
            /\ strayed' = (strayed \/ Strays(name, x))
  <2>1. x \in Inum /\ x \in OptInum
    BY <1>1, <1>3, <1>4, <1>10, LookupType DEF OptInum
  <2>2. \A j \in Inum : /\ cache'[j].ref = cache[j].ref + One(x, j)
                        /\ cache[j].valid /\ cache[j].ref >= 1 => cache'[j].valid
    BY <2>1, <1>6, <1>10, IgetFacts, IgetKeeps
  <2>3. PICK l, k, q, p, s : /\ q = Tail(local[t].path) /\ k = local[t] /\ p = pc[t] /\ s = <<Put(i)>>
                             /\ l = Walk(local[t], pc[t], Tail(local[t].path), x)
    OBVIOUS
  <2>4. p \in {"namei", "nameiparent"} /\ k \in Local /\ q \in Seq(Entry) /\ l = Walk(k, p, q, x)
    BY <2>3, <1>2, <1>3, <1>4
  <2>5. /\ l.call = k.call /\ (p # "namei" => l.ip = k.ip)
    BY <2>1, <2>4, WalkFacts
  <2>6. Went(t, s, p, l) /\ PutsOnly(s)
    <3>1. Goto(t, s, p) /\ local' = [local EXCEPT ![t] = l] /\ UNCHANGED cwd
      BY <2>3, <1>2, <1>10
    <3>2. Went(t, s, p, l)
      BY <3>1, GotoWent
    <3> QED
      BY <3>2, <2>3, <1>3, PutsLists
  <2>7. (Linking(p, l) <=> Linking(p, k)) /\ (Linking(p, l) => l.ip = k.ip)
    BY <2>4, <2>5 DEF Linking
  <2>8. Linking(p, l) => disk[l.ip].type \notin {"free", "dir"} /\ ~Freeing(l.ip)
    BY <2>3, <2>7 DEF LInv, Checked, CheckedAt
  <2>9. \A j : Owes(p, l, j) <=> Owes(pc[t], local[t], j)
    BY <2>3, <2>4, <2>7 DEF Owes
  <2>10. strayed' \/ ~Gone(x)
    <3>1. SUFFICES ASSUME ~strayed PROVE Strays(name, x) \/ ~Gone(x)
      BY <1>10
    <3>2. Reachable /\ \A j \in Inum : LinkedAt(j) /\ UsedAt(j)
      BY <3>1 DEF AInv
    <3>3. HasInode(t, i) /\ pc[t] # "create2" /\ disk[i].type = "dir"
      BY <1>2, <1>3, <1>7, <1>10 DEF HasInode
    <3> QED
      BY <3>2, <3>3, <2>1, <1>1, <1>3, <1>4, LookupNotGone
  <2>11. CallLock(p, l) = 0 /\ CallLock(p, k) = 0
    BY <2>4 DEF CallLock
  <2>12. Plain(t, s, p, l, x)
    <3>1. strayed => strayed'
      BY <1>10
    <3>2. p \notin DpSteps \ {"nameiparent"}
      BY <2>4 DEF DpSteps
    <3> QED
      BY <3>1, <3>2, <2>2, <2>3, <2>4, <2>6, <2>8, <2>9, <2>10, <2>11, <1>2, <1>3 DEF Plain
  <2> QED
    BY <2>12, <1>0, PlainInv
<1> QED
  BY <1>1, <1>8, <1>9, <1>10 DEF Namex

-----------------------------------------------------------------------------
(* Quiet steps that take or release a lock                                 *)

(* Both invariants.                                                        *)
LEMMA QuietInv ==
    ASSUME IInv, LInv, AInv, IInv', NEW t \in Process, NEW s, NEW p, NEW l, NEW x, Quiet(t, s, p, l, x)
    PROVE  LInv' /\ AInv'
BY QuietLInv, QuietAInv

(* A process takes the lock of d.                                          *)
LEMMA TakeLock ==
    ASSUME IInv, LInv, NEW t \in Process, NEW d \in Inum, lock[d] = None, lock' = [lock EXCEPT ![d] = t],
           NEW s, NEW p, NEW l, ListOK(s), Apart(p, l, s),
           LocksIn(p, l, s) = LocksIn(pc[t], local[t], todo[t]) \union {d}
    PROVE  LockStep(t, s, p, l)
<1>1. lock \in [Inum -> OptHolder] /\ \A i \in Inum : lock[i] = t <=> i \in LocksIn(pc[t], local[t], todo[t])
  BY DEF IInv, TypeOK, LInv, Locked
<1>2. lock'[d] = t /\ \A i \in Inum \ {d} : lock'[i] = lock[i]
  BY <1>1
<1> QED
  BY <1>1, <1>2 DEF LockStep

(* It releases the lock.                                                   *)
LEMMA ReleaseLock ==
    ASSUME IInv, LInv, NEW t \in Process, NEW d \in Inum, lock' = [lock EXCEPT ![d] = None],
           NEW s, NEW p, NEW l, ListOK(s), Apart(p, l, s),
           d \in LocksIn(pc[t], local[t], todo[t]),
           LocksIn(p, l, s) = LocksIn(pc[t], local[t], todo[t]) \ {d}
    PROVE  LockStep(t, s, p, l)
<1>1. lock \in [Inum -> OptHolder] /\ \A i \in Inum : lock[i] = t <=> i \in LocksIn(pc[t], local[t], todo[t])
  BY DEF IInv, TypeOK, LInv, Locked
<1>2. lock'[d] = None /\ lock[d] = t /\ t # None /\ \A i \in Inum \ {d} : lock'[i] = lock[i]
  BY <1>1, FsAssumption
<1> QED
  BY <1>1, <1>2 DEF LockStep

(* It keeps the locks it has.                                              *)
LEMMA KeepLocks ==
    ASSUME LInv, NEW t \in Process, lock' = lock,
           NEW s, NEW p, NEW l, ListOK(s), Apart(p, l, s),
           LocksIn(p, l, s) = LocksIn(pc[t], local[t], todo[t])
    PROVE  LockStep(t, s, p, l)
BY DEF LInv, Locked, LockStep

(* It gives the lock of d up and takes that of i.                          *)
LEMMA SwapLocks ==
    ASSUME IInv, LInv, NEW t \in Process, NEW d \in Inum, NEW i \in Inum, i # d, lock[i] = None,
           lock' = [lock EXCEPT ![d] = None, ![i] = t],
           NEW s, NEW p, NEW l, ListOK(s), Apart(p, l, s),
           LocksIn(pc[t], local[t], todo[t]) = {d}, LocksIn(p, l, s) = {i}
    PROVE  LockStep(t, s, p, l)
<1>1. lock \in [Inum -> OptHolder] /\ \A j \in Inum : lock[j] = t <=> j \in LocksIn(pc[t], local[t], todo[t])
  BY DEF IInv, TypeOK, LInv, Locked
<1>2. /\ lock'[d] = None /\ lock'[i] = t /\ lock[d] = t /\ t # None
      /\ \A j \in Inum \ {d, i} : lock'[j] = lock[j]
  BY <1>1, FsAssumption
<1> QED
  BY <1>1, <1>2 DEF LockStep

(* The lists of the code hold the lock they release.                       *)
LEMMA ListLocks ==
    ASSUME NEW x \in Inum, NEW d \in Inum, NEW s
    PROVE  /\ s = <<>> => ListOK(s) /\ Unlocks(s) = 0 /\ Frees(s) = 0 /\ NotDrop(s)
           /\ s = <<Put(x)>> => ListOK(s) /\ Unlocks(s) = 0 /\ Frees(s) = 0 /\ NotDrop(s)
           /\ s = PutLocked(x, d) => ListOK(s) /\ Unlocks(s) = d /\ Frees(s) = 0 /\ NotDrop(s)
<1>1. s = <<>> => ListOK(s) /\ Unlocks(s) = 0 /\ Frees(s) = 0 /\ NotDrop(s)
  BY DEF ListOK, Unlocks, Frees, NotDrop
<1>2. s = <<Put(x)>> => ListOK(s) /\ Unlocks(s) = 0 /\ Frees(s) = 0 /\ NotDrop(s)
  BY PutsLists, PutsOnlyFacts DEF NotDrop
<1>3. ASSUME s = PutLocked(x, d) PROVE ListOK(s) /\ Unlocks(s) = d /\ Frees(s) = 0 /\ NotDrop(s)
  <2>1. PICK u : u = <<"unlock", d>>
    OBVIOUS
  <2>2. s = <<Put(x), u, Put(d)>> /\ u[1] = "unlock" /\ u[2] = d
    BY <2>1, <1>3 DEF PutLocked
  <2>3. Len(s) = 3 /\ s[1] = Put(x) /\ s[2] = u /\ s[3] = Put(d) /\ s # <<>>
    BY <2>2
  <2>4. Put(x)[1] = "put" /\ Put(d)[1] = "put"
    BY DEF Put
  <2> QED
    BY <2>2, <2>3, <2>4 DEF ListOK, Unlocks, Frees, NotDrop, PutStep
<1> QED
  BY <1>1, <1>2, <1>3

(* dp of the call, locked and loaded: a directory that is not being freed. *)
HasDirectory(t, p, d, c) ==
    /\ TypeOK /\ todo[t] = <<>> /\ pc[t] = p /\ local[t] \in Local /\ d \in Inum
    /\ Shape(cwd[t], p, local[t])
    /\ local[t].path[1] \in Entry /\ HasInode(t, d) /\ CallLock(pc[t], local[t]) = 0
    /\ p = "link2" => local[t].ip \in Inum /\ HasInode(t, local[t].ip)
    /\ lock[d] = None /\ ~Freeing(d) /\ disk[d].type = "dir"
    /\ c \in [Inum -> Inode] /\ Copies(c, disk) /\ c[d].valid
    /\ cache[d].ref >= 1
    /\ \A j \in Inum : c[j].ref = cache[j].ref /\ (cache[j].valid => c[j].valid)

(* The steps that lock dp find it so.                                      *)
LEMMA AtDirectory ==
    ASSUME IInv, LInv, NEW t \in Process, NEW p \in {"link2", "unlink1", "create1"}, Runs(t, p),
           NEW d, d = local[t].dp, NEW c, InMemory(c, d)
    PROVE  HasDirectory(t, p, d, c)
<1>0. c = [cache EXCEPT ![local[t].dp] = Loaded(local[t].dp)]
  BY DEF InMemory
<1>1. /\ TypeOK /\ todo[t] = <<>> /\ pc[t] = p /\ local[t] \in Local /\ d \in Inum
      /\ Shape(cwd[t], p, local[t]) /\ local[t].path[1] \in Entry /\ DpIn(pc[t], local[t]) = d
      /\ p = "link2" => local[t].ip \in Inum /\ IpIn(pc[t], local[t]) = local[t].ip
      /\ c \in [Inum -> Inode] /\ Copies(c, disk)
      /\ \A j \in Inum : c[j].ref = cache[j].ref
  <2>1. /\ TypeOK /\ Coherent /\ todo[t] = <<>> /\ pc[t] = p /\ At(t) = p /\ local[t] \in Local
        /\ Shape(cwd[t], p, local[t])
        /\ local[t].dp \in Inum /\ DpIn(pc[t], local[t]) = local[t].dp
        /\ p = "link2" => local[t].ip \in Inum /\ IpIn(pc[t], local[t]) = local[t].ip
        /\ p # "link2" => IpIn(pc[t], local[t]) = 0
        /\ local[t].path[1] \in Entry
        /\ c \in [Inum -> Inode] /\ Copies(c, disk)
        /\ \A j \in Inum : c[j].ref = cache[j].ref
    BY <1>0, AtDp, ZenonT(60)
  <2> QED
    BY <2>1
<1>2. lock[d] = None
  BY <1>1, LocksDp DEF Inum
<1>3. ~Freeing(d)
  BY <1>1, <1>2, LockFree
<1>4. disk[d].type = "dir" /\ CallLock(pc[t], local[t]) = 0
  BY <1>1 DEF LInv, Checked, CheckedAt, DpSteps, CallLock
<1>5. c[d].valid /\ \A j \in Inum : cache[j].valid => c[j].valid
  BY <1>1, LoadKeeps DEF InMemory
<1>6. HasInode(t, d) /\ (p = "link2" => HasInode(t, local[t].ip))
  BY <1>1 DEF HasInode
<1>7. cache[d].ref >= 1
  <2>1. /\ cache[d].ref >= Cardinality(Heads(d)) + 1 /\ Cardinality(Heads(d)) \in Nat /\ cache[d].ref \in Nat
    BY <1>1, <1>6, HeldMore
  <2> QED
    BY <2>1
<1> QED
  BY <1>1, <1>2, <1>3, <1>4, <1>5, <1>6, <1>7 DEF HasDirectory

(* Create finds the name.                                                  *)
LEMMA CreateFoundLinks ==
    ASSUME IInv, LInv, AInv, IInv', NEW t \in Process, Runs(t, "create1"),
           NEW d, d = local[t].dp, NEW c, InMemory(c, d),
           NEW x, x = Dirlookup(d, local[t].path[1]), x # 0,
           cache' = Iget(c, x), NewIp(t, x), Goto(t, <<Put(d)>>, "exists"),
           strayed' = (strayed \/ Strays(local[t].path[1], x)),
           UNCHANGED <<disk, dir, lock, cwd, lost, stranded>>
    PROVE  LInv' /\ AInv'
<1>1. PICK n, p : n = local[t].path[1] /\ p = "create1"
  OBVIOUS
<1>2. Runs(t, p) /\ p \in {"link2", "unlink1", "create1"}
  BY <1>1
<1>3. /\ TypeOK /\ todo[t] = <<>> /\ pc[t] = p /\ local[t] \in Local /\ d \in Inum
      /\ local[t].path[1] \in Entry /\ HasInode(t, d) /\ CallLock(pc[t], local[t]) = 0
      /\ disk[d].type = "dir" /\ c \in [Inum -> Inode]
      /\ \A j \in Inum : c[j].ref = cache[j].ref /\ (cache[j].valid => c[j].valid)
  <2>1. HasDirectory(t, p, d, c)
    BY <1>2, AtDirectory
  <2> QED
    BY <2>1, <1>1 DEF HasDirectory
<1>4. x \in Inum
  BY <1>3, LookupType
<1>5. PICK l \in Local : /\ l.ip = x /\ l.call = local[t].call /\ local' = [local EXCEPT ![t] = l]
  BY <1>3, <1>4, SetIp
<1>6. PICK s : s = <<Put(d)>>
  OBVIOUS
<1>7. Went(t, s, "exists", l) /\ PutsOnly(s)
  <2>1. Goto(t, s, "exists") /\ local' = [local EXCEPT ![t] = l] /\ UNCHANGED cwd
    BY <1>5, <1>6
  <2>2. Went(t, s, "exists", l)
    BY <2>1, GotoWent
  <2> QED
    BY <2>2, <1>3, <1>6, PutsLists
<1>8. \A j \in Inum : /\ cache'[j].ref = cache[j].ref + One(x, j)
                      /\ cache[j].valid /\ cache[j].ref >= 1 => cache'[j].valid
  <2>1. \A j \in Inum : Iget(c, x)[j].ref = c[j].ref + One(x, j)
    BY <1>3, <1>4, IgetFacts
  <2>2. \A j \in Inum : c[j].valid /\ c[j].ref >= 1 => Iget(c, x)[j].valid
    BY <1>3, <1>4, IgetKeeps
  <2> QED
    BY <2>1, <2>2, <1>3
<1>9. strayed' \/ ~Gone(x)
  <2>1. SUFFICES ASSUME ~strayed PROVE Strays(n, x) \/ ~Gone(x)
    BY <1>1
  <2>2. Reachable /\ \A j \in Inum : LinkedAt(j) /\ UsedAt(j)
    BY <2>1 DEF AInv
  <2>3. pc[t] # "create2" /\ n \in Entry /\ x = Dirlookup(d, n)
    BY <1>1, <1>3
  <2> QED
    BY <2>2, <2>3, <1>3, <1>4, LookupNotGone
<1>10. CallLock("exists", l) = 0 /\ ~Linking("exists", l) /\ ~Linking(p, local[t])
       /\ "exists" \notin DpSteps
  BY <1>1 DEF CallLock, Linking, DpSteps
<1>11. \A i : ~Owes("exists", l, i) /\ ~Owes(p, local[t], i)
  BY <1>1, <1>10, SMTT(40) DEF Owes
<1>12. Plain(t, s, "exists", l, x)
  BY <1>1, <1>3, <1>7, <1>8, <1>9, <1>10, <1>11 DEF Plain
<1> QED
  BY <1>12, PlainInv

(* unlink() looks for the name.                                            *)
LEMMA Unlink1Links ==
    ASSUME IInv, LInv, AInv, NEW t \in Process, Unlink1(t)
    PROVE  LInv' /\ AInv'
<1>0. IInv'
  BY Unlink1Inv
<1>1. PICK n, p, d, c, x : /\ n = local[t].path[1] /\ p = "unlink1" /\ d = local[t].dp
                           /\ InMemory(c, d) /\ x = Dirlookup(d, n)
  BY DEF InMemory
<1>2. /\ Runs(t, p) /\ p \in {"link2", "unlink1", "create1"}
      /\ UNCHANGED <<disk, dir, cwd, lost, stranded, strayed>>
  BY <1>1 DEF Unlink1, diskVars, ghosts
<1>3. /\ TypeOK /\ todo[t] = <<>> /\ pc[t] = p /\ local[t] \in Local /\ d \in Inum
      /\ local[t].path[1] \in Entry /\ HasInode(t, d) /\ CallLock(pc[t], local[t]) = 0
      /\ lock[d] = None /\ ~Freeing(d) /\ cache[d].ref >= 1
      /\ disk[d].type = "dir" /\ c \in [Inum -> Inode] /\ c[d].valid
      /\ \A j \in Inum : c[j].ref = cache[j].ref /\ (cache[j].valid => c[j].valid)
  <2>1. HasDirectory(t, p, d, c)
    BY <1>1, <1>2, AtDirectory
  <2> QED
    BY <2>1, <1>1 DEF HasDirectory
<1>4. ~Linking(pc[t], local[t]) /\ pc[t] \in EasySteps
  BY <1>1, <1>3 DEF Linking, EasySteps
<1>5. CASE cache' = c /\ Finish(t, <<Put(d)>>) /\ UNCHANGED lock
  <2>1. PICK s : s = <<Put(d)>>
    OBVIOUS
  <2>2. Finish(t, s) /\ cwd' = [cwd EXCEPT ![t] = cwd[t]]
    BY <2>1, <1>2, <1>3, <1>5 DEF TypeOK
  <2>3. PutsOnly(s) /\ Went(t, s, "user", Idle)
    BY <2>1, <2>2, <1>3, PutsLists, FinishWent
  <2>4. Went(t, s, "user", local'[t])
    BY <2>3 DEF Went
  <2> QED
    BY <2>3, <2>4, <1>0, <1>2, <1>3, <1>4, <1>5, EndPlain
<1>6. CASE /\ n \notin CannotUnlink /\ x # 0 /\ cache' = Iget(c, x) /\ lock' = [lock EXCEPT ![d] = t]
           /\ NewIp(t, x) /\ Goto(t, <<>>, "unlink2")
  <2>1. x \in Inum /\ n \in Name
    BY <1>1, <1>3, <1>6, LookupType DEF CannotUnlink, Entry
  <2>2. PICK l \in Local : /\ l.ip = x /\ l.dp = d /\ l.path = local[t].path
                           /\ l.call = local[t].call /\ local' = [local EXCEPT ![t] = l]
    BY <2>1, <1>1, <1>3, <1>6, SetIp
  <2>3. PICK s : s = <<>>
    OBVIOUS
  <2>4. Went(t, s, "unlink2", l)
    <3>1. Goto(t, s, "unlink2") /\ local' = [local EXCEPT ![t] = l] /\ UNCHANGED cwd
      BY <2>2, <2>3, <1>2, <1>6
    <3> QED
      BY <3>1, GotoWent
  <2>5. \A j \in Inum : /\ cache'[j].ref = cache[j].ref + One(x, j)
                        /\ cache[j].valid /\ cache[j].ref >= 1 => cache'[j].valid
    BY <2>1, <1>3, <1>6, IgetFacts, IgetKeeps
  <2>6. strayed' \/ ~Gone(x)
    <3>1. SUFFICES ASSUME ~strayed PROVE ~Gone(x)
      BY <1>2
    <3>2. Reachable /\ LinkedAt(x) /\ UsedAt(x)
      BY <3>1, <2>1 DEF AInv
    <3>3. dir[d][n] = x
      BY <1>1 DEF Dirlookup
    <3> QED
      BY <3>2, <3>3, <2>1, <1>3, NamedNotGone
  <2>7. CallLock("unlink2", l) = d /\ ~Linking("unlink2", l) /\ d # 0
    BY <2>2, <1>3 DEF CallLock, Linking, Inum
  <2>8. /\ ListOK(s) /\ Unlocks(s) = 0 /\ Frees(s) = 0 /\ NotDrop(s) /\ todo[t] = s
    BY <2>3, <1>3, ListLocks
  <2>9. Apart("unlink2", l, s) /\ LocksIn("unlink2", l, s) = LocksIn(pc[t], local[t], todo[t]) \union {d}
    BY <2>3, <2>7, <2>8, <1>3 DEF Apart, LocksIn
  <2>10. LockStep(t, s, "unlink2", l)
    BY <2>8, <2>9, <1>3, <1>6, TakeLock
  <2>11. Finds("unlink2", l)
    <3>1. cache'[d].valid
      BY <1>3, <1>6, <2>1, IgetKeeps
    <3>2. l.path[1] \in Name /\ dir[l.dp][l.path[1]] = l.ip
      BY <2>1, <2>2, <1>1 DEF Dirlookup
    <3> QED
      BY <3>1, <3>2, <2>2, <2>7, <1>3 DEF Finds
  <2>12. \A i : Owes("unlink2", l, i) <=> Owes(pc[t], local[t], i)
    BY <2>7, <1>1, <1>3, <1>4 DEF Owes
  <2>13. Quiet(t, s, "unlink2", l, x)
    BY <2>4, <2>5, <2>6, <2>8, <2>10, <2>11, <2>12, <1>1, <1>2, <1>3 DEF Quiet
  <2> QED
    BY <2>13, <1>0, QuietInv
<1> QED
  BY <1>1, <1>5, <1>6 DEF Unlink1, NewIp, InMemory

(* The name exists.                                                        *)
LEMMA ExistsLinks ==
    ASSUME IInv, LInv, AInv, NEW t \in Process, Exists(t)
    PROVE  LInv' /\ AInv'
<1>0. IInv'
  BY ExistsInv
<1>1. PICK p, i, c : p = "exists" /\ i = local[t].ip /\ c = [cache EXCEPT ![i] = Loaded(i)]
  OBVIOUS
<1>2. Runs(t, p) /\ cache' = c /\ UNCHANGED <<disk, dir, cwd, ghosts>>
  BY <1>1 DEF Exists, diskVars
<1>3. /\ TypeOK /\ todo[t] = <<>> /\ pc[t] = p /\ i \in Inum /\ lock[i] = None
      /\ \A j \in Inum : c[j].ref = cache[j].ref
  BY <1>1, <1>2, AtIp, LocksIp DEF Inum
<1>4. CASE Finish(t, <<Put(i)>>) /\ UNCHANGED lock
  <2>1. cwd' = [cwd EXCEPT ![t] = cwd[t]]
    BY <1>2, <1>3 DEF TypeOK
  <2> QED
    BY <2>1, <1>0, <1>1, <1>2, <1>3, <1>4, EndAtIp
<1>5. CASE /\ local[t].call.op = "create" /\ lock' = [lock EXCEPT ![i] = t]
           /\ Goto(t, <<>>, "openfd") /\ UNCHANGED local
  <2>1. PICK s, l, q : s = <<>> /\ l = local[t] /\ q = "openfd"
    OBVIOUS
  <2>2. Went(t, s, q, l)
    <3>1. Goto(t, s, q) /\ UNCHANGED <<cwd, local>>
      BY <2>1, <1>2, <1>5
    <3> QED
      BY <3>1, <2>1, GotoWent
  <2>3. c[i].valid /\ \A j \in Inum : cache[j].valid => c[j].valid
    BY <1>1, <1>3, LoadKeeps DEF InMemory
  <2>4. CallLock(q, l) = i /\ ~Linking(q, l) /\ i # 0 /\ CallLock(p, l) = 0 /\ ~Linking(p, l)
    BY <2>1, <1>1, <1>3, <1>5 DEF CallLock, Linking, Inum
  <2>5. /\ ListOK(s) /\ Unlocks(s) = 0 /\ Frees(s) = 0 /\ NotDrop(s) /\ todo[t] = s
    BY <2>1, <1>3, ListLocks
  <2>6. Apart(q, l, s) /\ LocksIn(q, l, s) = LocksIn(pc[t], local[t], todo[t]) \union {i}
    BY <2>1, <2>4, <2>5, <1>3 DEF Apart, LocksIn
  <2>7. LockStep(t, s, q, l)
    BY <2>5, <2>6, <1>3, <1>5, TakeLock
  <2>8. Finds(q, l)
    BY <2>1, <2>3, <2>4, <1>2 DEF Finds, DpSteps
  <2>9. \A j : Owes(q, l, j) <=> Owes(pc[t], local[t], j)
    BY <2>1, <2>4, <1>1, <1>3 DEF Owes
  <2>10. \A j \in Inum : cache'[j].ref = cache[j].ref + One(0, j)
    <3>1. \A j \in Inum : cache[j].ref \in Nat /\ One(0, j) = 0
      BY <1>3 DEF TypeOK, Inode, One, Inum
    <3> QED
      BY <3>1, <1>2, <1>3
  <2>11. Quiet(t, s, q, l, 0)
    <3>1. pc[t] # "create2" /\ q # "create2"
      BY <2>1, <1>1, <1>3
    <3> QED
      BY <3>1, <2>2, <2>3, <2>5, <2>7, <2>8, <2>9, <2>10, <1>2 DEF Quiet, ghosts
  <2> QED
    BY <2>11, <1>0, QuietInv
<1> QED
  BY <1>1, <1>4, <1>5 DEF Exists

(* A step without a new reference.                                         *)
LEMMA SameRefs ==
    ASSUME IInv, NEW c, \A j \in Inum : c[j].ref = cache[j].ref
    PROVE  \A j \in Inum : c[j].ref = cache[j].ref + One(0, j)
<1>1. \A j \in Inum : cache[j].ref \in Nat /\ One(0, j) = 0
  BY DEF IInv, TypeOK, Inode, One, Inum
<1> QED
  BY <1>1

(* A file is opened, or the open fails.                                    *)
LEMMA OpenFdLinks ==
    ASSUME IInv, LInv, AInv, NEW t \in Process, OpenFd(t)
    PROVE  LInv' /\ AInv'
<1>0. IInv'
  BY OpenFdInv
<1>1. PICK p, i, l : p = "openfd" /\ i = local[t].ip /\ l = local[t]
  OBVIOUS
<1>2. /\ At(t) = p /\ p \in Step /\ UNCHANGED <<disk, dir, cwd, lost, stranded, strayed>>
  BY <1>1 DEF OpenFd, Runs, Step, diskVars, ghosts
<1>3. TypeOK /\ todo[t] = <<>> /\ pc[t] = p /\ i \in Inum /\ l \in Local
  BY <1>1, <1>2, Here DEF UsesIp, IpSteps, IInv
<1>4. PICK s \in {<<>>, <<Put(i)>>} : Finish(t, s)
  BY <1>1 DEF OpenFd
<1>5. Went(t, s, "user", Idle)
  <2>1. cwd' = [cwd EXCEPT ![t] = cwd[t]]
    BY <1>2, <1>3 DEF TypeOK
  <2> QED
    BY <2>1, <1>4, FinishWent
<1>6. /\ ListOK(s) /\ Unlocks(s) = 0 /\ Frees(s) = 0 /\ NotDrop(s) /\ PutsOnly(s)
      /\ Unlocks(<<>>) = 0 /\ Frees(<<>>) = 0 /\ NotDrop(<<>>)
  BY <1>3, <1>4, ListLocks, PutsLists
<1>7. lock[i] = t <=> CallLock(p, l) = i
  <2>1. lock[i] = t <=> i \in LocksIn(pc[t], local[t], todo[t])
    BY <1>3 DEF LInv, Locked
  <2> QED
    BY <2>1, <1>1, <1>3, <1>6 DEF LocksIn, Inum
<1>8. /\ CallLock(p, l) \in {0, i} /\ i # 0 /\ ~Linking(p, l) /\ p \in EasySteps
      /\ ~Linking("user", Idle) /\ CallLock("user", Idle) = 0 /\ "user" \notin DpSteps
  BY <1>1, <1>3 DEF CallLock, Linking, EasySteps, DpSteps, Inum
<1>9. CASE lock[i] # t
  <2>1. PICK c : c = [cache EXCEPT ![i] = Loaded(i)] /\ cache' = c /\ lock' = lock
    BY <1>1, <1>9 DEF OpenFd
  <2>2. \A j \in Inum : c[j].ref = cache[j].ref /\ (cache[j].valid => c[j].valid)
    <3>1. \A j \in Inum : cache[j].valid => c[j].valid
      BY <2>1, <1>3, LoadKeeps DEF InMemory
    <3>2. cache \in [Inum -> Inode] /\ Loaded(i).ref = cache[i].ref
      BY <1>3 DEF TypeOK, Loaded, Inode
    <3> QED
      BY <3>1, <3>2, <2>1, <1>3
  <2>3. CallLock(pc[t], local[t]) = 0 /\ ~Linking(pc[t], local[t]) /\ pc[t] \in EasySteps
    BY <1>1, <1>3, <1>7, <1>8, <1>9
  <2>4. Went(t, s, "user", local'[t])
    BY <1>5 DEF Went
  <2> QED
    BY <2>1, <2>2, <2>3, <2>4, <1>0, <1>2, <1>3, <1>6, EndPlain
<1>10. CASE lock[i] = t
  <2>1. cache' = cache /\ lock' = [lock EXCEPT ![i] = None]
    BY <1>1, <1>10 DEF OpenFd
  <2>2. LocksIn(pc[t], local[t], todo[t]) = {i}
    BY <1>1, <1>3, <1>6, <1>7, <1>8, <1>10 DEF LocksIn
  <2>3. Apart("user", Idle, s) /\ LocksIn("user", Idle, s) = {}
    BY <1>6, <1>8 DEF Apart, LocksIn
  <2>4. LockStep(t, s, "user", Idle)
    BY <2>1, <2>2, <2>3, <1>3, <1>6, ReleaseLock
  <2>5. Finds("user", Idle)
    BY <1>8 DEF Finds
  <2>6. \A j : Owes("user", Idle, j) <=> Owes(pc[t], local[t], j)
    BY <1>1, <1>3, <1>8 DEF Owes
  <2>7. \A j \in Inum : cache'[j].ref = cache[j].ref + One(0, j)
    BY <2>1, SameRefs
  <2>8. Quiet(t, s, "user", Idle, 0)
    BY <2>1, <2>4, <2>5, <2>6, <2>7, <1>1, <1>2, <1>3, <1>5, <1>6 DEF Quiet
  <2> QED
    BY <2>8, <1>0, QuietInv
<1> QED
  BY <1>9, <1>10

(* link() finds the name taken.                                            *)
LEMMA LinkFoundLinks ==
    ASSUME IInv, LInv, AInv, IInv', NEW t \in Process, Runs(t, "link2"),
           NEW d, d = local[t].dp, NEW c, InMemory(c, d),
           NEW x, x = Dirlookup(d, local[t].path[1]), x # 0,
           cache' = Iget(c, x), lock' = [lock EXCEPT ![d] = t], LinkFails(t, PutLocked(x, d)),
           strayed' = (strayed \/ Strays(local[t].path[1], x)),
           UNCHANGED <<disk, dir, cwd, lost, stranded>>
    PROVE  LInv' /\ AInv'
<1>1. PICK n, p, l, q : n = local[t].path[1] /\ p = "link2" /\ l = local[t] /\ q = "linkbad"
  OBVIOUS
<1>2. Runs(t, p) /\ p \in {"link2", "unlink1", "create1"}
  BY <1>1
<1>3. /\ TypeOK /\ todo[t] = <<>> /\ pc[t] = p /\ local[t] \in Local /\ d \in Inum
      /\ local[t].path[1] \in Entry /\ HasInode(t, d) /\ CallLock(pc[t], local[t]) = 0
      /\ disk[d].type = "dir" /\ c \in [Inum -> Inode] /\ lock[d] = None
      /\ \A j \in Inum : c[j].ref = cache[j].ref /\ (cache[j].valid => c[j].valid)
  <2>1. HasDirectory(t, p, d, c)
    BY <1>2, AtDirectory
  <2> QED
    BY <2>1, <1>1 DEF HasDirectory
<1>4. x \in Inum
  BY <1>3, LookupType
<1>5. PICK s : s = PutLocked(x, d)
  OBVIOUS
<1>6. Went(t, s, q, l)
  <2>1. Goto(t, s, q) /\ UNCHANGED <<local, cwd>>
    BY <1>1, <1>5 DEF LinkFails
  <2> QED
    BY <2>1, <1>1, GotoWent
<1>7. \A j \in Inum : /\ cache'[j].ref = cache[j].ref + One(x, j)
                      /\ cache[j].valid /\ cache[j].ref >= 1 => cache'[j].valid
  BY <1>3, <1>4, IgetFacts, IgetKeeps
<1>8. strayed' \/ ~Gone(x)
  <2>1. SUFFICES ASSUME ~strayed PROVE Strays(n, x) \/ ~Gone(x)
    BY <1>1
  <2>2. Reachable /\ \A j \in Inum : LinkedAt(j) /\ UsedAt(j)
    BY <2>1 DEF AInv
  <2>3. pc[t] # "create2" /\ n \in Entry /\ x = Dirlookup(d, n)
    BY <1>1, <1>3
  <2> QED
    BY <2>2, <2>3, <1>3, <1>4, LookupNotGone
<1>9. CallLock(q, l) = 0 /\ Linking(q, l) /\ Linking(p, l) /\ q \notin DpSteps /\ d # 0
  BY <1>1, <1>3 DEF CallLock, Linking, DpSteps, Inum
<1>10. /\ ListOK(s) /\ Unlocks(s) = d /\ Frees(s) = 0 /\ NotDrop(s)
       /\ Unlocks(<<>>) = 0 /\ Frees(<<>>) = 0 /\ NotDrop(<<>>)
  BY <1>3, <1>4, <1>5, ListLocks
<1>11. LockStep(t, s, q, l)
  <2>1. Apart(q, l, s) /\ LocksIn(q, l, s) = LocksIn(pc[t], local[t], todo[t]) \union {d}
    BY <1>1, <1>3, <1>9, <1>10 DEF Apart, LocksIn
  <2> QED
    BY <2>1, <1>3, <1>10, TakeLock
<1>12. Finds(q, l)
  <2>1. disk[l.ip].type \notin {"free", "dir"} /\ ~Freeing(l.ip)
    BY <1>1, <1>3, <1>9 DEF LInv, Checked, CheckedAt
  <2> QED
    BY <2>1, <1>1, <1>9, SMTT(40) DEF Finds
<1>13. \A j : Owes(q, l, j) <=> Owes(pc[t], local[t], j)
  BY <1>1, <1>3, <1>9, SMTT(40) DEF Owes
<1>14. Quiet(t, s, q, l, x)
  BY <1>1, <1>3, <1>6, <1>7, <1>8, <1>10, <1>11, <1>12, <1>13 DEF Quiet
<1> QED
  BY <1>14, QuietInv

(* unlink() finds a directory that is not empty.                           *)
LEMMA NotEmptyLinks ==
    ASSUME IInv, LInv, AInv, IInv', NEW t \in Process, Runs(t, "unlink2"),
           NEW d, d = local[t].dp, NEW i, i = local[t].ip, cache' = [cache EXCEPT ![i] = Loaded(i)],
           Finish(t, PutLocked(i, d)), UNCHANGED <<disk, dir, lock, cwd, lost, stranded, strayed>>
    PROVE  LInv' /\ AInv'
<1>1. PICK p, l, s, c : /\ p = "unlink2" /\ l = local[t] /\ s = PutLocked(i, d)
                        /\ c = [cache EXCEPT ![i] = Loaded(i)]
  OBVIOUS
<1>2. /\ TypeOK /\ todo[t] = <<>> /\ pc[t] = p /\ i \in Inum /\ d \in Inum
      /\ \A j \in Inum : c[j].ref = cache[j].ref
  <2>1. Runs(t, p) /\ p \in {"chdir", "exec", "link1", "linkbad", "unlink2", "create2", "exists"}
        /\ c = [cache EXCEPT ![local[t].ip] = Loaded(local[t].ip)]
    BY <1>1
  <2> QED
    BY <2>1, <1>1, AtIp, Zenon
<1>3. \A j \in Inum : cache[j].valid => c[j].valid
  BY <1>1, <1>2, LoadKeeps DEF InMemory
<1>4. Went(t, s, "user", Idle)
  <2>1. Finish(t, s) /\ cwd' = [cwd EXCEPT ![t] = cwd[t]]
    BY <1>1, <1>2 DEF TypeOK
  <2> QED
    BY <2>1, FinishWent
<1>5. CallLock(p, l) = d /\ ~Linking(p, l) /\ ~Linking("user", Idle) /\ d # 0
      /\ CallLock("user", Idle) = 0 /\ "user" \notin DpSteps
  BY <1>1, <1>2 DEF CallLock, Linking, DpSteps, Inum
<1>6. /\ ListOK(s) /\ Unlocks(s) = d /\ Frees(s) = 0 /\ NotDrop(s)
      /\ Unlocks(<<>>) = 0 /\ Frees(<<>>) = 0 /\ NotDrop(<<>>)
  BY <1>1, <1>2, ListLocks
<1>7. LockStep(t, s, "user", Idle)
  <2>1. Apart("user", Idle, s) /\ LocksIn("user", Idle, s) = LocksIn(pc[t], local[t], todo[t])
    BY <1>1, <1>2, <1>5, <1>6 DEF Apart, LocksIn
  <2> QED
    BY <2>1, <1>6, KeepLocks
<1>8. Finds("user", Idle)
  BY <1>5 DEF Finds
<1>9. \A j : Owes("user", Idle, j) <=> Owes(pc[t], local[t], j)
  BY <1>1, <1>2, <1>5 DEF Owes
<1>10. \A j \in Inum : cache'[j].ref = cache[j].ref + One(0, j)
  BY <1>1, <1>2, SameRefs
<1>11. Quiet(t, s, "user", Idle, 0)
  BY <1>1, <1>2, <1>3, <1>4, <1>6, <1>7, <1>8, <1>9, <1>10 DEF Quiet
<1> QED
  BY <1>11, QuietInv

-----------------------------------------------------------------------------
(* Steps on the list of iput() and iunlock() calls                         *)

(* A list with another first element.                                      *)
LEMMA ListFacts ==
    ASSUME NEW s \in Seq(Item), s # <<>>, ListOK(s)
    PROVE  /\ Len(s) \in {1, 2, 3} /\ Head(s) = s[1] /\ s[1] \in Item
           /\ Tail(s) \in Seq(Item) /\ Len(Tail(s)) = Len(s) - 1
           /\ Len(s) >= 2 => Tail(s)[1] = s[2]
           /\ Len(s) = 3 => Tail(s)[2] = s[3]
           /\ Len(s) = 1 => Tail(s) = <<>>
           /\ Len(s) >= 2 => Tail(s) # <<>>
<1>1. Len(s) \in Nat /\ Len(s) # 0 /\ Len(s) <= 3
  BY DEF ListOK
<1>2. Len(s) \in {1, 2, 3}
  <2>1. \A n \in Nat : n # 0 /\ n <= 3 => n \in {1, 2, 3}
    OBVIOUS
  <2> QED
    BY <2>1, <1>1
<1>3. PICK r : r = Tail(s)
  OBVIOUS
<1>4. r \in Seq(Item) /\ Len(r) = Len(s) - 1
  BY <1>3
<1>5. \A k \in 1 .. Len(r) : r[k] = s[k + 1]
  BY <1>3, <1>4
<1>6. Len(s) >= 2 => r[1] = s[2] /\ r # <<>>
  BY <1>1, <1>4, <1>5
<1>7. Len(s) = 3 => r[2] = s[3]
  BY <1>1, <1>4, <1>5
<1>8. Len(s) = 1 => r = <<>>
  BY <1>4
<1>9. Head(s) = s[1] /\ s[1] \in Item
  BY <1>1
<1> QED
  BY <1>2, <1>3, <1>4, <1>6, <1>7, <1>8, <1>9

(* The first call of the list is over.                                     *)
LEMMA TailLocks ==
    ASSUME NEW s \in Seq(Item), s # <<>>, ListOK(s)
    PROVE  /\ ListOK(Tail(s)) /\ Frees(Tail(s)) = 0 /\ NotDrop(Tail(s))
           /\ s[1][1] = "unlock" => Unlocks(s) = s[1][2] /\ Unlocks(Tail(s)) = 0
           /\ s[1][1] # "unlock" => Unlocks(Tail(s)) = Unlocks(s)
           /\ s[1][1] # "free" => Frees(s) = 0
<1>1. PICK r : r = Tail(s)
  OBVIOUS
<1>2. /\ Len(s) \in {1, 2, 3} /\ Len(r) = Len(s) - 1
      /\ Len(s) >= 2 => r[1] = s[2] /\ r # <<>>
      /\ Len(s) = 3 => r[2] = s[3]
      /\ Len(s) = 1 => r = <<>>
  BY <1>1, ListFacts
<1>3. SUFFICES /\ ListOK(r) /\ Frees(r) = 0 /\ NotDrop(r)
               /\ s[1][1] = "unlock" => Unlocks(s) = s[1][2] /\ Unlocks(r) = 0
               /\ s[1][1] # "unlock" => Unlocks(r) = Unlocks(s)
               /\ s[1][1] # "free" => Frees(s) = 0
  BY <1>1, Zenon
<1>4. s[1][1] # "free" => Frees(s) = 0
  BY DEF Frees
<1>5. CASE Len(s) = 1
  <2>1. r = <<>> /\ Len(r) = 0 /\ s[1][1] # "unlock"
    BY <1>2, <1>5 DEF ListOK, PutStep
  <2> QED
    BY <2>1, <1>4, <1>5 DEF ListOK, Unlocks, Frees, NotDrop
<1>6. CASE Len(s) = 2
  <2>1. Len(r) = 1 /\ r[1] = s[2] /\ r[1][1] = "put" /\ r # <<>>
    BY <1>2, <1>6 DEF ListOK
  <2>2. ListOK(r) /\ Frees(r) = 0 /\ NotDrop(r) /\ Unlocks(r) = 0
    BY <2>1 DEF ListOK, Unlocks, Frees, NotDrop, PutStep
  <2> QED
    BY <2>2, <1>4, <1>6 DEF Unlocks
<1>7. CASE Len(s) = 3
  <2>1. /\ Len(r) = 2 /\ r[1] = s[2] /\ r[2] = s[3] /\ r[1][1] = "unlock" /\ r[2][1] = "put"
        /\ s[1][1] # "unlock" /\ r # <<>>
    BY <1>2, <1>7 DEF ListOK, PutStep
  <2>2. ListOK(r) /\ Frees(r) = 0 /\ NotDrop(r) /\ Unlocks(r) = s[2][2]
    BY <2>1 DEF ListOK, Unlocks, Frees, NotDrop
  <2> QED
    BY <2>1, <2>2, <1>4, <1>7 DEF Unlocks
<1> QED
  BY <1>2, <1>5, <1>6, <1>7

(* The first call of the list goes on to step a.                           *)
Pushed(r, a, i, q) == r = <<<<a, i>>>> \o q

(* The locks of the new list are those of the old one.                     *)
LEMMA HeadLocks ==
    ASSUME NEW s \in Seq(Item), s # <<>>, ListOK(s), s[1][1] \in PutStep, NEW a \in PutStep, NEW i \in Inum,
           NEW r, Pushed(r, a, i, Tail(s))
    PROVE  /\ r # <<>> /\ r[1] = <<a, i>> /\ ListOK(r) /\ Unlocks(r) = Unlocks(s)
           /\ (a = "free" => Frees(r) = i) /\ (a # "free" => Frees(r) = 0)
<1>1. PICK x, q : x = <<a, i>> /\ q = Tail(s)
  OBVIOUS
<1>2. /\ Len(s) \in {1, 2, 3} /\ q \in Seq(Item) /\ Len(q) = Len(s) - 1
      /\ Len(s) >= 2 => q[1] = s[2]
      /\ Len(s) = 3 => q[2] = s[3]
  BY <1>1, ListFacts
<1>3. x \in Item /\ x[1] = a /\ x[2] = i
  BY <1>1 DEF Item
<1>4. r = <<x>> \o q
  BY <1>1 DEF Pushed
<1>5. r \in Seq(Item) /\ Len(r) = 1 + Len(q) /\ r[1] = x /\ \A k \in 1 .. Len(q) : r[k + 1] = q[k]
  BY <1>2, <1>3, <1>4
<1>6. Len(r) = Len(s) /\ (Len(s) >= 2 => r[2] = s[2]) /\ (Len(s) = 3 => r[3] = s[3]) /\ r # <<>>
  BY <1>2, <1>5
<1>7. ListOK(r)
  BY <1>2, <1>3, <1>5, <1>6 DEF ListOK
<1>8. Unlocks(r) = Unlocks(s)
  BY <1>2, <1>3, <1>5, <1>6 DEF Unlocks, PutStep
<1>9. (a = "free" => Frees(r) = i) /\ (a # "free" => Frees(r) = 0)
  BY <1>3, <1>5, <1>6 DEF Frees
<1> QED
  BY <1>1, <1>5, <1>6, <1>7, <1>8, <1>9

(* A process at a step of its list.                                        *)
LEMMA AtItem ==
    ASSUME IInv, LInv, NEW t \in Process, At(t) \in PutStep \union {"unlock"}
    PROVE  /\ todo[t] \in Seq(Item) /\ todo[t] # <<>> /\ ListOK(todo[t]) /\ todo[t][1] = <<At(t), Arg(t)>>
           /\ Arg(t) \in Inum /\ pc[t] \notin {"unlink2", "create2"}
           /\ At(t) # "unlock" => t \in Heads(Arg(t))
           /\ \A j : t \in Drops(j) <=> At(t) = "drop" /\ j = Arg(t)
           /\ \A j : t \in Heads(j) => j = Arg(t)
<1>1. /\ todo[t] \in Seq(Item) /\ pc[t] \in Step /\ ListOK(todo[t])
      /\ pc[t] \in {"unlink2", "create2"} => todo[t] = <<>>
  BY DEF IInv, TypeOK, Todo, Item, LInv, Locked, Apart
<1>2. todo[t] # <<>>
  BY <1>1 DEF At, Step, PutStep
<1>3. PICK s : s = todo[t]
  OBVIOUS
<1>4. Head(s) = s[1] /\ s[1] \in Item
  BY <1>1, <1>2, <1>3, ListFacts
<1>5. At(t) = s[1][1] /\ Arg(t) = s[1][2]
  BY <1>2, <1>3, <1>4 DEF At, Arg
<1>6. s[1] = <<At(t), Arg(t)>> /\ Arg(t) \in Inum
  BY <1>4, <1>5 DEF Item
<1>7. At(t) # "unlock" => t \in Heads(Arg(t))
  <2>1. At(t) # "unlock" => <<At(t), Arg(t)>> \in PutStep \X {Arg(t)}
    OBVIOUS
  <2> QED
    BY <2>1, <1>2, <1>3, <1>6 DEF Heads
<1>8. ASSUME NEW j PROVE t \in Drops(j) <=> At(t) = "drop" /\ j = Arg(t)
  <2>1. <<At(t), Arg(t)>> = <<"drop", j>> <=> At(t) = "drop" /\ j = Arg(t)
    OBVIOUS
  <2> QED
    BY <2>1, <1>2, <1>3, <1>6 DEF Drops
<1>9. ASSUME NEW j, t \in Heads(j) PROVE j = Arg(t)
  <2>1. s[1] \in PutStep \X {j}
    BY <1>3, <1>9 DEF Heads
  <2> QED
    BY <2>1, <1>6
<1> QED
  BY <1>1, <1>2, <1>3, <1>6, <1>7, <1>8, <1>9

(* The drops, if t is in both or in neither.                               *)
LEMMA DropsMove ==
    ASSUME NEW t \in Process, OnlyMoved(t), NEW i
    PROVE  /\ Drops(i)' \ {t} = Drops(i) \ {t}
           /\ (t \in Drops(i)' <=> t \in Drops(i)) => Drops(i)' = Drops(i)
           /\ t \in Drops(i)' <=> todo'[t] # <<>> /\ todo'[t][1] = <<"drop", i>>
<1>1. ASSUME NEW u \in Process \ {t} PROVE u \in Drops(i)' <=> u \in Drops(i)
  BY DEF Drops, OnlyMoved
<1>2. Drops(i)' \subseteq Process /\ Drops(i) \subseteq Process
  BY DEF Drops
<1>3. t \in Drops(i)' <=> todo'[t] # <<>> /\ todo'[t][1] = <<"drop", i>>
  BY DEF Drops
<1>4. PICK A, B : A = Drops(i)' /\ B = Drops(i)
  OBVIOUS
<1>5. A \subseteq Process /\ B \subseteq Process /\ \A u \in Process \ {t} : u \in A <=> u \in B
  BY <1>1, <1>2, <1>4
<1>6. A \ {t} = B \ {t} /\ ((t \in A <=> t \in B) => A = B)
  BY <1>5
<1> QED
  BY <1>3, <1>4, <1>6

(* What a step on the list of t leaves alone.                              *)
LEMMA ListRest ==
    ASSUME IInv, LInv, NEW t \in Process, NEW r, Do(t, r), LockStep(t, r, pc[t], local[t]),
           UNCHANGED <<disk, dir, pc, local, cwd, stranded>>,
           \A j \in Inum, u \in Process : HasInode(u, j) /\ Freeing(j)' => Freeing(j),
           \A j \in Inum, u \in Process : HasInode(u, j) \/ Owns(u, j) => (cache[j].valid => cache'[j].valid),
           Frees(r) # 0 => cache'[Frees(r)].valid /\ disk[Frees(r)].nlink = 0
    PROVE  /\ Went(t, r, pc[t], local[t]) /\ Locked' /\ Checked' /\ Tree'
           /\ Reachable => Reachable'
           /\ \A j \in Inum : LinkedAt(j) => LinkedAt(j)'
<1>0. Locked /\ Checked /\ Tree /\ Kept /\ TypeOK
  BY DEF LInv, IInv
<1>1. PICK p, l : p = pc[t] /\ l = local[t]
  OBVIOUS
<1>2. Went(t, r, p, l) /\ OnlyMoved(t) /\ todo'[t] = r
  BY <1>0, <1>1 DEF Went, OnlyMoved, Do, TypeOK
<1>3. Locked'
  BY <1>1, <1>2, StepLocked
<1>4. CheckedAt(p, l, todo[t]) /\ Shape(cwd[t], p, l) /\ p \in Step /\ l \in Local
  BY <1>1 DEF LInv, Checked, IInv, Shapes, TypeOK
<1>5. CheckedAt(pc[t], local[t], todo[t])'
  <2>1. p \in DpSteps \ {"nameiparent"} => disk'[l.dp].type = "dir" /\ ~Freeing(l.dp)'
    <3>1. SUFFICES ASSUME p \in DpSteps \ {"nameiparent"} PROVE disk'[l.dp].type = "dir" /\ ~Freeing(l.dp)'
      OBVIOUS
    <3>2. l.dp \in Inum /\ HasInode(t, l.dp) /\ disk[l.dp].type = "dir" /\ ~Freeing(l.dp)
      BY <3>1, <1>1, <1>4 DEF CheckedAt, Shape, Local, OptInum, HasInode, DpIn
    <3> QED
      BY <3>2
  <2>2. Linking(p, l) => disk'[l.ip].type \notin {"free", "dir"} /\ ~Freeing(l.ip)'
    <3>1. SUFFICES ASSUME Linking(p, l) PROVE disk'[l.ip].type \notin {"free", "dir"} /\ ~Freeing(l.ip)'
      OBVIOUS
    <3>2. UsesIp(p, l) /\ disk[l.ip].type \notin {"free", "dir"} /\ ~Freeing(l.ip)
      BY <3>1, <1>4 DEF CheckedAt, Linking, UsesIp, IpSteps
    <3>3. l.ip \in Inum /\ HasInode(t, l.ip)
      BY <3>2, <1>1, <1>4 DEF Shape, Local, OptInum, HasInode, IpIn
    <3> QED
      BY <3>2, <3>3
  <2>3. CallLock(p, l) # 0 => cache'[CallLock(p, l)].valid
    <3>1. SUFFICES ASSUME CallLock(p, l) # 0 PROVE cache'[CallLock(p, l)].valid
      OBVIOUS
    <3>2. PICK i : i = CallLock(p, l) /\ Owns(t, i) /\ cache[i].valid
      BY <3>1, <1>1, <1>4 DEF Owns, CheckedAt
    <3>3. i \in Inum
      BY <3>2, <1>0, OwnsFacts
    <3> QED
      BY <3>2, <3>3
  <2>4. /\ p = "unlink2" => l.path[1] \in Name /\ dir'[l.dp][l.path[1]] = l.ip
        /\ p = "create2" => dir'[l.dp][l.path[1]] = 0
    BY <1>4 DEF CheckedAt
  <2>5. pc'[t] = p /\ local'[t] = l
    BY <1>1
  <2> QED
    BY <2>1, <2>2, <2>3, <2>4, <2>5, <1>2 DEF CheckedAt, Linking, CallLock, Frees
<1>6. Checked'
  BY <1>0, <1>2, <1>5, CheckedFrame
<1>7. Tree'
  BY <1>0 DEF Tree, Edge
<1>8. Reachable => Reachable'
  BY DEF Reachable
<1>9. ASSUME NEW j \in Inum, LinkedAt(j) PROVE LinkedAt(j)'
  <2>1. Owed(j)' = Owed(j)
    BY DEF Owed, Owes, Linking
  <2> QED
    BY <2>1, <1>9, LinkedFrame
<1> QED
  BY <1>1, <1>2, <1>3, <1>6, <1>7, <1>8, <1>9

(* The inode whose iput() starts is not gone.                              *)
LEMMA PutNotGone ==
    ASSUME IInv, LInv, NEW i \in Inum, UsedAt(i), NEW t \in Heads(i), t \notin Drops(i), lock[i] = None
    PROVE  ~Gone(i)
<1>1. /\ cache[i].ref > Cardinality(Drops(i)) /\ cache[i].ref \in Nat /\ Cardinality(Drops(i)) \in Nat
      /\ Cardinality(Drops(i)) + 1 <= Cardinality(Heads(i)) /\ Cardinality(Heads(i)) \in Nat
  BY HeadMore, DropsFacts
<1>2. disk[i].type # "free"
  BY <1>1 DEF UsedAt
<1>3. ASSUME NEW u \in Process PROVE Frees(todo[u]) # i
  BY LockFree DEF Freeing
<1>4. ASSUME NEW u \in Process, pc[u] = "create2", local[u].ip = i PROVE FALSE
  <2>1. HasInode(u, i)
    BY <1>4 DEF HasInode, IpIn, UsesIp, IpSteps
  <2>2. cache[i].ref >= Cardinality(Heads(i)) + 1
    BY <2>1, HeldMore
  <2>3. cache[i].ref = Cardinality(Drops(i)) + 1
    BY <1>4 DEF UsedAt
  <2> QED
    BY <2>2, <2>3, <1>1
<1>5. Locked
  BY DEF LInv
<1> QED
  BY <1>2, <1>3, <1>4, <1>5, GoneFacts

(* The use of an inode that is not gone.                                   *)
LEMMA UsedNotGone ==
    ASSUME IInv, Locked, NEW i \in Inum, UsedAt(i), ~Gone(i), NEW t \in Process, OnlyMoved(t),
           disk'[i].type = disk[i].type, dir'[i]["."] = dir[i]["."], dir'[i][".."] = dir[i][".."],
           Frees(todo'[t]) = i => cache'[i].ref = 1, ~(pc'[t] = "create2" /\ local'[t].ip = i)
    PROVE  UsedAt(i)'
<1>1. /\ disk[i].type # "free"
      /\ \A u \in Process : ~(Frees(todo[u]) = i \/ (pc[u] = "create2" /\ local[u].ip = i))
  BY GoneFacts
<1>2. ASSUME NEW u \in Process, Frees(todo'[u]) = i PROVE cache'[i].ref = 1
  BY <1>1, <1>2 DEF OnlyMoved
<1>3. ASSUME NEW u \in Process PROVE ~(pc'[u] = "create2" /\ local'[u].ip = i)
  BY <1>1 DEF OnlyMoved
<1>4. disk'[i].type = "dir" => dir'[i]["."] = i /\ dir'[i][".."] # 0
  BY <1>1 DEF UsedAt
<1> QED
  BY <1>1, <1>2, <1>3, <1>4 DEF UsedAt, Frees, TypeOf

(* iunlock().                                                              *)
LEMMA UnlockLinks ==
    ASSUME IInv, LInv, AInv, NEW t \in Process, Unlock(t)
    PROVE  LInv' /\ AInv'
<1>0. IInv'
  BY UnlockInv
<1>1. PICK i, s, r, p, l : i = Arg(t) /\ s = todo[t] /\ r = Rest(t) /\ p = pc[t] /\ l = local[t]
  OBVIOUS
<1>2. /\ At(t) = "unlock" /\ lock' = [lock EXCEPT ![i] = None] /\ Do(t, r)
      /\ UNCHANGED <<disk, dir, cache, cwd, pc, local, lost, stranded, strayed>>
  BY <1>1 DEF Unlock, Runs, diskVars, ghosts
<1>3. /\ s \in Seq(Item) /\ s # <<>> /\ ListOK(s) /\ s[1] = <<"unlock", i>> /\ i \in Inum
      /\ p \notin {"unlink2", "create2"}
  BY <1>1, <1>2, AtItem DEF PutStep
<1>4. s[1][1] = "unlock" /\ s[1][2] = i /\ NotDrop(s)
  BY <1>3 DEF NotDrop
<1>5. r = Tail(s)
  BY <1>1 DEF Rest
<1>6. ListOK(r) /\ Frees(r) = 0 /\ NotDrop(r) /\ Unlocks(s) = i /\ Unlocks(r) = 0 /\ Frees(s) = 0
  BY <1>3, <1>4, <1>5, TailLocks
<1>7. Went(t, r, p, l)
  BY <1>1, <1>2 DEF Went, OnlyMoved, Do, IInv, TypeOK
<1>8. Apart(p, l, s) /\ CheckedAt(p, l, s)
  BY <1>1 DEF LInv, Locked, Checked
<1>9. i # 0 /\ CallLock(p, l) # i
  BY <1>3, <1>6, <1>8 DEF Apart, Inum
<1>10. LockStep(t, r, p, l)
  <2>1. Apart(p, l, r)
    BY <1>3, <1>6 DEF Apart
  <2>2. LocksIn(p, l, s) = {CallLock(p, l), i} \ {0} /\ LocksIn(p, l, r) = {CallLock(p, l)} \ {0}
    BY <1>6 DEF LocksIn
  <2>3. i \in LocksIn(pc[t], local[t], todo[t]) /\ LocksIn(p, l, r) = LocksIn(pc[t], local[t], todo[t]) \ {i}
    BY <2>2, <1>1, <1>9
  <2> QED
    BY <2>1, <2>3, <1>2, <1>3, <1>6, ReleaseLock
<1>11. Finds(p, l)
  BY <1>2, <1>8 DEF Finds, CheckedAt
<1>12. \A j \in Inum : cache'[j].ref = cache[j].ref + One(0, j)
  BY <1>2, SameRefs
<1>13. Quiet(t, r, p, l, 0)
  BY <1>1, <1>2, <1>3, <1>4, <1>6, <1>7, <1>10, <1>11, <1>12 DEF Quiet
<1> QED
  BY <1>0, <1>13, QuietInv

(* The first call of the list goes from one step to another.               *)
LEMMA HeadMoves ==
    ASSUME IInv, LInv, NEW t \in Process, At(t) \in PutStep, NEW a \in PutStep,
           NEW r, Pushed(r, a, Arg(t), Rest(t)), Do(t, r), UNCHANGED <<pc, local, cwd>>
    PROVE  /\ Went(t, r, pc[t], local[t]) /\ r # <<>> /\ r[1] = <<a, Arg(t)>> /\ ListOK(r)
           /\ (a = "free" => Frees(r) = Arg(t)) /\ (a # "free" => Frees(r) = 0)
           /\ Arg(t) \in Inum /\ t \in Heads(Arg(t))
           /\ pc[t] \notin {"unlink2", "create2"}
           /\ \A j : t \in Drops(j) <=> At(t) = "drop" /\ j = Arg(t)
           /\ \A j : t \in Drops(j)' <=> a = "drop" /\ j = Arg(t)
           /\ LocksIn(pc[t], local[t], r) = {CallLock(pc[t], local[t]), Unlocks(todo[t]), Frees(r)} \ {0}
           /\ (At(t) = "free" => Frees(todo[t]) = Arg(t)) /\ (At(t) # "free" => Frees(todo[t]) = 0)
           /\ Unlocks(r) = Unlocks(todo[t])
<1>1. PICK s, i : s = todo[t] /\ i = Arg(t)
  OBVIOUS
<1>2. /\ s \in Seq(Item) /\ s # <<>> /\ ListOK(s) /\ s[1] = <<At(t), i>> /\ i \in Inum
      /\ pc[t] \notin {"unlink2", "create2"} /\ t \in Heads(i)
      /\ \A j : t \in Drops(j) <=> At(t) = "drop" /\ j = i
  BY <1>1, AtItem DEF PutStep
<1>3. s[1][1] \in PutStep /\ s[1][1] = At(t) /\ s[1][2] = i
  BY <1>2
<1>4. Pushed(r, a, i, Tail(s))
  BY <1>1 DEF Rest
<1>5. /\ r # <<>> /\ r[1] = <<a, i>> /\ ListOK(r) /\ Unlocks(r) = Unlocks(s)
      /\ (a = "free" => Frees(r) = i) /\ (a # "free" => Frees(r) = 0)
  BY <1>2, <1>3, <1>4, HeadLocks
<1>6. Went(t, r, pc[t], local[t])
  BY DEF Went, OnlyMoved, Do, IInv, TypeOK
<1>7. ASSUME NEW j PROVE t \in Drops(j)' <=> a = "drop" /\ j = i
  <2>1. <<a, i>> = <<"drop", j>> <=> a = "drop" /\ j = i
    OBVIOUS
  <2>2. t \in Drops(j)' <=> r # <<>> /\ r[1] = <<"drop", j>>
    BY <1>6, DropsMove DEF Went
  <2> QED
    BY <2>1, <2>2, <1>5
<1>8. LocksIn(pc[t], local[t], r) = {CallLock(pc[t], local[t]), Unlocks(s), Frees(r)} \ {0}
  BY <1>5 DEF LocksIn
<1>9. (At(t) = "free" => Frees(s) = i) /\ (At(t) # "free" => Frees(s) = 0)
  BY <1>2, <1>3 DEF Frees
<1> QED
  BY <1>1, <1>2, <1>5, <1>6, <1>7, <1>8, <1>9

(* The other inodes.                                                       *)
LEMMA OthersKept ==
    ASSUME IInv, LInv, NEW t \in Process, OnlyMoved(t), NEW j \in Inum,
           t \in Drops(j)' <=> t \in Drops(j), cache'[j] = cache[j],
           j \in lost' <=> j \in lost, UNCHANGED <<disk, dir, pc, local>>,
           pc[t] \notin {"unlink2", "create2"}
    PROVE  /\ KeptAt(j)'
           /\ UsedAt(j) /\ Frees(todo'[t]) # j => UsedAt(j)'
<1>1. Locked /\ KeptAt(j) /\ cache[j].ref \in Nat /\ Drops(j)' = Drops(j)
  BY DropsMove DEF LInv, Kept, IInv, TypeOK, Inode
<1>2. KeptAt(j)'
  BY <1>1, KeptFrame
<1>3. UsedAt(j) /\ Frees(todo'[t]) # j => UsedAt(j)'
  BY <1>1, UsedFrame
<1> QED
  BY <1>2, <1>3

(* iput() of the last reference, which it is going to free.                *)
LEMMA PutLastLinks ==
    ASSUME IInv, LInv, AInv, NEW t \in Process, PutLast(t)
    PROVE  LInv' /\ AInv'
<1>1. PICK i, r : i = Arg(t) /\ Pushed(r, "free", i, Rest(t))
  BY DEF Pushed
<1>2. /\ Runs(t, "put") /\ At(t) = "put" /\ LastRef(i) /\ lock' = [lock EXCEPT ![i] = t] /\ Do(t, r)
      /\ UNCHANGED <<disk, dir, cache, cwd, pc, local, lost, stranded, strayed>>
  BY <1>1 DEF PutLast, Pushed, Runs, diskVars, ghosts
<1>3. /\ Went(t, r, pc[t], local[t]) /\ ListOK(r) /\ Frees(r) = i
      /\ i \in Inum /\ t \in Heads(i) /\ pc[t] \notin {"unlink2", "create2"}
      /\ \A j : t \notin Drops(j) /\ t \notin Drops(j)'
      /\ LocksIn(pc[t], local[t], r) = {CallLock(pc[t], local[t]), Unlocks(todo[t]), i} \ {0}
      /\ Frees(todo[t]) = 0 /\ Unlocks(r) = Unlocks(todo[t])
  BY <1>1, <1>2, HeadMoves DEF PutStep
<1>4. lock[i] = None /\ i # 0
  <2>1. LockTarget(t) = i /\ i # 0
    BY <1>1, <1>2, <1>3 DEF LockTarget, Inum
  <2> QED
    BY <2>1, <1>2 DEF Runs
<1>5. i \notin LocksIn(pc[t], local[t], todo[t])
  BY <1>3, <1>4, LockFree
<1>6. LockStep(t, r, pc[t], local[t])
  <2>1. LocksIn(pc[t], local[t], r) = LocksIn(pc[t], local[t], todo[t]) \union {i}
    BY <1>3, <1>4 DEF LocksIn
  <2>2. Apart(pc[t], local[t], todo[t])
    BY DEF LInv, Locked
  <2>4. Apart(pc[t], local[t], r)
    BY <2>2, <1>3, <1>4, <1>5 DEF Apart, LocksIn
  <2> QED
    BY <2>1, <2>4, <1>2, <1>3, <1>4, TakeLock
<1>7. cache[i].valid /\ disk[i].nlink = 0 /\ cache[i].ref = 1
  BY <1>2, <1>3 DEF LastRef, IInv, Coherent
<1>8. ASSUME NEW j \in Inum, NEW u \in Process, HasInode(u, j), Freeing(j)' PROVE Freeing(j)
  <2>1. CASE j = i
    <3>1. cache[i].ref >= 2
      BY <2>1, <1>3, <1>8, HeadMore
    <3> QED
      BY <3>1, <1>7
  <2>2. CASE j # i
    <3>1. PICK v \in Process : Frees(todo'[v]) = j
      BY <1>8 DEF Freeing, Frees
    <3>2. v # t /\ Frees(todo[v]) = j
      BY <3>1, <2>2, <1>3 DEF Went, OnlyMoved
    <3> QED
      BY <3>2 DEF Freeing
  <2> QED
    BY <2>1, <2>2
<1>9. /\ OnlyMoved(t) /\ todo'[t] = r /\ Locked' /\ Checked' /\ Tree' /\ (Reachable => Reachable')
      /\ \A j \in Inum : LinkedAt(j) => LinkedAt(j)'
  BY <1>2, <1>3, <1>6, <1>7, <1>8, ListRest DEF Went
<1>10. \A j \in Inum : KeptAt(j)' /\ (UsedAt(j) /\ j # i => UsedAt(j)')
  BY <1>2, <1>3, <1>9, OthersKept
<1>11. UsedAt(i) => UsedAt(i)'
  <2>1. SUFFICES ASSUME UsedAt(i) PROVE UsedAt(i)'
    OBVIOUS
  <2>2. ~Gone(i) /\ Locked
    BY <2>1, <1>3, <1>4, PutNotGone DEF LInv
  <2> QED
    BY <2>1, <2>2, <1>2, <1>3, <1>7, <1>9, UsedNotGone
<1> QED
  BY <1>2, <1>9, <1>10, <1>11 DEF LInv, AInv, Kept

(* iput() of another one, which it is going to drop.                       *)
LEMMA PutKeepLinks ==
    ASSUME IInv, LInv, AInv, NEW t \in Process, PutKeep(t)
    PROVE  LInv' /\ AInv'
<1>1. PICK i, r : i = Arg(t) /\ Pushed(r, "drop", i, Rest(t))
  BY DEF Pushed
<1>2. /\ Runs(t, "put") /\ At(t) = "put" /\ ~LastRef(i) /\ Do(t, r)
      /\ UNCHANGED <<disk, dir, cache, lock, cwd, pc, local, stranded, strayed>>
  BY <1>1 DEF PutKeep, Pushed, Runs, diskVars
<1>3. /\ Went(t, r, pc[t], local[t]) /\ ListOK(r) /\ Frees(r) = 0
      /\ i \in Inum /\ t \in Heads(i) /\ pc[t] \notin {"unlink2", "create2"}
      /\ \A j : t \notin Drops(j) /\ (t \in Drops(j)' <=> j = i)
      /\ Frees(todo[t]) = 0 /\ Unlocks(r) = Unlocks(todo[t])
  BY <1>1, <1>2, HeadMoves DEF PutStep
<1>4. lock[i] = None /\ i # 0
  <2>1. LockTarget(t) = i /\ i # 0
    BY <1>1, <1>2, <1>3 DEF LockTarget, Inum
  <2> QED
    BY <2>1, <1>2 DEF Runs
<1>5. LockStep(t, r, pc[t], local[t])
  <2>1. Apart(pc[t], local[t], todo[t])
    BY DEF LInv, Locked
  <2>2. Apart(pc[t], local[t], r) /\ LocksIn(pc[t], local[t], r) = LocksIn(pc[t], local[t], todo[t])
    BY <2>1, <1>3 DEF Apart, LocksIn
  <2> QED
    BY <2>2, <1>2, <1>3, KeepLocks
<1>6. \A j \in Inum : Freeing(j)' => Freeing(j)
  BY <1>3, FreeingGoes DEF Went
<1>7. /\ OnlyMoved(t) /\ todo'[t] = r /\ Locked' /\ Checked' /\ Tree' /\ (Reachable => Reachable')
      /\ \A j \in Inum : LinkedAt(j) => LinkedAt(j)'
  BY <1>2, <1>3, <1>5, <1>6, ListRest DEF Went
<1>8. /\ lost \subseteq lost' /\ lost \ {i} = lost' \ {i}
      /\ i \notin lost' => ~(cache[i].valid /\ cache[i].nlink = 0 /\ \E u \in Process : At(u) = "drop" /\ Arg(u) = i)
  BY <1>1 DEF PutKeep
<1>9. ASSUME NEW j \in Inum \ {i} PROVE KeptAt(j)' /\ (UsedAt(j) => UsedAt(j)')
  <2>1. /\ t \in Drops(j)' <=> t \in Drops(j)
        /\ cache'[j] = cache[j] /\ (j \in lost' <=> j \in lost) /\ Frees(todo'[t]) # j
    BY <1>2, <1>3, <1>7, <1>8 DEF Inum
  <2> QED
    BY <2>1, <1>2, <1>3, <1>7, <1>8, OthersKept
<1>10. UsedAt(i) => UsedAt(i)'
  <2>1. SUFFICES ASSUME UsedAt(i) PROVE UsedAt(i)'
    OBVIOUS
  <2>2. ~Gone(i) /\ Locked
    BY <2>1, <1>3, <1>4, PutNotGone DEF LInv
  <2>3. Frees(todo'[t]) # i
    BY <1>3, <1>4, <1>7
  <2> QED
    BY <2>1, <2>2, <2>3, <1>2, <1>3, <1>7, UsedNotGone
<1>11. KeptAt(i)'
  <2>1. SUFFICES ASSUME disk[i].type # "free", disk[i].nlink = 0, i \notin lost'
                 PROVE  /\ cache[i].ref > Cardinality(Drops(i)')
                        /\ cache[i].valid \/ \E u \in Process : pc[u] = "create2" /\ local[u].ip = i
    BY <1>2 DEF KeptAt
  <2>2. /\ cache[i].ref > Cardinality(Drops(i)) /\ cache[i].ref \in Nat
        /\ cache[i].valid \/ \E u \in Process : pc[u] = "create2" /\ local[u].ip = i
    BY <2>1, <1>3, <1>8 DEF LInv, Kept, KeptAt, IInv, TypeOK, Inode
  <2>3. /\ Cardinality(Drops(i)) \in Nat /\ IsFiniteSet(Drops(i))
        /\ Cardinality(Drops(i)) + 1 <= Cardinality(Heads(i)) /\ Cardinality(Heads(i)) \in Nat
    BY <1>3, DropsFacts
  <2>4. Cardinality(Drops(i)') = Cardinality(Drops(i)) + 1
    <3>1. PICK A, B : A = Drops(i) /\ B = Drops(i)'
      OBVIOUS
    <3>2. IsFiniteSet(A) /\ A \ {t} = B \ {t} /\ t \notin A /\ t \in B
      BY <3>1, <2>3, <1>3, <1>7, DropsMove
    <3>3. Cardinality(B) = Cardinality(A) - 0 + 1
      BY <3>2, CardChange
    <3> QED
      BY <3>1, <3>3, <2>3
  <2>5. CASE cache[i].valid
    <3>1. cache[i].nlink = 0
      BY <2>1, <2>5, <1>3 DEF IInv, Coherent
    <3>2. ASSUME NEW u \in Drops(i) PROVE FALSE
      <4>1. u \in Process /\ todo[u] # <<>> /\ todo[u][1] = <<"drop", i>> /\ todo[u] \in Seq(Item)
        BY DEF Drops, IInv, TypeOK, Todo, Item
      <4>2. Head(todo[u]) = <<"drop", i>>
        BY <4>1
      <4>3. At(u) = "drop" /\ Arg(u) = i
        BY <4>1, <4>2 DEF At, Arg
      <4> QED
        BY <4>1, <4>3, <3>1, <2>1, <2>5, <1>8
    <3>3. Drops(i) = {}
      BY <3>2
    <3>4. Cardinality(Drops(i)) = 0
      BY <3>3, FS_EmptySet
    <3>5. cache[i].ref # 1
      BY <3>1, <2>5, <1>2 DEF LastRef
    <3> QED
      BY <3>4, <3>5, <2>2, <2>4, <2>5
  <2>6. CASE ~cache[i].valid
    <3>1. PICK u \in Process : pc[u] = "create2" /\ local[u].ip = i
      BY <2>2, <2>6
    <3>2. HasInode(u, i)
      BY <3>1 DEF HasInode, IpIn, UsesIp, IpSteps
    <3>3. cache[i].ref >= Cardinality(Heads(i)) + 1
      BY <3>2, <1>3, HeldMore
    <3> QED
      BY <3>1, <3>3, <2>2, <2>3, <2>4
  <2> QED
    BY <2>5, <2>6
<1> QED
  BY <1>2, <1>7, <1>9, <1>10, <1>11 DEF LInv, AInv, Kept

(* The reference is dropped.                                               *)
LEMMA PutDropLinks ==
    ASSUME IInv, LInv, AInv, NEW t \in Process, PutDrop(t)
    PROVE  LInv' /\ AInv'
<1>1. PICK i, r, s : i = Arg(t) /\ r = Rest(t) /\ s = todo[t]
  OBVIOUS
<1>2. /\ At(t) = "drop" /\ Do(t, r)
      /\ UNCHANGED <<disk, dir, lock, cwd, pc, local, lost, stranded, strayed>>
  BY <1>1 DEF PutDrop, Runs, diskVars, ghosts
<1>3. /\ s \in Seq(Item) /\ s # <<>> /\ ListOK(s) /\ s[1] = <<"drop", i>> /\ i \in Inum
      /\ pc[t] \notin {"unlink2", "create2"} /\ t \in Heads(i)
      /\ \A j : t \in Drops(j) <=> j = i
  BY <1>1, <1>2, AtItem DEF PutStep
<1>4. ListOK(r) /\ Frees(r) = 0 /\ NotDrop(r) /\ Unlocks(r) = Unlocks(s) /\ Frees(s) = 0
  <2>1. r = Tail(s) /\ s[1][1] = "drop"
    BY <1>1, <1>3 DEF Rest
  <2> QED
    BY <2>1, <1>3, TailLocks
<1>5. LockStep(t, r, pc[t], local[t])
  <2>1. Apart(pc[t], local[t], s)
    BY <1>1 DEF LInv, Locked
  <2>2. Apart(pc[t], local[t], r) /\ LocksIn(pc[t], local[t], r) = LocksIn(pc[t], local[t], todo[t])
    BY <2>1, <1>1, <1>3, <1>4 DEF Apart, LocksIn
  <2> QED
    BY <2>2, <1>2, <1>4, KeepLocks
<1>6. OnlyMoved(t) /\ todo'[t] = r
  BY <1>2 DEF OnlyMoved, Do, IInv, TypeOK
<1>7. \A j \in Inum : Freeing(j)' => Freeing(j)
  BY <1>4, <1>6, FreeingGoes
<1>8. /\ cache[i].ref \in Nat /\ cache[i].ref >= 1
      /\ cache'[i].ref = cache[i].ref - 1 /\ \A j \in Inum \ {i} : cache'[j] = cache[j]
      /\ cache[i].ref >= 2 => cache'[i].valid = cache[i].valid
  <2>1. cache \in [Inum -> Inode] /\ cache[i] \in Inode
    BY <1>3 DEF IInv, TypeOK
  <2>2. cache[i].ref \in Nat /\ cache[i].ref >= 1
    BY <1>3, HeadMore
  <2>3. CASE cache[i].ref = 1
    <3>1. cache' = [cache EXCEPT ![i] = NoEntry]
      BY <1>1, <2>3 DEF PutDrop
    <3> QED
      BY <3>1, <2>1, <2>3, <1>3 DEF NoEntry
  <2>4. CASE cache[i].ref # 1
    <3>1. cache' = [cache EXCEPT ![i].ref = @ - 1]
      BY <1>1, <2>4 DEF PutDrop
    <3> QED
      BY <3>1, <2>1, <2>2, <1>3 DEF Inode
  <2> QED
    BY <2>3, <2>4
<1>9. ASSUME NEW u \in Process, HasInode(u, i) \/ (Owns(u, i) /\ u # t) PROVE cache[i].ref >= 2
  <2>1. CASE HasInode(u, i)
    BY <2>1, <1>3, HeadMore
  <2>2. CASE Owns(u, i) /\ u # t /\ ~HasInode(u, i)
    <3>1. u \in Heads(i)
      BY <2>2, OwnsFacts DEF LInv
    <3>2. IsFiniteSet(Heads(i)) /\ Cardinality(Heads(i)) \in Nat
      BY DropsFacts
    <3>3. Cardinality(Heads(i)) >= 2
      BY <3>1, <3>2, <2>2, <1>3, CardTwo
    <3>4. /\ Cardinality(FileRefs(i)) \in Nat /\ Cardinality(CwdRefs(i)) \in Nat
          /\ Cardinality(IpRefs(i)) \in Nat /\ Cardinality(DpRefs(i)) \in Nat
      BY FiniteRefs
    <3>5. cache[i].ref >= Cardinality(FileRefs(i)) + Cardinality(CwdRefs(i)) + Cardinality(IpRefs(i))
                          + Cardinality(DpRefs(i)) + Cardinality(Heads(i))
      BY <1>3, HoldersBound
    <3> QED
      BY <3>2, <3>3, <3>4, <3>5, <1>8
  <2> QED
    BY <2>1, <2>2, <1>9
<1>10. ASSUME NEW j \in Inum, NEW u \in Process, HasInode(u, j) \/ Owns(u, j), cache[j].valid PROVE cache'[j].valid
  <2>1. CASE j # i
    BY <2>1, <1>8, <1>10
  <2>2. CASE j = i
    <3>1. Owns(u, i) => u # t \/ HasInode(u, i)
      <4>1. Owns(t, i) => HasInode(t, i)
        BY <1>3, OwnsFacts DEF LInv
      <4> QED
        BY <4>1
    <3> QED
      BY <3>1, <2>2, <1>8, <1>9, <1>10
  <2> QED
    BY <2>1, <2>2
<1>11. /\ Locked' /\ Checked' /\ Tree' /\ (Reachable => Reachable')
       /\ \A j \in Inum : LinkedAt(j) => LinkedAt(j)'
  BY <1>2, <1>4, <1>5, <1>7, <1>10, ListRest
<1>12. \A j : t \notin Drops(j)'
  <2>1. ASSUME NEW j PROVE t \notin Drops(j)'
    <3>1. <<"drop", j>>[1] = "drop"
      OBVIOUS
    <3> QED
      BY <3>1, <1>4, <1>6, DropsMove DEF NotDrop
  <2> QED
    BY <2>1
<1>13. ASSUME NEW j \in Inum \ {i} PROVE KeptAt(j)' /\ (UsedAt(j) => UsedAt(j)')
  <2>1. /\ t \in Drops(j)' <=> t \in Drops(j)
        /\ cache'[j] = cache[j] /\ Frees(todo'[t]) # j
    BY <1>3, <1>4, <1>6, <1>8, <1>12 DEF Inum
  <2> QED
    BY <2>1, <1>2, <1>3, <1>6, OthersKept
<1>14. /\ Cardinality(Drops(i)) \in Nat /\ Cardinality(Drops(i)') = Cardinality(Drops(i)) - 1
       /\ Cardinality(Drops(i)) >= 1
  <2>1. PICK A, B : A = Drops(i) /\ B = Drops(i)'
    OBVIOUS
  <2>2. IsFiniteSet(A) /\ A \ {t} = B \ {t} /\ t \in A /\ t \notin B
    BY <2>1, <1>3, <1>6, <1>12, DropsMove, DropsFacts
  <2>3. Cardinality(B) = Cardinality(A) - 1 + 0 /\ Cardinality(A) \in Nat
    BY <2>2, CardChange
  <2>4. Cardinality(A) >= 1
    BY <2>2, CardOne
  <2> QED
    BY <2>1, <2>3, <2>4
<1>15. KeptAt(i)'
  <2>1. SUFFICES ASSUME disk[i].type # "free", disk[i].nlink = 0, i \notin lost
                 PROVE  /\ cache'[i].ref > Cardinality(Drops(i)')
                        /\ cache'[i].valid \/ \E u \in Process : pc[u] = "create2" /\ local[u].ip = i
    BY <1>2 DEF KeptAt
  <2>2. /\ cache[i].ref > Cardinality(Drops(i))
        /\ cache[i].valid \/ \E u \in Process : pc[u] = "create2" /\ local[u].ip = i
    BY <2>1, <1>3 DEF LInv, Kept, KeptAt
  <2> QED
    BY <2>2, <1>8, <1>14
<1>16. UsedAt(i) => UsedAt(i)'
  <2>1. SUFFICES ASSUME UsedAt(i) PROVE UsedAt(i)'
    OBVIOUS
  <2>2. disk'[i].type = "free" => cache'[i].ref = Cardinality(Drops(i)')
    BY <2>1, <1>2, <1>8, <1>14 DEF UsedAt
  <2>3. ASSUME NEW u \in Process PROVE Frees(todo'[u]) # i
    <3>1. SUFFICES ASSUME Frees(todo'[u]) = i PROVE FALSE
      OBVIOUS
    <3>2. u # t /\ Frees(todo[u]) = i
      BY <3>1, <1>3, <1>4, <1>6 DEF OnlyMoved, Inum
    <3>3. Owns(u, i)
      BY <3>2, <1>3 DEF Owns, Inum
    <3>4. cache[i].ref >= 2 /\ cache[i].ref = 1
      BY <3>2, <3>3, <2>1, <1>9 DEF UsedAt
    <3> QED
      BY <3>4
  <2>4. ASSUME NEW u \in Process, pc[u] = "create2" /\ local[u].ip = i
        PROVE  /\ cache'[i].ref = Cardinality(Drops(i)') + 1
               /\ disk[i].nlink = 0 /\ disk[i].type = TypeOf(local[u].call.op)
               /\ local[u].path[1] \in Name
    <3>1. /\ cache[i].ref = Cardinality(Drops(i)) + 1
          /\ disk[i].nlink = 0 /\ disk[i].type = TypeOf(local[u].call.op)
          /\ local[u].path[1] \in Name
      BY <2>1, <2>4 DEF UsedAt
    <3> QED
      BY <3>1, <1>8, <1>14
  <2>5. disk[i].type = "dir" => \/ dir[i]["."] = i /\ dir[i][".."] # 0
                                \/ \E u \in Process : pc[u] = "create2" /\ local[u].ip = i
    BY <2>1 DEF UsedAt
  <2> QED
    BY <2>2, <2>3, <2>4, <2>5, <1>2 DEF UsedAt, Frees, TypeOf
<1> QED
  BY <1>2, <1>11, <1>13, <1>15, <1>16 DEF LInv, AInv, Kept

-----------------------------------------------------------------------------
(* Steps that change a link count                                          *)

Bit(P) == IF P THEN 1 ELSE 0

(* The links that t owes.                                                  *)
LEMMA OwedMove ==
    ASSUME NEW t \in Process, OnlyMoved(t), NEW j
    PROVE  /\ Cardinality(Owed(j)) \in Nat /\ Cardinality(Owed(j)') \in Nat
           /\ Cardinality(Owed(j)') = Cardinality(Owed(j)) - Bit(Owes(pc[t], local[t], j))
                                      + Bit(Owes(pc'[t], local'[t], j))
<1>1. PICK A, B : A = Owed(j) /\ B = Owed(j)'
  OBVIOUS
<1>2. B = {u \in Process : Owes(pc'[u], local'[u], j)} /\ A = {u \in Process : Owes(pc[u], local[u], j)}
  BY <1>1 DEF Owed, Owes, Linking
<1>3. \A u \in Process \ {t} : Owes(pc'[u], local'[u], j) <=> Owes(pc[u], local[u], j)
  BY DEF OnlyMoved
<1>4. /\ IsFiniteSet(A) /\ A \ {t} = B \ {t}
      /\ t \in A <=> Owes(pc[t], local[t], j)
      /\ t \in B <=> Owes(pc'[t], local'[t], j)
  <2>1. IsFiniteSet(A)
    BY <1>1, LinksFacts
  <2> QED
    BY <2>1, <1>2, <1>3
<1>5. /\ Cardinality(A) \in Nat /\ Cardinality(B) \in Nat
      /\ Cardinality(B) = Cardinality(A) - (IF t \in A THEN 1 ELSE 0) + (IF t \in B THEN 1 ELSE 0)
  BY <1>4, CardChange
<1> QED
  BY <1>1, <1>4, <1>5 DEF Bit

(* The count goes with the links.                                          *)
LEMMA LinkedMove ==
    ASSUME IInv, NEW j \in Inum, LinkedAt(j), disk'[j].type = disk[j].type, stranded' = stranded,
           NEW k \in Int, Links(j)' = Links(j) + k, disk'[j].nlink = disk[j].nlink + k
    PROVE  LinkedAt(j)'
<1>1. disk[j].nlink \in Int /\ Links(j) \in Nat
  BY LinksFacts DEF IInv, TypeOK, Dinode
<1>2. SUFFICES ASSUME disk[j].type # "free"
               PROVE  IF j \in stranded THEN disk'[j].nlink > Links(j)' ELSE disk'[j].nlink = Links(j)'
  BY DEF LinkedAt
<1>3. IF j \in stranded THEN disk[j].nlink > Links(j) ELSE disk[j].nlink = Links(j)
  BY <1>2 DEF LinkedAt
<1>4. PICK a, b : a = Links(j)' /\ b = disk'[j].nlink
  OBVIOUS
<1>5. a = Links(j) + k /\ b = disk[j].nlink + k
  BY <1>4
<1>6. IF j \in stranded THEN b > a ELSE b = a
  BY <1>1, <1>3, <1>5
<1> QED
  BY <1>4, <1>6

(* A step of t to p that sets nlink of i, which it has and locks, to n and *)
(* gets a reference to x, or to none.                                      *)
Counts(t, s, p, l, x, i, n) ==
    /\ NotDrop(todo[t]) /\ NotDrop(s) /\ Frees(s) = 0 /\ pc[t] # "create2" /\ p \notin {"unlink2", "create2"}
    /\ Went(t, s, p, l) /\ LockStep(t, s, p, l) /\ Finds(p, l)
    /\ Written(disk, disk', i, n) /\ UNCHANGED <<dir, lost, stranded, strayed>>
    /\ \A j \in Inum : /\ cache'[j].ref = cache[j].ref + One(x, j)
                       /\ cache[j].valid /\ cache[j].ref >= 1 => cache'[j].valid
    /\ x # 0 => strayed \/ ~Gone(x)
    /\ i \in Inum /\ HasInode(t, i) /\ lock[i] \in {None, t} /\ cache'[i].valid
    /\ n = disk[i].nlink - Bit(Owes(pc[t], local[t], i)) + Bit(Owes(p, l, i))
    /\ \A j : j # i => (Owes(p, l, j) <=> Owes(pc[t], local[t], j))

(* The invariants after such a step.                                       *)
LEMMA CountsInv ==
    ASSUME IInv, LInv, AInv, IInv', NEW t \in Process, NEW s, NEW p, NEW l, NEW x, NEW i, NEW n,
           Counts(t, s, p, l, x, i, n)
    PROVE  LInv' /\ AInv'
<1> USE DEF Went
<1>0. Locked /\ Checked /\ Tree /\ Kept /\ TypeOK
  BY DEF LInv, IInv
<1>1. /\ NotDrop(todo[t]) /\ NotDrop(s) /\ Frees(s) = 0 /\ pc[t] # "create2" /\ p \notin {"unlink2", "create2"}
      /\ Went(t, s, p, l) /\ LockStep(t, s, p, l) /\ Finds(p, l)
      /\ UNCHANGED <<dir, lost, stranded, strayed>>
      /\ \A j \in Inum : /\ cache'[j].ref = cache[j].ref + One(x, j)
                         /\ cache[j].valid /\ cache[j].ref >= 1 => cache'[j].valid
      /\ x # 0 => strayed \/ ~Gone(x)
      /\ i \in Inum /\ HasInode(t, i) /\ lock[i] \in {None, t} /\ cache'[i].valid
      /\ \A j : j # i => (Owes(p, l, j) <=> Owes(pc[t], local[t], j))
  BY DEF Counts
<1>2. /\ n = disk[i].nlink - Bit(Owes(pc[t], local[t], i)) + Bit(Owes(p, l, i))
      /\ \A j \in Inum : disk'[j].type = disk[j].type
      /\ disk'[i].nlink = n /\ \A j \in Inum \ {i} : disk'[j].nlink = disk[j].nlink
  <2>1. disk \in [Inum -> Dinode]
    BY <1>0 DEF TypeOK
  <2>2. Written(disk, disk', i, n) /\ n = disk[i].nlink - Bit(Owes(pc[t], local[t], i)) + Bit(Owes(p, l, i))
    BY DEF Counts
  <2> QED
    BY <2>1, <2>2, <1>1 DEF Written, Dinode
<1>3. l \in Local /\ Shape(cwd'[t], p, l)
  <2>1. local'[t] \in Local
    BY DEF IInv, TypeOK
  <2>2. Shapes' => Shape(cwd'[t], pc'[t], local'[t])
    BY DEF Shapes, Shape, UsesIp
  <2> QED
    BY <2>1, <2>2, <1>1 DEF IInv
<1>4. Locked'
  BY <1>1, StepLocked
<1>5. Checked'
  <2>1. \A j \in Inum : Freeing(j)' => Freeing(j)
    BY <1>1, FreeingGoes
  <2>2. ASSUME NEW u \in Process \ {t}, NEW j \in Inum, Owns(u, j)
        PROVE  (cache[j].valid => cache'[j].valid) /\ disk'[j].nlink = disk[j].nlink
    <3>1. lock[j] = u /\ cache[j].ref >= 1
      BY <2>2, <1>0, OwnsFacts
    <3>2. j # i
      BY <3>1, <1>1, FsAssumption
    <3> QED
      BY <3>1, <3>2, <1>1, <1>2
  <2>3. CheckedAt(pc[t], local[t], todo[t])'
    BY <1>1, <1>2, <1>3, FindsChecked
  <2> QED
    BY <2>1, <2>2, <2>3, <1>0, <1>1, <1>2, CheckedFrame
<1>6. Tree'
  <2>1. \A j \in Inum : disk'[j].type # "dir" => \A m \in Name : dir'[j][m] = 0
    BY <1>0, <1>1, <1>2 DEF Tree
  <2>2. \A d, j \in Inum : Edge(d, j)' => Edge(d, j)
    BY <1>1, EdgesGo
  <2> QED
    BY <2>1, <2>2, <1>0, TreeShrinks
<1>7. \A j \in Inum : Drops(j)' = Drops(j)
  BY <1>1, DropsSame DEF NotDrop
<1>8. \A j \in Inum : cache[j].ref \in Nat /\ cache'[j].ref \in Nat /\ cache'[j].ref >= cache[j].ref
  <2>1. \A j \in Inum : cache[j].ref \in Nat
    BY <1>0 DEF TypeOK, Inode
  <2> QED
    BY <2>1, <1>1 DEF One
<1>9. Kept'
  <2>1. ASSUME NEW j \in Inum \ {i} PROVE KeptAt(j)'
    <3>1. KeptAt(j)
      BY <1>0 DEF Kept
    <3>2. \A u \in Process : pc[u] = "create2" /\ local[u].ip = j =>
             \E v \in Process : pc'[v] = "create2" /\ local'[v].ip = j
      BY <1>1 DEF OnlyMoved
    <3> QED
      BY <3>1, <3>2, <1>1, <1>2, <1>7, <1>8, KeptFrame
  <2>2. KeptAt(i)'
    <3>1. cache[i].ref > Cardinality(Drops(i)) /\ Cardinality(Drops(i)) \in Nat
      BY <1>1, HeldMore, DropsFacts
    <3>2. cache'[i].ref > Cardinality(Drops(i)')
      <4>1. Cardinality(Drops(i)') = Cardinality(Drops(i))
        BY <1>1, <1>7
      <4> QED
        BY <4>1, <3>1, <1>1, <1>8
    <3> QED
      BY <3>2, <1>1 DEF KeptAt
  <2> QED
    BY <2>1, <2>2 DEF Kept
<1>10. AInv'
  <2>1. SUFFICES ASSUME ~strayed PROVE Reachable' /\ \A j \in Inum : LinkedAt(j)' /\ UsedAt(j)'
    BY <1>1 DEF AInv
  <2>2. Reachable /\ \A j \in Inum : LinkedAt(j) /\ UsedAt(j)
    BY <2>1 DEF AInv
  <2>3. Reachable'
    <3>1. ROOTINO \in Inum /\ stranded \subseteq Inum /\ dir \in [Inum -> [Entry -> OptInum]]
      BY <1>0, FsAssumption DEF ROOTINO, Inum, TypeOK, Contents
    <3>2. \A d \in Inum, m \in Name : dir[d][m] \in OptInum
      BY <3>1 DEF Entry
    <3> QED
      BY <3>1, <3>2, <2>2, <1>1, <1>2, SMTT(40) DEF Reachable, OptInum
  <2>4. ASSUME NEW j \in Inum PROVE LinkedAt(j)'
    <3>1. Names(j)' = Names(j) /\ Subdirs(j)' = Subdirs(j)
      <4>1. \A d \in Inum, m \in Name : dir[d][m] \in OptInum
        BY <1>0 DEF TypeOK, Contents, Entry
      <4>2. Names(j)' = Names(j)
        BY <1>1, <1>2 DEF Names
      <4>3. Subdirs(j)' = Subdirs(j)
        BY <4>1, <1>1, <1>2 DEF Subdirs, OptInum
      <4> QED
        BY <4>2, <4>3
    <3>2. CASE j # i
      <4>1. Owed(j)' = Owed(j)
        BY <3>2, <1>1, OwedSame
      <4>2. Links(j)' = Links(j)
        BY <4>1, <3>1 DEF Links
      <4> QED
        BY <4>2, <3>2, <2>2, <1>1, <1>2 DEF LinkedAt
    <3>3. CASE j = i
      <4>1. PICK a \in Int, b \in Int : a = Bit(Owes(pc[t], local[t], i)) /\ b = Bit(Owes(p, l, i))
        BY DEF Bit
      <4>2. /\ Cardinality(Owed(j)) \in Nat /\ Cardinality(Owed(j)') = Cardinality(Owed(j)) - a + b
        BY <4>1, <3>3, <1>1, OwedMove
      <4>3. PICK e \in Nat : /\ Links(j) = e + Cardinality(Owed(j))
                             /\ Links(j)' = e + Cardinality(Owed(j)')
        <5>1. PICK q \in Nat : q = IF j = ROOTINO THEN 1 ELSE 0
          OBVIOUS
        <5>2. Cardinality(Names(j)) \in Nat /\ Cardinality(Subdirs(j)) \in Nat
          BY LinksFacts
        <5>3. /\ Links(j) = q + Cardinality(Names(j)) + Cardinality(Subdirs(j)) + Cardinality(Owed(j))
              /\ Links(j)' = q + Cardinality(Names(j)) + Cardinality(Subdirs(j)) + Cardinality(Owed(j)')
          BY <5>1, <3>1 DEF Links
        <5> QED
          BY <5>2, <5>3
      <4>4. Links(j)' = Links(j) + (b - a)
        BY <4>1, <4>2, <4>3
      <4>5. disk'[j].nlink = disk[j].nlink + (b - a)
        <5>1. disk[j].nlink \in Int
          BY <1>0 DEF TypeOK, Dinode
        <5> QED
          BY <5>1, <4>1, <3>3, <1>2
      <4> QED
        BY <4>1, <4>4, <4>5, <2>2, <1>1, <1>2, LinkedMove
    <3> QED
      BY <3>2, <3>3
  <2>5. ASSUME NEW j \in Inum PROVE UsedAt(j)'
    <3>1. Frees(todo'[t]) # j
      BY <1>1 DEF Inum
    <3>2. CASE j = i
      <4>1. ~Gone(i)
        BY <2>2, <1>0, <1>1, HeldNotGone
      <4> QED
        BY <4>1, <3>1, <3>2, <2>2, <1>0, <1>1, <1>2, UsedNotGone
    <3>3. CASE j # i
      <4>1. ~Gone(j) \/ cache'[j].ref = cache[j].ref
        <5>1. CASE x = j
          BY <5>1, <2>1, <1>1 DEF Inum
        <5>2. CASE x # j
          BY <5>2, <1>1, <1>8 DEF One
        <5> QED
          BY <5>1, <5>2
      <4> QED
        BY <4>1, <3>1, <3>3, <2>2, <1>0, <1>1, <1>2, <1>7, UsedFrame
    <3> QED
      BY <3>2, <3>3
  <2> QED
    BY <2>3, <2>4, <2>5
<1> QED
  BY <1>4, <1>5, <1>6, <1>9, <1>10 DEF LInv

(* Setting nlink keeps the copies.                                         *)
LEMMA SetLinksKeeps ==
    ASSUME NEW c \in [Inum -> Inode], NEW i \in Inum, NEW n \in Int, NEW j \in Inum
    PROVE  /\ SetLinks(c, i, n) \in [Inum -> Inode]
           /\ SetLinks(c, i, n)[j].ref = c[j].ref /\ SetLinks(c, i, n)[j].valid = c[j].valid
<1>1. c[j] \in Inode /\ c[i] \in Inode
  OBVIOUS
<1>2. SetLinks(c, i, n) = [c EXCEPT ![i].nlink = n]
  BY DEF SetLinks
<1> QED
  BY <1>1, <1>2 DEF Inode

(* ip of the call, locked and loaded.                                      *)
LEMMA AtInode ==
    ASSUME IInv, LInv, NEW t \in Process,
           NEW p \in {"chdir", "exec", "link1", "linkbad", "unlink2", "create2", "exists"}, Runs(t, p),
           NEW i, i = local[t].ip, NEW c, InMemory(c, i)
    PROVE  /\ TypeOK /\ todo[t] = <<>> /\ pc[t] = p /\ local[t] \in Local /\ i \in Inum
           /\ Shape(cwd[t], p, local[t]) /\ HasInode(t, i) /\ lock[i] = None /\ ~Freeing(i)
           /\ p \in {"unlink2", "create2"} => local[t].dp \in Inum /\ HasInode(t, local[t].dp)
           /\ c \in [Inum -> Inode] /\ Copies(c, disk) /\ c[i].valid /\ cache[i].ref >= 1
           /\ c[i].nlink = disk[i].nlink /\ c[i].type = disk[i].type /\ disk[i].type # "free"
           /\ disk[i].nlink \in Int
           /\ \A j \in Inum : c[j].ref = cache[j].ref /\ (cache[j].valid => c[j].valid)
<1>1. /\ TypeOK /\ todo[t] = <<>> /\ pc[t] = p /\ local[t] \in Local /\ i \in Inum
      /\ Shape(cwd[t], p, local[t]) /\ IpIn(pc[t], local[t]) = i
      /\ p \in {"unlink2", "create2"} => local[t].dp \in Inum /\ DpIn(pc[t], local[t]) = local[t].dp
      /\ c \in [Inum -> Inode] /\ Copies(c, disk)
      /\ \A j \in Inum : c[j].ref = cache[j].ref
  <2>1. c = [cache EXCEPT ![local[t].ip] = Loaded(local[t].ip)]
    BY DEF InMemory
  <2>2. /\ TypeOK /\ Coherent /\ todo[t] = <<>> /\ pc[t] = p /\ At(t) = p /\ local[t] \in Local
        /\ Shape(cwd[t], p, local[t])
        /\ local[t].ip \in Inum /\ IpIn(pc[t], local[t]) = local[t].ip
        /\ p \in {"unlink2", "create2"} => local[t].dp \in Inum /\ DpIn(pc[t], local[t]) = local[t].dp
        /\ p \notin {"unlink2", "create2"} => DpIn(pc[t], local[t]) = 0
        /\ c \in [Inum -> Inode] /\ Copies(c, disk)
        /\ \A j \in Inum : c[j].ref = cache[j].ref
    BY <2>1, AtIp, ZenonT(60)
  <2> QED
    BY <2>2
<1>2. lock[i] = None
  BY <1>1, LocksIp DEF Inum
<1>3. ~Freeing(i)
  BY <1>1, <1>2, LockFree
<1>4. c[i].valid /\ \A j \in Inum : cache[j].valid => c[j].valid
  BY <1>1, LoadKeeps
<1>5. /\ HasInode(t, i)
      /\ p \in {"unlink2", "create2"} => local[t].dp \in Inum /\ HasInode(t, local[t].dp)
  BY <1>1 DEF HasInode
<1>6. cache[i].ref >= 1
  <2>1. /\ cache[i].ref >= Cardinality(Heads(i)) + 1 /\ Cardinality(Heads(i)) \in Nat /\ cache[i].ref \in Nat
    BY <1>1, <1>5, HeldMore
  <2> QED
    BY <2>1
<1>7. /\ c[i].nlink = disk[i].nlink /\ c[i].type = disk[i].type /\ disk[i].type # "free"
      /\ disk[i].nlink \in Int
  BY <1>1, <1>4 DEF Copies, TypeOK, Dinode
<1> QED
  BY <1>1, <1>2, <1>3, <1>4, <1>5, <1>6, <1>7

(* link() counts the link that it is going to make.                        *)
LEMMA Link1Links ==
    ASSUME IInv, LInv, AInv, NEW t \in Process, Link1(t)
    PROVE  LInv' /\ AInv'
<1>0. IInv'
  BY Link1Inv
<1>1. PICK p, i, c, k : p = "link1" /\ i = local[t].ip /\ InMemory(c, i) /\ k = local[t].call.new
  BY DEF InMemory
<1>2. /\ Runs(t, p) /\ p \in {"chdir", "exec", "link1", "linkbad", "unlink2", "create2", "exists"}
      /\ UNCHANGED <<dir, lock, cwd, ghosts>>
  BY <1>1 DEF Link1
<1>3. /\ TypeOK /\ todo[t] = <<>> /\ pc[t] = p /\ local[t] \in Local /\ i \in Inum
      /\ Shape(cwd[t], p, local[t]) /\ HasInode(t, i) /\ lock[i] = None /\ ~Freeing(i)
      /\ c \in [Inum -> Inode] /\ c[i].valid /\ cache[i].ref >= 1
      /\ c[i].nlink = disk[i].nlink /\ c[i].type = disk[i].type /\ disk[i].type # "free"
      /\ disk[i].nlink \in Int
      /\ \A j \in Inum : c[j].ref = cache[j].ref /\ (cache[j].valid => c[j].valid)
  BY <1>1, <1>2, AtInode
<1>4. CASE cache' = c /\ Finish(t, <<Put(i)>>) /\ UNCHANGED disk
  <2>1. cwd' = [cwd EXCEPT ![t] = cwd[t]]
    BY <1>2, <1>3 DEF TypeOK
  <2>2. cache' = [cache EXCEPT ![local[t].ip] = Loaded(local[t].ip)]
    BY <1>1, <1>4 DEF InMemory
  <2> QED
    BY <2>1, <2>2, <1>0, <1>1, <1>2, <1>3, <1>4, EndAtIp
<1>5. CASE /\ c[i].type # "dir" /\ cache' = Iget(SetLinks(c, i, Linked(c[i].nlink)), Start(t, k))
           /\ disk' = [disk EXCEPT ![i].nlink = Linked(c[i].nlink)]
           /\ local' = [local EXCEPT ![t] = Walk(local[t], "nameiparent", Elements(k), Start(t, k))]
           /\ Goto(t, <<>>, "nameiparent")
  <2>1. local[t].call \in AllCalls /\ local[t].call.op = "link" /\ cwd[t] # 0
    BY <1>1, <1>3 DEF Shape
  <2>2. k \in Path
    BY <2>1, <1>1, CallPaths
  <2>3. PICK x, e, l, n, s, b : /\ x = Start(t, k) /\ e = Elements(k) /\ n = Linked(c[i].nlink) /\ s = <<>>
                                /\ l = Walk(local[t], "nameiparent", e, x) /\ b = SetLinks(c, i, n)
    OBVIOUS
  <2>4. x \in Inum /\ e \in Seq(Entry) /\ (x = ROOTINO \/ cwd[t] = x) /\ x \in OptInum
    BY <2>1, <2>2, <2>3, <1>3, PathFacts DEF Start, OptInum
  <2>5. l.call.op = "link" /\ l.ip = i
    BY <2>1, <2>3, <2>4, <1>1, <1>3, WalkFacts
  <2>6. n \in Int /\ n = disk[i].nlink + 1
    BY <2>3, <1>3 DEF Linked
  <2>7. b \in [Inum -> Inode] /\ \A j \in Inum : b[j].ref = c[j].ref /\ b[j].valid = c[j].valid
    BY <2>3, <2>6, <1>3, SetLinksKeeps, ZenonT(60)
  <2>8. /\ \A j \in Inum : /\ cache'[j].ref = cache[j].ref + One(x, j)
                           /\ cache[j].valid /\ cache[j].ref >= 1 => cache'[j].valid
        /\ cache'[i].valid
    <3>1. cache' = Iget(b, x)
      BY <2>3, <1>5
    <3>2. \A j \in Inum : cache'[j].ref = b[j].ref + One(x, j)
      BY <3>1, <2>4, <2>7, IgetFacts
    <3>3. \A j \in Inum : b[j].valid /\ b[j].ref >= 1 => cache'[j].valid
      BY <3>1, <2>4, <2>7, IgetKeeps
    <3> QED
      BY <3>2, <3>3, <2>7, <1>3
  <2>9. Went(t, s, "nameiparent", l)
    <3>1. Goto(t, s, "nameiparent") /\ local' = [local EXCEPT ![t] = l] /\ UNCHANGED cwd
      BY <2>3, <1>2, <1>5
    <3> QED
      BY <3>1, GotoWent
  <2>10. /\ Linking("nameiparent", l) /\ ~Linking(p, local[t]) /\ CallLock("nameiparent", l) = 0
         /\ CallLock(p, local[t]) = 0
    BY <2>5, <1>1 DEF Linking, CallLock
  <2>11. /\ ListOK(s) /\ Unlocks(s) = 0 /\ Frees(s) = 0 /\ NotDrop(s) /\ todo[t] = s
    BY <2>3, <1>3, ListLocks
  <2>12. LockStep(t, s, "nameiparent", l)
    <3>1. Apart("nameiparent", l, s) /\ LocksIn("nameiparent", l, s) = LocksIn(pc[t], local[t], todo[t])
      BY <2>3, <2>10, <2>11, <1>3 DEF Apart, LocksIn
    <3> QED
      BY <3>1, <2>11, <1>2, KeepLocks
  <2>13. Finds("nameiparent", l)
    BY <2>5, <2>10, <1>3, <1>5 DEF Finds
  <2>14. /\ \A j : j # i => ~Owes("nameiparent", l, j) /\ ~Owes(p, local[t], j)
         /\ Owes("nameiparent", l, i) /\ ~Owes(p, local[t], i)
    BY <2>5, <2>10, <1>1 DEF Owes
  <2>15. n = disk[i].nlink - Bit(Owes(pc[t], local[t], i)) + Bit(Owes("nameiparent", l, i))
    BY <2>6, <2>14, <1>3 DEF Bit
  <2>16. strayed \/ ~Gone(x)
    BY <2>4, <1>1, <1>3, StartNotGone
  <2>17. Written(disk, disk', i, n)
    BY <2>3, <1>5 DEF Written
  <2>18. Counts(t, s, "nameiparent", l, x, i, n)
    BY <2>8, <2>9, <2>11, <2>12, <2>13, <2>14, <2>15, <2>16, <2>17, <1>1, <1>2, <1>3 DEF Counts, ghosts
  <2> QED
    BY <2>18, <1>0, CountsInv
<1> QED
  BY <1>1, <1>4, <1>5 DEF Link1, InMemory

(* bad: of link() takes the count back.                                    *)
LEMMA LinkBadLinks ==
    ASSUME IInv, LInv, AInv, NEW t \in Process, LinkBad(t)
    PROVE  LInv' /\ AInv'
<1>0. IInv'
  BY LinkBadInv
<1>1. PICK p, i, c, n, s : /\ p = "linkbad" /\ i = local[t].ip /\ InMemory(c, i) /\ n = c[i].nlink - 1
                           /\ s = <<Put(i)>>
  BY DEF InMemory
<1>2. /\ Runs(t, p) /\ p \in {"chdir", "exec", "link1", "linkbad", "unlink2", "create2", "exists"}
      /\ UNCHANGED <<dir, lock, cwd, ghosts>> /\ cache' = SetLinks(c, i, n) /\ Finish(t, s)
      /\ Written(disk, disk', i, n)
  BY <1>1 DEF LinkBad, InMemory, Written
<1>3. /\ TypeOK /\ todo[t] = <<>> /\ pc[t] = p /\ i \in Inum /\ HasInode(t, i) /\ lock[i] = None
      /\ c \in [Inum -> Inode] /\ c[i].valid
      /\ c[i].nlink = disk[i].nlink /\ disk[i].nlink \in Int
      /\ \A j \in Inum : c[j].ref = cache[j].ref /\ (cache[j].valid => c[j].valid)
  BY <1>1, <1>2, AtInode
<1>4. n \in Int /\ n = disk[i].nlink - 1
  BY <1>1, <1>3
<1>5. /\ \A j \in Inum : cache'[j].ref = cache[j].ref /\ (cache[j].valid => cache'[j].valid)
      /\ cache'[i].valid
  BY <1>2, <1>3, <1>4, SetLinksKeeps
<1>6. \A j \in Inum : cache'[j].ref = cache[j].ref + One(0, j)
  BY <1>5, SameRefs
<1>7. Went(t, s, "user", Idle)
  <2>1. cwd' = [cwd EXCEPT ![t] = cwd[t]]
    BY <1>2, <1>3 DEF TypeOK
  <2> QED
    BY <2>1, <1>2, FinishWent
<1>8. /\ Linking(p, local[t]) /\ ~Linking("user", Idle) /\ CallLock("user", Idle) = 0
      /\ CallLock(p, local[t]) = 0 /\ "user" \notin DpSteps
  BY <1>1 DEF Linking, CallLock, DpSteps
<1>9. /\ ListOK(s) /\ Unlocks(s) = 0 /\ Frees(s) = 0 /\ NotDrop(s)
      /\ Unlocks(<<>>) = 0 /\ Frees(<<>>) = 0 /\ NotDrop(<<>>)
  BY <1>1, <1>3, ListLocks
<1>10. LockStep(t, s, "user", Idle)
  <2>1. Apart("user", Idle, s) /\ LocksIn("user", Idle, s) = LocksIn(pc[t], local[t], todo[t])
    BY <1>3, <1>8, <1>9 DEF Apart, LocksIn
  <2> QED
    BY <2>1, <1>2, <1>9, KeepLocks
<1>11. Finds("user", Idle)
  BY <1>8 DEF Finds
<1>12. /\ \A j : j # i => ~Owes("user", Idle, j) /\ ~Owes(p, local[t], j)
       /\ ~Owes("user", Idle, i) /\ Owes(p, local[t], i)
  BY <1>1, <1>8 DEF Owes
<1>13. n = disk[i].nlink - Bit(Owes(pc[t], local[t], i)) + Bit(Owes("user", Idle, i))
  BY <1>3, <1>4, <1>12, SMTT(40) DEF Bit
<1>14. Counts(t, s, "user", Idle, 0, i, n)
  BY <1>1, <1>2, <1>3, <1>5, <1>6, <1>7, <1>9, <1>10, <1>11, <1>12, <1>13, ZenonT(60) DEF Counts, ghosts
<1> QED
  BY <1>0, <1>14, CountsInv

(* unlink() takes the link back.                                           *)
LEMMA Unlink3Links ==
    ASSUME IInv, LInv, AInv, NEW t \in Process, Unlink3(t)
    PROVE  LInv' /\ AInv'
<1>0. IInv'
  BY Unlink3Inv
<1>1. PICK p, i, n, s : p = "unlink3" /\ i = local[t].ip /\ n = cache[i].nlink - 1 /\ s = <<Put(i)>>
  OBVIOUS
<1>2. /\ At(t) = p /\ p \in Step /\ UNCHANGED <<dir, cwd, ghosts>> /\ cache' = SetLinks(cache, i, n)
      /\ Finish(t, s) /\ Written(disk, disk', i, n) /\ lock' = [lock EXCEPT ![i] = None]
  BY <1>1 DEF Unlink3, Runs, Written, Step
<1>3. TypeOK /\ todo[t] = <<>> /\ pc[t] = p /\ i \in Inum /\ HasInode(t, i)
  BY <1>1, <1>2, Here DEF UsesIp, IpSteps, IInv, HasInode
<1>4. /\ Linking("user", Idle) = FALSE /\ CallLock("user", Idle) = 0
      /\ CallLock(p, local[t]) = i /\ i # 0 /\ "user" \notin DpSteps
  BY <1>1, <1>3 DEF Linking, CallLock, DpSteps, Inum
<1>5. /\ ListOK(s) /\ Unlocks(s) = 0 /\ Frees(s) = 0 /\ NotDrop(s)
      /\ Unlocks(<<>>) = 0 /\ Frees(<<>>) = 0 /\ NotDrop(<<>>)
  BY <1>1, <1>3, ListLocks
<1>6. LocksIn(pc[t], local[t], todo[t]) = {i} /\ LocksIn("user", Idle, s) = {}
  BY <1>3, <1>4, <1>5 DEF LocksIn
<1>7. lock[i] = t /\ cache[i].valid
  BY <1>3, <1>4, <1>6 DEF LInv, Locked, Checked, CheckedAt
<1>8. LockStep(t, s, "user", Idle)
  <2>1. Apart("user", Idle, s)
    BY <1>4, <1>5 DEF Apart
  <2> QED
    BY <2>1, <1>2, <1>3, <1>5, <1>6, ReleaseLock
<1>9. cache \in [Inum -> Inode] /\ cache[i].nlink = disk[i].nlink /\ disk[i].nlink \in Int
  BY <1>3, <1>7 DEF IInv, Coherent, TypeOK, Dinode
<1>10. n \in Int /\ n = disk[i].nlink - 1
  BY <1>1, <1>9
<1>11. /\ \A j \in Inum : cache'[j].ref = cache[j].ref /\ (cache[j].valid => cache'[j].valid)
       /\ cache'[i].valid
  BY <1>2, <1>3, <1>7, <1>9, <1>10, SetLinksKeeps
<1>12. \A j \in Inum : cache'[j].ref = cache[j].ref + One(0, j)
  BY <1>11, SameRefs
<1>13. Went(t, s, "user", Idle)
  <2>1. cwd' = [cwd EXCEPT ![t] = cwd[t]]
    BY <1>2, <1>3 DEF TypeOK
  <2> QED
    BY <2>1, <1>2, FinishWent
<1>14. Finds("user", Idle)
  BY <1>4 DEF Finds
<1>15. /\ \A j : j # i => ~Owes("user", Idle, j) /\ ~Owes(p, local[t], j)
       /\ ~Owes("user", Idle, i) /\ Owes(p, local[t], i)
  BY <1>1, <1>4 DEF Owes
<1>16. n = disk[i].nlink - Bit(Owes(pc[t], local[t], i)) + Bit(Owes("user", Idle, i))
  BY <1>3, <1>9, <1>10, <1>15, SMTT(40) DEF Bit
<1>17. Counts(t, s, "user", Idle, 0, i, n)
  BY <1>1, <1>2, <1>3, <1>5, <1>7, <1>8, <1>11, <1>12, <1>13, <1>14, <1>15, <1>16, ZenonT(60) DEF Counts, ghosts
<1> QED
  BY <1>0, <1>17, CountsInv

-----------------------------------------------------------------------------
(* Steps that make or remove a name                                        *)

IsDir(a) == a # 0 /\ disk[a].type = "dir"

(* The entry n of the directory d changes.                                 *)
NewEntry(d, n) ==
    /\ d \in Inum /\ n \in Name /\ disk[d].type = "dir"
    /\ \A e \in Inum : disk'[e].type = disk[e].type
    /\ \A e \in Inum, m \in Name : e # d \/ m # n => dir'[e][m] = dir[e][m]
    /\ dir[d][n] \in OptInum /\ dir'[d][n] \in OptInum

(* The names of an inode.                                                  *)
LEMMA NamesMove ==
    ASSUME NEW d, NEW n, NewEntry(d, n), NEW j
    PROVE  /\ Cardinality(Names(j)) \in Nat
           /\ Cardinality(Names(j)') = Cardinality(Names(j)) - One(dir[d][n], j) + One(dir'[d][n], j)
<1>1. PICK A, B, x : A = Names(j) /\ B = Names(j)' /\ x = <<d, n>>
  OBVIOUS
<1>2. /\ d \in Inum /\ n \in Name /\ disk[d].type = "dir"
      /\ \A e \in Inum : disk'[e].type = disk[e].type
      /\ \A e \in Inum, m \in Name : e # d \/ m # n => dir'[e][m] = dir[e][m]
  BY DEF NewEntry
<1>3. /\ \A y : y \in A <=> y \in Inum \X Name /\ disk[y[1]].type = "dir" /\ dir[y[1]][y[2]] = j
      /\ \A y : y \in B <=> y \in Inum \X Name /\ disk'[y[1]].type = "dir" /\ dir'[y[1]][y[2]] = j
  BY <1>1 DEF Names
<1>4. x \in Inum \X Name /\ x[1] = d /\ x[2] = n
  BY <1>1, <1>2
<1>5. (x \in A <=> dir[d][n] = j) /\ (x \in B <=> dir'[d][n] = j)
  BY <1>2, <1>3, <1>4
<1>6. ASSUME NEW y, y # x PROVE y \in A <=> y \in B
  <2>1. CASE y \in Inum \X Name
    <3>1. PICK e \in Inum, m \in Name : y = <<e, m>>
      BY <2>1
    <3>2. e # d \/ m # n
      BY <3>1, <1>1, <1>6
    <3>3. disk'[e].type = disk[e].type /\ dir'[e][m] = dir[e][m] /\ y[1] = e /\ y[2] = m
      BY <3>1, <3>2, <1>2
    <3> QED
      BY <3>3, <2>1, <1>3
  <2>2. CASE y \notin Inum \X Name
    BY <2>2, <1>3
  <2> QED
    BY <2>1, <2>2
<1>7. A \ {x} = B \ {x} /\ IsFiniteSet(A)
  BY <1>1, <1>6, LinksFacts
<1>8. /\ Cardinality(A) \in Nat
      /\ Cardinality(B) = Cardinality(A) - (IF x \in A THEN 1 ELSE 0) + (IF x \in B THEN 1 ELSE 0)
  BY <1>7, CardChange
<1> QED
  BY <1>1, <1>5, <1>8 DEF One

(* The subdirectories of a directory.                                      *)
LEMMA SubdirsMove ==
    ASSUME TypeOK, NEW d, NEW n, NewEntry(d, n), NEW j \in Inum
    PROVE  /\ Cardinality(Subdirs(j)) \in Nat
           /\ j # d => Cardinality(Subdirs(j)') = Cardinality(Subdirs(j))
           /\ j = d => Cardinality(Subdirs(j)') = Cardinality(Subdirs(j)) - Bit(IsDir(dir[d][n]))
                                                  + Bit(IsDir(dir'[d][n]))
<1>1. PICK A, B : A = Subdirs(j) /\ B = Subdirs(j)'
  OBVIOUS
<1>2. /\ d \in Inum /\ n \in Name /\ dir[d][n] \in OptInum /\ dir'[d][n] \in OptInum
      /\ \A e \in Inum : disk'[e].type = disk[e].type
      /\ \A e \in Inum, m \in Name : e # d \/ m # n => dir'[e][m] = dir[e][m]
  BY DEF NewEntry
<1>3. \A m \in Name : dir[j][m] \in OptInum
  BY DEF TypeOK, Contents, Entry
<1>4. /\ \A m : m \in A <=> m \in Name /\ dir[j][m] # 0 /\ disk[dir[j][m]].type = "dir"
      /\ \A m : m \in B <=> m \in Name /\ dir'[j][m] # 0 /\ disk'[dir'[j][m]].type = "dir"
  BY <1>1 DEF Subdirs
<1>5. ASSUME NEW m, j # d \/ m # n PROVE m \in A <=> m \in B
  <2>1. CASE m \in Name
    <3>1. dir'[j][m] = dir[j][m] /\ dir[j][m] \in OptInum
      BY <2>1, <1>2, <1>3, <1>5
    <3> QED
      BY <3>1, <1>2, <1>4 DEF OptInum
  <2>2. CASE m \notin Name
    BY <2>2, <1>4
  <2> QED
    BY <2>1, <2>2
<1>6. j = d => (n \in A <=> IsDir(dir[d][n])) /\ (n \in B <=> IsDir(dir'[d][n]))
  BY <1>2, <1>4 DEF IsDir, OptInum
<1>7. IsFiniteSet(A) /\ A \ {n} = B \ {n} /\ (j # d => A = B)
  BY <1>1, <1>5, LinksFacts
<1>8. /\ Cardinality(A) \in Nat
      /\ Cardinality(B) = Cardinality(A) - (IF n \in A THEN 1 ELSE 0) + (IF n \in B THEN 1 ELSE 0)
  BY <1>7, CardChange
<1> QED
  BY <1>1, <1>6, <1>7, <1>8 DEF Bit

(* The links of an inode.                                                  *)
LEMMA LinksMove ==
    ASSUME TypeOK, NEW t \in Process, OnlyMoved(t), NEW d, NEW n, NewEntry(d, n), NEW j \in Inum,
           NEW a \in Int, a = One(dir'[d][n], j) - One(dir[d][n], j),
           NEW b \in Int, b = IF j = d THEN Bit(IsDir(dir'[d][n])) - Bit(IsDir(dir[d][n])) ELSE 0,
           NEW c \in Int, c = Bit(Owes(pc'[t], local'[t], j)) - Bit(Owes(pc[t], local[t], j))
    PROVE  Links(j) \in Nat /\ Links(j)' = Links(j) + (a + b + c)
<1>1. PICK q \in Nat : q = IF j = ROOTINO THEN 1 ELSE 0
  OBVIOUS
<1>2. /\ Links(j) = q + Cardinality(Names(j)) + Cardinality(Subdirs(j)) + Cardinality(Owed(j))
      /\ Links(j)' = q + Cardinality(Names(j)') + Cardinality(Subdirs(j)') + Cardinality(Owed(j)')
  BY <1>1 DEF Links
<1>3. Cardinality(Names(j)) \in Nat /\ Cardinality(Names(j)') = Cardinality(Names(j)) + a
  <2>1. /\ Cardinality(Names(j)) \in Nat
        /\ Cardinality(Names(j)') = Cardinality(Names(j)) - One(dir[d][n], j) + One(dir'[d][n], j)
    BY NamesMove
  <2>2. One(dir[d][n], j) \in Int /\ One(dir'[d][n], j) \in Int
    BY DEF One
  <2> QED
    BY <2>1, <2>2
<1>4. Cardinality(Subdirs(j)) \in Nat /\ Cardinality(Subdirs(j)') = Cardinality(Subdirs(j)) + b
  <2>1. /\ Cardinality(Subdirs(j)) \in Nat
        /\ j # d => Cardinality(Subdirs(j)') = Cardinality(Subdirs(j))
        /\ j = d => Cardinality(Subdirs(j)') = Cardinality(Subdirs(j)) - Bit(IsDir(dir[d][n]))
                                               + Bit(IsDir(dir'[d][n]))
    BY SubdirsMove
  <2>2. Bit(IsDir(dir[d][n])) \in Int /\ Bit(IsDir(dir'[d][n])) \in Int
    BY DEF Bit
  <2> QED
    BY <2>1, <2>2
<1>5. Cardinality(Owed(j)) \in Nat /\ Cardinality(Owed(j)') = Cardinality(Owed(j)) + c
  <2>1. /\ Cardinality(Owed(j)) \in Nat
        /\ Cardinality(Owed(j)') = Cardinality(Owed(j)) - Bit(Owes(pc[t], local[t], j))
                                   + Bit(Owes(pc'[t], local'[t], j))
    BY OwedMove
  <2>2. Bit(Owes(pc[t], local[t], j)) \in Int /\ Bit(Owes(pc'[t], local'[t], j)) \in Int
    BY DEF Bit
  <2> QED
    BY <2>1, <2>2
<1>6. PICK x \in Nat, y \in Nat, z \in Nat : /\ x = Cardinality(Names(j)) /\ y = Cardinality(Subdirs(j))
                                             /\ z = Cardinality(Owed(j))
  BY <1>3, <1>4, <1>5
<1>7. Links(j) = q + x + y + z /\ Links(j)' = q + (x + a) + (y + b) + (z + c)
  BY <1>2, <1>3, <1>4, <1>5, <1>6, Zenon
<1> QED
  BY <1>7

(* A step of t that writes only what nobody else has locked.               *)
Relinks(t, s, p, l) ==
    /\ NotDrop(todo[t]) /\ NotDrop(s) /\ Frees(s) = 0 /\ p \notin {"unlink2", "create2"}
    /\ Went(t, s, p, l) /\ LockStep(t, s, p, l) /\ Finds(p, l)
    /\ UNCHANGED <<lost, stranded, strayed>>
    /\ \A j \in Inum : /\ disk'[j].type = disk[j].type /\ cache'[j].ref = cache[j].ref
                       /\ cache[j].valid => cache'[j].valid
                       /\ lock[j] \notin {None, t} => /\ disk'[j].nlink = disk[j].nlink
                                                      /\ \A n \in Entry : dir'[j][n] = dir[j][n]
                       /\ disk'[j].nlink # disk[j].nlink => HasInode(t, j) /\ cache'[j].valid
    /\ pc[t] = "create2" => cache'[local[t].ip].valid

(* The locks, and what their owners know.                                  *)
LEMMA RelinksInv ==
    ASSUME IInv, LInv, IInv', NEW t \in Process, NEW s, NEW p, NEW l, Relinks(t, s, p, l)
    PROVE  Locked' /\ Checked' /\ Kept'
<1> USE DEF Went, Relinks
<1>0. Locked /\ Checked /\ Tree /\ Kept /\ TypeOK
  BY DEF LInv, IInv
<1>1. l \in Local /\ Shape(cwd'[t], p, l)
  <2>1. local'[t] \in Local
    BY DEF IInv, TypeOK
  <2>2. Shapes' => Shape(cwd'[t], pc'[t], local'[t])
    BY DEF Shapes, Shape, UsesIp
  <2> QED
    BY <2>1, <2>2 DEF IInv
<1>2. Locked'
  BY StepLocked
<1>3. Checked'
  <2>1. \A j \in Inum : Freeing(j)' => Freeing(j)
    BY FreeingGoes
  <2>2. ASSUME NEW u \in Process \ {t}, NEW j \in Inum, Owns(u, j)
        PROVE  /\ cache[j].valid => cache'[j].valid
               /\ disk'[j].nlink = disk[j].nlink
               /\ \A n \in Entry : dir'[j][n] = dir[j][n]
    <3>1. lock[j] = u /\ u \notin {None, t}
      BY <2>2, <1>0, OwnsFacts, FsAssumption
    <3> QED
      BY <3>1
  <2>3. CheckedAt(pc[t], local[t], todo[t])'
    BY <1>1, FindsChecked
  <2> QED
    BY <2>1, <2>2, <2>3, <1>0, CheckedFrame
<1>4. ASSUME NEW j \in Inum PROVE KeptAt(j)'
  <2>1. KeptAt(j) /\ cache[j].ref \in Nat /\ cache'[j].ref = cache[j].ref
    BY <1>0 DEF Kept, TypeOK, Inode
  <2>2. Drops(j)' = Drops(j)
    BY DropsSame DEF NotDrop
  <2>3. CASE disk'[j].nlink = disk[j].nlink
    <3>1. ASSUME NEW u \in Process, pc[u] = "create2", local[u].ip = j
          PROVE  cache'[j].valid \/ \E v \in Process : pc'[v] = "create2" /\ local'[v].ip = j
      <4>1. CASE u = t
        BY <4>1, <3>1
      <4>2. CASE u # t
        BY <4>2, <3>1 DEF OnlyMoved
      <4> QED
        BY <4>1, <4>2
    <3> QED
      BY <3>1, <2>1, <2>2, <2>3, KeptFrame
  <2>4. CASE disk'[j].nlink # disk[j].nlink
    <3>1. HasInode(t, j) /\ cache'[j].valid
      BY <2>4
    <3>2. cache[j].ref > Cardinality(Drops(j))
      BY <3>1, HeldMore
    <3> QED
      BY <3>1, <3>2, <2>1, <2>2 DEF KeptAt
  <2> QED
    BY <2>3, <2>4
<1> QED
  BY <1>2, <1>3, <1>4 DEF Kept

(* The count of j goes with its names, its subdirectories and what t owes. *)
LinkChange(t, p, l, d, n, j, a, b, c) ==
    /\ a = One(dir'[d][n], j) - One(dir[d][n], j)
    /\ (j = d => b = Bit(IsDir(dir'[d][n])) - Bit(IsDir(dir[d][n]))) /\ (j # d => b = 0)
    /\ c = Bit(Owes(p, l, j)) - Bit(Owes(pc[t], local[t], j))
    /\ disk'[j].nlink = disk[j].nlink + (a + b + c)
NewLinks(t, p, l, d, n, j) == \E a, b, c \in Int : LinkChange(t, p, l, d, n, j, a, b, c)

(* The links after a step that makes or removes a name.                    *)
LEMMA RelinkedLinks ==
    ASSUME IInv, LInv, IInv', Reachable, \A j \in Inum : LinkedAt(j),
           NEW t \in Process, NEW s, NEW p, NEW l, Relinks(t, s, p, l), NEW d, NEW n, NewEntry(d, n),
           dir'[d][n] # 0 => disk[dir'[d][n]].type # "free",
           \A j \in Inum : NewLinks(t, p, l, d, n, j)
    PROVE  Reachable' /\ \A j \in Inum : LinkedAt(j)'
<1>0. TypeOK /\ OnlyMoved(t) /\ pc'[t] = p /\ local'[t] = l /\ stranded' = stranded
      /\ \A j \in Inum : disk'[j].type = disk[j].type
  BY DEF IInv, Relinks, Went
<1>1. Reachable'
  <2>1. ROOTINO \in Inum /\ stranded \subseteq Inum /\ dir \in [Inum -> [Entry -> OptInum]]
    BY <1>0, FsAssumption DEF ROOTINO, Inum, TypeOK, Contents
  <2>2. \A e \in Inum, m \in Name : dir[e][m] \in OptInum
    BY <2>1 DEF Entry
  <2>3. ASSUME NEW e \in Inum, NEW m \in Name, dir'[e][m] # 0 PROVE disk'[dir'[e][m]].type # "free"
    <3>1. CASE e = d /\ m = n
      <4>1. dir'[d][n] \in Inum
        BY <2>3, <3>1 DEF NewEntry, OptInum
      <4> QED
        BY <4>1, <3>1, <2>3, <1>0
    <3>2. CASE ~(e = d /\ m = n)
      <4>1. dir'[e][m] = dir[e][m] /\ dir[e][m] \in Inum
        BY <3>2, <2>2, <2>3 DEF NewEntry, OptInum
      <4> QED
        BY <4>1, <2>3, <1>0 DEF Reachable
    <3> QED
      BY <3>1, <3>2
  <2> QED
    BY <2>1, <2>3, <1>0 DEF Reachable
<1>2. ASSUME NEW j \in Inum PROVE LinkedAt(j)'
  <2>1. PICK a \in Int, b \in Int, c \in Int :
        /\ a = One(dir'[d][n], j) - One(dir[d][n], j)
        /\ b = IF j = d THEN Bit(IsDir(dir'[d][n])) - Bit(IsDir(dir[d][n])) ELSE 0
        /\ c = Bit(Owes(p, l, j)) - Bit(Owes(pc[t], local[t], j))
        /\ disk'[j].nlink = disk[j].nlink + (a + b + c)
    <3>1. PICK a \in Int, b \in Int, c \in Int : LinkChange(t, p, l, d, n, j, a, b, c)
      BY DEF NewLinks
    <3>2. b = IF j = d THEN Bit(IsDir(dir'[d][n])) - Bit(IsDir(dir[d][n])) ELSE 0
      BY <3>1 DEF LinkChange
    <3> QED
      BY <3>1, <3>2 DEF LinkChange
  <2>2. c = Bit(Owes(pc'[t], local'[t], j)) - Bit(Owes(pc[t], local[t], j))
    BY <2>1, <1>0
  <2>3. Links(j)' = Links(j) + (a + b + c)
    BY <2>1, <2>2, <1>0, LinksMove
  <2>4. PICK k \in Int : k = a + b + c
    OBVIOUS
  <2> QED
    BY <2>1, <2>3, <2>4, <1>0, LinkedMove
<1> QED
  BY <1>1, <1>2

(* The use of an inode that t is not setting up.                           *)
LEMMA RelinkedUse ==
    ASSUME IInv, LInv, NEW t \in Process, NEW s, NEW p, NEW l, Relinks(t, s, p, l),
           NEW j \in Inum, UsedAt(j), dir'[j]["."] = dir[j]["."], dir'[j][".."] = dir[j][".."],
           ~(pc[t] = "create2" /\ local[t].ip = j)
    PROVE  UsedAt(j)'
<1>0. /\ Locked /\ OnlyMoved(t) /\ pc'[t] # "create2" /\ NotDrop(todo[t]) /\ NotDrop(todo'[t])
      /\ Frees(todo'[t]) = 0 /\ disk'[j].type = disk[j].type /\ cache'[j].ref = cache[j].ref
      /\ disk'[j].nlink # disk[j].nlink => HasInode(t, j)
  BY DEF LInv, Relinks, Went
<1>1. Frees(todo'[t]) # j /\ Drops(j)' = Drops(j)
  BY <1>0, DropsSame DEF NotDrop, Inum
<1>2. CASE disk'[j].nlink = disk[j].nlink
  BY <1>0, <1>1, <1>2, UsedFrame
<1>3. CASE disk'[j].nlink # disk[j].nlink
  <2>1. ~Gone(j)
    BY <1>0, <1>3, HeldNotGone
  <2> QED
    BY <2>1, <1>0, <1>1, UsedNotGone
<1> QED
  BY <1>2, <1>3

(* A directory that a process has holds its two dots.                      *)
LEMMA DotsThere ==
    ASSUME IInv, LInv, NEW d \in Inum, UsedAt(d), disk[d].type = "dir",
           NEW t \in Process, HasInode(t, d), ~(pc[t] = "create2" /\ local[t].ip = d),
           NEW n \in Entry, dir[d][n] = 0
    PROVE  n \in Name
<1>1. ~Gone(d)
  BY HeldNotGone DEF LInv
<1>2. ~ \E u \in Process : pc[u] = "create2" /\ local[u].ip = d
  BY <1>1, GoneFacts DEF LInv
<1>3. dir[d]["."] = d /\ dir[d][".."] # 0 /\ d # 0
  BY <1>2 DEF UsedAt, Inum
<1> QED
  BY <1>3 DEF Entry, Dots

(* link() makes the entry.                                                 *)
LEMMA LinkMadeLinks ==
    ASSUME IInv, LInv, AInv, IInv', NEW t \in Process, Runs(t, "link2"),
           NEW d, d = local[t].dp, NEW i, i = local[t].ip, NEW c, InMemory(c, d),
           NEW n, n = local[t].path[1], Dirlookup(d, n) = 0,
           cache' = c, dir' = Dirlink(dir, d, n, i), Finish(t, PutBoth(d, i)),
           UNCHANGED <<disk, lock, cwd, lost, stranded, strayed>>
    PROVE  LInv' /\ AInv'
<1>1. PICK p, l, s : p = "link2" /\ l = local[t] /\ s = PutBoth(d, i)
  OBVIOUS
<1>2. Runs(t, p) /\ p \in {"link2", "unlink1", "create1"}
  BY <1>1
<1>3. /\ TypeOK /\ todo[t] = <<>> /\ pc[t] = p /\ d \in Inum /\ i \in Inum
      /\ n \in Entry /\ HasInode(t, d) /\ HasInode(t, i) /\ CallLock(pc[t], local[t]) = 0
      /\ disk[d].type = "dir" /\ lock[d] = None
      /\ \A j \in Inum : c[j].ref = cache[j].ref /\ (cache[j].valid => c[j].valid)
  <2>1. HasDirectory(t, p, d, c)
    BY <1>1, <1>2, AtDirectory
  <2> QED
    BY <2>1, <1>1 DEF HasDirectory
<1>4. Locked /\ Checked /\ Tree /\ Kept
  BY DEF LInv
<1>5. Went(t, s, "user", Idle)
  <2>1. Finish(t, s) /\ cwd' = [cwd EXCEPT ![t] = cwd[t]]
    BY <1>1, <1>3 DEF TypeOK
  <2> QED
    BY <2>1, FinishWent
<1>6. /\ Linking(p, l) /\ ~Linking("user", Idle) /\ CallLock("user", Idle) = 0 /\ "user" \notin DpSteps
  BY <1>1 DEF CallLock, Linking, DpSteps
<1>7. /\ ListOK(s) /\ Unlocks(s) = 0 /\ Frees(s) = 0 /\ NotDrop(s)
      /\ Unlocks(<<>>) = 0 /\ Frees(<<>>) = 0 /\ NotDrop(<<>>)
  <2>1. PutsOnly(s) /\ PutsOnly(<<>>)
    BY <1>1, <1>3, PutsLists DEF PutBoth
  <2> QED
    BY <2>1, PutsOnlyFacts DEF NotDrop
<1>8. LockStep(t, s, "user", Idle)
  <2>1. Apart("user", Idle, s) /\ LocksIn("user", Idle, s) = LocksIn(pc[t], local[t], todo[t])
    BY <1>3, <1>6, <1>7 DEF Apart, LocksIn
  <2> QED
    BY <2>1, <1>7, KeepLocks
<1>9. Finds("user", Idle)
  BY <1>6 DEF Finds
<1>10. /\ \A e \in Inum, m \in Entry : e # d \/ m # n => dir'[e][m] = dir[e][m]
       /\ dir'[d][n] = i /\ dir[d][n] = 0 /\ dir \in [Inum -> [Entry -> OptInum]]
  <2>1. dir \in [Inum -> [Entry -> OptInum]]
    BY <1>3 DEF TypeOK, Contents
  <2>2. dir' = [dir EXCEPT ![d][n] = i]
    BY SMTT(40) DEF Dirlink
  <2> QED
    BY <2>1, <2>2, <1>3 DEF Dirlookup
<1>11. Relinks(t, s, "user", Idle)
  BY <1>1, <1>3, <1>5, <1>7, <1>8, <1>9, <1>10 DEF Relinks
<1>12. Locked' /\ Checked' /\ Kept'
  BY <1>11, RelinksInv
<1>13. disk[i].type \notin {"free", "dir"} /\ i # d
  BY <1>1, <1>3, <1>4, <1>6 DEF Checked, CheckedAt
<1>14. Tree'
  <2>1. ASSUME NEW j \in Inum, disk'[j].type # "dir" PROVE \A m \in Name : dir'[j][m] = 0
    BY <2>1, <1>3, <1>4, <1>10 DEF Tree, Entry
  <2>2. ASSUME NEW j \in Inum PROVE ~Edge(i, j)'
    <3>1. \A m \in Name : dir'[i][m] # j
      BY <1>3, <1>13, <2>1 DEF Inum
    <3>2. ASSUME NEW u \in Process, pc'[u] \in {"unlink2", "create2"}, local'[u].dp = i PROVE FALSE
      <4>1. u # t
        BY <3>2, <1>5 DEF Went
      <4>2. pc[u] = pc'[u] /\ local[u] = local'[u]
        BY <4>1, <1>5 DEF Went, OnlyMoved
      <4>3. disk[local[u].dp].type = "dir"
        BY <4>2, <3>2, <1>4 DEF Checked, CheckedAt, DpSteps
      <4> QED
        BY <4>2, <4>3, <3>2, <1>13
    <3> QED
      BY <3>1, <3>2 DEF Edge
  <2>3. ASSUME NEW e \in Inum, NEW j \in Inum, Edge(e, j)', j # i PROVE Edge(e, j)
    <3>1. CASE \E m \in Name : dir'[e][m] = j
      <4>1. PICK m \in Name : dir'[e][m] = j
        BY <3>1
      <4>2. dir[e][m] = j
        BY <4>1, <2>3, <1>10 DEF Entry
      <4> QED
        BY <4>2 DEF Edge
    <3>2. CASE \E u \in Process : pc'[u] \in {"unlink2", "create2"} /\ local'[u].dp = e /\ local'[u].ip = j
      BY <3>2, <1>5 DEF Edge, Went, OnlyMoved
    <3> QED
      BY <2>3, <3>1, <3>2 DEF Edge
  <2> QED
    BY <2>1, <2>2, <2>3, <1>3, <1>4, TreeGrows, SMTT(40)
<1>15. AInv'
  <2>1. SUFFICES ASSUME ~strayed PROVE Reachable' /\ \A j \in Inum : LinkedAt(j)' /\ UsedAt(j)'
    BY DEF AInv
  <2>2. Reachable /\ \A j \in Inum : LinkedAt(j) /\ UsedAt(j)
    BY <2>1 DEF AInv
  <2>3. n \in Name
    BY <2>2, <1>1, <1>3, <1>10, DotsThere, SMTT(40)
  <2>4. NewEntry(d, n)
    BY <2>3, <1>3, <1>10 DEF NewEntry, OptInum, Entry
  <2>5. ASSUME NEW j \in Inum PROVE NewLinks(t, "user", Idle, d, n, j)
    <3>1. 0 = Bit(IsDir(dir'[d][n])) - Bit(IsDir(dir[d][n])) /\ One(dir[d][n], j) = 0
      BY <1>10, <1>13 DEF Bit, IsDir, One, Inum
    <3>2. (Owes(pc[t], local[t], j) <=> i = j) /\ ~Owes("user", Idle, j)
      BY <1>1, <1>3, <1>6 DEF Owes
    <3>3. disk[j].nlink \in Int /\ disk'[j].nlink = disk[j].nlink
      BY <1>3 DEF TypeOK, Dinode
    <3>4. PICK a \in Int, b \in Int, e \in Int : a = One(i, j) /\ b = 0 /\ e = 0 - One(i, j)
      BY DEF One
    <3>5. a = One(dir'[d][n], j) - One(dir[d][n], j)
      BY <3>1, <3>4, <1>10 DEF One
    <3>6. (j = d => b = Bit(IsDir(dir'[d][n])) - Bit(IsDir(dir[d][n]))) /\ (j # d => b = 0)
      BY <3>1, <3>4
    <3>7. e = Bit(Owes("user", Idle, j)) - Bit(Owes(pc[t], local[t], j))
      BY <3>2, <3>4 DEF One, Bit
    <3>8. disk'[j].nlink = disk[j].nlink + (a + b + e)
      BY <3>3, <3>4, SMTT(40) DEF One
    <3>9. LinkChange(t, "user", Idle, d, n, j, a, b, e)
      BY <3>5, <3>6, <3>7, <3>8, ZenonT(60) DEF LinkChange
    <3> QED
      BY <3>9 DEF NewLinks
  <2>6. Reachable' /\ \A j \in Inum : LinkedAt(j)'
    BY <2>2, <2>4, <2>5, <1>10, <1>11, <1>13, RelinkedLinks, ZenonT(60)
  <2>7. ASSUME NEW j \in Inum PROVE UsedAt(j)'
    <3>1. dir'[j]["."] = dir[j]["."] /\ dir'[j][".."] = dir[j][".."]
      BY <2>3, <1>10, FsAssumption DEF Entry, Dots
    <3> QED
      BY <3>1, <2>2, <1>1, <1>3, <1>11, RelinkedUse
  <2> QED
    BY <2>6, <2>7
<1> QED
  BY <1>12, <1>14, <1>15 DEF LInv

(* link() makes the entry, or finds the name taken.                        *)
LEMMA Link2Links ==
    ASSUME IInv, LInv, AInv, NEW t \in Process, Link2(t)
    PROVE  LInv' /\ AInv'
<1>0. IInv'
  BY Link2Inv
<1>1. PICK d, i, n, c, x : /\ d = local[t].dp /\ i = local[t].ip /\ n = local[t].path[1] /\ InMemory(c, d)
                           /\ x = Dirlookup(d, n)
  BY DEF InMemory
<1>2. Runs(t, "link2") /\ UNCHANGED <<disk, cwd, lost, stranded>>
  BY DEF Link2
<1>3. CASE /\ x # 0 /\ cache' = Iget(c, x) /\ lock' = [lock EXCEPT ![d] = t] /\ LinkFails(t, PutLocked(x, d))
           /\ strayed' = (strayed \/ Strays(n, x)) /\ UNCHANGED dir
  <2>1. x = Dirlookup(d, local[t].path[1]) /\ strayed' = (strayed \/ Strays(local[t].path[1], x))
    BY <1>1, <1>3
  <2> QED
    BY <2>1, <1>0, <1>1, <1>2, <1>3, LinkFoundLinks
<1>4. CASE /\ x = 0 /\ cache' = c /\ dir' = Dirlink(dir, d, n, i) /\ Finish(t, PutBoth(d, i))
           /\ UNCHANGED <<lock, strayed>>
  <2>1. Dirlookup(d, n) = 0
    BY <1>1, <1>4
  <2> QED
    BY <2>1, <1>0, <1>1, <1>2, <1>4, LinkMadeLinks
<1> QED
  BY <1>1, <1>3, <1>4 DEF Link2, InMemory, PutLocked, PutBoth

(* The inode that unlink() removes or create() makes is not its directory. *)
LEMMA NotItself ==
    ASSUME Tree, NEW t \in Process, pc[t] \in {"unlink2", "create2"}, local[t].dp \in Inum
    PROVE  local[t].ip # local[t].dp
<1>1. Edge(local[t].dp, local[t].ip)
  BY DEF Edge
<1>2. \E d \in {local[t].dp} : \A i \in {local[t].dp} : ~Edge(d, i)
  BY DEF Tree
<1> QED
  BY <1>1, <1>2

(* A write of one link count.                                              *)
LEMMA WrittenFacts ==
    ASSUME TypeOK, NEW i \in Inum, NEW n, Written(disk, disk', i, n)
    PROVE  /\ \A j \in Inum : disk'[j].type = disk[j].type /\ disk[j].nlink \in Int
           /\ disk'[i].nlink = n /\ \A j \in Inum \ {i} : disk'[j].nlink = disk[j].nlink
<1>1. disk \in [Inum -> Dinode]
  BY DEF TypeOK
<1> QED
  BY <1>1 DEF Written, Dinode

(* unlink() removes the entry.                                             *)
LEMMA UnlinkedLinks ==
    ASSUME IInv, LInv, AInv, IInv', NEW t \in Process, Runs(t, "unlink2"),
           NEW d, d = local[t].dp, NEW i, i = local[t].ip, NEW c, InMemory(c, i),
           NEW n, n = local[t].path[1], NEW k,
           c[i].type = "dir" => k = c[d].nlink - 1, c[i].type # "dir" => k = c[d].nlink,
           cache' = SetLinks(c, d, k), Written(disk, disk', d, k), dir' = Dirlink(dir, d, n, 0),
           lock' = [lock EXCEPT ![d] = None, ![i] = t], Goto(t, <<Put(d)>>, "unlink3"),
           UNCHANGED <<local, cwd, lost, stranded, strayed>>
    PROVE  LInv' /\ AInv'
<1>1. PICK p, q, l, s : p = "unlink2" /\ q = "unlink3" /\ l = local[t] /\ s = <<Put(d)>>
  OBVIOUS
<1>2. Runs(t, p) /\ p \in {"chdir", "exec", "link1", "linkbad", "unlink2", "create2", "exists"}
  BY <1>1
<1>3. /\ TypeOK /\ todo[t] = <<>> /\ pc[t] = p /\ i \in Inum /\ d \in Inum /\ HasInode(t, d)
      /\ HasInode(t, i) /\ lock[i] = None
      /\ c \in [Inum -> Inode] /\ c[i].valid /\ c[i].type = disk[i].type /\ disk[i].type # "free"
      /\ \A j \in Inum : c[j].ref = cache[j].ref /\ (cache[j].valid => c[j].valid)
  BY <1>1, <1>2, AtInode
<1>4. Locked /\ Checked /\ Tree /\ Kept
  BY DEF LInv
<1>5. i # d
  BY <1>1, <1>3, <1>4, NotItself
<1>6. /\ CallLock(p, l) = d /\ CallLock(q, l) = i /\ d # 0 /\ i # 0
      /\ ~Linking(p, l) /\ ~Linking(q, l) /\ q \notin DpSteps
  BY <1>1, <1>3 DEF CallLock, Linking, DpSteps, Inum
<1>7. CheckedAt(p, l, todo[t])
  BY <1>1, <1>3, <1>4 DEF Checked
<1>8. cache[d].valid /\ disk[d].type = "dir" /\ n \in Name /\ dir[d][n] = i
  BY <1>1, <1>6, <1>7 DEF CheckedAt, DpSteps
<1>9. c[d].nlink = disk[d].nlink /\ disk[d].nlink \in Int
  <2>1. c[d] = cache[d]
    BY <1>3, <1>5, LoadKeeps
  <2>2. cache[d].nlink = disk[d].nlink
    BY <1>3, <1>8 DEF IInv, Coherent
  <2> QED
    BY <2>1, <2>2, <1>3 DEF TypeOK, Dinode
<1>10. k \in Int /\ (disk[i].type = "dir" => k = disk[d].nlink - 1) /\ (disk[i].type # "dir" => k = disk[d].nlink)
  BY <1>3, <1>9
<1>11. \A j \in Inum : cache'[j].ref = cache[j].ref /\ cache'[j].valid = c[j].valid
  BY <1>3, <1>10, SetLinksKeeps
<1>12. /\ \A j \in Inum : disk'[j].type = disk[j].type /\ disk[j].nlink \in Int
       /\ disk'[d].nlink = k /\ \A j \in Inum \ {d} : disk'[j].nlink = disk[j].nlink
  BY <1>3, WrittenFacts
<1>13. Went(t, s, q, l)
  BY <1>1, GotoWent
<1>14. /\ ListOK(s) /\ Unlocks(s) = 0 /\ Frees(s) = 0 /\ NotDrop(s)
       /\ Unlocks(<<>>) = 0 /\ Frees(<<>>) = 0 /\ NotDrop(<<>>)
  BY <1>1, <1>3, ListLocks
<1>15. LockStep(t, s, q, l) /\ lock[d] = t
  <2>1. Apart(q, l, s) /\ LocksIn(q, l, s) = {i} /\ LocksIn(pc[t], local[t], todo[t]) = {d}
    BY <1>1, <1>3, <1>6, <1>14 DEF Apart, LocksIn
  <2>2. lock[d] = t
    BY <2>1, <1>3, <1>4 DEF Locked
  <2> QED
    BY <2>1, <2>2, <1>3, <1>5, <1>14, SwapLocks
<1>16. Finds(q, l)
  BY <1>1, <1>3, <1>6, <1>11, SMTT(40) DEF Finds
<1>17. /\ \A e \in Inum, m \in Entry : e # d \/ m # n => dir'[e][m] = dir[e][m]
       /\ dir'[d][n] = 0 /\ dir \in [Inum -> [Entry -> OptInum]]
  <2>1. dir \in [Inum -> [Entry -> OptInum]] /\ n \in Entry
    BY <1>3, <1>8 DEF TypeOK, Contents, Entry
  <2>2. dir' = [dir EXCEPT ![d][n] = 0]
    BY DEF Dirlink
  <2> QED
    BY <2>1, <2>2, <1>3
<1>18. Relinks(t, s, q, l)
  <2>1. ASSUME NEW j \in Inum
        PROVE  /\ disk'[j].type = disk[j].type /\ cache'[j].ref = cache[j].ref
               /\ cache[j].valid => cache'[j].valid
               /\ lock[j] \notin {None, t} => /\ disk'[j].nlink = disk[j].nlink
                                              /\ \A m \in Entry : dir'[j][m] = dir[j][m]
               /\ disk'[j].nlink # disk[j].nlink => HasInode(t, j) /\ cache'[j].valid
    BY <1>3, <1>8, <1>11, <1>12, <1>15, <1>17
  <2> QED
    BY <2>1, <1>1, <1>3, <1>13, <1>14, <1>15, <1>16, SMTT(40) DEF Relinks
<1>19. Locked' /\ Checked' /\ Kept'
  BY <1>18, RelinksInv
<1>20. Tree'
  <2>1. ASSUME NEW j \in Inum, disk'[j].type # "dir" PROVE \A m \in Name : dir'[j][m] = 0
    BY <2>1, <1>4, <1>8, <1>12, <1>17 DEF Tree, Entry
  <2>2. \A e \in Inum, m \in Name : dir'[e][m] \in {dir[e][m], 0}
    BY <1>17 DEF Entry
  <2>3. pc'[t] \notin {"unlink2", "create2"} /\ OnlyMoved(t)
    BY <1>1, <1>13 DEF Went
  <2>4. \A e, j \in Inum : Edge(e, j)' => Edge(e, j)
    BY <2>2, <2>3, EdgesGo
  <2> QED
    BY <2>1, <2>4, <1>4, TreeShrinks
<1>21. AInv'
  <2>1. SUFFICES ASSUME ~strayed PROVE Reachable' /\ \A j \in Inum : LinkedAt(j)' /\ UsedAt(j)'
    BY DEF AInv
  <2>2. Reachable /\ \A j \in Inum : LinkedAt(j) /\ UsedAt(j)
    BY <2>1, SMTT(40) DEF AInv
  <2>3. NewEntry(d, n)
    BY <1>3, <1>8, <1>12, <1>17 DEF NewEntry, OptInum, Entry
  <2>4. ASSUME NEW j \in Inum PROVE NewLinks(t, q, l, d, n, j)
    <3>1. (Owes(q, l, j) <=> i = j) /\ ~Owes(pc[t], local[t], j)
      BY <1>1, <1>3, <1>6 DEF Owes
    <3>2. PICK a \in Int, b \in Int, e \in Int :
                /\ a = 0 - One(i, j) /\ e = One(i, j)
                /\ b = IF j = d THEN 0 - Bit(IsDir(i)) ELSE 0
      BY DEF One, Bit
    <3>3. a = One(dir'[d][n], j) - One(dir[d][n], j)
      BY <3>2, <1>8, <1>17, SMTT(40) DEF One, Inum
    <3>4. (j = d => b = Bit(IsDir(dir'[d][n])) - Bit(IsDir(dir[d][n]))) /\ (j # d => b = 0)
      BY <3>2, <1>8, <1>17 DEF Bit, IsDir
    <3>5. e = Bit(Owes(q, l, j)) - Bit(Owes(pc[t], local[t], j))
      BY <3>1, <3>2 DEF One, Bit
    <3>6. disk'[j].nlink = disk[j].nlink + b
      BY <3>2, <1>6, <1>10, <1>12 DEF Bit, IsDir
    <3>7. disk'[j].nlink = disk[j].nlink + (a + b + e)
      BY <3>2, <3>6, SMTT(40) DEF One
    <3>9. LinkChange(t, q, l, d, n, j, a, b, e)
      BY <3>3, <3>4, <3>5, <3>7, ZenonT(60) DEF LinkChange
    <3> QED
      BY <3>9 DEF NewLinks
  <2>5. Reachable' /\ \A j \in Inum : LinkedAt(j)'
    BY <2>2, <2>3, <2>4, <1>17, <1>18, RelinkedLinks, SMTT(40)
  <2>6. ASSUME NEW j \in Inum PROVE UsedAt(j)'
    <3>1. dir'[j]["."] = dir[j]["."] /\ dir'[j][".."] = dir[j][".."]
      BY <1>8, <1>17, FsAssumption DEF Entry, Dots
    <3> QED
      BY <3>1, <2>2, <1>1, <1>3, <1>18, RelinkedUse, SMTT(40)
  <2> QED
    BY <2>5, <2>6
<1> QED
  BY <1>19, <1>20, <1>21 DEF LInv

(* A step that changes nothing that the invariants speak of.               *)
LEMMA SameInv ==
    ASSUME LInv, AInv, UNCHANGED <<disk, dir, cache, lock, cwd, pc, todo, local, lost, stranded, strayed>>
    PROVE  LInv' /\ AInv'
<1>1. Locked'
  BY DEF LInv, Locked, ListOK, Apart, LocksIn, CallLock, Unlocks, Frees
<1>2. \A i \in Inum : Freeing(i)' <=> Freeing(i)
  BY DEF Freeing, Frees
<1>3. Checked'
  BY DEF LInv, Checked, CheckedAt, Freeing, Linking, CallLock, Frees
<1>4. Tree'
  <2>1. \A i \in Inum : disk'[i].type # "dir" => \A n \in Name : dir'[i][n] = 0
    BY DEF LInv, Tree
  <2>2. \A d, i \in Inum : Edge(d, i)' => Edge(d, i)
    BY DEF Edge
  <2> QED
    BY <2>1, <2>2, TreeShrinks DEF LInv
<1>5. Kept'
  BY DEF LInv, Kept, KeptAt, Drops
<1>6. AInv'
  <2>1. ASSUME NEW j \in Inum PROVE (LinkedAt(j)' <=> LinkedAt(j)) /\ (UsedAt(j)' <=> UsedAt(j))
    <3>1. Names(j)' = Names(j) /\ Subdirs(j)' = Subdirs(j)
      BY DEF Names, Subdirs
    <3>2. Owed(j)' = Owed(j)
      BY DEF Owed, Owes, Linking
    <3>3. Links(j)' = Links(j)
      BY <3>1, <3>2 DEF Links
    <3>4. LinkedAt(j)' <=> LinkedAt(j)
      BY <3>3 DEF LinkedAt
    <3>5. UsedAt(j)' <=> UsedAt(j)
      BY DEF UsedAt, Drops, Frees, TypeOf
    <3> QED
      BY <3>4, <3>5
  <2>2. Reachable' <=> Reachable
    BY DEF Reachable
  <2> QED
    BY <2>1, <2>2 DEF AInv
<1> QED
  BY <1>1, <1>3, <1>4, <1>5, <1>6, SMTT(40) DEF LInv

(* ilock() of an inode without a type.                                     *)
LEMMA IlockPanicLinks ==
    ASSUME LInv, AInv, NEW t \in Process, IlockPanic(t)
    PROVE  LInv' /\ AInv'
BY SameInv DEF IlockPanic, diskVars, control, ghosts

(* unlink() removes the entry, or gives up.                                *)
LEMMA Unlink2Links ==
    ASSUME IInv, LInv, AInv, NEW t \in Process, Unlink2(t)
    PROVE  LInv' /\ AInv'
<1>0. IInv'
  BY Unlink2Inv
<1>1. PICK d, i, n, c : d = local[t].dp /\ i = local[t].ip /\ n = local[t].path[1] /\ InMemory(c, i)
  BY DEF InMemory
<1>6. PICK k : k = IF c[i].type = "dir" THEN c[d].nlink - 1 ELSE c[d].nlink
  OBVIOUS
<1>2. Runs(t, "unlink2") /\ UNCHANGED <<cwd, lost, stranded, strayed>>
  BY DEF Unlink2, ghosts
<1>3. CASE UNCHANGED <<disk, dir, cache, lock, pc, todo, local>>
  BY <1>2, <1>3, SameInv
<1>4. CASE cache' = c /\ Finish(t, PutLocked(i, d)) /\ UNCHANGED <<disk, dir, lock>>
  <2>1. cache' = [cache EXCEPT ![i] = Loaded(i)]
    BY <1>1, <1>4 DEF InMemory
  <2> QED
    BY <2>1, <1>0, <1>1, <1>2, <1>4, NotEmptyLinks
<1>5. CASE /\ dir' = Dirlink(dir, d, n, 0) /\ cache' = SetLinks(c, d, k) /\ Written(disk, disk', d, k)
           /\ lock' = [lock EXCEPT ![d] = None, ![i] = t] /\ Goto(t, <<Put(d)>>, "unlink3") /\ UNCHANGED local
  <2>1. (c[i].type = "dir" => k = c[d].nlink - 1) /\ (c[i].type # "dir" => k = c[d].nlink)
    BY <1>6
  <2> QED
    BY <2>1, <1>0, <1>1, <1>2, <1>5, UnlinkedLinks
<1> QED
  BY <1>1, <1>6, <1>3, <1>4, <1>5 DEF Unlink2, InMemory, PutLocked, Dirlink, Written, diskVars, control

(* The directories after create(), which has set up a directory if b.      *)
SetUp(b, d, i, n) ==
    dir' = Dirlink(IF b THEN Dirlink(Dirlink(dir, i, ".", i), i, "..", d) ELSE dir, d, n, i)

(* The entry of the new inode, and the two dots in it.                     *)
LEMMA SetUpFacts ==
    ASSUME dir \in [Inum -> Contents], NEW d \in Inum, NEW i \in Inum, i # d, NEW n \in Entry, NEW b \in BOOLEAN,
           SetUp(b, d, i, n)
    PROVE  /\ \A e \in Inum \ {d, i} : dir'[e] = dir[e]
           /\ dir'[d][n] = i /\ \A m \in Entry \ {n} : dir'[d][m] = dir[d][m]
           /\ \A m \in Entry \ Dots : dir'[i][m] = dir[i][m]
           /\ b => dir'[i]["."] = i /\ dir'[i][".."] = d
<1>1. "." \in Entry /\ ".." \in Entry /\ "." \in Dots /\ ".." \in Dots /\ "." # ".."
  BY DEF Entry, Dots
<1>2. dir \in [Inum -> [Entry -> OptInum]]
  BY DEF Contents
<1>3. PICK f : f = IF b THEN [dir EXCEPT ![i]["."] = i, ![i][".."] = d] ELSE dir
  OBVIOUS
<1>4. /\ f \in [Inum -> [Entry -> OptInum]]
      /\ \A e \in Inum \ {i} : f[e] = dir[e]
      /\ \A m \in Entry \ Dots : f[i][m] = dir[i][m]
      /\ b => f[i]["."] = i /\ f[i][".."] = d
  <2>1. CASE b
    <3>1. f = [dir EXCEPT ![i] = [dir[i] EXCEPT !["."] = i, ![".."] = d]]
      BY <2>1, <1>1, <1>2, <1>3
    <3> QED
      BY <3>1, <1>1, <1>2 DEF OptInum
  <2>2. CASE ~b
    BY <2>2, <1>2, <1>3
  <2> QED
    BY <2>1, <2>2
<1>5. dir' = [f EXCEPT ![d][n] = i]
  BY <1>3 DEF SetUp, Dirlink
<1> QED
  BY <1>1, <1>4, <1>5

(* The link counts of the new inode i and of its directory d are set.      *)
BothWritten(c, d, i, k) ==
    /\ cache' = SetLinks(SetLinks(c, i, 1), d, k)
    /\ disk' = [disk EXCEPT ![i].nlink = 1, ![d].nlink = k]

(* Nothing else is.                                                        *)
LEMMA TwoWritten ==
    ASSUME TypeOK, NEW c \in [Inum -> Inode], NEW d \in Inum, NEW i \in Inum, i # d, NEW k \in Int,
           BothWritten(c, d, i, k)
    PROVE  /\ \A j \in Inum : /\ cache'[j].ref = c[j].ref /\ cache'[j].valid = c[j].valid
                              /\ disk'[j].type = disk[j].type /\ disk[j].nlink \in Int
           /\ disk'[i].nlink = 1 /\ disk'[d].nlink = k
           /\ \A j \in Inum \ {d, i} : disk'[j].nlink = disk[j].nlink
<1>1. disk \in [Inum -> Dinode]
  BY DEF TypeOK
<1>2. PICK x : x = SetLinks(c, i, 1)
  OBVIOUS
<1>3. x \in [Inum -> Inode] /\ \A j \in Inum : x[j].ref = c[j].ref /\ x[j].valid = c[j].valid
  BY <1>2 DEF SetLinks, Inode
<1>4. \A j \in Inum : cache'[j].ref = x[j].ref /\ cache'[j].valid = x[j].valid
  <2>1. cache' = SetLinks(x, d, k)
    BY <1>2 DEF BothWritten
  <2> QED
    BY <2>1, <1>3 DEF SetLinks, Inode
<1> QED
  BY <1>1, <1>3, <1>4 DEF Dinode, BothWritten

(* create() puts the directory d and returns with its new inode i locked.  *)
CreateEnds(t, d, i) ==
    IF local[t].call.op = "create" THEN Goto(t, <<Put(d)>>, "openfd") /\ UNCHANGED local
                                   ELSE Finish(t, PutLocked(d, i))

(* Where its caller goes on.                                               *)
LEMMA CreateGoes ==
    ASSUME IInv, NEW t \in Process, NEW d \in Inum, NEW i \in Inum, i = local[t].ip, UNCHANGED cwd,
           CreateEnds(t, d, i), cache'[i].valid
    PROVE  \E s, q, l : /\ Went(t, s, q, l) /\ ListOK(s) /\ Frees(s) = 0 /\ NotDrop(s) /\ Apart(q, l, s)
                        /\ LocksIn(q, l, s) = {i} /\ Finds(q, l) /\ q \notin {"unlink2", "create2"}
                        /\ \A j : ~Owes(q, l, j)
<1>0. i # 0
  BY DEF Inum
<1>1. CASE local[t].call.op = "create"
  <2>1. PICK s, q, l : s = <<Put(d)>> /\ q = "openfd" /\ l = local[t]
    OBVIOUS
  <2>2. Went(t, s, q, l)
    BY <2>1, <1>1, GotoWent DEF CreateEnds
  <2>3. ListOK(s) /\ Unlocks(s) = 0 /\ Frees(s) = 0 /\ NotDrop(s)
    BY <2>1, ListLocks
  <2>4. CallLock(q, l) = i /\ ~Linking(q, l) /\ q \notin DpSteps
    BY <2>1, <1>1 DEF CallLock, Linking, DpSteps
  <2>5. Apart(q, l, s) /\ LocksIn(q, l, s) = {i} /\ Finds(q, l) /\ \A j : ~Owes(q, l, j)
    BY <2>1, <2>3, <2>4, <1>0 DEF Apart, LocksIn, Finds, Owes
  <2> QED
    BY <2>1, <2>2, <2>3, <2>5
<1>2. CASE local[t].call.op # "create"
  <2>1. PICK s, q, l : s = PutLocked(d, i) /\ q = "user" /\ l = Idle
    OBVIOUS
  <2>2. Went(t, s, q, l)
    <3>1. Finish(t, s) /\ cwd' = [cwd EXCEPT ![t] = cwd[t]]
      BY <2>1, <1>2 DEF IInv, TypeOK, CreateEnds
    <3> QED
      BY <3>1, <2>1, FinishWent
  <2>3. ListOK(s) /\ Unlocks(s) = i /\ Frees(s) = 0 /\ NotDrop(s)
    BY <2>1, ListLocks
  <2>4. CallLock(q, l) = 0 /\ ~Linking(q, l) /\ q \notin DpSteps
    BY <2>1 DEF CallLock, Linking, DpSteps
  <2>5. Apart(q, l, s) /\ LocksIn(q, l, s) = {i} /\ Finds(q, l) /\ \A j : ~Owes(q, l, j)
    BY <2>1, <2>3, <2>4, <1>0 DEF Apart, LocksIn, Finds, Owes
  <2> QED
    BY <2>1, <2>2, <2>3, <2>5
<1> QED
  BY <1>1, <1>2

(* create() sets the new inode up.                                         *)
LEMMA Create2Links ==
    ASSUME IInv, LInv, AInv, NEW t \in Process, Create2(t)
    PROVE  LInv' /\ AInv'
<1>0. IInv' /\ Locked /\ Checked /\ Tree /\ Kept
  BY Create2Inv DEF LInv
<1>1. PICK p, d, i, c, n : /\ p = "create2" /\ d = local[t].dp /\ i = local[t].ip /\ InMemory(c, i)
                           /\ n = local[t].path[1]
  BY DEF InMemory
<1>2. PICK b \in BOOLEAN : b <=> TypeOf(local[t].call.op) = "dir"
  OBVIOUS
<1>3. PICK k : k = IF TypeOf(local[t].call.op) = "dir" THEN c[d].nlink + 1 ELSE c[d].nlink
  OBVIOUS
<1>4. /\ Runs(t, "create2") /\ UNCHANGED <<cwd, lost, stranded, strayed>>
      /\ BothWritten(c, d, i, k) /\ lock' = [lock EXCEPT ![d] = None, ![i] = t] /\ CreateEnds(t, d, i)
  BY <1>1, <1>3, SMTT(40) DEF Create2, InMemory, PutLocked, ghosts, BothWritten, CreateEnds
<1>5. SetUp(b, d, i, n)
  BY <1>1, <1>2 DEF Create2, SetUp
<1>6. /\ TypeOK /\ todo[t] = <<>> /\ pc[t] = p /\ i \in Inum /\ d \in Inum /\ HasInode(t, d)
      /\ HasInode(t, i) /\ lock[i] = None /\ local[t] \in Local /\ Shape(cwd[t], p, local[t])
      /\ c \in [Inum -> Inode] /\ c[i].valid /\ disk[i].type # "free"
      /\ \A j \in Inum : c[j].ref = cache[j].ref /\ (cache[j].valid => c[j].valid)
  <2>1. Runs(t, p) /\ p \in {"chdir", "exec", "link1", "linkbad", "unlink2", "create2", "exists"}
    BY <1>1, <1>4
  <2> QED
    BY <2>1, <1>1, AtInode
<1>7. i # d /\ d # 0 /\ i # 0
  BY <1>0, <1>1, <1>6, NotItself DEF Inum
<1>8. n \in Entry
  <2>1. local[t].path \in Seq(Entry) /\ local[t].path # <<>>
    BY <1>1, <1>6 DEF Local, Shape, DpSteps
  <2> QED
    BY <2>1, <1>1
<1>9. CallLock(pc[t], local[t]) = d /\ ~Linking(pc[t], local[t])
  BY <1>1, <1>6 DEF CallLock, Linking
<1>10. cache[d].valid /\ disk[d].type = "dir" /\ dir[d][n] = 0
  <2>1. CheckedAt(p, local[t], todo[t])
    BY <1>0, <1>6 DEF Checked
  <2> QED
    BY <2>1, <1>1, <1>6, <1>7, <1>9 DEF CheckedAt, DpSteps
<1>11. c[d].nlink = disk[d].nlink /\ disk[d].nlink \in Int /\ k \in Int
  <2>1. c[d] = cache[d]
    BY <1>1, <1>6, <1>7, LoadKeeps
  <2>2. cache[d].nlink = disk[d].nlink
    BY <1>6, <1>10 DEF IInv, Coherent
  <2>3. disk[d].nlink \in Int
    BY <1>6 DEF TypeOK, Dinode
  <2> QED
    BY <2>1, <2>2, <2>3, <1>2, <1>3
<1>12. /\ \A j \in Inum : /\ cache'[j].ref = c[j].ref /\ cache'[j].valid = c[j].valid
                          /\ disk'[j].type = disk[j].type /\ disk[j].nlink \in Int
       /\ disk'[i].nlink = 1 /\ disk'[d].nlink = k
       /\ \A j \in Inum \ {d, i} : disk'[j].nlink = disk[j].nlink
  BY <1>4, <1>6, <1>7, <1>11, TwoWritten
<1>13. /\ \A e \in Inum \ {d, i} : dir'[e] = dir[e]
       /\ dir'[d][n] = i /\ \A m \in Entry \ {n} : dir'[d][m] = dir[d][m]
       /\ \A m \in Entry \ Dots : dir'[i][m] = dir[i][m]
       /\ b => dir'[i]["."] = i /\ dir'[i][".."] = d
  BY <1>5, <1>6, <1>7, <1>8, SetUpFacts DEF TypeOK
<1>14. PICK s, q, l : /\ Went(t, s, q, l) /\ ListOK(s) /\ Frees(s) = 0 /\ NotDrop(s) /\ Apart(q, l, s)
                      /\ LocksIn(q, l, s) = {i} /\ Finds(q, l) /\ q \notin {"unlink2", "create2"}
                      /\ \A j : ~Owes(q, l, j)
  <2>1. cache'[i].valid
    BY <1>6, <1>12
  <2> QED
    BY <2>1, <1>1, <1>4, <1>6, CreateGoes
<1>15. LockStep(t, s, q, l) /\ lock[d] = t
  <2>1. LocksIn(pc[t], local[t], todo[t]) = {d}
    BY <1>6, <1>7, <1>9, ListLocks DEF LocksIn
  <2>2. lock[d] = t
    BY <2>1, <1>0, <1>6 DEF Locked
  <2> QED
    BY <2>1, <2>2, <1>4, <1>6, <1>7, <1>14, SwapLocks
<1>16. Relinks(t, s, q, l)
  <2>1. ASSUME NEW j \in Inum
        PROVE  /\ disk'[j].type = disk[j].type /\ cache'[j].ref = cache[j].ref
               /\ cache[j].valid => cache'[j].valid
               /\ lock[j] \notin {None, t} => /\ disk'[j].nlink = disk[j].nlink
                                              /\ \A m \in Entry : dir'[j][m] = dir[j][m]
               /\ disk'[j].nlink # disk[j].nlink => HasInode(t, j) /\ cache'[j].valid
    BY <1>6, <1>10, <1>12, <1>13, <1>15
  <2>2. NotDrop(todo[t])
    BY <1>6 DEF NotDrop
  <2> QED
    BY <2>1, <2>2, <1>1, <1>4, <1>6, <1>12, <1>14, <1>15 DEF Relinks
<1>17. Locked' /\ Checked' /\ Kept'
  BY <1>0, <1>16, RelinksInv
<1>18. \A e \in Inum, m \in Name : e # d \/ m # n => dir'[e][m] = dir[e][m]
  <2>1. Name \subseteq Entry \ Dots
    BY FsAssumption DEF Entry
  <2> QED
    BY <2>1, <1>13
<1>19. Tree'
  <2>1. ASSUME NEW j \in Inum, disk'[j].type # "dir" PROVE \A m \in Name : dir'[j][m] = 0
    BY <2>1, <1>0, <1>10, <1>12, <1>18 DEF Tree
  <2>2. ASSUME NEW e \in Inum, NEW j \in Inum, Edge(e, j)' PROVE Edge(e, j)
    <3>1. CASE \E m \in Name : dir'[e][m] = j
      <4>1. PICK m \in Name : dir'[e][m] = j
        BY <3>1
      <4>2. CASE e = d /\ m = n
        BY <4>1, <4>2, <1>1, <1>6, <1>13 DEF Edge
      <4>3. CASE ~(e = d /\ m = n)
        BY <4>1, <4>3, <1>18 DEF Edge
      <4> QED
        BY <4>2, <4>3
    <3>2. CASE \E u \in Process : pc'[u] \in {"unlink2", "create2"} /\ local'[u].dp = e /\ local'[u].ip = j
      BY <3>2, <1>14 DEF Edge, Went, OnlyMoved
    <3> QED
      BY <2>2, <3>1, <3>2 DEF Edge
  <2> QED
    BY <2>1, <2>2, <1>0, TreeShrinks
<1>20. AInv'
  <2>1. SUFFICES ASSUME ~strayed PROVE Reachable' /\ \A j \in Inum : LinkedAt(j)' /\ UsedAt(j)'
    BY <1>4 DEF AInv
  <2>2. Reachable /\ \A j \in Inum : LinkedAt(j) /\ UsedAt(j)
    BY <2>1 DEF AInv
  <2>3. /\ cache[i].ref = Cardinality(Drops(i)) + 1 /\ n \in Name /\ disk[i].nlink = 0
        /\ b <=> disk[i].type = "dir"
    BY <2>2, <1>1, <1>2, <1>6 DEF UsedAt
  <2>4. NewEntry(d, n)
    BY <2>3, <1>6, <1>10, <1>12, <1>13, <1>18 DEF NewEntry, OptInum
  <2>5. ASSUME NEW j \in Inum PROVE NewLinks(t, q, l, d, n, j)
    <3>1. ~Owes(q, l, j) /\ ~Owes(pc[t], local[t], j)
      BY <1>1, <1>6, <1>9, <1>14 DEF Owes
    <3>2. PICK a \in Int, f \in Int, e \in Int :
                a = One(i, j) /\ e = 0 /\ f = IF j = d THEN Bit(IsDir(i)) ELSE 0
      BY DEF One, Bit
    <3>3. a = One(dir'[d][n], j) - One(dir[d][n], j)
      BY <3>2, <1>10, <1>13 DEF One, Inum
    <3>4. (j = d => f = Bit(IsDir(dir'[d][n])) - Bit(IsDir(dir[d][n]))) /\ (j # d => f = 0)
      BY <3>2, <1>10, <1>13 DEF Bit, IsDir
    <3>5. e = Bit(Owes(q, l, j)) - Bit(Owes(pc[t], local[t], j))
      BY <3>1, <3>2 DEF Bit
    <3>6. disk'[j].nlink = disk[j].nlink + (a + f + e)
      <4>1. CASE j = i
        BY <4>1, <3>2, <2>3, <1>7, <1>12 DEF One
      <4>2. CASE j = d
        <5>1. a = 0 /\ f = Bit(IsDir(i))
          BY <4>2, <3>2, <1>7 DEF One
        <5>2. k = disk[d].nlink + f
          BY <5>1, <2>3, <1>2, <1>3, <1>7, <1>11 DEF Bit, IsDir
        <5> QED
          BY <5>1, <5>2, <4>2, <3>2, <1>12
      <4>3. CASE j # i /\ j # d
        BY <4>3, <3>2, <1>12 DEF One
      <4> QED
        BY <4>1, <4>2, <4>3
    <3>9. LinkChange(t, q, l, d, n, j, a, f, e)
      BY <3>3, <3>4, <3>5, <3>6 DEF LinkChange
    <3> QED
      BY <3>9 DEF NewLinks
  <2>6. Reachable' /\ \A j \in Inum : LinkedAt(j)'
    BY <2>2, <2>4, <2>5, <1>0, <1>6, <1>13, <1>16, RelinkedLinks
  <2>7. ASSUME NEW j \in Inum, j # i PROVE UsedAt(j)'
    <3>1. dir'[j]["."] = dir[j]["."] /\ dir'[j][".."] = dir[j][".."]
      BY <2>3, <2>7, <1>13, FsAssumption DEF Entry, Dots
    <3> QED
      BY <3>1, <2>2, <2>7, <1>1, <1>16, RelinkedUse
  <2>8. UsedAt(i)'
    <3>1. ASSUME NEW u \in Process, Frees(todo'[u]) = i PROVE FALSE
      <4>1. u # t
        BY <3>1, <1>7, <1>14 DEF Went
      <4>2. Frees(todo[u]) = i
        BY <4>1, <3>1, <1>14 DEF Went, OnlyMoved
      <4> QED
        BY <4>2, <1>6, LockFree DEF Freeing
    <3>2. ASSUME NEW u \in Process, pc'[u] = "create2", local'[u].ip = i PROVE FALSE
      <4>1. u # t
        BY <3>2, <1>14 DEF Went
      <4>2. pc[u] = "create2" /\ local[u].ip = i
        BY <4>1, <3>2, <1>14 DEF Went, OnlyMoved
      <4>3. HasInode(u, i)
        BY <4>2 DEF HasInode, IpIn, UsesIp, IpSteps
      <4>4. cache[i].ref >= Cardinality(Heads(i)) + 2 /\ Cardinality(Heads(i)) \in Nat
        BY <4>1, <4>3, <1>6, TwoHold
      <4>5. Cardinality(Drops(i)) <= Cardinality(Heads(i)) /\ Cardinality(Drops(i)) \in Nat
        BY DropsFacts
      <4> QED
        BY <4>4, <4>5, <2>3
    <3>3. disk'[i].type # "free" /\ (disk'[i].type = "dir" => dir'[i]["."] = i /\ dir'[i][".."] # 0)
      BY <2>3, <1>6, <1>7, <1>12, <1>13
    <3> QED
      BY <3>1, <3>2, <3>3 DEF UsedAt, Frees
  <2> QED
    BY <2>6, <2>7, <2>8
<1> QED
  BY <1>17, <1>19, <1>20 DEF LInv

(* Nobody works on an inode that is free.                                  *)
LEMMA FreeUnused ==
    ASSUME IInv, LInv, NEW x \in Inum, disk[x].type = "free", NEW u \in Process
    PROVE  /\ ~Owns(u, x) /\ Frees(todo[u]) # x /\ ~Owes(pc[u], local[u], x)
           /\ pc[u] \in DpSteps \ {"nameiparent"} => local[u].dp # x
<1>0. x # 0 /\ ~cache[x].valid /\ CheckedAt(pc[u], local[u], todo[u])
  BY DEF IInv, Coherent, LInv, Checked, Inum
<1>1. CallLock(pc[u], local[u]) # x /\ Frees(todo[u]) # x
  BY <1>0 DEF CheckedAt
<1>2. ~Owns(u, x)
  BY <1>1 DEF Owns
<1>3. ~Owes(pc[u], local[u], x)
  BY <1>0, <1>1 DEF Owes, CheckedAt, CallLock
<1>4. pc[u] \in DpSteps \ {"nameiparent"} => local[u].dp # x
  BY <1>0 DEF CheckedAt
<1> QED
  BY <1>1, <1>2, <1>3, <1>4

(* ialloc() has marked x.                                                  *)
LEMMA IallocFacts ==
    ASSUME TypeOK, NEW x \in Inum, NEW y, Ialloc(x, y)
    PROVE  /\ disk[x].type = "free" /\ disk'[x].type = y /\ disk'[x].nlink = 0
           /\ \A j \in Inum \ {x} : disk'[j] = disk[j]
BY DEF TypeOK, Ialloc, First, FreeInodes

(* The links of an inode, when ialloc() has marked x, which has no names.  *)
LEMMA AllocLinks ==
    ASSUME IInv, LInv, Reachable, NEW t \in Process, OnlyMoved(t),
           \A j : ~Owes(pc[t], local[t], j) /\ ~Owes(pc'[t], local'[t], j),
           NEW x \in Inum, disk[x].type = "free", \A j \in Inum \ {x} : disk'[j] = disk[j],
           UNCHANGED <<dir, stranded>>, NEW j \in Inum
    PROVE  Links(j)' = Links(j) /\ Links(x) = 0 /\ x \notin stranded
<1>1. /\ \A m \in Name : dir[x][m] = 0
      /\ \A d \in Inum, m \in Name : dir[d][m] # x /\ (dir[d][m] # 0 => dir[d][m] \in Inum)
      /\ x # ROOTINO /\ x # 0 /\ j # 0 /\ x \notin stranded
  <2>1. \A d \in Inum, m \in Name : dir[d][m] \in OptInum
    BY DEF IInv, TypeOK, Contents, Entry
  <2> QED
    BY <2>1 DEF LInv, Tree, Reachable, Inum, OptInum
<1>2. Names(j)' = Names(j)
  <2>1. ASSUME NEW d \in Inum, NEW m \in Name, dir[d][m] = j PROVE disk'[d].type = disk[d].type
    BY <2>1, <1>1
  <2> QED
    BY <2>1 DEF Names
<1>3. Subdirs(j)' = Subdirs(j)
  <2>1. ASSUME NEW m \in Name, dir[j][m] # 0 PROVE disk'[dir[j][m]].type = disk[dir[j][m]].type
    BY <2>1, <1>1
  <2> QED
    BY <2>1 DEF Subdirs
<1>4. Owed(j)' = Owed(j)
  BY OwedSame
<1>5. Links(j)' = Links(j)
  BY <1>2, <1>3, <1>4 DEF Links
<1>6. Names(x) = {} /\ Subdirs(x) = {} /\ Owed(x) = {}
  <2>1. Owed(x) = {}
    BY FreeUnused DEF Owed
  <2> QED
    BY <2>1, <1>1 DEF Names, Subdirs
<1>7. Links(x) = 0
  BY <1>1, <1>6, FS_EmptySet DEF Links
<1> QED
  BY <1>1, <1>5, <1>7

(* create() allocates an inode.                                            *)
LEMMA CreateNewLinks ==
    ASSUME IInv, LInv, AInv, IInv', NEW t \in Process, Runs(t, "create1"),
           NEW d, d = local[t].dp, NEW c, InMemory(c, d), NEW n, n = local[t].path[1], Dirlookup(d, n) = 0,
           NEW x \in Inum, NEW y, y = TypeOf(local[t].call.op), Ialloc(x, y),
           cache' = Iget(c, x), NewIp(t, x), lock' = [lock EXCEPT ![d] = t], Goto(t, <<>>, "create2"),
           UNCHANGED <<dir, cwd, lost, stranded, strayed>>
    PROVE  LInv' /\ AInv'
<1>0. Locked /\ Checked /\ Tree /\ Kept
  BY DEF LInv
<1>1. PICK p, q, s : p = "create1" /\ q = "create2" /\ s = <<>>
  OBVIOUS
<1>2. Runs(t, p) /\ p \in {"link2", "unlink1", "create1"}
  BY <1>1
<1>3. /\ TypeOK /\ todo[t] = <<>> /\ pc[t] = p /\ d \in Inum /\ n \in Entry /\ HasInode(t, d)
      /\ CallLock(pc[t], local[t]) = 0 /\ lock[d] = None /\ ~Freeing(d) /\ disk[d].type = "dir"
      /\ c \in [Inum -> Inode] /\ c[d].valid /\ cache[d].ref >= 1
      /\ \A j \in Inum : c[j].ref = cache[j].ref /\ (cache[j].valid => c[j].valid)
  <2>1. HasDirectory(t, p, d, c)
    BY <1>2, AtDirectory
  <2> QED
    BY <2>1, <1>1 DEF HasDirectory
<1>4. /\ disk[x].type = "free" /\ disk'[x].type = y /\ disk'[x].nlink = 0
      /\ \A j \in Inum \ {x} : disk'[j] = disk[j]
  BY <1>3, IallocFacts
<1>5. x # d /\ d # 0 /\ x # 0 /\ y # "free"
  BY <1>3, <1>4 DEF Inum, TypeOf
<1>6. PICK l \in Local : /\ l.ip = x /\ l.dp = d /\ l.path = local[t].path /\ l.call = local[t].call
                         /\ local' = [local EXCEPT ![t] = l]
  BY <1>3, SetIp
<1>7. Went(t, s, q, l) /\ OnlyMoved(t) /\ todo'[t] = s /\ pc'[t] = q /\ local'[t] = l
  <2>1. Goto(t, s, q) /\ local' = [local EXCEPT ![t] = l] /\ UNCHANGED cwd
    BY <1>1, <1>6
  <2>2. Went(t, s, q, l)
    BY <2>1, GotoWent
  <2> QED
    BY <2>2 DEF Went
<1>8. ListOK(s) /\ Unlocks(s) = 0 /\ Frees(s) = 0 /\ NotDrop(s) /\ todo[t] = s
  BY <1>1, <1>3, ListLocks
<1>9. CallLock(q, l) = d /\ ~Linking(q, l) /\ ~Linking(pc[t], local[t])
  BY <1>1, <1>3, <1>6 DEF CallLock, Linking
<1>10. Locked'
  <2>1. Apart(q, l, s) /\ LocksIn(q, l, s) = LocksIn(pc[t], local[t], todo[t]) \union {d}
    BY <1>1, <1>3, <1>5, <1>8, <1>9 DEF Apart, LocksIn
  <2>2. LockStep(t, s, q, l)
    BY <2>1, <1>3, <1>8, TakeLock
  <2> QED
    BY <2>2, <1>7, StepLocked
<1>11. \A j \in Inum : /\ cache'[j].ref = cache[j].ref + One(x, j) /\ cache[j].ref \in Nat
                       /\ cache[j].valid /\ cache[j].ref >= 1 => cache'[j].valid
  <2>1. \A j \in Inum : cache[j].ref \in Nat
    BY <1>3 DEF TypeOK, Inode
  <2> QED
    BY <2>1, <1>3, IgetFacts, IgetKeeps
<1>12. cache'[d].valid
  BY <1>3, IgetKeeps
<1>13. \A j \in Inum : Freeing(j)' => Freeing(j)
  BY <1>7, <1>8, FreeingGoes
<1>14. \A u \in Process : /\ ~Owns(u, x) /\ Frees(todo[u]) # x
                          /\ pc[u] \in DpSteps \ {"nameiparent"} => local[u].dp # x
  BY <1>4, FreeUnused
<1>15. Checked'
  <2>1. CheckedAt(pc[t], local[t], todo[t])'
    <3>1. disk'[d].type = "dir" /\ ~Freeing(d)' /\ dir'[d][n] = 0
      BY <1>3, <1>4, <1>5, <1>13 DEF Dirlookup
    <3>2. CheckedAt(q, l, s)' => CheckedAt(pc[t], local[t], todo[t])'
      BY <1>1, <1>7 DEF CheckedAt, Freeing, Linking, CallLock, Frees
    <3>3. /\ q \in DpSteps \ {"nameiparent"} => disk'[l.dp].type = "dir" /\ ~Freeing(l.dp)'
          /\ CallLock(q, l) # 0 => cache'[CallLock(q, l)].valid
          /\ q = "create2" => dir'[l.dp][l.path[1]] = 0 /\ q # "unlink2"
      BY <3>1, <1>1, <1>6, <1>9, <1>12
    <3> QED
      BY <3>3, <1>1, <1>7, <1>8, <1>9 DEF CheckedAt, Freeing, Linking, CallLock, Frees
  <2>2. ASSUME NEW u \in Process \ {t}, NEW j \in Inum, Owns(u, j)
        PROVE  /\ cache[j].valid => cache'[j].valid
               /\ disk'[j].nlink = disk[j].nlink
               /\ \A m \in Entry : dir'[j][m] = dir[j][m]
    <3>1. cache[j].ref >= 1 /\ j # x
      BY <2>2, <1>0, <1>14, OwnsFacts
    <3> QED
      BY <3>1, <1>4, <1>11
  <2>3. \A j \in Inum : disk[j].type # "free" /\ ~Freeing(j) => disk'[j].type = disk[j].type
    BY <1>4
  <2> QED
    BY <2>1, <2>2, <2>3, <1>0, <1>7, <1>13, CheckedFrame
<1>16. Tree'
  <2>1. ASSUME NEW j \in Inum, disk'[j].type # "dir" PROVE \A m \in Name : dir'[j][m] = 0
    BY <2>1, <1>0, <1>4 DEF Tree
  <2>2. ASSUME NEW j \in Inum PROVE ~Edge(x, j)'
    <3>1. \A m \in Name : dir'[x][m] # j
      BY <1>0, <1>4 DEF Tree, Inum
    <3>2. ASSUME NEW u \in Process, pc'[u] \in {"unlink2", "create2"}, local'[u].dp = x PROVE FALSE
      <4>1. u # t
        BY <3>2, <1>5, <1>6, <1>7
      <4>2. pc[u] = pc'[u] /\ local[u] = local'[u]
        BY <4>1, <1>7 DEF OnlyMoved
      <4> QED
        BY <4>2, <3>2, <1>14 DEF DpSteps
    <3> QED
      BY <3>1, <3>2 DEF Edge
  <2>3. ASSUME NEW e \in Inum, NEW j \in Inum, Edge(e, j)', j # x PROVE Edge(e, j)
    BY <2>3, <1>6, <1>7 DEF Edge, OnlyMoved
  <2> QED
    BY <2>1, <2>2, <2>3, <1>0, TreeGrows
<1>17. \A j \in Inum : Drops(j)' = Drops(j)
  BY <1>7, <1>8, DropsSame DEF NotDrop
<1>18. Kept'
  <2>1. ASSUME NEW j \in Inum, j # x PROVE KeptAt(j)'
    <3>1. KeptAt(j) /\ disk'[j] = disk[j] /\ cache'[j].ref = cache[j].ref /\ cache[j].ref \in Nat
      BY <2>1, <1>0, <1>4, <1>11 DEF Kept, One
    <3>2. \A u \in Process : pc[u] = "create2" /\ local[u].ip = j =>
             \E v \in Process : pc'[v] = "create2" /\ local'[v].ip = j
      BY <1>1, <1>3, <1>7 DEF OnlyMoved
    <3> QED
      BY <3>1, <3>2, <1>11, <1>17, KeptFrame
  <2>2. KeptAt(x)'
    <3>1. cache[x].ref \in Nat /\ cache[x].ref >= Cardinality(Drops(x)) /\ Cardinality(Drops(x)) \in Nat
      <4>1. /\ Cardinality(FileRefs(x)) \in Nat /\ Cardinality(CwdRefs(x)) \in Nat
            /\ Cardinality(IpRefs(x)) \in Nat /\ Cardinality(DpRefs(x)) \in Nat
            /\ Cardinality(Heads(x)) \in Nat /\ Cardinality(Drops(x)) \in Nat
            /\ Cardinality(Drops(x)) <= Cardinality(Heads(x))
        BY FiniteRefs, DropsFacts
      <4> QED
        BY <4>1, HoldersBound
    <3>2. Cardinality(Drops(x)') = Cardinality(Drops(x)) /\ cache'[x].ref = cache[x].ref + 1
      BY <1>11, <1>17 DEF One
    <3>3. pc'[t] = "create2" /\ local'[t].ip = x
      BY <1>1, <1>6, <1>7
    <3>4. cache'[x].ref > Cardinality(Drops(x)')
      BY <3>1, <3>2
    <3> QED
      BY <3>3, <3>4 DEF KeptAt
  <2> QED
    BY <2>1, <2>2 DEF Kept
<1>19. AInv'
  <2>1. SUFFICES ASSUME ~strayed PROVE Reachable' /\ \A j \in Inum : LinkedAt(j)' /\ UsedAt(j)'
    BY DEF AInv
  <2>2. Reachable /\ \A j \in Inum : LinkedAt(j) /\ UsedAt(j)
    BY <2>1 DEF AInv
  <2>3. Reachable'
    <3>1. ROOTINO \in Inum /\ stranded \subseteq Inum
      BY <1>3, FsAssumption DEF ROOTINO, Inum, TypeOK
    <3>2. \A e \in Inum, m \in Name : dir[e][m] \in OptInum
      BY <1>3 DEF TypeOK, Contents, Entry
    <3> QED
      BY <3>1, <3>2, <2>2, <1>4, <1>5 DEF Reachable, OptInum
  <2>4. ASSUME NEW j \in Inum PROVE LinkedAt(j)'
    <3>1. \A k : ~Owes(pc[t], local[t], k) /\ ~Owes(pc'[t], local'[t], k)
      BY <1>1, <1>3, <1>7, <1>9 DEF Owes
    <3>2. Links(j)' = Links(j) /\ Links(x) = 0 /\ x \notin stranded
      BY <3>1, <2>2, <1>4, <1>7, AllocLinks
    <3>3. CASE j = x
      BY <3>2, <3>3, <1>4 DEF LinkedAt
    <3>4. CASE j # x
      BY <3>2, <3>4, <2>2, <1>4 DEF LinkedAt
    <3> QED
      BY <3>3, <3>4
  <2>5. ASSUME NEW j \in Inum, j # x PROVE UsedAt(j)'
    <3>1. cache'[j].ref = cache[j].ref /\ disk'[j] = disk[j] /\ Drops(j)' = Drops(j)
      BY <2>5, <1>4, <1>11, <1>17 DEF One
    <3>2. Frees(todo'[t]) # j /\ pc[t] # "create2" /\ ~(pc'[t] = "create2" /\ local'[t].ip = j)
      BY <2>5, <1>1, <1>3, <1>6, <1>7, <1>8 DEF Inum
    <3> QED
      BY <3>1, <3>2, <2>2, <1>0, <1>7, UsedFrame
  <2>6. UsedAt(x)'
    <3>1. cache[x].ref = Cardinality(Drops(x)) /\ Cardinality(Drops(x)) \in Nat
      BY <2>2, <1>4, DropsFacts DEF UsedAt
    <3>2. cache'[x].ref = Cardinality(Drops(x)') + 1
      <4>1. Cardinality(Drops(x)') = Cardinality(Drops(x)) /\ cache'[x].ref = cache[x].ref + 1
        BY <1>11, <1>17 DEF One
      <4> QED
        BY <4>1, <3>1
    <3>3. ASSUME NEW u \in Process, Frees(todo'[u]) = x PROVE FALSE
      <4>1. u # t
        BY <3>3, <1>5, <1>7, <1>8
      <4> QED
        BY <4>1, <3>3, <1>7, <1>14 DEF OnlyMoved
    <3>4. ASSUME NEW u \in Process, pc'[u] = "create2", local'[u].ip = x PROVE u = t
      <4>1. SUFFICES ASSUME u # t PROVE FALSE
        OBVIOUS
      <4>2. pc[u] = "create2" /\ local[u].ip = x
        BY <4>1, <3>4, <1>7 DEF OnlyMoved
      <4>3. HasInode(u, x)
        BY <4>2 DEF HasInode, IpIn, UsesIp, IpSteps
      <4> QED
        BY <4>3, <3>1, HeldMore
    <3>5. n \in Name
      <4>1. pc[t] # "create2" /\ dir[d][n] = 0
        BY <1>1, <1>3 DEF Dirlookup
      <4> QED
        BY <4>1, <2>2, <1>3, DotsThere
    <3>6. pc'[t] = "create2" /\ local'[t].ip = x /\ local'[t].path[1] \in Name
          /\ disk'[x].type = TypeOf(local'[t].call.op)
      BY <3>5, <1>1, <1>4, <1>6, <1>7
    <3> QED
      BY <3>2, <3>3, <3>4, <3>6, <1>4, <1>5 DEF UsedAt, Frees, TypeOf
  <2> QED
    BY <2>3, <2>4, <2>5, <2>6
<1> QED
  BY <1>10, <1>15, <1>16, <1>18, <1>19 DEF LInv

(* create() finds the name, or allocates an inode, or there is none.       *)
LEMMA Create1Links ==
    ASSUME IInv, LInv, AInv, NEW t \in Process, Create1(t)
    PROVE  LInv' /\ AInv'
<1>0. IInv'
  BY Create1Inv
<1>1. PICK d, n, c, x, y : /\ d = local[t].dp /\ n = local[t].path[1] /\ InMemory(c, d)
                           /\ x = Dirlookup(d, n) /\ y = TypeOf(local[t].call.op)
  BY DEF InMemory
<1>2. Runs(t, "create1") /\ UNCHANGED <<dir, cwd, lost, stranded>>
  BY DEF Create1
<1>3. CASE /\ x # 0 /\ cache' = Iget(c, x) /\ NewIp(t, x) /\ Goto(t, <<Put(d)>>, "exists")
           /\ strayed' = (strayed \/ Strays(n, x)) /\ UNCHANGED <<disk, lock>>
  <2>1. x = Dirlookup(d, local[t].path[1]) /\ strayed' = (strayed \/ Strays(local[t].path[1], x))
    BY <1>1, <1>3
  <2> QED
    BY <2>1, <1>0, <1>1, <1>2, <1>3, CreateFoundLinks
<1>4. CASE UNCHANGED <<disk, cache, lock, pc, todo, local, strayed>>
  BY <1>2, <1>4, SameInv
<1>5. CASE /\ x = 0
           /\ \E i \in Inum : Ialloc(i, y) /\ cache' = Iget(c, i) /\ NewIp(t, i)
           /\ lock' = [lock EXCEPT ![d] = t] /\ Goto(t, <<>>, "create2") /\ UNCHANGED strayed
  <2>1. PICK i \in Inum : Ialloc(i, y) /\ cache' = Iget(c, i) /\ NewIp(t, i)
    BY <1>5
  <2>2. Dirlookup(d, n) = 0
    BY <1>1, <1>5
  <2> QED
    BY <2>1, <2>2, <1>0, <1>1, <1>2, <1>5, CreateNewLinks
<1> QED
  BY <1>1, <1>3, <1>4, <1>5 DEF Create1, InMemory, NewIp, control

(* The inode i is free, and what was named in it is stranded.              *)
Truncated(i) ==
    /\ disk'[i].type = "free" /\ \A n \in Entry : dir'[i][n] = 0
    /\ cache'[i].ref = cache[i].ref
    /\ \A j \in Inum \ {i} : disk'[j] = disk[j] /\ dir'[j] = dir[j] /\ cache'[j] = cache[j]
    /\ lost' = lost \ {i} /\ stranded' = stranded \union ({dir[i][n] : n \in Name} \ {0})

(* The links of the other inodes.                                          *)
LEMMA TruncatedLinks ==
    ASSUME IInv, LInv, Reachable, NEW i \in Inum, disk[i].type # "free", disk[i].nlink = 0, LinkedAt(i),
           Truncated(i), NEW j \in Inum, j # i, LinkedAt(j), Owed(j)' = Owed(j)
    PROVE  LinkedAt(j)'
<1>0. \A d \in Inum, m \in Name : dir[d][m] \in OptInum
  BY DEF IInv, TypeOK, Contents, Entry
<1>1. \A d \in Inum, m \in Name : dir[d][m] # i
  <2>1. Names(i) = {} /\ i # 0
    BY NoLinks DEF Inum
  <2>2. ASSUME NEW d \in Inum, NEW m \in Name, dir[d][m] = i PROVE FALSE
    <3>1. disk[d].type = "dir"
      BY <2>1, <2>2 DEF LInv, Tree
    <3>2. <<d, m>> \in Names(i)
      BY <3>1, <2>2 DEF Names
    <3> QED
      BY <3>2, <2>1
  <2> QED
    BY <2>2
<1>2. Names(j)' \subseteq Names(j)
  <2>1. \A d \in Inum, m \in Name : dir'[d][m] = j /\ disk'[d].type = "dir" => d # i
    BY DEF Truncated
  <2> QED
    BY <2>1 DEF Names, Truncated
<1>3. Subdirs(j)' = Subdirs(j)
  <2>1. ASSUME NEW m \in Name PROVE dir'[j][m] = dir[j][m] /\ (dir[j][m] # 0 => disk'[dir[j][m]] = disk[dir[j][m]])
    BY <1>0, <1>1 DEF Truncated, OptInum
  <2> QED
    BY <2>1 DEF Subdirs
<1>4. /\ Cardinality(Names(j)') \in Nat /\ Cardinality(Names(j)) \in Nat
      /\ Cardinality(Names(j)') <= Cardinality(Names(j))
      /\ Cardinality(Names(j)') = Cardinality(Names(j)) => Names(j)' = Names(j)
  <2>1. IsFiniteSet(Names(j))
    BY LinksFacts
  <2> QED
    BY <2>1, <1>2, FS_Subset, FS_CardinalityType
<1>5. PICK e \in Nat : Links(j) = e + Cardinality(Names(j)) /\ Links(j)' = e + Cardinality(Names(j)')
  <2>1. PICK q \in Nat : q = IF j = ROOTINO THEN 1 ELSE 0
    OBVIOUS
  <2>2. Cardinality(Subdirs(j)) \in Nat /\ Cardinality(Owed(j)) \in Nat
    BY LinksFacts
  <2>3. /\ Links(j) = q + Cardinality(Names(j)) + Cardinality(Subdirs(j)) + Cardinality(Owed(j))
        /\ Links(j)' = q + Cardinality(Names(j)') + Cardinality(Subdirs(j)) + Cardinality(Owed(j))
    BY <2>1, <1>3 DEF Links
  <2>4. q + Cardinality(Subdirs(j)) + Cardinality(Owed(j)) \in Nat
    BY <2>2
  <2> QED
    BY <2>2, <2>3, <2>4, <1>4
<1>6. disk'[j] = disk[j] /\ disk[j].nlink \in Int /\ j # 0
  BY DEF Truncated, IInv, TypeOK, Dinode, Inum
<1>7. CASE j \in stranded
  <2>1. j \in stranded'
    BY <1>7 DEF Truncated
  <2> QED
    BY <2>1, <1>4, <1>5, <1>6, <1>7 DEF LinkedAt
<1>8. CASE j \notin stranded /\ \E m \in Name : dir[i][m] = j
  <2>1. PICK m \in Name : dir[i][m] = j
    BY <1>8
  <2>2. disk[i].type = "dir"
    BY <2>1, <1>6 DEF LInv, Tree
  <2>3. <<i, m>> \in Names(j)
    BY <2>1, <2>2 DEF Names
  <2>4. <<i, m>> \notin Names(j)'
    BY DEF Names, Truncated
  <2>5. j \in stranded'
    BY <2>1, <1>6 DEF Truncated
  <2>6. Links(j)' < Links(j)
    BY <2>3, <2>4, <1>4, <1>5
  <2> QED
    BY <2>5, <2>6, <1>4, <1>5, <1>6, <1>8 DEF LinkedAt
<1>9. CASE j \notin stranded /\ \A m \in Name : dir[i][m] # j
  <2>1. j \notin stranded'
    BY <1>9 DEF Truncated
  <2>2. Names(j) \subseteq Names(j)'
    <3>1. \A d \in Inum, m \in Name : dir[d][m] = j => d # i
      BY <1>9
    <3> QED
      BY <3>1 DEF Names, Truncated
  <2>3. Links(j)' = Links(j)
    <3>1. PICK A, B : A = Names(j) /\ B = Names(j)'
      OBVIOUS
    <3>2. A = B
      BY <3>1, <2>2, <1>2
    <3> QED
      BY <3>1, <3>2, <1>5
  <2> QED
    BY <2>1, <2>3, <1>6, <1>9 DEF LinkedAt
<1> QED
  BY <1>7, <1>8, <1>9

(* iput() frees the inode.                                                 *)
LEMMA PutFreeLinks ==
    ASSUME IInv, LInv, AInv, NEW t \in Process, PutFree(t)
    PROVE  LInv' /\ AInv'
<1>0. Locked /\ Checked /\ Tree /\ Kept /\ TypeOK
  BY DEF LInv, IInv
<1>1. PICK i, r : i = Arg(t) /\ Pushed(r, "drop", i, Rest(t))
  BY DEF Pushed
<1>2. /\ At(t) = "free" /\ lock' = [lock EXCEPT ![i] = None] /\ Do(t, r) /\ UNCHANGED <<cwd, pc, local, strayed>>
  BY <1>1 DEF PutFree, Pushed, Runs
<1>3. /\ Went(t, r, pc[t], local[t]) /\ ListOK(r) /\ Frees(r) = 0 /\ r # <<>> /\ r[1] = <<"drop", i>>
      /\ i \in Inum /\ t \in Heads(i) /\ pc[t] \notin {"unlink2", "create2"}
      /\ \A j : t \notin Drops(j) /\ (t \in Drops(j)' <=> j = i)
      /\ LocksIn(pc[t], local[t], r) = {CallLock(pc[t], local[t]), Unlocks(todo[t]), 0} \ {0}
      /\ Frees(todo[t]) = i /\ Unlocks(r) = Unlocks(todo[t])
  BY <1>1, <1>2, HeadMoves DEF PutStep
<1>4. Truncated(i)
  <2>1. /\ disk' = [disk EXCEPT ![i] = [type |-> "free", nlink |-> 0]]
        /\ dir' = [dir EXCEPT ![i] = NoDir]
        /\ cache' = [cache EXCEPT ![i].type = "free", ![i].valid = FALSE]
        /\ lost' = lost \ {i} /\ stranded' = stranded \union ({dir[i][n] : n \in Name} \ {0})
    BY <1>1 DEF PutFree, Itrunc, Freed
  <2>2. \A n \in Entry : NoDir[n] = 0
    BY DEF NoDir
  <2>3. disk \in [Inum -> Dinode] /\ dir \in [Inum -> Contents] /\ cache \in [Inum -> Inode]
    BY <1>0 DEF TypeOK
  <2>4. disk'[i].type = "free" /\ \A n \in Entry : dir'[i][n] = 0
    BY <2>1, <2>2, <2>3, <1>3
  <2>5. cache'[i].ref = cache[i].ref
    BY <2>1, <2>3, <1>3 DEF Inode
  <2>6. \A j \in Inum \ {i} : disk'[j] = disk[j] /\ dir'[j] = dir[j] /\ cache'[j] = cache[j]
    BY <2>1, <2>3, <1>3
  <2> QED
    BY <2>1, <2>4, <2>5, <2>6 DEF Truncated
<1>5. OnlyMoved(t) /\ todo'[t] = r /\ pc' = pc /\ local' = local /\ i # 0
  BY <1>2, <1>3 DEF Went, Inum
<1>6. /\ CallLock(pc[t], local[t]) # i /\ Unlocks(todo[t]) # i /\ Freeing(i) /\ lock[i] = t
      /\ cache[i].valid /\ disk[i].nlink = 0 /\ disk[i].type # "free"
  <2>1. Apart(pc[t], local[t], todo[t]) /\ CheckedAt(pc[t], local[t], todo[t])
    BY <1>0 DEF Locked, Checked
  <2>2. cache[i].valid /\ disk[i].nlink = 0
    BY <2>1, <1>3, <1>5 DEF CheckedAt
  <2>3. disk[i].type # "free"
    BY <2>2, <1>3 DEF IInv, Coherent
  <2>4. lock[i] = t
    BY <1>0, <1>3, <1>5 DEF Locked, LocksIn
  <2> QED
    BY <2>1, <2>2, <2>3, <2>4, <1>3, <1>5 DEF Apart, Freeing
<1>7. Locked'
  <2>1. /\ i \in LocksIn(pc[t], local[t], todo[t])
        /\ LocksIn(pc[t], local[t], r) = LocksIn(pc[t], local[t], todo[t]) \ {i}
    BY <1>3, <1>5, <1>6 DEF LocksIn
  <2>2. Apart(pc[t], local[t], r)
    <3>1. Apart(pc[t], local[t], todo[t])
      BY <1>0 DEF Locked
    <3> QED
      BY <3>1, <1>3 DEF Apart
  <2>3. LockStep(t, r, pc[t], local[t])
    BY <2>1, <2>2, <1>2, <1>3, ReleaseLock
  <2> QED
    BY <2>3, <1>3, StepLocked
<1>8. \A j \in Inum : Freeing(j)' => Freeing(j)
  BY <1>3, <1>5, FreeingGoes
<1>9. Checked'
  <2>1. CheckedAt(pc[t], local[t], todo[t])'
    <3>1. PICK p, l : p = pc[t] /\ l = local[t]
      OBVIOUS
    <3>2. /\ CheckedAt(p, l, todo[t]) /\ Shape(cwd[t], p, l) /\ l \in Local
          /\ p \notin {"unlink2", "create2"} /\ CallLock(p, l) # i
      BY <3>1, <1>0, <1>3, <1>6 DEF Checked, IInv, Shapes, TypeOK
    <3>3. p \in DpSteps \ {"nameiparent"} => disk'[l.dp].type = "dir" /\ ~Freeing(l.dp)'
      <4>1. SUFFICES ASSUME p \in DpSteps \ {"nameiparent"} PROVE disk'[l.dp].type = "dir" /\ ~Freeing(l.dp)'
        OBVIOUS
      <4>2. l.dp \in Inum /\ disk[l.dp].type = "dir" /\ ~Freeing(l.dp)
        BY <4>1, <3>2 DEF Shape, Local, OptInum, CheckedAt
      <4>3. l.dp # i
        BY <4>2, <1>6
      <4> QED
        BY <4>2, <4>3, <1>4, <1>8 DEF Truncated
    <3>4. Linking(p, l) => disk'[l.ip].type \notin {"free", "dir"} /\ ~Freeing(l.ip)'
      <4>1. SUFFICES ASSUME Linking(p, l) PROVE disk'[l.ip].type \notin {"free", "dir"} /\ ~Freeing(l.ip)'
        OBVIOUS
      <4>2. l.ip \in Inum /\ disk[l.ip].type \notin {"free", "dir"} /\ ~Freeing(l.ip)
        BY <4>1, <3>2 DEF Linking, Shape, UsesIp, IpSteps, Local, OptInum, CheckedAt
      <4>3. l.ip # i
        BY <4>2, <1>6
      <4> QED
        BY <4>2, <4>3, <1>4, <1>8 DEF Truncated
    <3>5. CallLock(p, l) # 0 => cache'[CallLock(p, l)].valid
      <4>1. SUFFICES ASSUME CallLock(p, l) # 0 PROVE cache'[CallLock(p, l)].valid
        OBVIOUS
      <4>2. CallLock(p, l) \in Inum /\ cache[CallLock(p, l)].valid
        BY <4>1, <3>2 DEF CallLock, Local, OptInum, CheckedAt
      <4> QED
        BY <4>2, <3>2, <1>4 DEF Truncated
    <3> QED
      BY <3>1, <3>2, <3>3, <3>4, <3>5, <1>3, <1>5 DEF CheckedAt, Freeing, Linking, CallLock, Frees
  <2>2. ASSUME NEW u \in Process \ {t}, NEW j \in Inum, Owns(u, j)
        PROVE  /\ cache[j].valid => cache'[j].valid
               /\ disk'[j].nlink = disk[j].nlink
               /\ \A m \in Entry : dir'[j][m] = dir[j][m]
    <3>1. j # i
      BY <2>2, <1>0, <1>6, OwnsFacts
    <3> QED
      BY <3>1, <1>4 DEF Truncated
  <2>3. \A j \in Inum : disk[j].type # "free" /\ ~Freeing(j) => disk'[j].type = disk[j].type
    BY <1>4, <1>6 DEF Truncated
  <2> QED
    BY <2>1, <2>2, <2>3, <1>0, <1>5, <1>8, CheckedFrame
<1>10. Tree'
  <2>1. ASSUME NEW j \in Inum, disk'[j].type # "dir" PROVE \A m \in Name : dir'[j][m] = 0
    BY <2>1, <1>0, <1>4 DEF Tree, Truncated, Entry
  <2>2. \A e \in Inum, m \in Name : dir'[e][m] \in {dir[e][m], 0}
    BY <1>4 DEF Truncated, Entry
  <2>3. \A e, j \in Inum : Edge(e, j)' => Edge(e, j)
    BY <2>2, <1>3, <1>5, EdgesGo
  <2> QED
    BY <2>1, <2>3, <1>0, TreeShrinks
<1>11. \A j \in Inum \ {i} : Drops(j)' = Drops(j)
  BY <1>3, <1>5, DropsMove
<1>12. Kept'
  <2>1. ASSUME NEW j \in Inum, j # i PROVE KeptAt(j)'
    <3>1. KeptAt(j) /\ disk'[j] = disk[j] /\ cache'[j] = cache[j] /\ cache[j].ref \in Nat
      BY <2>1, <1>0, <1>4 DEF Kept, Truncated, TypeOK, Inode
    <3>2. j \in lost => j \in lost'
      BY <2>1, <1>4 DEF Truncated
    <3> QED
      BY <3>1, <3>2, <2>1, <1>5, <1>11, KeptFrame
  <2>2. KeptAt(i)'
    BY <1>4 DEF KeptAt, Truncated
  <2> QED
    BY <2>1, <2>2 DEF Kept
<1>13. AInv'
  <2>1. SUFFICES ASSUME ~strayed PROVE Reachable' /\ \A j \in Inum : LinkedAt(j)' /\ UsedAt(j)'
    BY <1>2 DEF AInv
  <2>2. Reachable /\ \A j \in Inum : LinkedAt(j) /\ UsedAt(j)
    BY <2>1 DEF AInv
  <2>3. i \notin stranded /\ Names(i) = {} /\ i # ROOTINO
    BY <2>2, <1>3, <1>6, NoLinks
  <2>4. \A e \in Inum, m \in Name : dir[e][m] # i
    <3>1. ASSUME NEW e \in Inum, NEW m \in Name, dir[e][m] = i PROVE FALSE
      <4>1. disk[e].type = "dir"
        BY <3>1, <1>0, <1>5 DEF Tree
      <4>2. <<e, m>> \in Names(i)
        BY <4>1, <3>1 DEF Names
      <4> QED
        BY <4>2, <2>3
    <3> QED
      BY <3>1
  <2>5. Reachable'
    <3>1. ROOTINO \in Inum /\ stranded \subseteq Inum
      BY <1>0, FsAssumption DEF ROOTINO, Inum, TypeOK
    <3>2. \A e \in Inum, m \in Name : dir[e][m] \in OptInum
      BY <1>0 DEF TypeOK, Contents, Entry
    <3>3. disk'[ROOTINO].type # "free"
      BY <3>1, <2>2, <2>3, <1>4 DEF Reachable, Truncated
    <3>4. ASSUME NEW e \in Inum, NEW m \in Name, dir[e][m] # 0 PROVE disk'[dir[e][m]].type # "free"
      <4>1. dir[e][m] \in Inum /\ dir[e][m] # i
        BY <3>2, <3>4, <2>4 DEF OptInum
      <4> QED
        BY <4>1, <3>4, <2>2, <1>4 DEF Reachable, Truncated
    <3>5. ASSUME NEW j \in stranded' PROVE disk'[j].type # "free"
      <4>1. CASE j \in stranded
        BY <4>1, <3>1, <2>2, <2>3, <1>4 DEF Reachable, Truncated
      <4>2. CASE j \notin stranded
        <5>1. PICK m \in Name : j = dir[i][m] /\ j # 0
          BY <4>2, <3>5, <1>4 DEF Truncated
        <5> QED
          BY <5>1, <3>4, <1>3
      <4> QED
        BY <4>1, <4>2
    <3>6. \A e \in Inum, m \in Name : dir'[e][m] \in {dir[e][m], 0}
      BY <1>4 DEF Truncated, Entry
    <3> QED
      BY <3>3, <3>4, <3>5, <3>6 DEF Reachable
  <2>6. ASSUME NEW j \in Inum PROVE LinkedAt(j)'
    <3>1. Owed(j)' = Owed(j)
      BY <1>5, OwedSame
    <3>2. CASE j = i
      BY <3>2, <1>4 DEF LinkedAt, Truncated
    <3>3. CASE j # i
      BY <3>1, <3>3, <2>2, <1>3, <1>4, <1>6, TruncatedLinks
    <3> QED
      BY <3>2, <3>3
  <2>7. ASSUME NEW j \in Inum, j # i PROVE UsedAt(j)'
    <3>1. disk'[j] = disk[j] /\ dir'[j] = dir[j] /\ cache'[j] = cache[j] /\ Drops(j)' = Drops(j)
      BY <2>7, <1>4, <1>11 DEF Truncated
    <3>2. Frees(todo'[t]) # j
      BY <1>3, <1>5 DEF Inum
    <3> QED
      BY <3>1, <3>2, <2>2, <1>0, <1>3, <1>5, UsedFrame
  <2>8. UsedAt(i)'
    <3>1. cache[i].ref = 1
      BY <2>2, <1>3 DEF UsedAt
    <3>2. Heads(i) = {t}
      <4>1. ASSUME NEW u \in Heads(i), u # t PROVE FALSE
        <5>1. Cardinality(Heads(i)) >= 2 /\ Cardinality(Heads(i)) \in Nat
          BY <4>1, <1>3, DropsFacts, CardTwo
        <5>2. /\ Cardinality(FileRefs(i)) \in Nat /\ Cardinality(CwdRefs(i)) \in Nat
              /\ Cardinality(IpRefs(i)) \in Nat /\ Cardinality(DpRefs(i)) \in Nat
          BY FiniteRefs
        <5> QED
          BY <5>1, <5>2, <3>1, <1>3, HoldersBound
      <4> QED
        BY <4>1, <1>3
    <3>3. Cardinality(Drops(i)') = 1
      <4>1. PICK A, B : A = Drops(i)' /\ B = Drops(i)
        OBVIOUS
      <4>2. A \ {t} = B \ {t} /\ t \in A
        BY <4>1, <1>3, <1>5, DropsMove
      <4>3. B \subseteq {t}
        <5>2. <<"drop", i>> \in PutStep \X {i}
          BY DEF PutStep
        <5>3. B \subseteq Heads(i)
          BY <5>2, <4>1 DEF Drops, Heads
        <5> QED
          BY <5>3, <3>2
      <4>4. A = {t}
        BY <4>2, <4>3
      <4> QED
        BY <4>1, <4>4, FS_Singleton
    <3>4. ASSUME NEW u \in Process, Frees(todo'[u]) = i PROVE FALSE
      <4>1. u # t
        BY <3>4, <1>3, <1>5
      <4>2. Owns(u, i)
        BY <4>1, <3>4, <1>5 DEF OnlyMoved, Owns
      <4> QED
        BY <4>1, <4>2, <1>0, <1>6, OwnsFacts
    <3>5. ASSUME NEW u \in Process, pc'[u] = "create2", local'[u].ip = i PROVE FALSE
      <4>1. HasInode(u, i)
        BY <3>5, <1>5 DEF HasInode, IpIn, UsesIp, IpSteps
      <4> QED
        BY <4>1, <3>1, <1>3, HeadMore
    <3>6. disk'[i].type = "free" /\ cache'[i].ref = 1
      BY <3>1, <1>4 DEF Truncated
    <3> QED
      BY <3>3, <3>4, <3>5, <3>6 DEF UsedAt, Frees
  <2> QED
    BY <2>5, <2>6, <2>7, <2>8
<1> QED
  BY <1>7, <1>9, <1>10, <1>12, <1>13 DEF LInv

-----------------------------------------------------------------------------
(* The start of the system, and the start after a crash                    *)

(* The directories of a disk.                                              *)
NameTree ==
    /\ \A i \in Inum : disk[i].type # "dir" => \A n \in Name : dir[i][n] = 0
    /\ \A S \in SUBSET Inum : S # {} => \E d \in S : \A i \in S, n \in Name : dir[d][n] # i

(* The links of a disk that no call is working on.                         *)
DiskLinks(i) == (IF i = ROOTINO THEN 1 ELSE 0) + Cardinality(Names(i)) + Cardinality(Subdirs(i))
Consistent(i) ==
    /\ disk[i].type # "free" => IF i \in stranded THEN disk[i].nlink > DiskLinks(i)
                                                  ELSE disk[i].nlink = DiskLinks(i)
    /\ disk[i].type = "dir" => dir[i]["."] = i /\ dir[i][".."] # 0

(* What is on the disk is enough after the start.                          *)
DiskOK ==
    /\ NameTree
    /\ \A i \in Inum : disk[i].type # "free" /\ disk[i].nlink = 0 => i \in lost
    /\ ~strayed => Reachable /\ \A i \in Inum : Consistent(i)

(* No process has anything to do.                                          *)
LEMMA BootedLinks == Booted /\ RestOK /\ DiskOK => LInv /\ AInv
<1> SUFFICES ASSUME Booted, RestOK, DiskOK PROVE LInv /\ AInv
  OBVIOUS
<1>1. ASSUME NEW t \in Process
      PROVE  /\ todo[t] = <<>> /\ pc[t] = "user" /\ Frees(todo[t]) = 0 /\ CallLock(pc[t], local[t]) = 0
             /\ ListOK(todo[t]) /\ LocksIn(pc[t], local[t], todo[t]) = {}
             /\ Apart(pc[t], local[t], todo[t]) /\ ~Linking(pc[t], local[t])
  <2>1. todo[t] = <<>> /\ pc[t] = "user"
    BY DEF Booted
  <2>2. ROOTINO \in Inum
    BY FsAssumption DEF ROOTINO, Inum
  <2>3. ListOK(todo[t]) /\ Unlocks(todo[t]) = 0 /\ Frees(todo[t]) = 0
    BY <2>1, <2>2, ListLocks
  <2>4. CallLock(pc[t], local[t]) = 0 /\ ~Linking(pc[t], local[t])
    BY <2>1 DEF CallLock, Linking
  <2> QED
    BY <2>1, <2>3, <2>4 DEF Apart, LocksIn
<1>2. Locked
  <2>1. \A i \in Inum, t \in Process : lock[i] # t
    BY FsAssumption DEF Booted
  <2> QED
    BY <2>1, <1>1 DEF Locked
<1>3. Checked
  BY <1>1 DEF Checked, CheckedAt, DpSteps
<1>4. \A d, i : Edge(d, i) => \E n \in Name : dir[d][n] = i
  BY <1>1 DEF Edge
<1>5. Tree
  <2>1. ASSUME NEW S \in SUBSET Inum, S # {} PROVE \E d \in S : \A i \in S : ~Edge(d, i)
    <3>1. PICK d \in S : \A i \in S, n \in Name : dir[d][n] # i
      BY <2>1 DEF DiskOK, NameTree
    <3> QED
      BY <3>1, <1>4
  <2> QED
    BY <2>1 DEF Tree, DiskOK, NameTree
<1>6. Kept
  BY DEF Kept, KeptAt, DiskOK
<1>7. AInv
  <2>1. SUFFICES ASSUME ~strayed PROVE \A i \in Inum : LinkedAt(i) /\ UsedAt(i)
    BY DEF AInv, DiskOK
  <2>2. Reachable /\ \A i \in Inum : Consistent(i)
    BY <2>1 DEF DiskOK
  <2>3. ASSUME NEW i \in Inum PROVE LinkedAt(i)
    <3>1. Owed(i) = {}
      BY <1>1 DEF Owed, Owes
    <3>2. Cardinality(Owed(i)) = 0
      BY <3>1, FS_EmptySet
    <3>3. PICK q \in Nat : q = IF i = ROOTINO THEN 1 ELSE 0
      OBVIOUS
    <3>4. Cardinality(Names(i)) \in Nat /\ Cardinality(Subdirs(i)) \in Nat
      BY LinksFacts
    <3>5. /\ Links(i) = q + Cardinality(Names(i)) + Cardinality(Subdirs(i)) + Cardinality(Owed(i))
          /\ DiskLinks(i) = q + Cardinality(Names(i)) + Cardinality(Subdirs(i))
      BY <3>3 DEF Links, DiskLinks
    <3>6. Links(i) = DiskLinks(i)
      BY <3>2, <3>4, <3>5
    <3> QED
      BY <3>6, <2>2 DEF Consistent, LinkedAt
  <2>4. ASSUME NEW i \in Inum PROVE UsedAt(i)
    <3>1. Drops(i) = {}
      BY <1>1 DEF Drops
    <3>2. Cardinality(Drops(i)) = 0
      BY <3>1, FS_EmptySet
    <3>3. disk[i].type = "free" => cache[i].ref = 0
      BY <2>2 DEF Reachable, Booted, NoEntry
    <3> QED
      BY <3>2, <3>3, <2>2, <1>1 DEF UsedAt, Consistent, Inum
  <2> QED
    BY <2>3, <2>4
<1> QED
  BY <1>2, <1>3, <1>5, <1>6, <1>7 DEF LInv

(* The disk of mkfs.                                                       *)
LEMMA InitLinks == Init => LInv /\ AInv
<1> SUFFICES ASSUME Init PROVE LInv /\ AInv
  OBVIOUS
<1>1. Booted /\ IInv
  BY InitInv DEF Init, Booted
<1>2. RestOK
  BY <1>1 DEF IInv, TypeOK, RestOK
<1>3. ROOTINO \in Inum /\ ROOTINO # 0
  BY FsAssumption DEF ROOTINO, Inum
<1>4. \A i \in Inum, n \in Name : dir[i][n] = 0
  <2>1. \A n \in Name : n \in Entry /\ n \notin Dots
    BY FsAssumption DEF Entry
  <2> QED
    BY <2>1 DEF Init, NoDir
<1>5. disk[ROOTINO].type = "dir" /\ disk[ROOTINO].nlink = 1
      /\ \A i \in Inum \ {ROOTINO} : disk[i].type = "free"
  BY <1>3 DEF Init
<1>6. dir[ROOTINO]["."] = ROOTINO /\ dir[ROOTINO][".."] = ROOTINO
  <2>1. "." \in Entry /\ ".." \in Entry /\ "." \in Dots /\ ".." \in Dots
    BY DEF Entry, Dots
  <2> QED
    BY <2>1, <1>3 DEF Init
<1>7. \A i \in Inum : Names(i) = {} /\ Subdirs(i) = {}
  BY <1>4 DEF Names, Subdirs, Inum
<1>8. DiskLinks(ROOTINO) = 1
  BY <1>3, <1>7, FS_EmptySet DEF DiskLinks
<1>9. NameTree
  <2>1. ASSUME NEW S \in SUBSET Inum, S # {} PROVE \E d \in S : \A i \in S, n \in Name : dir[d][n] # i
    <3>1. PICK d \in S : d \in Inum
      BY <2>1
    <3>2. \A i \in S : i # 0
      BY DEF Inum
    <3> QED
      BY <3>1, <3>2, <1>4
  <2> QED
    BY <2>1, <1>4 DEF NameTree
<1>10. stranded = {}
  BY DEF Init
<1>11. Reachable /\ \A i \in Inum : Consistent(i)
  BY <1>3, <1>4, <1>5, <1>6, <1>8, <1>10 DEF Reachable, Consistent
<1>12. DiskOK
  BY <1>5, <1>9, <1>11 DEF DiskOK
<1> QED
  BY <1>1, <1>2, <1>12, BootedLinks

(* A crash leaves the disk as it was between two transactions.             *)
LEMMA CrashLinks == IInv /\ LInv /\ AInv /\ Crash => LInv' /\ AInv'
<1>1. IInv /\ LInv /\ AInv /\ Crash => Booted' /\ RestOK' /\ DiskOK'
  <2> SUFFICES ASSUME IInv, LInv, AInv, Crash PROVE Booted' /\ RestOK' /\ DiskOK'
    OBVIOUS
  <2>1. Booted'
    BY DEF Crash, Booted
  <2>2. TypeOK /\ UNCHANGED <<disk, dir, stranded, strayed, panicked>>
        /\ lost' = {i \in Inum : disk[i].type # "free" /\ disk[i].nlink = 0}
    BY DEF IInv, Crash, diskVars
  <2>3. RestOK'
    BY <2>2 DEF TypeOK, RestOK
  <2>4. ASSUME NEW t \in Process PROVE pc[t] \in {"user", "close"}
    <3>1. At(t) \in {"user", "close"}
      BY DEF Crash, InOp
    <3>2. At(t) \in Step
      BY <3>1 DEF Step
    <3> QED
      BY <3>1, <3>2, <2>2, AtCall
  <2>5. NameTree'
    <3>1. \A i \in Inum : disk'[i].type # "dir" => \A n \in Name : dir'[i][n] = 0
      BY <2>2 DEF LInv, Tree
    <3>2. ASSUME NEW S \in SUBSET Inum, S # {} PROVE \E d \in S : \A i \in S, n \in Name : dir'[d][n] # i
      <4>1. PICK d \in S : \A i \in S : ~Edge(d, i)
        BY <3>2 DEF LInv, Tree
      <4> QED
        BY <4>1, <2>2 DEF Edge
    <3> QED
      BY <3>1, <3>2 DEF NameTree
  <2>6. \A i \in Inum : disk'[i].type # "free" /\ disk'[i].nlink = 0 => i \in lost'
    BY <2>2
  <2>7. ASSUME ~strayed PROVE Reachable' /\ \A i \in Inum : Consistent(i)'
    <3>1. Reachable /\ \A i \in Inum : LinkedAt(i) /\ UsedAt(i)
      BY <2>7 DEF AInv
    <3>2. Reachable'
      BY <3>1, <2>2 DEF Reachable
    <3>3. ASSUME NEW i \in Inum PROVE Consistent(i)'
      <4>1. Owed(i) = {}
        BY <2>4 DEF Owed, Owes, Linking
      <4>2. Cardinality(Owed(i)) = 0
        BY <4>1, FS_EmptySet
      <4>3. PICK q \in Nat : q = IF i = ROOTINO THEN 1 ELSE 0
        OBVIOUS
      <4>4. Cardinality(Names(i)) \in Nat /\ Cardinality(Subdirs(i)) \in Nat
        BY LinksFacts
      <4>5. Names(i)' = Names(i) /\ Subdirs(i)' = Subdirs(i)
        BY <2>2 DEF Names, Subdirs
      <4>6. /\ Links(i) = q + Cardinality(Names(i)) + Cardinality(Subdirs(i)) + Cardinality(Owed(i))
            /\ DiskLinks(i)' = q + Cardinality(Names(i)) + Cardinality(Subdirs(i))
        BY <4>3, <4>5 DEF Links, DiskLinks
      <4>7. DiskLinks(i)' = Links(i)
        BY <4>2, <4>4, <4>6
      <4>8. LinkedAt(i) /\ UsedAt(i)
        BY <3>1
      <4>9. disk[i].type = "dir" => dir[i]["."] = i /\ dir[i][".."] # 0
        BY <4>8, <2>4 DEF UsedAt
      <4> QED
        BY <4>7, <4>8, <4>9, <2>2 DEF Consistent, LinkedAt
    <3> QED
      BY <3>2, <3>3
  <2>8. DiskOK'
    BY <2>2, <2>5, <2>6, <2>7 DEF DiskOK
  <2> QED
    BY <2>1, <2>3, <2>8
<1> QED
  BY <1>1, BootedLinks, PTL

-----------------------------------------------------------------------------
(* The invariants hold                                                     *)

(* Every step keeps them.                                                  *)
LEMMA NextLinks == IInv /\ LInv /\ AInv /\ [Next]_vars => LInv' /\ AInv'
<1> SUFFICES ASSUME IInv, LInv, AInv, [Next]_vars PROVE LInv' /\ AInv'
  OBVIOUS
<1>1. CASE UNCHANGED vars
  <2>1. UNCHANGED <<disk, dir, cache, lock, cwd, pc, todo, local, lost, stranded, strayed>>
    BY <1>1 DEF vars, diskVars, control, ghosts
  <2> QED
    BY <2>1, SameInv
<1>2. CASE Crash
  BY <1>2, CrashLinks
<1>3. ASSUME NEW t \in Process, ProcessStep(t) PROVE LInv' /\ AInv'
  <2>1. CASE \E c \in Call[t] : SysPath(t, c)
    BY <2>1, SysPathLinks
  <2>2. CASE SysClose(t) \/ Exit(t) \/ ExitClose(t) \/ ExitCwd(t) \/ \E u \in Process : Fork(t, u)
    BY <2>2, SysCloseLinks, ExitLinks, ExitCloseLinks, ExitCwdLinks, ForkLinks
  <2>3. CASE Iput(t) \/ Unlock(t) \/ IlockPanic(t) \/ Lookup(t)
    BY <2>3, PutLastLinks, PutFreeLinks, PutKeepLinks, PutDropLinks, UnlockLinks, IlockPanicLinks,
       NamexEndLinks, NamexLinks DEF Iput, Lookup
  <2>4. CASE SysLink(t) \/ SysUnlink(t) \/ Create(t)
    BY <2>4, Link1Links, Link2Links, LinkBadLinks, Unlink1Links, Unlink2Links, Unlink3Links,
       Create1Links, Create2Links, ExistsLinks DEF SysLink, SysUnlink, Create
  <2>5. CASE OpenFd(t) \/ Chdir(t) \/ Exec(t)
    BY <2>5, OpenFdLinks, ChdirLinks, ExecLinks
  <2> QED
    BY <1>3, <2>1, <2>2, <2>3, <2>4, <2>5 DEF ProcessStep
<1> QED
  BY <1>1, <1>2, <1>3 DEF Next

(* Every reachable state satisfies the second inductive invariant: every   *)
(* inode lock has an owner whose next steps release it, what a call found  *)
(* out about its inodes before it unlocked them still is so, the names form *)
(* a tree, an inode without links is kept by a reference that has yet to be *)
(* checked, and a link count is the number of names and of links under way. *)
THEOREM FsLinkInductive == Spec => [](IInv /\ LInv /\ AInv)
BY InitInv, NextInv, InitLinks, NextLinks, PTL DEF Spec

-----------------------------------------------------------------------------
(* Orphans, links, and inodes in use                                       *)

(* An inode without links and without references is free (fs.c:327-328),   *)
(* unless a crash took its last reference, or two iput() calls passed the  *)
(* check before either of them dropped its reference.                      *)
THEOREM FsOrphanByRaceOrCrash == Spec => []OrphanByRaceOrCrash
<1>1. IInv /\ LInv => OrphanByRaceOrCrash
  <2> SUFFICES ASSUME LInv, NEW i \in Inum, disk[i].type # "free", disk[i].nlink = 0, cache[i].ref = 0,
                      i \notin lost
               PROVE  FALSE
    BY DEF OrphanByRaceOrCrash
  <2>1. cache[i].ref > Cardinality(Drops(i))
    BY DEF LInv, Kept, KeptAt
  <2>2. Cardinality(Drops(i)) \in Nat
    BY DropsFacts
  <2> QED
    BY <2>1, <2>2
<1> QED
  BY <1>1, FsLinkInductive, PTL

(* With no transaction under way the link count of an inode is the number  *)
(* of its names and of the directories named in it; only a count that was  *)
(* stranded in a removed directory is higher (sysfile.c, sys_link(),       *)
(* sys_unlink() and create()).                                             *)
THEOREM FsLinksMatchNames == Spec => []LinksMatchNames
<1>1. IInv /\ LInv /\ AInv => LinksMatchNames
  <2> SUFFICES ASSUME IInv, AInv, ~strayed, \A t \in Process : ~InOp(t),
                      NEW i \in Inum \ {ROOTINO}, disk[i].type # "free"
               PROVE  /\ i \in stranded => disk[i].nlink > Cardinality(Names(i)) + Cardinality(Subdirs(i))
                      /\ i \notin stranded => disk[i].nlink = Cardinality(Names(i)) + Cardinality(Subdirs(i))
    BY DEF LinksMatchNames
  <2>1. ASSUME NEW t \in Process PROVE pc[t] \in {"user", "close"}
    <3>1. At(t) \in {"user", "close"}
      BY DEF InOp
    <3> QED
      BY <3>1, AtCall DEF Step, IInv
  <2>2. Owed(i) = {}
    BY <2>1 DEF Owed, Owes, Linking
  <2>3. Cardinality(Owed(i)) = 0
    BY <2>2, FS_EmptySet
  <2>4. Cardinality(Names(i)) \in Nat /\ Cardinality(Subdirs(i)) \in Nat
    BY LinksFacts
  <2>5. Links(i) = 0 + Cardinality(Names(i)) + Cardinality(Subdirs(i)) + Cardinality(Owed(i))
    BY DEF Links
  <2>6. Links(i) = Cardinality(Names(i)) + Cardinality(Subdirs(i))
    BY <2>3, <2>4, <2>5
  <2>7. LinkedAt(i)
    BY DEF AInv
  <2> QED
    BY <2>6, <2>7 DEF LinkedAt
<1> QED
  BY <1>1, FsLinkInductive, PTL

(* An inode with a name has links.                                         *)
LEMMA NamedLinks ==
    ASSUME IInv, LInv, AInv, ~strayed, NEW d \in Inum, NEW n \in Name, NEW i \in Inum, dir[d][n] = i
    PROVE  disk[i].type # "free" /\ disk[i].nlink \in Int /\ disk[i].nlink >= 1
<1>1. disk[d].type = "dir"
  BY DEF LInv, Tree, Inum
<1>2. disk[i].type # "free" /\ disk[i].nlink \in Int
  BY DEF AInv, Reachable, IInv, TypeOK, Dinode, Inum
<1>3. <<d, n>> \in Names(i)
  BY <1>1 DEF Names
<1>4. IsFiniteSet(Names(i)) /\ Links(i) \in Nat /\ Links(i) >= Cardinality(Names(i))
  BY LinksFacts
<1>5. Cardinality(Names(i)) \in Nat /\ Cardinality(Names(i)) >= 1
  BY <1>3, <1>4, CardOne
<1>6. LinkedAt(i)
  BY DEF AInv
<1> QED
  BY <1>2, <1>4, <1>5, <1>6 DEF LinkedAt

(* The last iput() frees no inode that a name, an open file or a current   *)
(* directory still refers to (fs.c:336-345), as long as no lookup has      *)
(* strayed.                                                                *)
THEOREM FsNotFreedInUse == Spec => []NotFreedInUse
<1>1. IInv /\ LInv /\ AInv => NotFreedInUse
  <2> SUFFICES ASSUME IInv, LInv, AInv, ~strayed
               PROVE  /\ \A d \in Inum, n \in Name :
                           dir[d][n] # 0 => disk[dir[d][n]].type # "free" /\ disk[dir[d][n]].nlink > 0
                      /\ \A f \in File : file[f].ip # 0 => disk[file[f].ip].type # "free"
                      /\ \A t \in Process : cwd[t] # 0 => disk[cwd[t]].type # "free"
    BY DEF NotFreedInUse
  <2>1. ASSUME NEW d \in Inum, NEW n \in Name, dir[d][n] # 0
        PROVE  disk[dir[d][n]].type # "free" /\ disk[dir[d][n]].nlink > 0
    <3>1. dir[d] \in Contents /\ n \in Entry
      BY DEF IInv, TypeOK, Entry
    <3>2. dir[d][n] \in OptInum
      BY <3>1 DEF Contents
    <3>3. PICK i \in Inum : dir[d][n] = i
      BY <3>2, <2>1 DEF OptInum
    <3>4. disk[i].type # "free" /\ disk[i].nlink \in Int /\ disk[i].nlink >= 1
      BY <3>3, NamedLinks
    <3> QED
      BY <3>3, <3>4
  <2>2. ASSUME NEW i \in Inum, cache[i].ref > Cardinality(Drops(i)), cache[i].ref \in Nat
        PROVE  disk[i].type # "free"
    <3>1. UsedAt(i) /\ Cardinality(Drops(i)) \in Nat
      BY DropsFacts DEF AInv
    <3> QED
      BY <2>2, <3>1 DEF UsedAt
  <2>3. ASSUME NEW f \in File, file[f].ip # 0 PROVE disk[file[f].ip].type # "free"
    <3>1. PICK i \in Inum : file[f].ip = i
      BY <2>3 DEF IInv, TypeOK, FileRec, OptInum
    <3>2. f \in FileRefs(i)
      BY <3>1 DEF FileRefs
    <3>3. Cardinality(FileRefs(i)) >= 1
      BY <3>2, FiniteRefs, CardOne
    <3>4. /\ Cardinality(FileRefs(i)) \in Nat /\ Cardinality(CwdRefs(i)) \in Nat
          /\ Cardinality(IpRefs(i)) \in Nat /\ Cardinality(DpRefs(i)) \in Nat /\ Cardinality(Heads(i)) \in Nat
          /\ Cardinality(Drops(i)) \in Nat /\ Cardinality(Drops(i)) <= Cardinality(Heads(i))
      BY FiniteRefs, DropsFacts
    <3>5. /\ cache[i].ref \in Nat
          /\ cache[i].ref >= Cardinality(FileRefs(i)) + Cardinality(CwdRefs(i)) + Cardinality(IpRefs(i))
                             + Cardinality(DpRefs(i)) + Cardinality(Heads(i))
      BY HoldersBound
    <3>6. cache[i].ref > Cardinality(Drops(i))
      BY <3>3, <3>4, <3>5
    <3> QED
      BY <3>1, <3>5, <3>6, <2>2
  <2>4. ASSUME NEW t \in Process, cwd[t] # 0 PROVE disk[cwd[t]].type # "free"
    <3>1. PICK i \in Inum : cwd[t] = i
      BY <2>4 DEF IInv, TypeOK, OptInum
    <3>2. cache[i].ref > Cardinality(Drops(i)) /\ cache[i].ref \in Nat
      BY <3>1, HeldMore DEF HasInode
    <3> QED
      BY <3>1, <3>2, <2>2
  <2> QED
    BY <2>1, <2>3, <2>4
<1> QED
  BY <1>1, FsLinkInductive, PTL

-----------------------------------------------------------------------------
(* Waiting and panics                                                      *)

(* A process that waits in ilock() has all of its iput() calls behind it,  *)
(* and holds a reference to the inode.                                     *)
LEMMA WaitsInIlock ==
    ASSUME IInv, LInv, NEW t \in Process, LockTarget(t) # 0, At(t) # "put"
    PROVE  /\ todo[t] = <<>> /\ pc[t] = At(t) /\ LockTarget(t) \in Inum /\ HasInode(t, LockTarget(t))
           /\ pc[t] # "unlink3"
           /\ pc[t] \in {"unlink2", "create2"} => LockTarget(t) = local[t].ip
           /\ pc[t] = "openfd" => LockTarget(t) = local[t].ip /\ lock[local[t].ip] # t
<1>1. At(t) \in Step
  BY DEF LockTarget, Step
<1>2. PICK p \in Step : p = At(t)
  BY <1>1
<1>3. /\ todo[t] = <<>> /\ pc[t] = p
      /\ UsesIp(p, local[t]) => local[t].ip \in Inum /\ IpIn(pc[t], local[t]) = local[t].ip
      /\ p \in DpSteps => local[t].dp \in Inum /\ DpIn(pc[t], local[t]) = local[t].dp
  BY <1>2, Here
<1>4. CASE p \in {"namei", "nameiparent"}
  <2>1. LockTarget(t) = Walked(t)
    BY <1>2, <1>4 DEF LockTarget
  <2>2. Walked(t) \in Inum /\ HasInode(t, Walked(t))
    BY <1>2, <1>4, AtWalk DEF HasInode
  <2> QED
    BY <1>2, <1>3, <1>4, <2>1, <2>2
<1>5. CASE p = "openfd"
  <2>1. LockTarget(t) = local[t].ip /\ lock[local[t].ip] # t
    BY <1>2, <1>5 DEF LockTarget
  <2> QED
    BY <1>2, <1>3, <1>5, <2>1 DEF UsesIp, IpSteps, HasInode
<1>6. CASE p \in {"chdir", "exec", "link1", "linkbad", "unlink2", "create2", "exists"}
  <2>1. LockTarget(t) = local[t].ip
    BY <1>2, <1>6 DEF LockTarget
  <2> QED
    BY <1>2, <1>3, <1>6, <2>1 DEF UsesIp, IpSteps, HasInode
<1>7. CASE p \in {"link2", "unlink1", "create1"}
  <2>1. LockTarget(t) = local[t].dp
    BY <1>2, <1>7 DEF LockTarget
  <2> QED
    BY <1>2, <1>3, <1>7, <2>1 DEF DpSteps, HasInode
<1> QED
  BY <1>2, <1>4, <1>5, <1>6, <1>7 DEF LockTarget

(* Among processes that wait for each other's inode locks one waits in     *)
(* iput() (fs.c:334): a process that waits in ilock() with a lock held     *)
(* holds a directory and waits for an inode named in it, and the names form *)
(* a tree.                                                                 *)
THEOREM FsWaitCycleOnlyInIput == Spec => []WaitCycleOnlyInIput
<1>1. IInv /\ LInv => WaitCycleOnlyInIput
  <2> SUFFICES ASSUME IInv, LInv, NEW w \in SUBSET Process, WaitCycle(w), \A t \in w : At(t) # "put"
               PROVE  FALSE
    BY DEF WaitCycleOnlyInIput
  <2>1. ASSUME NEW t \in w
        PROVE  /\ t \in Process /\ LockTarget(t) \in Inum /\ todo[t] = <<>> /\ pc[t] # "unlink3"
               /\ lock[LockTarget(t)] \in w
               /\ pc[t] \in {"unlink2", "create2"} => LockTarget(t) = local[t].ip
               /\ pc[t] = "openfd" => lock[local[t].ip] # t
    BY WaitsInIlock DEF WaitCycle
  <2>2. ASSUME NEW t \in w
        PROVE  \E u \in w : Edge(LockTarget(t), LockTarget(u))
    <3>1. PICK u \in w : lock[LockTarget(t)] = u
      BY <2>1
    <3>2. LockTarget(t) \in Inum /\ u \in Process /\ todo[u] = <<>> /\ pc[u] # "unlink3"
          /\ (pc[u] = "openfd" => lock[local[u].ip] # u)
      BY <2>1
    <3>3. LockTarget(t) \in LocksIn(pc[u], local[u], todo[u])
      BY <3>1, <3>2 DEF LInv, Locked
    <3>4. Unlocks(todo[u]) = 0 /\ Frees(todo[u]) = 0
      BY <3>2, ListLocks
    <3>5. CallLock(pc[u], local[u]) = LockTarget(t) /\ LockTarget(t) # 0
      BY <3>3, <3>4, <3>2 DEF LocksIn, Inum
    <3>6. pc[u] # "openfd"
      BY <3>1, <3>2, <3>5 DEF CallLock
    <3>7. pc[u] \in {"unlink2", "create2"} /\ local[u].dp = LockTarget(t)
      BY <3>2, <3>5, <3>6 DEF CallLock
    <3>8. LockTarget(u) = local[u].ip
      BY <2>1, <3>7
    <3>9. Edge(LockTarget(t), LockTarget(u))
      BY <3>2, <3>7, <3>8 DEF Edge
    <3> QED
      BY <3>9
  <2>3. PICK S : S = {LockTarget(t) : t \in w}
    OBVIOUS
  <2>4. S \in SUBSET Inum /\ S # {}
    BY <2>1, <2>3 DEF WaitCycle
  <2>5. PICK d \in S : \A i \in S : ~Edge(d, i)
    BY <2>4 DEF LInv, Tree
  <2>6. PICK t \in w : d = LockTarget(t)
    BY <2>3
  <2>7. PICK u \in w : Edge(d, LockTarget(u))
    BY <2>2, <2>6
  <2> QED
    BY <2>3, <2>5, <2>7
<1> QED
  BY <1>1, FsLinkInductive, PTL

(* ilock() does not find an inode without a type, unless a lookup strayed. *)
LEMMA IlockFindsType ==
    ASSUME IInv, LInv, AInv, ~strayed, NEW t \in Process, IlockPanic(t)
    PROVE  FALSE
<1>1. PICK i : i = LockTarget(t)
  OBVIOUS
<1>2. i \in Inum /\ HasInode(t, i)
  BY <1>1, WaitsInIlock DEF IlockPanic
<1>3. disk[i].type = "free" /\ UsedAt(i)
  BY <1>1, <1>2 DEF IlockPanic, NoType, AInv
<1>4. pc[t] = "create2" /\ local[t].ip = i => disk[i].type = TypeOf(local[t].call.op)
  BY <1>3 DEF UsedAt
<1>5. ~(pc[t] = "create2" /\ local[t].ip = i)
  BY <1>3, <1>4 DEF TypeOf
<1>6. ~Gone(i)
  BY <1>2, <1>3, <1>5, HeldNotGone DEF LInv
<1> QED
  BY <1>3, <1>6 DEF Gone

(* unlink() does not find an inode without links, unless a lookup strayed. *)
LEMMA UnlinkFindsLinks ==
    ASSUME IInv, LInv, AInv, ~strayed, NEW t \in Process, Unlink2(t)
    PROVE  panicked' = panicked
<1>1. PICK i, c : i = local[t].ip /\ InMemory(c, i)
  BY DEF InMemory
<1>2. Runs(t, "unlink2")
  BY DEF Unlink2
<1>3. pc[t] = "unlink2" /\ i \in Inum /\ local[t].dp \in Inum /\ c[i].nlink = disk[i].nlink
  BY <1>1, <1>2, AtInode
<1>4. local[t].path[1] \in Name /\ dir[local[t].dp][local[t].path[1]] = i
  BY <1>1, <1>3 DEF LInv, Checked, CheckedAt
<1>5. disk[i].nlink \in Int /\ disk[i].nlink >= 1
  BY <1>3, <1>4, NamedLinks
<1>6. ~(c[i].nlink < 1)
  BY <1>3, <1>5
<1> QED
  BY <1>1, <1>6 DEF Unlink2, InMemory

(* The other steps do not panic, but for ialloc(); no step forgets that a  *)
(* lookup strayed.                                                         *)
LEMMA PanicStep ==
    ASSUME IInv, NEW t \in Process, ProcessStep(t)
    PROVE  /\ strayed => strayed'
           /\ \/ panicked' = panicked \/ panicked' = "ialloc: no inodes"
              \/ IlockPanic(t) \/ Unlink2(t)
<1>1. strayed \in BOOLEAN
  BY DEF IInv, TypeOK
<1>2. CASE \E c \in Call[t] : SysPath(t, c)
  BY <1>2 DEF SysPath, ghosts
<1>3. CASE \E u \in Process : Fork(t, u)
  BY <1>3 DEF Fork, ghosts
<1>4. CASE SysClose(t)
  BY <1>4, <1>1 DEF SysClose, ghosts
<1>5. CASE Exit(t)
  BY <1>5, <1>1 DEF Exit, ghosts
<1>6. CASE ExitClose(t)
  BY <1>6, <1>1 DEF ExitClose, ghosts
<1>7. CASE ExitCwd(t)
  BY <1>7, <1>1 DEF ExitCwd, ghosts
<1>8. CASE PutLast(t)
  BY <1>8, <1>1 DEF PutLast, ghosts
<1>9. CASE PutFree(t)
  BY <1>9, <1>1 DEF PutFree, ghosts
<1>10. CASE PutKeep(t)
  BY <1>10, <1>1 DEF PutKeep, ghosts
<1>11. CASE PutDrop(t)
  BY <1>11, <1>1 DEF PutDrop, ghosts
<1>12. CASE Unlock(t)
  BY <1>12, <1>1 DEF Unlock, ghosts
<1>13. CASE NamexEnd(t)
  BY <1>13, <1>1 DEF NamexEnd, ghosts
<1>14. CASE Namex(t)
  BY <1>14, <1>1 DEF Namex
<1>15. CASE Link1(t)
  BY <1>15, <1>1 DEF Link1, ghosts
<1>16. CASE Link2(t)
  BY <1>16, <1>1 DEF Link2, ghosts
<1>17. CASE LinkBad(t)
  BY <1>17, <1>1 DEF LinkBad, ghosts
<1>18. CASE Unlink1(t)
  BY <1>18, <1>1 DEF Unlink1, ghosts
<1>19. CASE Unlink3(t)
  BY <1>19, <1>1 DEF Unlink3, ghosts
<1>20. CASE Create1(t)
  <2>1. \/ panicked' = "ialloc: no inodes" /\ strayed' = strayed
        \/ panicked' = panicked /\ (strayed' = strayed \/ \E n, i : strayed' = (strayed \/ Strays(n, i)))
    BY <1>20, Zenon DEF Create1
  <2>2. strayed => strayed'
    BY <2>1, Zenon
  <2> QED
    BY <2>1, <2>2, Zenon
<1>21. CASE Create2(t)
  BY <1>21, <1>1 DEF Create2, ghosts
<1>22. CASE Exists(t)
  BY <1>22, <1>1 DEF Exists, ghosts
<1>23. CASE OpenFd(t)
  BY <1>23, <1>1 DEF OpenFd, ghosts
<1>24. CASE Chdir(t)
  BY <1>24, <1>1 DEF Chdir, ghosts
<1>25. CASE Exec(t)
  BY <1>25, <1>1 DEF Exec, ghosts
<1>26. CASE IlockPanic(t)
  BY <1>26 DEF IlockPanic, ghosts
<1>27. CASE Unlink2(t)
  BY <1>27 DEF Unlink2, ghosts
<1> QED
  BY <1>2, <1>3, <1>4, <1>5, <1>6, <1>7, <1>8, <1>9, <1>10, <1>11, <1>12, <1>13, <1>14, <1>15,
     <1>16, <1>17, <1>18, <1>19, <1>20, <1>21, <1>22, <1>23, <1>24, <1>25, <1>26, <1>27
     DEF ProcessStep, Iput, Lookup, SysLink, SysUnlink, Create

(* Of the panics modelled only that of a disk without a free inode is met, *)
(* unless a lookup has followed ".." of a removed directory to an inode    *)
(* that is gone: neither "ilock: no type" (fs.c:310) nor "unlink: nlink < 1"       *)
(* (sysfile.c:212) happens before.                                         *)
THEOREM FsPanicIsKnown == Spec => []PanicIsKnown
<1>1. Init => PanicIsKnown
  BY DEF Init, PanicIsKnown
<1>2. IInv /\ LInv /\ AInv /\ PanicIsKnown /\ [Next]_vars => PanicIsKnown'
  <2> SUFFICES ASSUME IInv, LInv, AInv, PanicIsKnown, [Next]_vars PROVE PanicIsKnown'
    OBVIOUS
  <2>1. CASE UNCHANGED vars
    BY <2>1 DEF vars, ghosts, PanicIsKnown
  <2>2. CASE Crash
    BY <2>2 DEF Crash, PanicIsKnown
  <2>3. ASSUME NEW t \in Process, ProcessStep(t) PROVE PanicIsKnown'
    <3>1. /\ strayed => strayed'
          /\ \/ panicked' = panicked \/ panicked' = "ialloc: no inodes"
             \/ IlockPanic(t) \/ Unlink2(t)
      BY <2>3, PanicStep
    <3>2. CASE strayed
      BY <3>1, <3>2 DEF PanicIsKnown
    <3>3. CASE ~strayed
      <4>1. panicked' = panicked \/ panicked' = "ialloc: no inodes"
        BY <3>1, <3>3, IlockFindsType, UnlinkFindsLinks
      <4> QED
        BY <3>3, <4>1 DEF PanicIsKnown
    <3> QED
      BY <3>2, <3>3
  <2> QED
    BY <2>1, <2>2, <2>3 DEF Next
<1> QED
  BY <1>1, <1>2, FsLinkInductive, PTL DEF Spec
=============================================================================
