------------------------------- MODULE VmProofs -------------------------------
(***************************************************************************)
(* Pages and address spaces for any process table, any memory and any      *)
(* address-space size: no page is in two places, lost, or kept by a call   *)
(* that is over, and mappages() never maps a page over another.            *)
(***************************************************************************)
EXTENDS Vm, TLAPS

-----------------------------------------------------------------------------
(* Slots                                                                   *)

(* A slot of a space names the space.                                      *)
LEMMA SpaceOf ==
    ASSUME NEW s \in Space, NEW x \in SpaceSlots(s)
    PROVE  /\ x \in Process \X {"cur", "new"} \X Kind \X Int
           /\ x[1] = s[1] /\ x[2] = s[2] /\ x[3] \notin {"kstack", "mem"}
<1>1. \A v \in VA : v \div NPTENTRIES \in Int
  BY VmAssumption DEF VA
<1> QED
  BY <1>1 DEF Space, SpaceSlots, Ptes, Tabs, Pte, UTab, KTab, Dir, VA, KIndex, Kind

(* The slots of a space are slots of the model, and of that space only.    *)
LEMMA SpaceSlotsApart ==
    ASSUME NEW s \in Space
    PROVE  /\ SpaceSlots(s) \subseteq UsedSlot
           /\ \A r \in Space : \A x \in SpaceSlots(s) : x \in SpaceSlots(r) => r = s
<1>1. PICK p \in Process : s = Cur(p) \/ s = New(p)
  BY DEF Space, Cur, New
<1>2. SpaceSlots(s) \subseteq UsedSlot
  BY <1>1 DEF UsedSlot, Slots
<1>3. ASSUME NEW r \in Space, NEW x \in SpaceSlots(s), x \in SpaceSlots(r) PROVE r = s
  BY <1>3, SpaceOf DEF Space
<1> QED
  BY <1>2, <1>3

(* The directory, tables and entries of a space.                           *)
LEMMA PartsOfSpace ==
    ASSUME NEW s \in Space
    PROVE  /\ Dir(s) \in SpaceSlots(s)
           /\ \A v \in VA : UTab(s, v) \in SpaceSlots(s) /\ Pte(s, v) \in SpaceSlots(s)
           /\ \A n \in KIndex : KTab(s, n) \in SpaceSlots(s)
BY DEF SpaceSlots, Ptes, Tabs

(* They are different slots.                                               *)
LEMMA PartsApart ==
    ASSUME NEW s \in Space
    PROVE  /\ \A v \in VA : \A w \in VA :
                Pte(s, v) # Dir(s) /\ UTab(s, v) # Dir(s) /\ Pte(s, v) # UTab(s, w)
                /\ (Pte(s, v) = Pte(s, w) => v = w)
           /\ \A n \in KIndex : \A m \in KIndex :
                KTab(s, n) # Dir(s) /\ (KTab(s, n) = KTab(s, m) => n = m)
           /\ \A v \in VA : \A n \in KIndex : KTab(s, n) # Pte(s, v) /\ KTab(s, n) # UTab(s, v)
BY DEF Pte, UTab, KTab, Dir

(* The slots of a process that are in no space.                            *)
LEMMA OwnSlots ==
    ASSUME NEW p \in Process
    PROVE  /\ Mem(p) \in UsedSlot /\ KStack(p) \in UsedSlot
           /\ \A q \in Process : Mem(p) # KStack(q) /\ (Mem(p) = Mem(q) => p = q)
                                 /\ (KStack(p) = KStack(q) => p = q)
           /\ \A s \in Space : Mem(p) \notin SpaceSlots(s) /\ KStack(p) \notin SpaceSlots(s)
<1>1. Mem(p) \in UsedSlot /\ KStack(p) \in UsedSlot
  BY DEF UsedSlot, Slots
<1>2. ASSUME NEW s \in Space PROVE Mem(p) \notin SpaceSlots(s) /\ KStack(p) \notin SpaceSlots(s)
  BY SpaceOf DEF Mem, KStack
<1> QED
  BY <1>1, <1>2 DEF Mem, KStack

(* The two spaces of a process.                                            *)
LEMMA TwoSpaces ==
    ASSUME NEW p \in Process
    PROVE  /\ Cur(p) \in Space /\ New(p) \in Space
           /\ \A q \in Process : Cur(p) # New(q) /\ (Cur(p) = Cur(q) => p = q) /\ (New(p) = New(q) => p = q)
           /\ Cur(p)[1] = p /\ Cur(p)[2] = "cur" /\ New(p)[1] = p /\ New(p)[2] = "new"
           /\ \A s \in Space : s[1] = p => s = Cur(p) \/ s = New(p)
           /\ \A s \in Space : s[1] \in Process
BY DEF Cur, New, Space

-----------------------------------------------------------------------------
(* kalloc(), kfree() and moves of a page                                   *)

(* kalloc() into an empty slot.                                            *)
LEMMA KallocOnce ==
    ASSUME TypeOK, PageOnce, NEW x \in UsedSlot, at[x] = NoPage, Kalloc(x)
    PROVE  /\ PageOnce' /\ free' \subseteq Page /\ at' \in [UsedSlot -> Page \union {NoPage}]
           /\ at'[x] # NoPage /\ \A y \in UsedSlot : y # x => at'[y] = at[y]
<1>1. PICK pg \in free : at' = [at EXCEPT ![x] = pg] /\ free' = free \ {pg}
  BY DEF Kalloc
<1>2. pg \in Page /\ pg # NoPage
  BY VmAssumption DEF TypeOK
<1>3. /\ at' \in [UsedSlot -> Page \union {NoPage}] /\ at'[x] = pg
      /\ \A y \in UsedSlot : y # x => at'[y] = at[y]
  BY <1>1, <1>2 DEF TypeOK
<1>4. ASSUME NEW r \in UsedSlot, NEW s \in UsedSlot, at'[r] # NoPage, at'[r] = at'[s] PROVE r = s
  BY <1>2, <1>3, <1>4 DEF PageOnce, Held
<1>5. ASSUME NEW r \in UsedSlot, at'[r] # NoPage PROVE at'[r] \notin free'
  BY <1>1, <1>3, <1>5 DEF PageOnce, Held
<1>6. ASSUME NEW p \in Page PROVE p \in free' \/ \E s \in UsedSlot : at'[s] = p
  BY <1>1, <1>3, VmAssumption DEF PageOnce
<1>7. free' \subseteq Page
  BY <1>1 DEF TypeOK
<1> QED
  BY <1>2, <1>3, <1>4, <1>5, <1>6, <1>7 DEF PageOnce, Held

(* kfree() of the page in a slot.                                          *)
LEMMA KfreeOnce ==
    ASSUME TypeOK, PageOnce, NEW x \in UsedSlot, at[x] # NoPage, Kfree(x)
    PROVE  /\ PageOnce' /\ free' \subseteq Page /\ at' \in [UsedSlot -> Page \union {NoPage}]
           /\ at'[x] = NoPage /\ \A y \in UsedSlot : y # x => at'[y] = at[y]
<1>1. at' = [at EXCEPT ![x] = NoPage] /\ free' = free \union {at[x]}
  BY DEF Kfree
<1> QED
  BY <1>1, VmAssumption DEF TypeOK, PageOnce, Held

(* mappages() moves the page in mem.                                       *)
LEMMA MoveOnce ==
    ASSUME TypeOK, PageOnce, NEW x \in UsedSlot, NEW y \in UsedSlot, x # y, at[y] = NoPage,
           at' = [at EXCEPT ![y] = at[x], ![x] = NoPage], free' = free
    PROVE  /\ PageOnce' /\ at' \in [UsedSlot -> Page \union {NoPage}]
           /\ at'[x] = NoPage /\ at'[y] = at[x]
           /\ \A z \in UsedSlot : z # x /\ z # y => at'[z] = at[z]
<1>1. /\ at' \in [UsedSlot -> Page \union {NoPage}] /\ at'[x] = NoPage /\ at'[y] = at[x]
      /\ \A z \in UsedSlot : z # x /\ z # y => at'[z] = at[z]
  BY DEF TypeOK
<1>2. ASSUME NEW r \in UsedSlot, NEW s \in UsedSlot, at'[r] # NoPage, at'[r] = at'[s] PROVE r = s
  BY <1>1, <1>2 DEF PageOnce, Held, TypeOK
<1>3. ASSUME NEW r \in UsedSlot, at'[r] # NoPage PROVE at'[r] \notin free
  BY <1>1, <1>3 DEF PageOnce, Held, TypeOK
<1>4. ASSUME NEW pg \in Page PROVE pg \in free \/ \E s \in UsedSlot : at'[s] = pg
  BY <1>1, VmAssumption DEF PageOnce, TypeOK
<1> QED
  BY <1>1, <1>2, <1>3, <1>4 DEF PageOnce, Held

-----------------------------------------------------------------------------
(* Who works on which space                                                *)

(* The slots of two processes are different.                               *)
LEMMA SlotsApart ==
    ASSUME NEW p \in Process, NEW q \in Process, p # q, NEW x \in Slots(p)
    PROVE  x \notin Slots(q)
<1>1. \A r \in Process : \A y \in Slots(r) : y[1] = r
  BY SpaceOf, TwoSpaces DEF Slots, KStack, Mem
<1> QED
  BY <1>1

(* The slots of a space are its process's.                                 *)
LEMMA SlotsOf ==
    ASSUME NEW s \in Space
    PROVE  /\ s[1] \in Process /\ SpaceSlots(s) \subseteq Slots(s[1])
           /\ \A p \in Process : Mem(p) \in Slots(p) /\ KStack(p) \in Slots(p)
           /\ \A p \in Process : Slots(p) \subseteq UsedSlot
<1>1. PICK p \in Process : s = Cur(p) \/ s = New(p)
  BY DEF Space, Cur, New
<1> QED
  BY <1>1, TwoSpaces DEF Slots, UsedSlot

(* The child of a fork() is an embryo, at work on nothing; nobody else     *)
(* works on the space of a caller.                                         *)
LEMMA Builder ==
    ASSUME TypeOK, Targets, NEW t \in Process
    PROVE  /\ tgt[t] \in Space /\ tgt[t][1] \in Process
           /\ Forks(t) => /\ tgt[t] = Cur(tgt[t][1]) /\ pc[tgt[t][1]] = "embryo"
                          /\ tgt[tgt[t][1]] = New(tgt[t][1]) /\ ~Forks(tgt[t][1])
           /\ ~Forks(t) => tgt[t][1] = t
           /\ pc[t] \in Idle \union Loading => ~Forks(t) /\ tgt[t] = New(t)
           /\ pc[t] # "embryo" => \A p \in Process : p # t /\ p # tgt[t][1] =>
                tgt[p][1] # t /\ tgt[p][1] # tgt[t][1]
<1>1. tgt[t] \in Space /\ tgt[t][1] \in Process
  BY TwoSpaces DEF TypeOK, Space
<1>2. Forks(t) => tgt[t] = Cur(tgt[t][1]) /\ pc[tgt[t][1]] = "embryo"
  BY <1>1 DEF Targets, Space, Cur
<1>3. \A p \in Process : pc[p] \in Idle \union Loading => ~Forks(p) /\ tgt[p] = New(p)
  BY DEF Targets, Idle, Loading, Forking, Copying
<1>4. Forks(t) => tgt[tgt[t][1]] = New(tgt[t][1]) /\ ~Forks(tgt[t][1])
  BY <1>1, <1>2, <1>3 DEF Idle
<1>5. ~Forks(t) => tgt[t][1] = t
  BY DEF Forks
<1>6. ASSUME pc[t] # "embryo", NEW p \in Process, p # t, p # tgt[t][1]
      PROVE  tgt[p][1] # t /\ tgt[p][1] # tgt[t][1]
  <2>1. CASE ~Forks(p)
    BY <1>6, <2>1 DEF Forks
  <2>2. CASE Forks(p)
    <3>1. tgt[p] = Cur(tgt[p][1]) /\ pc[tgt[p][1]] = "embryo" /\ tgt[p][1] \in Process
      BY <2>2, TwoSpaces DEF Targets, TypeOK, Space, Cur
    <3>2. tgt[p][1] # t
      BY <1>6, <3>1
    <3>3. tgt[p][1] = tgt[t][1] => Forks(t) /\ tgt[p] = tgt[t]
      BY <1>2, <1>5, <3>1, <3>2
    <3> QED
      BY <1>6, <2>2, <3>2, <3>3 DEF Targets
  <2> QED
    BY <2>1, <2>2
<1> QED
  BY <1>1, <1>2, <1>3, <1>4, <1>5, <1>6

(* What the invariant says of a process is about its slots and those of    *)
(* the space it works on.                                                  *)
LEMMA ProcessFrame ==
    ASSUME TypeOK, NEW p \in Process, HasStack(p), HasDir(p), LoopsOn(p),
           pc'[p] = pc[p], tgt'[p] = tgt[p], i'[p] = i[p],
           \A y \in Slots(p) \union Slots(tgt[p][1]) : at'[y] = at[y]
    PROVE  HasStack(p)' /\ HasDir(p)' /\ LoopsOn(p)'
<1>1. /\ tgt[p] \in Space /\ tgt[p][1] \in Process /\ Cur(p) \in Space /\ New(p) \in Space
      /\ Cur(p)[1] = p /\ New(p)[1] = p
  BY TwoSpaces DEF TypeOK
<1>2. \A s \in Space : s[1] = p \/ s[1] = tgt[p][1] => \A y \in SpaceSlots(s) : at'[y] = at[y]
  BY SlotsOf
<1>3. at'[Mem(p)] = at[Mem(p)] /\ at'[KStack(p)] = at[KStack(p)]
      /\ at'[KStack(tgt[p][1])] = at[KStack(tgt[p][1])]
  BY <1>1, SlotsOf
<1>4. HasStack(p)'
  BY <1>3 DEF HasStack, Forks
<1>5. HasDir(p)'
  BY <1>1, <1>2, PartsOfSpace DEF HasDir, Empty, Held
<1>6. LoopsOn(p)'
  BY <1>1, <1>2, PartsOfSpace DEF LoopsOn
<1> QED
  BY <1>4, <1>5, <1>6

(* A call of t leaves what the invariant says of the other processes       *)
(* alone, whatever it does to its slots and to the space it works on.      *)
LEMMA OthersFrame ==
    ASSUME IInv, NEW t \in Process, pc[t] # "embryo",
           \A y \in UsedSlot : y \notin Slots(t) \union Slots(tgt[t][1]) => at'[y] = at[y],
           NEW p \in Process, p # t, p # tgt[t][1],
           pc'[p] = pc[p], tgt'[p] = tgt[p], i'[p] = i[p]
    PROVE  HasStack(p)' /\ HasDir(p)' /\ LoopsOn(p)'
<1>1. tgt[t][1] \in Process /\ tgt[p] \in Space /\ tgt[p][1] \in Process
      /\ tgt[p][1] # t /\ tgt[p][1] # tgt[t][1]
  BY Builder DEF IInv
<1>2. \A y \in Slots(p) \union Slots(tgt[p][1]) :
        y \in UsedSlot /\ y \notin Slots(t) /\ y \notin Slots(tgt[t][1])
  BY <1>1, SlotsApart, SlotsOf
<1> QED
  BY <1>2, ProcessFrame DEF IInv

(* The same with the child of a fork(), as long as it stays an embryo.     *)
LEMMA RestFrame ==
    ASSUME IInv, NEW t \in Process, pc[t] # "embryo",
           \A y \in UsedSlot : y \notin Slots(t) \union SpaceSlots(tgt[t]) /\ y # KStack(tgt[t][1])
                                => at'[y] = at[y],
           \A p \in Process : p # t => pc'[p] = pc[p] /\ tgt'[p] = tgt[p] /\ i'[p] = i[p]
    PROVE  \A p \in Process : p # t => HasStack(p)' /\ HasDir(p)' /\ LoopsOn(p)'
<1> SUFFICES ASSUME NEW p \in Process, p # t PROVE HasStack(p)' /\ HasDir(p)' /\ LoopsOn(p)'
  OBVIOUS
<1>1. tgt[t] \in Space /\ tgt[t][1] \in Process
  BY Builder DEF IInv
<1>2. CASE p # tgt[t][1]
  <2>1. SpaceSlots(tgt[t]) \subseteq Slots(tgt[t][1]) /\ KStack(tgt[t][1]) \in Slots(tgt[t][1])
    BY <1>1, SlotsOf
  <2>2. \A y \in UsedSlot : y \notin Slots(t) \union Slots(tgt[t][1]) => at'[y] = at[y]
    BY <2>1
  <2> QED
    BY <1>2, <2>2, OthersFrame
<1>3. CASE p = tgt[t][1]
  <2>1. Forks(t)
    BY <1>3 DEF Forks
  <2>2. pc[p] = "embryo" /\ tgt[p] = New(p) /\ tgt[t] = Cur(p) /\ ~Forks(p)
    BY <1>3, <2>1, Builder DEF IInv
  <2>3. /\ Mem(p) \in UsedSlot /\ Mem(p) \notin Slots(t) /\ Mem(p) \notin SpaceSlots(Cur(p))
        /\ Mem(p) # KStack(p)
    BY TwoSpaces, OwnSlots, SlotsApart, SlotsOf
  <2>4. \A y \in SpaceSlots(New(p)) :
            y \in UsedSlot /\ y \notin Slots(t) /\ y \notin SpaceSlots(Cur(p)) /\ y # KStack(p)
    BY TwoSpaces, OwnSlots, SlotsApart, SlotsOf, SpaceSlotsApart
  <2>5. at'[Mem(p)] = at[Mem(p)] /\ \A y \in SpaceSlots(New(p)) : at'[y] = at[y]
    BY <1>3, <2>2, <2>3, <2>4
  <2>6. pc'[p] = "embryo" /\ tgt'[p] = New(p)
    BY <2>2
  <2>7. HasStack(p)'
    BY <2>2, <2>5, <2>6 DEF IInv, HasStack, Forks
  <2>8. HasDir(p)'
    BY <2>2, <2>5, <2>6 DEF IInv, HasDir, Empty, Held, Filling, Copying, Loading, Idle
  <2>9. LoopsOn(p)'
    BY <2>6 DEF LoopsOn, Copying, Loading
  <2> QED
    BY <2>7, <2>8, <2>9
<1> QED
  BY <1>2, <1>3

(* A step within the space t works on.                                     *)
LEMMA SpaceChange ==
    ASSUME IInv, NEW t \in Process, NEW x \in SpaceSlots(tgt[t]),
           \A y \in UsedSlot : y # x => at'[y] = at[y]
    PROVE  /\ x \in UsedSlot
           /\ \A p \in Process : at'[Mem(p)] = at[Mem(p)] /\ at'[KStack(p)] = at[KStack(p)]
           /\ \A s \in Space : s # tgt[t] => \A y \in SpaceSlots(s) : at'[y] = at[y]
           /\ \A y \in SpaceSlots(tgt[t]) : y # x => at'[y] = at[y]
<1>1. tgt[t] \in Space
  BY DEF IInv, TypeOK
<1>2. x \in UsedSlot /\ \A y \in SpaceSlots(tgt[t]) : y \in UsedSlot
  BY <1>1, SpaceSlotsApart
<1>3. \A p \in Process : at'[Mem(p)] = at[Mem(p)] /\ at'[KStack(p)] = at[KStack(p)]
  BY <1>1, OwnSlots
<1>4. ASSUME NEW s \in Space, s # tgt[t], NEW y \in SpaceSlots(s) PROVE at'[y] = at[y]
  BY <1>1, <1>4, SpaceSlotsApart
<1> QED
  BY <1>2, <1>3, <1>4

(* A step on a slot of t that is in no space, or the child's kernel stack. *)
LEMMA OwnChange ==
    ASSUME IInv, NEW t \in Process, NEW x \in {Mem(t), KStack(t), KStack(tgt[t][1])},
           \A y \in UsedSlot : y # x => at'[y] = at[y]
    PROVE  /\ x \in UsedSlot
           /\ \A s \in Space : \A y \in SpaceSlots(s) : at'[y] = at[y]
           /\ \A p \in Process : Mem(p) # x => at'[Mem(p)] = at[Mem(p)]
           /\ \A p \in Process : KStack(p) # x => at'[KStack(p)] = at[KStack(p)]
<1>1. tgt[t][1] \in Process
  BY Builder DEF IInv
<1>2. x \in UsedSlot
  BY <1>1, OwnSlots
<1>3. \A s \in Space : \A y \in SpaceSlots(s) : y # x /\ y \in UsedSlot
  BY <1>1, OwnSlots, SpaceSlotsApart
<1> QED
  BY <1>2, <1>3, OwnSlots

(* A call goes on with the space it works on.                              *)
LEMMA TargetsFrame ==
    ASSUME TypeOK, Targets, NEW t \in Process, pc[t] # "embryo", NEW l,
           pc' = [pc EXCEPT ![t] = l], tgt' = tgt,
           IF Forks(t) THEN l \in Forking
           ELSE l \notin {"kstack", "copy", "forkfail"} /\ (tgt[t] = New(t) \/ l = "freevm")
    PROVE  Targets'
<1>1. \A p \in Process : pc'[p] = IF p = t THEN l ELSE pc[p]
  BY DEF TypeOK
<1>2. \A p \in Process : Forks(p)' <=> Forks(p)
  BY DEF Forks
<1>3. \A p \in Process : Forks(p) => tgt[p][1] # t /\ tgt[p][1] \in Process
  BY Builder
<1> QED
  BY <1>1, <1>2, <1>3 DEF Targets

(* A call that is not at freevm() works on another space than the one in   *)
(* use.                                                                    *)
LEMMA NotInUse ==
    ASSUME TypeOK, Targets, NEW t \in Process, pc[t] # "freevm"
    PROVE  tgt[t] # Cur(t)
BY TwoSpaces DEF Targets, Forks

(* The parts of the invariant.                                             *)
LEMMA Parts ==
    ASSUME NEW t \in Process, TypeOK', PageOnce', Targets',
           HasStack(t)' /\ HasDir(t)' /\ LoopsOn(t)',
           \A p \in Process : p # t => HasStack(p)' /\ HasDir(p)' /\ LoopsOn(p)'
    PROVE  IInv'
BY DEF IInv

-----------------------------------------------------------------------------
(* The invariant, action by action                                         *)

(* setupkvm(): the directory                                               *)
LEMMA SetupDirInvariant ==
    ASSUME IInv, NEW t \in Process, SetupDir(t)
    PROVE  IInv'
<1> DEFINE s == tgt[t]
           x == Dir(tgt[t])
<1>1. pc[t] = "kdir" /\ UNCHANGED <<sz, tgt, goal, stack, panicked>> /\ i' = [i EXCEPT ![t] = 0]
  BY DEF SetupDir, Runs, Loop
<1>2. /\ TypeOK /\ PageOnce /\ Targets /\ HasStack(t) /\ HasDir(t)
      /\ s \in Space /\ s[1] \in Process /\ s # Cur(t) /\ (~Forks(t) => s = New(t))
      /\ Cur(t) \in Space /\ New(t) \in Space
  BY <1>1, Builder, NotInUse, TwoSpaces DEF IInv, Targets
<1>3. x \in SpaceSlots(s) /\ x \in UsedSlot /\ at[x] = NoPage
  BY <1>1, <1>2, PartsOfSpace, SpaceSlotsApart DEF HasDir, Empty, Held
<1>4. CASE Kalloc(x) /\ pc' = [pc EXCEPT ![t] = "ktab"]
  <2>1. /\ PageOnce' /\ free' \subseteq Page /\ at' \in [UsedSlot -> Page \union {NoPage}]
        /\ at'[x] # NoPage /\ \A y \in UsedSlot : y # x => at'[y] = at[y]
    BY <1>2, <1>3, <1>4, KallocOnce
  <2>2. TypeOK'
    BY <1>1, <1>2, <1>4, <2>1 DEF TypeOK, Label, Forking
  <2>3. Targets'
    BY <1>1, <1>2, <1>4, TargetsFrame DEF Forking
  <2>4. pc'[t] = "ktab" /\ i'[t] = 0 /\ tgt'[t] = s
    BY <1>1, <1>2, <1>4 DEF TypeOK
  <2>5. /\ \A p \in Process : at'[Mem(p)] = at[Mem(p)] /\ at'[KStack(p)] = at[KStack(p)]
        /\ \A r \in Space : r # s => \A y \in SpaceSlots(r) : at'[y] = at[y]
        /\ \A y \in SpaceSlots(s) : y # x => at'[y] = at[y]
    BY <1>3, <2>1, SpaceChange
  <2>6. HasStack(t)'
    BY <1>1, <1>2, <2>4, <2>5 DEF HasStack, Forks
  <2>7. HasDir(t)'
    <3>1. at'[Dir(Cur(t))] = at[Dir(Cur(t))]
      BY <1>2, <2>5, PartsOfSpace
    <3>2. s # New(t) => Empty(New(t))'
      BY <1>1, <1>2, <2>5 DEF HasDir, Empty, Held
    <3> QED
      BY <1>1, <1>2, <2>1, <2>4, <3>1, <3>2 DEF HasDir, Idle
  <2>8. LoopsOn(t)'
    <3>1. \A y \in SpaceSlots(s) : at[y] = NoPage
      BY <1>1, <1>2 DEF HasDir, Empty, Held
    <3>2. \A v \in VA : at'[Pte(s, v)] = NoPage
      BY <1>2, <2>5, <3>1, PartsOfSpace, PartsApart
    <3>3. \A n \in KIndex : at'[KTab(s, n)] = NoPage
      BY <1>2, <2>5, <3>1, PartsOfSpace, PartsApart
    <3> QED
      BY <2>4, <3>2, <3>3, VmAssumption DEF LoopsOn, Copying, Loading
  <2>9. \A p \in Process : p # t => HasStack(p)' /\ HasDir(p)' /\ LoopsOn(p)'
    BY <1>1, <1>2, <1>3, <1>4, <2>1, RestFrame DEF TypeOK
  <2> QED
    BY <2>1, <2>2, <2>3, <2>6, <2>7, <2>8, <2>9, Parts
<1>5. CASE KallocFails /\ pc' = [pc EXCEPT ![t] = IF Forks(t) THEN "forkfail" ELSE "user"]
  <2>1. UNCHANGED <<at, free>>
    BY <1>5 DEF KallocFails
  <2>2. TypeOK' /\ PageOnce'
    BY <1>1, <1>2, <1>5, <2>1 DEF TypeOK, Label, Idle, Forking, PageOnce, Held
  <2>3. Targets'
    BY <1>1, <1>2, <1>5, TargetsFrame DEF Forking
  <2>4. pc'[t] = (IF Forks(t) THEN "forkfail" ELSE "user") /\ tgt'[t] = s
    BY <1>1, <1>2, <1>5 DEF TypeOK
  <2>5. HasStack(t)'
    BY <1>1, <1>2, <2>1, <2>4 DEF HasStack, Forks
  <2>6. HasDir(t)'
    BY <1>1, <1>2, <2>1, <2>4 DEF HasDir, Empty, Held, Idle, Filling, Copying, Loading
  <2>7. LoopsOn(t)'
    BY <2>4 DEF LoopsOn, Copying, Loading
  <2>8. \A p \in Process : p # t => HasStack(p)' /\ HasDir(p)' /\ LoopsOn(p)'
    BY <1>1, <1>2, <1>5, <2>1, RestFrame DEF TypeOK
  <2> QED
    BY <2>2, <2>3, <2>5, <2>6, <2>7, <2>8, Parts
<1> QED
  BY <1>4, <1>5 DEF SetupDir, Goto

(* Steps that move no page.                                                *)
LEMMA QuietStep ==
    ASSUME IInv, NEW t \in Process, pc[t] # "embryo", NEW l \in Label,
           pc' = [pc EXCEPT ![t] = l], UNCHANGED <<free, at, tgt>>,
           sz' \in [Process -> 0 .. MAXVA], i' \in [Process -> Nat], goal' \in [Process -> 0 .. MAXVA],
           stack' \in [Process -> BOOLEAN], panicked' = panicked,
           \A p \in Process : p # t => i'[p] = i[p],
           IF Forks(t) THEN l \in Forking
           ELSE l \notin {"kstack", "copy", "forkfail"} /\ (tgt[t] = New(t) \/ l = "freevm"),
           HasStack(t)', HasDir(t)', LoopsOn(t)'
    PROVE  IInv'
<1>1. TypeOK' /\ PageOnce'
  BY DEF IInv, TypeOK, PageOnce, Held
<1>2. Targets'
  BY TargetsFrame DEF IInv
<1>3. \A p \in Process : p # t => HasStack(p)' /\ HasDir(p)' /\ LoopsOn(p)'
  BY RestFrame DEF IInv, TypeOK
<1> QED
  BY <1>1, <1>2, <1>3, Parts

(* A panic stops the system where it is.                                   *)
LEMMA PanicInvariant ==
    ASSUME IInv, UNCHANGED <<free, at, pc, sz, tgt, i, goal, stack>>, panicked' \in BOOLEAN
    PROVE  IInv'
<1>1. TypeOK' /\ PageOnce' /\ Targets'
  BY DEF IInv, TypeOK, PageOnce, Held, Targets, Forks
<1>2. ASSUME NEW p \in Process PROVE HasStack(p)' /\ HasDir(p)' /\ LoopsOn(p)'
  BY ProcessFrame DEF IInv
<1> QED
  BY <1>1, <1>2 DEF IInv

(* A call at a label of its own, with the space it works on.               *)
LEMMA Working ==
    ASSUME IInv, NEW t \in Process
    PROVE  /\ TypeOK /\ PageOnce /\ Targets /\ HasStack(t) /\ HasDir(t) /\ LoopsOn(t)
           /\ tgt[t] \in Space /\ tgt[t][1] \in Process /\ i[t] \in Nat
           /\ Cur(t) \in Space /\ New(t) \in Space /\ Cur(t) # New(t)
           /\ pc[t] # "freevm" => tgt[t] # Cur(t) /\ (~Forks(t) => tgt[t] = New(t))
BY Builder, NotInUse, TwoSpaces DEF IInv, Targets, TypeOK

(* setupkvm(): the page tables                                             *)
LEMMA SetupTabInvariant ==
    ASSUME IInv, NEW t \in Process, SetupTab(t)
    PROVE  IInv'
<1> DEFINE s == tgt[t]
           x == KTab(tgt[t], i[t])
<1>1. pc[t] = "ktab" /\ UNCHANGED <<sz, tgt, goal, stack, panicked>>
  BY DEF SetupTab, Runs
<1>2. /\ TypeOK /\ PageOnce /\ Targets /\ HasStack(t) /\ HasDir(t) /\ LoopsOn(t)
      /\ s \in Space /\ s[1] \in Process /\ s # Cur(t) /\ (~Forks(t) => s = New(t))
      /\ Cur(t) \in Space /\ New(t) \in Space /\ i[t] \in Nat
  BY <1>1, Working
<1>3. CASE i[t] < KTABS /\ Kalloc(x) /\ i' = [i EXCEPT ![t] = i[t] + 1] /\ UNCHANGED pc
  <2>1. i[t] \in KIndex
    BY <1>2, <1>3, VmAssumption DEF KIndex
  <2>2. x \in SpaceSlots(s) /\ x \in UsedSlot /\ at[x] = NoPage
    BY <1>1, <1>2, <2>1, PartsOfSpace, SpaceSlotsApart DEF LoopsOn
  <2>3. /\ PageOnce' /\ free' \subseteq Page /\ at' \in [UsedSlot -> Page \union {NoPage}]
        /\ at'[x] # NoPage /\ \A y \in UsedSlot : y # x => at'[y] = at[y]
    BY <1>2, <1>3, <2>2, KallocOnce
  <2>4. /\ \A p \in Process : at'[Mem(p)] = at[Mem(p)] /\ at'[KStack(p)] = at[KStack(p)]
        /\ \A r \in Space : r # s => \A y \in SpaceSlots(r) : at'[y] = at[y]
        /\ \A y \in SpaceSlots(s) : y # x => at'[y] = at[y]
    BY <2>2, <2>3, SpaceChange
  <2>5. TypeOK' /\ Targets'
    BY <1>1, <1>2, <1>3, <2>3 DEF TypeOK, Targets, Forks
  <2>6. i'[t] = i[t] + 1
    BY <1>2, <1>3 DEF TypeOK
  <2>7. HasStack(t)'
    BY <1>1, <1>2, <1>3, <2>4 DEF HasStack, Forks
  <2>8. HasDir(t)'
    <3>1. at'[Dir(Cur(t))] = at[Dir(Cur(t))] /\ at'[Dir(s)] = at[Dir(s)]
      BY <1>2, <2>1, <2>4, PartsOfSpace, PartsApart
    <3>2. s # New(t) => Empty(New(t))'
      BY <1>1, <1>2, <2>4 DEF HasDir, Empty, Held
    <3> QED
      BY <1>1, <1>2, <1>3, <3>1, <3>2 DEF HasDir, Idle
  <2>9. LoopsOn(t)'
    <3>1. \A v \in VA : at'[Pte(s, v)] = NoPage
      BY <1>1, <1>2, <2>1, <2>4, PartsOfSpace, PartsApart DEF LoopsOn
    <3>2. ASSUME NEW n \in KIndex, n >= i[t] + 1 PROVE at'[KTab(s, n)] = NoPage
      <4>1. n >= i[t] /\ n # i[t]
        BY <1>2, <3>2 DEF KIndex
      <4>2. KTab(s, n) # x
        BY <1>2, <2>1, <4>1, PartsApart
      <4> QED
        BY <1>1, <1>2, <2>4, <4>1, <4>2, PartsOfSpace DEF LoopsOn
    <3>3. i[t] + 1 <= KTABS
      BY <1>2, <1>3, VmAssumption
    <3> QED
      BY <1>1, <1>3, <2>6, <3>1, <3>2, <3>3 DEF LoopsOn, Copying, Loading
  <2>10. \A p \in Process : p # t => HasStack(p)' /\ HasDir(p)' /\ LoopsOn(p)'
    BY <1>1, <1>2, <1>3, <2>2, <2>3, RestFrame DEF TypeOK
  <2> QED
    BY <2>3, <2>5, <2>7, <2>8, <2>9, <2>10, Parts
<1>4. CASE KallocFails /\ pc' = [pc EXCEPT ![t] = "freevm"] /\ UNCHANGED i
  <2>1. UNCHANGED <<at, free>> /\ pc'[t] = "freevm"
    BY <1>2, <1>4 DEF KallocFails, TypeOK
  <2>2. HasStack(t)' /\ HasDir(t)' /\ LoopsOn(t)'
    BY <1>1, <1>2, <2>1 DEF HasStack, HasDir, LoopsOn, Forks, Empty, Held, Idle, Filling, Copying, Loading
  <2> QED
    BY <1>1, <1>2, <1>4, <2>1, <2>2, QuietStep DEF TypeOK, Label, Forking
<1>5. CASE /\ i' = [i EXCEPT ![t] = 0] /\ pc' = [pc EXCEPT ![t] = IF Forks(t) THEN "copy" ELSE "load"]
           /\ UNCHANGED <<free, at>>
  <2>1. pc'[t] = (IF Forks(t) THEN "copy" ELSE "load") /\ i'[t] = 0
    BY <1>2, <1>5 DEF TypeOK
  <2>2. HasStack(t)' /\ HasDir(t)'
    BY <1>1, <1>2, <1>5, <2>1 DEF HasStack, HasDir, Forks, Empty, Held, Idle, Filling, Copying, Loading
  <2>3. LoopsOn(t)'
    BY <1>1, <1>2, <1>5, <2>1, VmAssumption DEF LoopsOn, Copying, Loading
  <2> QED
    BY <1>1, <1>2, <1>5, <2>1, <2>2, <2>3, QuietStep DEF TypeOK, Label, Forking, Copying, Loading
<1> QED
  BY <1>3, <1>4, <1>5 DEF SetupTab, Loop, Goto

(* A page for mem: copyuvm() and allocuvm() before mappages().             *)
LEMMA KallocMemInvariant ==
    ASSUME IInv, NEW t \in Process, pc[t] \in {"copy", "grow"}, i[t] < MAXVA, Kalloc(Mem(t)),
           pc' = [pc EXCEPT ![t] = "map"], UNCHANGED <<sz, tgt, i, goal, stack, panicked>>
    PROVE  IInv'
<1> DEFINE s == tgt[t]
<1>1. /\ TypeOK /\ PageOnce /\ Targets /\ HasStack(t) /\ HasDir(t) /\ LoopsOn(t)
      /\ s \in Space /\ s[1] \in Process /\ s # Cur(t) /\ (~Forks(t) => s = New(t))
      /\ Cur(t) \in Space /\ New(t) \in Space /\ i[t] \in Nat
  BY Working
<1>2. Mem(t) \in UsedSlot /\ at[Mem(t)] = NoPage
  BY <1>1, OwnSlots DEF HasStack
<1>3. /\ PageOnce' /\ free' \subseteq Page /\ at' \in [UsedSlot -> Page \union {NoPage}]
      /\ at'[Mem(t)] # NoPage /\ \A y \in UsedSlot : y # Mem(t) => at'[y] = at[y]
  BY <1>1, <1>2, KallocOnce
<1>4. /\ \A r \in Space : \A y \in SpaceSlots(r) : at'[y] = at[y]
      /\ \A p \in Process : at'[KStack(p)] = at[KStack(p)]
  BY <1>3, OwnChange, OwnSlots
<1>5. TypeOK'
  BY <1>1, <1>3 DEF TypeOK, Label, Forking, Copying
<1>6. Targets'
  BY <1>1, TargetsFrame DEF Forking, Copying
<1>7. pc'[t] = "map"
  BY <1>1 DEF TypeOK
<1>8. HasStack(t)'
  BY <1>1, <1>3, <1>4, <1>7 DEF HasStack, Forks
<1>9. HasDir(t)'
  <2>1. at'[Dir(Cur(t))] = at[Dir(Cur(t))] /\ at'[Dir(s)] = at[Dir(s)]
    BY <1>1, <1>4, PartsOfSpace
  <2> QED
    BY <1>1, <1>4, <1>7, <2>1 DEF HasDir, Empty, Held, Idle, Filling, Copying, Loading
<1>10. LoopsOn(t)'
  <2>1. \A v \in VA : at'[Pte(s, v)] = at[Pte(s, v)]
    BY <1>1, <1>4, PartsOfSpace
  <2> QED
    BY <1>1, <1>7, <2>1 DEF LoopsOn, Copying, Loading
<1>11. \A p \in Process : p # t => HasStack(p)' /\ HasDir(p)' /\ LoopsOn(p)'
  <2>1. Mem(t) \in Slots(t)
    BY <1>1, SlotsOf
  <2> QED
    BY <1>1, <1>3, <2>1, RestFrame DEF TypeOK
<1> QED
  BY <1>3, <1>5, <1>6, <1>8, <1>9, <1>10, <1>11, Parts

(* kalloc() found nothing, or exec() gives up: freevm() of the new space.  *)
LEMMA GiveUpInvariant ==
    ASSUME IInv, NEW t \in Process, pc[t] \in Copying \union Loading, at[Mem(t)] = NoPage,
           pc' = [pc EXCEPT ![t] = "freevm"], UNCHANGED <<free, at, sz, tgt, i, goal, stack, panicked>>
    PROVE  IInv'
<1>1. /\ TypeOK /\ PageOnce /\ Targets /\ HasStack(t) /\ HasDir(t)
      /\ tgt[t] \in Space /\ tgt[t] # Cur(t) /\ (~Forks(t) => tgt[t] = New(t))
  BY Working DEF Copying, Loading
<1>2. pc'[t] = "freevm"
  BY <1>1 DEF TypeOK
<1>3. HasStack(t)'
  BY <1>1, <1>2 DEF HasStack, Forks, Copying, Loading
<1>4. HasDir(t)' /\ LoopsOn(t)'
  BY <1>1, <1>2 DEF HasDir, LoopsOn, Empty, Held, Idle, Filling, Copying, Loading
<1> QED
  BY <1>1, <1>3, <1>4, QuietStep DEF TypeOK, Label, Forking, Copying, Loading

(* copyuvm(): a page of the parent                                         *)
LEMMA CopyInvariant ==
    ASSUME IInv, NEW t \in Process, Copy(t)
    PROVE  IInv'
<1>1. pc[t] = "copy" /\ i[t] < sz[t] /\ UNCHANGED <<sz, tgt, i, goal, stack>>
  BY DEF Copy, Runs
<1>2. i[t] < MAXVA
  BY <1>1, VmAssumption DEF IInv, TypeOK
<1>3. CASE panicked' = TRUE /\ UNCHANGED <<free, at, pc>>
  BY <1>1, <1>3, PanicInvariant
<1>4. CASE Kalloc(Mem(t)) /\ pc' = [pc EXCEPT ![t] = "map"] /\ UNCHANGED panicked
  BY <1>1, <1>2, <1>4, KallocMemInvariant
<1>5. CASE KallocFails /\ pc' = [pc EXCEPT ![t] = "freevm"] /\ UNCHANGED panicked
  <2>1. at[Mem(t)] = NoPage
    BY <1>1 DEF IInv, HasStack
  <2> QED
    BY <1>1, <1>5, <2>1, GiveUpInvariant DEF KallocFails, Copying
<1> QED
  BY <1>3, <1>4, <1>5 DEF Copy, Goto

(* allocuvm(): a page                                                      *)
LEMMA GrowInvariant ==
    ASSUME IInv, NEW t \in Process, Grow(t)
    PROVE  IInv'
<1>1. pc[t] = "grow" /\ i[t] < goal[t] /\ UNCHANGED <<sz, tgt, i, goal, stack, panicked>>
  BY DEF Grow, Runs
<1>2. i[t] < MAXVA
  BY <1>1, VmAssumption DEF IInv, TypeOK
<1>3. CASE Kalloc(Mem(t)) /\ pc' = [pc EXCEPT ![t] = "map"]
  BY <1>1, <1>2, <1>3, KallocMemInvariant
<1>4. CASE KallocFails /\ pc' = [pc EXCEPT ![t] = "freevm"]
  <2>1. at[Mem(t)] = NoPage
    BY <1>1 DEF IInv, HasStack
  <2> QED
    BY <1>1, <1>4, <2>1, GiveUpInvariant DEF KallocFails, Loading
<1> QED
  BY <1>3, <1>4 DEF Grow, Goto

(* exec() between the pages: a segment, the stack pages, back from         *)
(* allocuvm().                                                             *)
LEMMA LoadInvariant ==
    ASSUME IInv, NEW t \in Process, pc[t] \in {"load", "grow"}, NEW l \in Loading,
           pc' = [pc EXCEPT ![t] = l], UNCHANGED <<free, at, sz, tgt, i, panicked>>,
           goal' \in [Process -> 0 .. MAXVA], stack' \in [Process -> BOOLEAN]
    PROVE  IInv'
<1>1. /\ TypeOK /\ HasStack(t) /\ HasDir(t) /\ LoopsOn(t) /\ ~Forks(t) /\ tgt[t] = New(t)
      /\ tgt[t] # Cur(t)
  BY Working, Builder DEF Loading
<1>2. pc'[t] = l /\ l \in {"load", "grow", "args"}
  BY <1>1 DEF TypeOK, Loading
<1>3. HasStack(t)'
  BY <1>1, <1>2 DEF HasStack, Forks
<1>4. HasDir(t)'
  BY <1>1, <1>2 DEF HasDir, Empty, Held, Idle, Filling, Copying, Loading
<1>5. LoopsOn(t)'
  BY <1>1, <1>2 DEF LoopsOn, Copying, Loading
<1> QED
  BY <1>1, <1>2, <1>3, <1>4, <1>5, QuietStep DEF TypeOK, Label, Loading

(* exec(): the steps that move no page                                     *)
LEMMA ExecInvariant ==
    ASSUME IInv, NEW t \in Process, Segment(t) \/ StackPages(t) \/ Grown(t) \/ ExecBad(t)
    PROVE  IInv'
<1>1. TypeOK
  BY DEF IInv
<1>2. ASSUME Segment(t) PROVE IInv'
  <2>1. PICK n \in 0 .. MAXVA - 1 : goal' = [goal EXCEPT ![t] = n]
    BY <1>2 DEF Segment
  <2>2. n \in 0 .. MAXVA
    BY VmAssumption
  <2> QED
    BY <1>1, <1>2, <2>1, <2>2, LoadInvariant DEF Segment, Runs, Goto, TypeOK, Loading
<1>3. ASSUME StackPages(t) PROVE IInv'
  <2>1. i[t] + 2 \in 0 .. MAXVA
    BY <1>1, <1>3, VmAssumption DEF StackPages, TypeOK
  <2> QED
    BY <1>1, <1>3, <2>1, LoadInvariant DEF StackPages, Runs, Goto, TypeOK, Loading
<1>4. ASSUME Grown(t) PROVE IInv'
  <2>1. PICK l \in {"load", "args"} : pc' = [pc EXCEPT ![t] = l]
    BY <1>4 DEF Grown, Goto
  <2> QED
    BY <1>1, <1>4, <2>1, LoadInvariant DEF Grown, Runs, TypeOK, Loading
<1>5. ASSUME ExecBad(t) PROVE IInv'
  <2>1. pc[t] \in {"load", "args"} /\ pc' = [pc EXCEPT ![t] = "freevm"]
        /\ UNCHANGED <<free, at, sz, tgt, i, goal, stack, panicked>>
    BY <1>5 DEF ExecBad, Runs, Goto
  <2>2. at[Mem(t)] = NoPage
    BY <2>1 DEF IInv, HasStack
  <2> QED
    BY <2>1, <2>2, GiveUpInvariant DEF Loading
<1> QED
  BY <1>2, <1>3, <1>4, <1>5

(* A process in user mode calls exec() or sbrk(), or exits.                *)
LEMMA UserInvariant ==
    ASSUME IInv, NEW t \in Process, Exec(t) \/ Sbrk(t) \/ Exit(t)
    PROVE  IInv'
<1>1. pc[t] = "user" /\ UNCHANGED <<free, at, tgt, i, goal, panicked>>
  BY DEF Exec, Sbrk, Exit, Runs
<1>2. /\ TypeOK /\ HasStack(t) /\ HasDir(t) /\ ~Forks(t) /\ tgt[t] = New(t) /\ tgt[t] # Cur(t)
  BY <1>1, Working, Builder DEF Idle
<1>3. PICK l \in {"kdir", "user", "zombie"} : pc' = [pc EXCEPT ![t] = l]
  <2>1. Sbrk(t) => pc' = [pc EXCEPT ![t] = "user"]
    BY <1>1, <1>2 DEF Sbrk, TypeOK
  <2> QED
    BY <2>1 DEF Exec, Exit, Goto
<1>4. sz' \in [Process -> 0 .. MAXVA] /\ stack' \in [Process -> BOOLEAN]
  BY <1>2 DEF Exec, Sbrk, Exit, TypeOK
<1>5. pc'[t] = l
  BY <1>2, <1>3 DEF TypeOK
<1>6. HasStack(t)'
  BY <1>1, <1>2, <1>5 DEF HasStack, Forks
<1>7. HasDir(t)' /\ LoopsOn(t)'
  BY <1>1, <1>2, <1>5 DEF HasDir, LoopsOn, Empty, Held, Idle, Filling, Copying, Loading
<1> QED
  BY <1>1, <1>2, <1>3, <1>4, <1>6, <1>7, QuietStep DEF TypeOK, Label, Idle, Forking

(* mappages(): walkpgdir() allocates a page table.                         *)
LEMMA MapTableInvariant ==
    ASSUME IInv, NEW t \in Process, MapTable(t)
    PROVE  IInv'
<1> DEFINE s == tgt[t]
           x == UTab(tgt[t], i[t])
<1>1. pc[t] = "map" /\ at[x] = NoPage /\ UNCHANGED <<sz, tgt, i, goal, stack, panicked>>
  BY DEF MapTable, Runs
<1>2. /\ TypeOK /\ PageOnce /\ Targets /\ HasStack(t) /\ HasDir(t) /\ LoopsOn(t)
      /\ s \in Space /\ s[1] \in Process /\ s # Cur(t) /\ (~Forks(t) => s = New(t))
      /\ Cur(t) \in Space /\ New(t) \in Space /\ i[t] \in Nat
  BY <1>1, Working
<1>3. i[t] \in VA
  BY <1>1, <1>2, VmAssumption DEF LoopsOn, VA
<1>4. CASE Kalloc(x) /\ UNCHANGED pc
  <2>1. x \in SpaceSlots(s) /\ x \in UsedSlot
    BY <1>2, <1>3, PartsOfSpace, SpaceSlotsApart
  <2>2. /\ PageOnce' /\ free' \subseteq Page /\ at' \in [UsedSlot -> Page \union {NoPage}]
        /\ at'[x] # NoPage /\ \A y \in UsedSlot : y # x => at'[y] = at[y]
    BY <1>1, <1>2, <1>4, <2>1, KallocOnce
  <2>3. /\ \A p \in Process : at'[Mem(p)] = at[Mem(p)] /\ at'[KStack(p)] = at[KStack(p)]
        /\ \A r \in Space : r # s => \A y \in SpaceSlots(r) : at'[y] = at[y]
        /\ \A y \in SpaceSlots(s) : y # x => at'[y] = at[y]
    BY <2>1, <2>2, SpaceChange
  <2>4. TypeOK' /\ Targets'
    BY <1>1, <1>2, <1>4, <2>2 DEF TypeOK, Targets, Forks
  <2>5. HasStack(t)'
    BY <1>1, <1>2, <1>4, <2>3 DEF HasStack, Forks
  <2>6. HasDir(t)'
    <3>1. at'[Dir(Cur(t))] = at[Dir(Cur(t))] /\ at'[Dir(s)] = at[Dir(s)]
      BY <1>2, <1>3, <2>3, PartsOfSpace, PartsApart
    <3>2. s # New(t) => Empty(New(t))'
      BY <1>1, <1>2, <2>3 DEF HasDir, Empty, Held
    <3> QED
      BY <1>1, <1>2, <1>4, <3>1, <3>2 DEF HasDir, Idle
  <2>7. LoopsOn(t)'
    <3>1. \A v \in VA : at'[Pte(s, v)] = at[Pte(s, v)]
      BY <1>2, <1>3, <2>3, PartsOfSpace, PartsApart
    <3> QED
      BY <1>1, <1>2, <1>4, <3>1 DEF LoopsOn
  <2>8. \A p \in Process : p # t => HasStack(p)' /\ HasDir(p)' /\ LoopsOn(p)'
    BY <1>1, <1>2, <1>4, <2>1, <2>2, RestFrame DEF TypeOK
  <2> QED
    BY <2>2, <2>4, <2>5, <2>6, <2>7, <2>8, Parts
<1>5. CASE KallocFails /\ pc' = [pc EXCEPT ![t] = "unmem"]
  <2>1. UNCHANGED <<at, free>> /\ pc'[t] = "unmem"
    BY <1>2, <1>5 DEF KallocFails, TypeOK
  <2>2. HasStack(t)' /\ HasDir(t)'
    BY <1>1, <1>2, <2>1 DEF HasStack, HasDir, Forks, Empty, Held, Idle, Filling, Copying, Loading
  <2>3. LoopsOn(t)'
    BY <1>1, <1>2, <2>1 DEF LoopsOn, Copying, Loading
  <2> QED
    BY <1>1, <1>2, <1>5, <2>1, <2>2, <2>3, QuietStep DEF TypeOK, Label, Forking, Copying
<1> QED
  BY <1>4, <1>5 DEF MapTable, Goto

(* mappages(): the entry                                                   *)
LEMMA MapPteInvariant ==
    ASSUME IInv, NEW t \in Process, MapPte(t)
    PROVE  IInv'
<1> DEFINE s == tgt[t]
           x == Pte(tgt[t], i[t])
           l == IF Forks(t) THEN "copy" ELSE "grow"
<1>1. pc[t] = "map" /\ UNCHANGED <<free, sz, tgt, goal, stack>>
  BY DEF MapPte, Runs
<1>2. CASE panicked' = TRUE /\ UNCHANGED <<at, pc, i>>
  BY <1>1, <1>2, PanicInvariant
<1>3. CASE /\ at[x] = NoPage /\ at' = [at EXCEPT ![x] = at[Mem(t)], ![Mem(t)] = NoPage]
           /\ i' = [i EXCEPT ![t] = i[t] + 1] /\ pc' = [pc EXCEPT ![t] = l] /\ UNCHANGED panicked
  <2>1. /\ TypeOK /\ PageOnce /\ Targets /\ HasStack(t) /\ HasDir(t) /\ LoopsOn(t)
        /\ s \in Space /\ s[1] \in Process /\ s # Cur(t) /\ (~Forks(t) => s = New(t))
        /\ Cur(t) \in Space /\ New(t) \in Space /\ i[t] \in Nat
    BY <1>1, Working
  <2>2. i[t] \in VA /\ i[t] + 1 <= MAXVA
    BY <1>1, <2>1, VmAssumption DEF LoopsOn, VA
  <2>3. x \in SpaceSlots(s) /\ x \in UsedSlot /\ Mem(t) \in UsedSlot /\ x # Mem(t)
    BY <2>1, <2>2, PartsOfSpace, SpaceSlotsApart, OwnSlots
  <2>4. /\ PageOnce' /\ at' \in [UsedSlot -> Page \union {NoPage}]
        /\ at'[Mem(t)] = NoPage /\ \A y \in UsedSlot : y # x /\ y # Mem(t) => at'[y] = at[y]
    BY <1>1, <1>3, <2>1, <2>3, MoveOnce
  <2>5. /\ \A p \in Process : at'[KStack(p)] = at[KStack(p)]
        /\ \A r \in Space : r # s => \A y \in SpaceSlots(r) : at'[y] = at[y]
        /\ \A y \in SpaceSlots(s) : y # x => at'[y] = at[y]
    <3>1. ASSUME NEW p \in Process PROVE KStack(p) # x /\ KStack(p) # Mem(t) /\ KStack(p) \in UsedSlot
      <4>1. KStack(p) \in UsedSlot /\ KStack(p) \notin SpaceSlots(s)
        BY <2>1, OwnSlots
      <4>2. Mem(t) # KStack(p)
        BY OwnSlots
      <4> QED
        BY <2>3, <4>1, <4>2
    <3>2. \A r \in Space : \A y \in SpaceSlots(r) : y # Mem(t) /\ y \in UsedSlot /\ (r # s => y # x)
      BY <2>1, <2>3, OwnSlots, SpaceSlotsApart
    <3> QED
      BY <2>1, <2>4, <3>1, <3>2
  <2>6. TypeOK'
    BY <1>1, <1>3, <2>1, <2>4 DEF TypeOK, Label, Forking, Copying, Loading
  <2>7. Targets'
    BY <1>1, <1>3, <2>1, TargetsFrame DEF Forking, Copying
  <2>8. pc'[t] = l /\ i'[t] = i[t] + 1
    BY <1>3, <2>1 DEF TypeOK
  <2>9. HasStack(t)'
    BY <1>1, <2>1, <2>4, <2>5, <2>8 DEF HasStack, Forks
  <2>10. HasDir(t)'
    <3>1. at'[Dir(Cur(t))] = at[Dir(Cur(t))] /\ at'[Dir(s)] = at[Dir(s)]
      BY <2>1, <2>2, <2>5, PartsOfSpace, PartsApart
    <3>2. s # New(t) => Empty(New(t))'
      BY <1>1, <2>1, <2>5 DEF HasDir, Empty, Held
    <3> QED
      BY <1>1, <2>1, <2>8, <3>1, <3>2 DEF HasDir, Idle, Filling, Copying, Loading
  <2>11. LoopsOn(t)'
    <3>1. ASSUME NEW v \in VA, v >= i[t] + 1 PROVE at'[Pte(s, v)] = NoPage
      <4>1. v # i[t] /\ v >= i[t]
        BY <2>1, <3>1 DEF VA
      <4> QED
        BY <1>1, <2>1, <2>2, <2>5, <4>1, PartsOfSpace, PartsApart DEF LoopsOn, Copying
    <3> QED
      BY <1>1, <2>2, <2>8, <3>1 DEF LoopsOn, Copying, Loading
  <2>12. \A p \in Process : p # t => HasStack(p)' /\ HasDir(p)' /\ LoopsOn(p)'
    <3>1. Mem(t) \in Slots(t)
      BY <2>1, SlotsOf
    <3> QED
      BY <1>1, <1>3, <2>1, <2>3, <2>4, <3>1, RestFrame DEF TypeOK
  <2> QED
    BY <2>4, <2>6, <2>7, <2>9, <2>10, <2>11, <2>12, Parts
<1> QED
  BY <1>2, <1>3 DEF MapPte, Loop, Goto

(* The page in mem is given back.                                          *)
LEMMA UnmemInvariant ==
    ASSUME IInv, NEW t \in Process, Unmem(t)
    PROVE  IInv'
<1> DEFINE s == tgt[t]
<1>1. pc[t] = "unmem" /\ Kfree(Mem(t)) /\ pc' = [pc EXCEPT ![t] = "freevm"]
      /\ UNCHANGED <<sz, tgt, i, goal, stack, panicked>>
  BY DEF Unmem, Runs, Goto
<1>2. /\ TypeOK /\ PageOnce /\ Targets /\ HasStack(t) /\ HasDir(t)
      /\ s \in Space /\ s[1] \in Process /\ s # Cur(t) /\ (~Forks(t) => s = New(t))
      /\ Cur(t) \in Space /\ New(t) \in Space
  BY <1>1, Working
<1>3. Mem(t) \in UsedSlot /\ at[Mem(t)] # NoPage
  BY <1>1, <1>2, OwnSlots DEF HasStack
<1>4. /\ PageOnce' /\ free' \subseteq Page /\ at' \in [UsedSlot -> Page \union {NoPage}]
      /\ at'[Mem(t)] = NoPage /\ \A y \in UsedSlot : y # Mem(t) => at'[y] = at[y]
  BY <1>1, <1>2, <1>3, KfreeOnce
<1>5. /\ \A r \in Space : \A y \in SpaceSlots(r) : at'[y] = at[y]
      /\ \A p \in Process : at'[KStack(p)] = at[KStack(p)]
  BY <1>4, OwnChange, OwnSlots
<1>6. TypeOK'
  BY <1>1, <1>2, <1>4 DEF TypeOK, Label, Forking
<1>7. Targets'
  BY <1>1, <1>2, TargetsFrame DEF Forking
<1>8. pc'[t] = "freevm"
  BY <1>1, <1>2 DEF TypeOK
<1>9. HasStack(t)'
  BY <1>1, <1>2, <1>4, <1>5, <1>8 DEF HasStack, Forks
<1>10. HasDir(t)'
  <2>1. at'[Dir(Cur(t))] = at[Dir(Cur(t))] /\ at'[Dir(s)] = at[Dir(s)]
    BY <1>2, <1>5, PartsOfSpace
  <2> QED
    BY <1>1, <1>2, <1>5, <1>8, <2>1 DEF HasDir, Empty, Held, Idle, Filling, Copying, Loading
<1>11. LoopsOn(t)'
  BY <1>8 DEF LoopsOn, Copying, Loading
<1>12. \A p \in Process : p # t => HasStack(p)' /\ HasDir(p)' /\ LoopsOn(p)'
  <2>1. Mem(t) \in Slots(t)
    BY <1>2, SlotsOf
  <2> QED
    BY <1>1, <1>2, <1>4, <2>1, RestFrame DEF TypeOK
<1> QED
  BY <1>4, <1>6, <1>7, <1>9, <1>10, <1>11, <1>12, Parts

(* freevm(): a page or a page table                                        *)
LEMMA FreePageInvariant ==
    ASSUME IInv, NEW t \in Process, pc[t] = "freevm", NEW x \in SpaceSlots(tgt[t]), x # Dir(tgt[t]),
           at[x] # NoPage, Kfree(x), UNCHANGED <<pc, i, tgt, sz, goal, stack, panicked>>
    PROVE  IInv'
<1> DEFINE s == tgt[t]
<1>1. /\ TypeOK /\ PageOnce /\ Targets /\ HasStack(t) /\ HasDir(t)
      /\ s \in Space /\ s[1] \in Process /\ Cur(t) \in Space /\ New(t) \in Space
  BY Working
<1>2. x \in UsedSlot
  BY <1>1, SpaceSlotsApart
<1>3. /\ PageOnce' /\ free' \subseteq Page /\ at' \in [UsedSlot -> Page \union {NoPage}]
      /\ at'[x] = NoPage /\ \A y \in UsedSlot : y # x => at'[y] = at[y]
  BY <1>1, <1>2, KfreeOnce
<1>4. /\ \A p \in Process : at'[Mem(p)] = at[Mem(p)] /\ at'[KStack(p)] = at[KStack(p)]
      /\ \A r \in Space : r # s => \A y \in SpaceSlots(r) : at'[y] = at[y]
      /\ \A y \in SpaceSlots(s) : y # x => at'[y] = at[y]
  BY <1>3, SpaceChange
<1>5. TypeOK' /\ Targets'
  BY <1>1, <1>3 DEF TypeOK, Targets, Forks
<1>6. HasStack(t)'
  BY <1>1, <1>4 DEF HasStack, Forks
<1>7. HasDir(t)'
  <2>1. at'[Dir(Cur(t))] = at[Dir(Cur(t))] /\ at'[Dir(s)] = at[Dir(s)]
    BY <1>1, <1>4, PartsOfSpace
  <2>2. s # New(t) => Empty(New(t))'
    BY <1>1, <1>4 DEF HasDir, Empty, Held
  <2> QED
    BY <1>1, <2>1, <2>2 DEF HasDir, Idle
<1>8. LoopsOn(t)'
  BY DEF LoopsOn, Copying, Loading
<1>9. \A p \in Process : p # t => HasStack(p)' /\ HasDir(p)' /\ LoopsOn(p)'
  BY <1>1, <1>3, RestFrame
<1> QED
  BY <1>3, <1>5, <1>6, <1>7, <1>8, <1>9, Parts

(* freevm(): the directory, when nothing else is left                      *)
LEMMA FreeDirInvariant ==
    ASSUME IInv, NEW t \in Process, pc[t] = "freevm",
           Held(Ptes(tgt[t]) \union Tabs(tgt[t])) = {}, Kfree(Dir(tgt[t])),
           pc' = [pc EXCEPT ![t] = AfterFreevm(t)], i' = [i EXCEPT ![t] = 0],
           tgt' = IF Forks(t) THEN tgt ELSE [tgt EXCEPT ![t] = New(t)],
           UNCHANGED <<sz, goal, stack, panicked>>
    PROVE  IInv'
<1> DEFINE s == tgt[t]
           x == Dir(tgt[t])
<1>1. /\ TypeOK /\ PageOnce /\ Targets /\ HasStack(t) /\ HasDir(t)
      /\ s \in Space /\ s[1] \in Process /\ Cur(t) \in Space /\ New(t) \in Space /\ Cur(t) # New(t)
  BY Working
<1>2. x \in SpaceSlots(s) /\ x \in UsedSlot /\ at[x] # NoPage
  BY <1>1, PartsOfSpace, SpaceSlotsApart DEF HasDir
<1>3. /\ PageOnce' /\ free' \subseteq Page /\ at' \in [UsedSlot -> Page \union {NoPage}]
      /\ at'[x] = NoPage /\ \A y \in UsedSlot : y # x => at'[y] = at[y]
  BY <1>1, <1>2, KfreeOnce
<1>4. /\ \A p \in Process : at'[Mem(p)] = at[Mem(p)] /\ at'[KStack(p)] = at[KStack(p)]
      /\ \A r \in Space : r # s => \A y \in SpaceSlots(r) : at'[y] = at[y]
      /\ \A y \in SpaceSlots(s) : y # x => at'[y] = at[y]
  BY <1>2, <1>3, SpaceChange
<1>5. \A y \in SpaceSlots(s) : at'[y] = NoPage
  BY <1>3, <1>4 DEF SpaceSlots, Held
<1>6. \A p \in Process : p # t => pc'[p] = pc[p] /\ tgt'[p] = tgt[p] /\ i'[p] = i[p]
  BY <1>1 DEF TypeOK
<1>7. \A p \in Process : p # t => HasStack(p)' /\ HasDir(p)' /\ LoopsOn(p)'
  BY <1>2, <1>3, <1>6, RestFrame
<1>8. CASE Forks(t)
  <2>1. tgt' = tgt /\ pc' = [pc EXCEPT ![t] = "forkfail"] /\ pc'[t] = "forkfail" /\ s # Cur(t) /\ s # New(t)
    BY <1>1, <1>8, TwoSpaces DEF AfterFreevm, TypeOK, Forks
  <2>2. TypeOK'
    BY <1>1, <1>3, <2>1 DEF TypeOK, Label, Forking
  <2>3. Targets'
    BY <1>1, <1>8, <2>1, TargetsFrame DEF Forking
  <2>4. HasStack(t)'
    BY <1>1, <1>4, <2>1 DEF HasStack, Forks
  <2>5. HasDir(t)'
    <3>1. at'[Dir(Cur(t))] = at[Dir(Cur(t))]
      BY <1>1, <1>4, <2>1, PartsOfSpace
    <3> QED
      BY <1>1, <1>4, <1>5, <2>1, <3>1 DEF HasDir, Empty, Held, Idle, Filling, Copying, Loading
  <2>6. LoopsOn(t)'
    BY <2>1 DEF LoopsOn, Copying, Loading
  <2> QED
    BY <1>3, <1>7, <2>2, <2>3, <2>4, <2>5, <2>6, Parts
<1>9. CASE ~Forks(t)
  <2>1. /\ s = New(t) \/ s = Cur(t)
        /\ tgt' = [tgt EXCEPT ![t] = New(t)] /\ tgt'[t] = New(t)
        /\ pc'[t] = IF s = New(t) THEN "user" ELSE "unused"
    BY <1>1, <1>9 DEF AfterFreevm, TypeOK, Targets
  <2>2. TypeOK'
    BY <1>1, <1>3, <1>9, <2>1 DEF TypeOK, Label, Idle, AfterFreevm
  <2>3. Targets'
    <3>1. \A p \in Process : Forks(p)' <=> Forks(p)
      BY <1>6, <1>9, <2>1, TwoSpaces DEF Forks
    <3>2. \A p \in Process : Forks(p) => tgt[p][1] # t /\ tgt[p][1] \in Process /\ p # t
      BY <1>1, <1>9, Builder
    <3> QED
      BY <1>1, <1>6, <1>9, <2>1, <3>1, <3>2 DEF Targets
  <2>4. HasStack(t)'
    BY <1>1, <1>4, <1>9, <2>1, TwoSpaces DEF HasStack, Forks
  <2>5. HasDir(t)'
    <3>1. CASE s = New(t)
      <4>1. at'[Dir(Cur(t))] = at[Dir(Cur(t))]
        BY <1>1, <1>4, <3>1, PartsOfSpace
      <4> QED
        BY <1>1, <1>5, <2>1, <3>1, <4>1 DEF HasDir, Empty, Held, Idle, Filling, Copying, Loading
    <3>2. CASE s = Cur(t)
      BY <1>1, <1>4, <1>5, <2>1, <3>2 DEF HasDir, Empty, Held, Idle, Filling, Copying, Loading
    <3> QED
      BY <2>1, <3>1, <3>2
  <2>6. LoopsOn(t)'
    BY <2>1 DEF LoopsOn, Copying, Loading
  <2> QED
    BY <1>3, <1>7, <2>2, <2>3, <2>4, <2>5, <2>6, Parts
<1> QED
  BY <1>8, <1>9

(* freevm()                                                                *)
LEMMA FreevmInvariant ==
    ASSUME IInv, NEW t \in Process, Freevm(t)
    PROVE  IInv'
<1>1. pc[t] = "freevm" /\ UNCHANGED <<sz, goal, stack, panicked>> /\ tgt[t] \in Space
  BY Working DEF Freevm, Runs
<1>2. ASSUME NEW v \in VA, KfreeFirst(Pte(tgt[t], v), {Pte(tgt[t], w) : w \in 0 .. v - 1}),
             UNCHANGED <<pc, i, tgt>>
      PROVE  IInv'
  BY <1>1, <1>2, PartsOfSpace, PartsApart, FreePageInvariant DEF KfreeFirst
<1>3. ASSUME NEW v \in VA, KfreeFirst(UTab(tgt[t], v), {UTab(tgt[t], w) : w \in 0 .. v - 1}),
             UNCHANGED <<pc, i, tgt>>
      PROVE  IInv'
  BY <1>1, <1>3, PartsOfSpace, PartsApart, FreePageInvariant DEF KfreeFirst
<1>4. ASSUME NEW n \in KIndex,
             KfreeFirst(KTab(tgt[t], n), {UTab(tgt[t], v) : v \in VA}
                                         \union {KTab(tgt[t], m) : m \in 0 .. n - 1}),
             UNCHANGED <<pc, i, tgt>>
      PROVE  IInv'
  BY <1>1, <1>4, PartsOfSpace, PartsApart, FreePageInvariant DEF KfreeFirst
<1>5. ASSUME Held(Ptes(tgt[t]) \union Tabs(tgt[t])) = {}, Kfree(Dir(tgt[t])), Goto(t, AfterFreevm(t)),
             Loop(t, 0), tgt' = IF Forks(t) THEN tgt ELSE [tgt EXCEPT ![t] = New(t)]
      PROVE  IInv'
  BY <1>1, <1>5, FreeDirInvariant DEF Goto, Loop
<1> QED
  BY <1>2, <1>3, <1>4, <1>5 DEF Freevm

(* exec() exchanges the two spaces of t; every slot keeps its page.        *)
LEMMA SwapSlots ==
    ASSUME NEW t \in Process
    PROVE  /\ \A y \in UsedSlot : Swapped(t, y) \in UsedSlot /\ Swapped(t, Swapped(t, y)) = y
           /\ Swapped(t, Dir(Cur(t))) = Dir(New(t)) /\ Swapped(t, Dir(New(t))) = Dir(Cur(t))
           /\ \A y \in UsedSlot : y \notin SpaceSlots(Cur(t)) /\ y \notin SpaceSlots(New(t))
                                    => Swapped(t, y) = y
<1>1. Cur(t) \in Space /\ New(t) \in Space /\ Cur(t) # New(t)
  BY TwoSpaces
<1>2. \A y \in SpaceSlots(Cur(t)) :
        <<t, "new", y[3], y[4]>> \in SpaceSlots(New(t)) /\ y = <<t, "cur", y[3], y[4]>>
  BY DEF SpaceSlots, Ptes, Tabs, Pte, UTab, KTab, Dir, Cur, New
<1>3. \A y \in SpaceSlots(New(t)) :
        <<t, "cur", y[3], y[4]>> \in SpaceSlots(Cur(t)) /\ y = <<t, "new", y[3], y[4]>>
  BY DEF SpaceSlots, Ptes, Tabs, Pte, UTab, KTab, Dir, Cur, New
<1>4. \A y \in SpaceSlots(New(t)) : y \notin SpaceSlots(Cur(t)) /\ y \in UsedSlot
  BY <1>1, SpaceSlotsApart
<1>5. \A y \in SpaceSlots(Cur(t)) : y \notin SpaceSlots(New(t)) /\ y \in UsedSlot
  BY <1>1, SpaceSlotsApart
<1>6. ASSUME NEW y \in SpaceSlots(Cur(t))
      PROVE  Swapped(t, y) \in UsedSlot /\ Swapped(t, Swapped(t, y)) = y
  <2>1. Swapped(t, y) = <<t, "new", y[3], y[4]>>
    BY DEF Swapped
  <2>2. Swapped(t, <<t, "new", y[3], y[4]>>) = <<t, "cur", y[3], y[4]>>
    BY <1>2, <1>4 DEF Swapped
  <2> QED
    BY <1>2, <1>4, <2>1, <2>2
<1>7. ASSUME NEW y \in SpaceSlots(New(t))
      PROVE  Swapped(t, y) \in UsedSlot /\ Swapped(t, Swapped(t, y)) = y
  <2>1. Swapped(t, y) = <<t, "cur", y[3], y[4]>>
    BY <1>4 DEF Swapped
  <2>2. Swapped(t, <<t, "cur", y[3], y[4]>>) = <<t, "new", y[3], y[4]>>
    BY <1>3 DEF Swapped
  <2> QED
    BY <1>3, <1>5, <2>1, <2>2
<1>8. ASSUME NEW y \in UsedSlot, y \notin SpaceSlots(Cur(t)), y \notin SpaceSlots(New(t))
      PROVE  Swapped(t, y) = y
  BY <1>8 DEF Swapped
<1>9. Swapped(t, Dir(Cur(t))) = Dir(New(t)) /\ Swapped(t, Dir(New(t))) = Dir(Cur(t))
  <2>1. Dir(Cur(t)) \in SpaceSlots(Cur(t)) /\ Dir(New(t)) \in SpaceSlots(New(t))
    BY <1>1, PartsOfSpace
  <2> QED
    BY <1>4, <2>1 DEF Swapped, Dir, Cur, New
<1> QED
  BY <1>6, <1>7, <1>8, <1>9

(* exec() commits to the new image.                                        *)
LEMMA CommitInvariant ==
    ASSUME IInv, NEW t \in Process, Commit(t)
    PROVE  IInv'
<1>1. /\ pc[t] = "args" /\ at' = [y \in UsedSlot |-> at[Swapped(t, y)]]
      /\ sz' = [sz EXCEPT ![t] = i[t]] /\ pc' = [pc EXCEPT ![t] = "freevm"]
      /\ UNCHANGED <<free, tgt, i, goal, stack, panicked>>
  BY DEF Commit, Runs, Goto
<1>2. /\ TypeOK /\ PageOnce /\ Targets /\ HasStack(t) /\ HasDir(t) /\ LoopsOn(t) /\ ~Forks(t)
      /\ tgt[t] = New(t) /\ Cur(t) \in Space /\ New(t) \in Space /\ Cur(t) # New(t) /\ i[t] \in Nat
      /\ tgt[t][1] = t
  BY <1>1, Working, Builder, TwoSpaces DEF Loading
<1>3. \A y \in UsedSlot : at'[y] = at[Swapped(t, y)] /\ Swapped(t, y) \in UsedSlot
                          /\ Swapped(t, Swapped(t, y)) = y
  BY <1>1, SwapSlots
<1>4. PageOnce'
  <2>1. ASSUME NEW r \in UsedSlot, NEW y \in UsedSlot, at'[r] # NoPage, at'[r] = at'[y] PROVE r = y
    <3>1. Swapped(t, r) = Swapped(t, y)
      BY <1>2, <1>3, <2>1 DEF PageOnce, Held
    <3> QED
      BY <1>3, <3>1
  <2>2. ASSUME NEW r \in UsedSlot, at'[r] # NoPage PROVE at'[r] \notin free
    BY <1>2, <1>3, <2>2 DEF PageOnce, Held
  <2>3. ASSUME NEW pg \in Page PROVE pg \in free \/ \E y \in UsedSlot : at'[y] = pg
    <3>1. CASE pg \in free
      BY <3>1
    <3>2. CASE pg \notin free
      <4>1. PICK y \in UsedSlot : at[y] = pg
        BY <1>2, <3>2 DEF PageOnce
      <4>2. at'[Swapped(t, y)] = pg /\ Swapped(t, y) \in UsedSlot
        BY <1>3, <4>1
      <4> QED
        BY <4>2
    <3> QED
      BY <3>1, <3>2
  <2> QED
    BY <1>1, <2>1, <2>2, <2>3 DEF PageOnce, Held
<1>5. TypeOK'
  <2>1. at' \in [UsedSlot -> Page \union {NoPage}]
    BY <1>1, <1>2, <1>3 DEF TypeOK
  <2>2. i[t] \in 0 .. MAXVA
    BY <1>1, <1>2, VmAssumption DEF LoopsOn, Loading
  <2> QED
    BY <1>1, <1>2, <2>1, <2>2 DEF TypeOK, Label, Forking
<1>6. Targets'
  BY <1>1, <1>2, TargetsFrame DEF Forking
<1>7. pc'[t] = "freevm"
  BY <1>1, <1>2 DEF TypeOK
<1>8. \A y \in UsedSlot : y \notin SpaceSlots(Cur(t)) /\ y \notin SpaceSlots(New(t)) => at'[y] = at[y]
  BY <1>1, SwapSlots
<1>9. HasStack(t)'
  <2>1. at'[Mem(t)] = at[Mem(t)] /\ at'[KStack(t)] = at[KStack(t)]
    BY <1>2, <1>8, OwnSlots
  <2> QED
    BY <1>1, <1>2, <1>7, <2>1 DEF HasStack, Forks
<1>10. HasDir(t)'
  <2>1. at'[Dir(Cur(t))] = at[Dir(New(t))] /\ at'[Dir(New(t))] = at[Dir(Cur(t))]
    BY <1>1, <1>2, SwapSlots, PartsOfSpace, SpaceSlotsApart
  <2> QED
    BY <1>1, <1>2, <1>7, <2>1 DEF HasDir, Idle, Filling, Copying, Loading
<1>11. LoopsOn(t)'
  BY <1>7 DEF LoopsOn, Copying, Loading
<1>12. \A p \in Process : p # t => HasStack(p)' /\ HasDir(p)' /\ LoopsOn(p)'
  <2>1. SpaceSlots(Cur(t)) \subseteq Slots(t) /\ SpaceSlots(New(t)) \subseteq Slots(t)
    BY DEF Slots
  <2> QED
    BY <1>1, <1>2, <1>8, <2>1, RestFrame DEF TypeOK
<1> QED
  BY <1>4, <1>5, <1>6, <1>9, <1>10, <1>11, <1>12, Parts

(* wait() frees the kernel stack and goes on to freevm().                  *)
LEMMA WaitInvariant ==
    ASSUME IInv, NEW t \in Process, Wait(t)
    PROVE  IInv'
<1>1. pc[t] = "zombie" /\ Kfree(KStack(t)) /\ pc' = [pc EXCEPT ![t] = "freevm"]
      /\ tgt' = [tgt EXCEPT ![t] = Cur(t)] /\ UNCHANGED <<sz, i, goal, stack, panicked>>
  BY DEF Wait, Runs, Goto
<1>2. /\ TypeOK /\ PageOnce /\ Targets /\ HasStack(t) /\ HasDir(t) /\ ~Forks(t) /\ tgt[t] = New(t)
      /\ Cur(t) \in Space /\ New(t) \in Space /\ Cur(t) # New(t) /\ tgt[t][1] = t /\ Cur(t)[1] = t
  BY <1>1, Working, Builder, TwoSpaces DEF Idle
<1>3. KStack(t) \in UsedSlot /\ at[KStack(t)] # NoPage
  BY <1>1, <1>2, OwnSlots DEF HasStack
<1>4. /\ PageOnce' /\ free' \subseteq Page /\ at' \in [UsedSlot -> Page \union {NoPage}]
      /\ at'[KStack(t)] = NoPage /\ \A y \in UsedSlot : y # KStack(t) => at'[y] = at[y]
  BY <1>1, <1>2, <1>3, KfreeOnce
<1>5. /\ \A r \in Space : \A y \in SpaceSlots(r) : at'[y] = at[y]
      /\ at'[Mem(t)] = at[Mem(t)]
  BY <1>4, OwnChange, OwnSlots
<1>6. TypeOK'
  BY <1>1, <1>2, <1>4 DEF TypeOK, Label, Forking
<1>7. pc'[t] = "freevm" /\ tgt'[t] = Cur(t)
      /\ \A p \in Process : p # t => pc'[p] = pc[p] /\ tgt'[p] = tgt[p]
  BY <1>1, <1>2 DEF TypeOK
<1>8. Targets'
  <2>1. \A p \in Process : Forks(p)' <=> Forks(p)
    BY <1>2, <1>7 DEF Forks
  <2>2. \A p \in Process : Forks(p) => tgt[p][1] # t /\ tgt[p][1] \in Process /\ p # t
    BY <1>1, <1>2, Builder
  <2> QED
    BY <1>2, <1>7, <2>1, <2>2 DEF Targets
<1>9. HasStack(t)'
  BY <1>1, <1>2, <1>4, <1>5, <1>7 DEF HasStack, Forks
<1>10. HasDir(t)'
  <2>1. at'[Dir(Cur(t))] = at[Dir(Cur(t))]
    BY <1>2, <1>5, PartsOfSpace
  <2> QED
    BY <1>1, <1>2, <1>5, <1>7, <2>1 DEF HasDir, Empty, Held, Idle, Filling, Copying, Loading
<1>11. LoopsOn(t)'
  BY <1>7 DEF LoopsOn, Copying, Loading
<1>12. \A p \in Process : p # t => HasStack(p)' /\ HasDir(p)' /\ LoopsOn(p)'
  <2>1. KStack(t) \in Slots(t)
    BY <1>2, SlotsOf
  <2> QED
    BY <1>1, <1>4, <1>7, <2>1, RestFrame
<1> QED
  BY <1>4, <1>6, <1>8, <1>9, <1>10, <1>11, <1>12, Parts

(* fork() takes a slot of the table.                                       *)
LEMMA ForkInvariant ==
    ASSUME IInv, NEW t \in Process, NEW u \in Process, Fork(t, u)
    PROVE  IInv'
<1>1. /\ pc[t] = "user" /\ pc[u] = "unused" /\ u # t
      /\ pc' = [pc EXCEPT ![t] = "kstack", ![u] = "embryo"] /\ tgt' = [tgt EXCEPT ![t] = Cur(u)]
      /\ UNCHANGED <<free, at, sz, i, goal, stack, panicked>>
  BY DEF Fork, Runs
<1>2. /\ TypeOK /\ PageOnce /\ Targets
      /\ HasStack(t) /\ HasDir(t) /\ ~Forks(t) /\ tgt[t] = New(t)
      /\ HasStack(u) /\ HasDir(u) /\ ~Forks(u) /\ tgt[u] = New(u)
      /\ Cur(u) \in Space /\ Cur(u)[1] = u /\ Cur(u)[2] = "cur" /\ Cur(u) # New(t) /\ Cur(u) # Cur(t)
      /\ Cur(t) # New(t)
  BY <1>1, Working, Builder, TwoSpaces DEF Idle
<1>3. /\ pc'[t] = "kstack" /\ pc'[u] = "embryo" /\ tgt'[t] = Cur(u) /\ tgt'[u] = New(u)
      /\ \A p \in Process : p # t /\ p # u => pc'[p] = pc[p] /\ tgt'[p] = tgt[p]
  BY <1>1, <1>2 DEF TypeOK
<1>4. TypeOK' /\ PageOnce'
  BY <1>1, <1>2 DEF TypeOK, Label, Idle, Forking, PageOnce, Held
<1>5. Targets'
  <2>1. \A p \in Process : p # t => (Forks(p)' <=> Forks(p))
    BY <1>2, <1>3 DEF Forks
  <2>2. \A p \in Process : Forks(p) =>
            tgt[p][1] # t /\ tgt[p][1] # u /\ tgt[p][1] \in Process /\ p # t /\ p # u /\ tgt[p] # Cur(u)
    BY <1>1, <1>2, Builder
  <2>3. Forks(t)' /\ pc'[t] \in Forking /\ tgt'[t][1] = u /\ tgt'[t][2] = "cur"
    BY <1>1, <1>2, <1>3 DEF Forks, Forking
  <2>4. ASSUME NEW p \in Process, p # t, Forks(p)
        PROVE  /\ pc'[p] = pc[p] /\ tgt'[p] = tgt[p] /\ tgt'[p] # tgt'[t]
               /\ pc'[tgt[p][1]] = pc[tgt[p][1]]
    BY <1>3, <2>2, <2>4
  <2>5. ASSUME NEW p \in Process, p # t, ~Forks(p)
        PROVE  /\ pc'[p] \notin {"kstack", "copy", "forkfail"}
               /\ tgt'[p] = New(p) \/ (tgt'[p] = Cur(p) /\ pc'[p] = "freevm")
    BY <1>2, <1>3, <2>5 DEF Targets
  <2> QED
    BY <1>2, <1>3, <2>1, <2>2, <2>3, <2>4, <2>5 DEF Targets
<1>6. HasStack(t)' /\ HasStack(u)'
  <2>1. tgt'[t][1] = u /\ ~Forks(u)'
    BY <1>2, <1>3 DEF Forks
  <2> QED
    BY <1>1, <1>2, <1>3, <2>1 DEF HasStack
<1>7. HasDir(t)' /\ HasDir(u)'
  BY <1>1, <1>2, <1>3 DEF HasDir, Empty, Held, Idle, Filling, Copying, Loading
<1>8. LoopsOn(t)' /\ LoopsOn(u)'
  BY <1>3 DEF LoopsOn, Copying, Loading
<1>9. \A p \in Process : p # t /\ p # u => HasStack(p)' /\ HasDir(p)' /\ LoopsOn(p)'
  BY <1>1, <1>3, ProcessFrame DEF IInv
<1> QED
  BY <1>4, <1>5, <1>6, <1>7, <1>8, <1>9 DEF IInv

(* The end of a fork(), good or bad: parent and child.                     *)
LEMMA ForkEnds ==
    ASSUME IInv, NEW t \in Process, pc[t] \in {"kstack", "copy", "forkfail"},
           NEW l \in {"user", "unused"}, pc' = [pc EXCEPT ![t] = "user", ![tgt[t][1]] = l],
           tgt' = [tgt EXCEPT ![t] = New(t)], UNCHANGED <<goal, stack, panicked>>,
           sz' \in [Process -> 0 .. MAXVA], i' = i \/ i' = [i EXCEPT ![t] = 0],
           PageOnce', free' \subseteq Page, at' \in [UsedSlot -> Page \union {NoPage}],
           \A y \in UsedSlot : y # KStack(tgt[t][1]) => at'[y] = at[y],
           l = "user" => pc[t] = "copy" /\ UNCHANGED at,
           l = "unused" => pc[t] \in {"kstack", "forkfail"} /\ at'[KStack(tgt[t][1])] = NoPage
    PROVE  IInv'
<1>0. PICK u \in Process : u = tgt[t][1]
  BY Working
<1> USE <1>0
<1>1. /\ TypeOK /\ Targets /\ Forks(t) /\ u \in Process /\ tgt[t] \in Space /\ tgt[t] = Cur(u)
      /\ pc[u] = "embryo" /\ tgt[u] = New(u) /\ ~Forks(u) /\ u # t
      /\ HasStack(t) /\ HasDir(t) /\ HasStack(u) /\ HasDir(u)
  BY Working, Builder DEF Targets, Forks, IInv
<1>2. /\ Cur(u) # New(t) /\ Cur(u) # Cur(t) /\ New(t)[1] = t /\ Cur(u) # New(u) /\ Cur(t) # New(t)
      /\ Cur(t) \in Space /\ New(t) \in Space /\ Cur(u) \in Space /\ New(u) \in Space
  BY <1>1, TwoSpaces
<1>3. /\ pc'[t] = "user" /\ pc'[u] = l /\ tgt'[t] = New(t) /\ tgt'[u] = New(u)
      /\ \A p \in Process : p # t /\ p # u => pc'[p] = pc[p] /\ tgt'[p] = tgt[p] /\ i'[p] = i[p]
  BY <1>1 DEF TypeOK
<1>4. TypeOK'
  BY <1>1, <1>2 DEF TypeOK, Label, Idle
<1>5. Targets'
  <2>1. \A p \in Process : p # t => (Forks(p)' <=> Forks(p))
    BY <1>1, <1>3 DEF Forks
  <2>2. \A p \in Process : p # t /\ Forks(p) => tgt[p][1] # t /\ tgt[p][1] # u /\ tgt[p][1] \in Process /\ p # u
    <3>1. pc[t] # "embryo"
      OBVIOUS
    <3> QED
      BY <1>1, <3>1, Builder
  <2>3. ~Forks(t)'
    BY <1>2, <1>3 DEF Forks
  <2>4. ASSUME NEW p \in Process, p # t, Forks(p)
        PROVE  pc'[p] = pc[p] /\ tgt'[p] = tgt[p] /\ pc'[tgt[p][1]] = pc[tgt[p][1]]
    BY <1>3, <2>2, <2>4
  <2>5. ASSUME NEW p \in Process, p # t, ~Forks(p)
        PROVE  /\ pc'[p] \notin {"kstack", "copy", "forkfail"}
               /\ tgt'[p] = New(p) \/ (tgt'[p] = Cur(p) /\ pc'[p] = "freevm")
    BY <1>1, <1>3, <2>5 DEF Targets
  <2>6. ASSUME NEW p \in Process, Forks(p)'
        PROVE  /\ pc'[p] \in Forking /\ tgt'[p][2] = "cur" /\ pc'[tgt'[p][1]] = "embryo"
               /\ \A w \in Process : Forks(w)' /\ tgt'[w] = tgt'[p] => w = p
    <3>1. p # t /\ Forks(p) /\ \A w \in Process : Forks(w)' => w # t /\ Forks(w)
      BY <2>1, <2>3, <2>6
    <3>2. pc[p] \in Forking /\ tgt[p][2] = "cur" /\ pc[tgt[p][1]] = "embryo"
      BY <1>1, <3>1 DEF Targets
    <3>3. pc'[p] = pc[p] /\ tgt'[p] = tgt[p] /\ pc'[tgt[p][1]] = pc[tgt[p][1]]
      BY <2>4, <3>1
    <3>4. ASSUME NEW w \in Process, Forks(w)', tgt'[w] = tgt'[p] PROVE w = p
      <4>1. Forks(w) /\ tgt'[w] = tgt[w]
        BY <2>4, <3>1, <3>4
      <4> QED
        BY <1>1, <3>1, <3>3, <3>4, <4>1 DEF Targets
    <3> QED
      BY <3>2, <3>3, <3>4
  <2>7. pc'[t] \notin {"kstack", "copy", "forkfail"} /\ tgt'[t] = New(t)
    BY <1>3
  <2> QED
    BY <2>1, <2>3, <2>5, <2>6, <2>7 DEF Targets
<1>6. /\ \A s \in Space : \A y \in SpaceSlots(s) : at'[y] = at[y]
      /\ \A p \in Process : at'[Mem(p)] = at[Mem(p)]
      /\ \A p \in Process : p # u => at'[KStack(p)] = at[KStack(p)]
  BY <1>1, OwnChange, OwnSlots
<1>7. HasStack(t)' /\ HasStack(u)'
  BY <1>1, <1>2, <1>3, <1>6 DEF HasStack, Forks
<1>8. HasDir(t)'
  <2>1. at'[Dir(Cur(t))] = at[Dir(Cur(t))]
    BY <1>2, <1>6, PartsOfSpace
  <2> QED
    BY <1>1, <1>2, <1>3, <1>6, <2>1 DEF HasDir, Empty, Held, Idle, Filling, Copying, Loading
<1>9. HasDir(u)'
  <2>1. at'[Dir(Cur(u))] = at[Dir(Cur(u))]
    BY <1>2, <1>6, PartsOfSpace
  <2>2. l = "user" => at[Dir(Cur(u))] # NoPage
    BY <1>1 DEF HasDir, Filling, Copying
  <2>3. l = "unused" => Empty(Cur(u))
    BY <1>1 DEF HasDir
  <2>4. Empty(New(u))
    BY <1>1 DEF HasDir, Idle
  <2>5. Empty(New(u))' /\ (l = "unused" => Empty(Cur(u))')
    BY <1>2, <1>6, <2>3, <2>4 DEF Empty, Held
  <2> QED
    BY <1>3, <2>1, <2>2, <2>5 DEF HasDir, Filling, Copying, Loading
<1>10. LoopsOn(t)' /\ LoopsOn(u)'
  <2>1. l # "ktab" /\ l \notin Copying \union Loading
    BY DEF Copying, Loading
  <2> QED
    BY <1>3, <2>1 DEF LoopsOn, Copying, Loading
<1>11. \A p \in Process : p # t /\ p # u => HasStack(p)' /\ HasDir(p)' /\ LoopsOn(p)'
  <2>1. KStack(u) \in Slots(u)
    BY <1>1, SlotsOf
  <2> QED
    BY <1>1, <1>3, <2>1, OthersFrame
<1> QED
  BY <1>4, <1>5, <1>7, <1>8, <1>9, <1>10, <1>11 DEF IInv

(* allocproc(): the kernel stack of the child                              *)
LEMMA AllocKstackInvariant ==
    ASSUME IInv, NEW t \in Process, AllocKstack(t)
    PROVE  IInv'
<1> DEFINE u == tgt[t][1]
           x == KStack(tgt[t][1])
<1>1. pc[t] = "kstack" /\ UNCHANGED <<sz, i, goal, stack, panicked>>
  BY DEF AllocKstack, Runs
<1>2. /\ TypeOK /\ PageOnce /\ Targets /\ Forks(t) /\ u \in Process /\ u # t
      /\ HasStack(t) /\ HasDir(t) /\ tgt[t] # Cur(t) /\ tgt[t] \in Space
      /\ Cur(t) \in Space /\ New(t) \in Space
  BY <1>1, Working DEF Targets, Forks
<1>3. at[x] = NoPage /\ x \in UsedSlot
  BY <1>1, <1>2, OwnSlots DEF HasStack
<1>4. CASE Kalloc(x) /\ pc' = [pc EXCEPT ![t] = "kdir"] /\ UNCHANGED tgt
  <2>1. /\ PageOnce' /\ free' \subseteq Page /\ at' \in [UsedSlot -> Page \union {NoPage}]
        /\ at'[x] # NoPage /\ \A y \in UsedSlot : y # x => at'[y] = at[y]
    BY <1>2, <1>3, <1>4, KallocOnce
  <2>2. /\ \A s \in Space : \A y \in SpaceSlots(s) : at'[y] = at[y]
        /\ at'[Mem(t)] = at[Mem(t)] /\ at'[KStack(t)] = at[KStack(t)]
    BY <1>2, <2>1, OwnChange, OwnSlots
  <2>3. TypeOK'
    BY <1>1, <1>2, <1>4, <2>1 DEF TypeOK, Label, Forking
  <2>4. Targets'
    BY <1>1, <1>2, <1>4, TargetsFrame DEF Forking
  <2>5. pc'[t] = "kdir"
    BY <1>2, <1>4 DEF TypeOK
  <2>6. HasStack(t)'
    BY <1>1, <1>2, <1>4, <2>1, <2>2, <2>5 DEF HasStack, Forks
  <2>7. HasDir(t)'
    <3>1. at'[Dir(Cur(t))] = at[Dir(Cur(t))]
      BY <1>2, <2>2, PartsOfSpace
    <3> QED
      BY <1>1, <1>2, <1>4, <2>2, <2>5, <3>1 DEF HasDir, Empty, Held, Idle, Filling, Copying, Loading
  <2>8. LoopsOn(t)'
    BY <2>5 DEF LoopsOn, Copying, Loading
  <2>9. \A p \in Process : p # t => HasStack(p)' /\ HasDir(p)' /\ LoopsOn(p)'
    BY <1>1, <1>2, <1>4, <2>1, RestFrame DEF TypeOK
  <2> QED
    BY <2>1, <2>3, <2>4, <2>6, <2>7, <2>8, <2>9, Parts
<1>5. CASE /\ KallocFails /\ pc' = [pc EXCEPT ![t] = "user", ![u] = "unused"]
           /\ tgt' = [tgt EXCEPT ![t] = New(t)]
  <2>1. UNCHANGED <<at, free>> /\ PageOnce'
    BY <1>2, <1>5 DEF KallocFails, PageOnce, Held
  <2> QED
    BY <1>1, <1>2, <1>3, <1>5, <2>1, ForkEnds DEF TypeOK
<1> QED
  BY <1>4, <1>5 DEF AllocKstack, Goto

(* fork() succeeds.                                                        *)
LEMMA ForkDoneInvariant ==
    ASSUME IInv, NEW t \in Process, ForkDone(t)
    PROVE  IInv'
<1>1. /\ pc[t] = "copy" /\ pc' = [pc EXCEPT ![t] = "user", ![tgt[t][1]] = "user"]
      /\ tgt' = [tgt EXCEPT ![t] = New(t)] /\ i' = [i EXCEPT ![t] = 0]
      /\ sz' = [sz EXCEPT ![tgt[t][1]] = sz[t]] /\ UNCHANGED <<free, at, goal, stack, panicked>>
  BY DEF ForkDone, Runs, Loop
<1>2. TypeOK /\ PageOnce' /\ sz' \in [Process -> 0 .. MAXVA]
  BY <1>1 DEF IInv, TypeOK, PageOnce, Held
<1> QED
  BY <1>1, <1>2, ForkEnds DEF TypeOK

(* fork() fails after allocproc().                                         *)
LEMMA ForkFailInvariant ==
    ASSUME IInv, NEW t \in Process, ForkFail(t)
    PROVE  IInv'
<1>1. /\ pc[t] = "forkfail" /\ Kfree(KStack(tgt[t][1]))
      /\ pc' = [pc EXCEPT ![t] = "user", ![tgt[t][1]] = "unused"]
      /\ tgt' = [tgt EXCEPT ![t] = New(t)] /\ i' = [i EXCEPT ![t] = 0]
      /\ UNCHANGED <<sz, goal, stack, panicked>>
  BY DEF ForkFail, Runs, Loop
<1>2. /\ TypeOK /\ PageOnce /\ tgt[t][1] \in Process /\ at[KStack(tgt[t][1])] # NoPage
  BY <1>1, Working DEF HasStack, Targets
<1>3. KStack(tgt[t][1]) \in UsedSlot
  BY <1>2, OwnSlots
<1>4. /\ PageOnce' /\ free' \subseteq Page /\ at' \in [UsedSlot -> Page \union {NoPage}]
      /\ at'[KStack(tgt[t][1])] = NoPage
      /\ \A y \in UsedSlot : y # KStack(tgt[t][1]) => at'[y] = at[y]
  BY <1>1, <1>2, <1>3, KfreeOnce
<1> QED
  BY <1>1, <1>2, <1>4, ForkEnds DEF TypeOK

(* userinit()                                                              *)
LEMMA InitInvariant == Init => IInv
<1> SUFFICES ASSUME Init PROVE IInv
  OBVIOUS
<1> DEFINE I == InitProc
<1>1. PICK f \in [InitSlots -> Page] :
        /\ \A r, s \in InitSlots : f[r] = f[s] => r = s
        /\ at = [s \in UsedSlot |-> IF s \in InitSlots THEN f[s] ELSE NoPage]
        /\ free = Page \ {f[s] : s \in InitSlots}
  <2> DEFINE f == CHOOSE g \in InitPages : TRUE
  <2>1. f \in InitPages
    BY EnoughPages
  <2>2. /\ at = [s \in UsedSlot |-> IF s \in InitSlots THEN f[s] ELSE NoPage]
        /\ free = Page \ {f[s] : s \in InitSlots}
    BY DEF Init
  <2> HIDE DEF f
  <2> QED
    BY <2>1, <2>2 DEF InitPages
<1>2. /\ pc = [p \in Process |-> IF p = I THEN "user" ELSE "unused"]
      /\ tgt = [p \in Process |-> New(p)]
      /\ sz = [p \in Process |-> IF p = I THEN 1 ELSE 0] /\ i = [p \in Process |-> 0]
      /\ goal = [p \in Process |-> 0] /\ stack = [p \in Process |-> FALSE] /\ panicked = FALSE
  BY DEF Init
<1>3. I \in Process /\ Cur(I) \in Space /\ 0 \in VA
  BY VmAssumption, TwoSpaces DEF VA
<1>4. InitSlots \subseteq {KStack(I)} \union SpaceSlots(Cur(I)) /\ KStack(I) \in InitSlots
      /\ Dir(Cur(I)) \in InitSlots
  BY <1>3, PartsOfSpace DEF InitSlots
<1>5. InitSlots \subseteq UsedSlot
  BY <1>3, <1>4, OwnSlots, SpaceSlotsApart
<1>6. TypeOK
  <2>1. at \in [UsedSlot -> Page \union {NoPage}] /\ free \subseteq Page
    BY <1>1
  <2>2. pc \in [Process -> Label] /\ sz \in [Process -> 0 .. MAXVA]
    BY <1>2, VmAssumption DEF Label, Idle
  <2>3. tgt \in [Process -> Space]
    BY <1>2, TwoSpaces
  <2>4. i \in [Process -> Nat] /\ goal \in [Process -> 0 .. MAXVA]
    BY <1>2, VmAssumption
  <2>5. stack \in [Process -> BOOLEAN] /\ panicked \in BOOLEAN
    BY <1>2
  <2> QED
    BY <2>1, <2>2, <2>3, <2>4, <2>5 DEF TypeOK
<1>7. PageOnce
  <2>1. \A r \in UsedSlot : at[r] # NoPage => r \in InitSlots /\ at[r] = f[r]
    BY <1>1
  <2>2. \A r \in InitSlots : at[r] = f[r] /\ r \in UsedSlot
    BY <1>1, <1>5
  <2> QED
    BY <1>1, <2>1, <2>2 DEF PageOnce, Held
<1>8. \A p \in Process : ~Forks(p) /\ tgt[p] = New(p) /\ tgt[p] # Cur(p)
  BY <1>2, TwoSpaces DEF Forks
<1>9. Targets
  BY <1>2, <1>8 DEF Targets
<1>10. at[KStack(I)] # NoPage /\ at[Dir(Cur(I))] # NoPage
  BY <1>1, <1>4, <1>5, VmAssumption
<1>11. \A p \in Process : at[Mem(p)] = NoPage /\ (p # I => at[KStack(p)] = NoPage)
  <2> SUFFICES ASSUME NEW p \in Process PROVE at[Mem(p)] = NoPage /\ (p # I => at[KStack(p)] = NoPage)
    OBVIOUS
  <2>1. Mem(p) \in UsedSlot /\ KStack(p) \in UsedSlot
        /\ Mem(p) \notin SpaceSlots(Cur(I)) /\ KStack(p) \notin SpaceSlots(Cur(I))
    BY <1>3, OwnSlots
  <2>2. Mem(p) # KStack(I) /\ (p # I => KStack(p) # KStack(I))
    BY <1>3, OwnSlots
  <2> QED
    BY <1>1, <1>4, <2>1, <2>2
<1>12. ASSUME NEW s \in Space, s # Cur(I) PROVE Empty(s)
  <2>1. \A y \in SpaceSlots(s) : y \in UsedSlot /\ y # KStack(I) /\ y \notin SpaceSlots(Cur(I))
    BY <1>3, <1>12, OwnSlots, SpaceSlotsApart
  <2> QED
    BY <1>1, <1>4, <2>1 DEF Empty, Held
<1>13. ASSUME NEW p \in Process PROVE HasStack(p) /\ HasDir(p) /\ LoopsOn(p)
  <2>1. HasStack(p)
    BY <1>2, <1>8, <1>10, <1>11 DEF HasStack
  <2>2. Empty(New(p)) /\ (p # I => Empty(Cur(p)))
    BY <1>3, <1>12, TwoSpaces
  <2>3. HasDir(p)
    BY <1>2, <1>8, <1>10, <2>2 DEF HasDir, Filling, Copying, Loading
  <2>4. LoopsOn(p)
    BY <1>2 DEF LoopsOn, Copying, Loading
  <2> QED
    BY <2>1, <2>3, <2>4
<1> QED
  BY <1>6, <1>7, <1>9, <1>13 DEF IInv

(* The invariant holds in every state.                                     *)
LEMMA Invariant == Spec => []IInv
<1>1. ASSUME IInv, [Next]_vars PROVE IInv'
  <2>1. CASE UNCHANGED vars
    BY <1>1, <2>1, PanicInvariant DEF vars, IInv, TypeOK
  <2>2. ASSUME NEW t \in Process, ForkStep(t) PROVE IInv'
    BY <1>1, <2>2, ForkInvariant, AllocKstackInvariant, CopyInvariant, ForkDoneInvariant,
       ForkFailInvariant DEF ForkStep
  <2>3. ASSUME NEW t \in Process, MapStep(t) PROVE IInv'
    BY <1>1, <2>3, SetupDirInvariant, SetupTabInvariant, MapTableInvariant, MapPteInvariant,
       UnmemInvariant, FreevmInvariant DEF MapStep
  <2>4. ASSUME NEW t \in Process, ExecStep(t) PROVE IInv'
    BY <1>1, <2>4, UserInvariant, ExecInvariant, GrowInvariant, CommitInvariant DEF ExecStep
  <2> QED
    BY <1>1, <2>1, <2>2, <2>3, <2>4, UserInvariant, WaitInvariant DEF Next
<1> QED
  BY InitInvariant, <1>1, PTL DEF Spec

-----------------------------------------------------------------------------
(* What kalloc.c, vm.c, fork() and exec() promise                          *)

(* A page is free or in one place, and a call that is over has kept none,  *)
(* wherever kalloc() found the list empty.                                 *)
THEOREM NoPageIsLost == Spec => []PagesAccounted
<1>1. IInv => PagesAccounted
  <2> SUFFICES ASSUME IInv, NEW p \in Process PROVE Held(Slots(p)) \subseteq MayHold(p)
    BY DEF PagesAccounted, IInv
  <2>1. HasStack(p) /\ HasDir(p)
    BY DEF IInv
  <2>2. CASE pc[p] = "unused"
    BY <2>1, <2>2 DEF HasStack, HasDir, Empty, Held, Slots, MayHold, Idle
  <2>3. CASE pc[p] \in {"user", "zombie"}
    BY <2>1, <2>3 DEF HasStack, HasDir, Empty, Held, Slots, MayHold, Idle
  <2>4. CASE pc[p] \notin {"unused", "user", "zombie"}
    BY <2>4 DEF Held, MayHold
  <2> QED
    BY <2>2, <2>3, <2>4
<1> QED
  BY <1>1, Invariant, PTL

(* panic("remap") of mappages() cannot happen: the entry for the page in   *)
(* mem is free, in fork() and in exec().                                   *)
THEOREM NeverRemaps ==
    Spec => [](\A t \in Process : pc[t] = "map" => at[Pte(tgt[t], i[t])] = NoPage)
<1>1. IInv => \A t \in Process : pc[t] = "map" => at[Pte(tgt[t], i[t])] = NoPage
  <2> SUFFICES ASSUME IInv, NEW t \in Process, pc[t] = "map" PROVE at[Pte(tgt[t], i[t])] = NoPage
    OBVIOUS
  <2>1. LoopsOn(t) /\ i[t] \in Nat
    BY DEF IInv, TypeOK
  <2>2. i[t] \in VA
    BY <2>1, VmAssumption DEF LoopsOn, VA
  <2> QED
    BY <2>1, <2>2 DEF LoopsOn, Copying
<1> QED
  BY <1>1, Invariant, PTL
=============================================================================
