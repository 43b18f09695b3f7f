---------------------------------- MODULE Vm ----------------------------------
(***************************************************************************)
(* Physical pages and address spaces (homeworks/xv6-public: kalloc.c, vm.c, *)
(* exec.c, and the memory side of fork(), wait() and sbrk()).              *)
(*                                                                         *)
(* A page is on the free list or stands in a slot: a process's kernel      *)
(* stack, the variable mem between kalloc() and mappages(), or a page      *)
(* directory, page table or page table entry of one of the process's two   *)
(* address spaces: the one in use, and the one exec() builds.  fork()      *)
(* builds the child's.  A step allocates or frees at most one page, under  *)
(* kmem.lock; any of them may find the list empty.  All pages are alike,   *)
(* so the order of the free list is left out.  Sizes count pages.          *)
(***************************************************************************)
EXTENDS Integers

CONSTANTS
    Process,        \* slots of the process table
    InitProc,       \* the first process
    Page, NoPage,
    KTABS,          \* page tables that the kernel's part of a space needs
    MAXVA,          \* KERNBASE in pages
    NPTENTRIES      \* entries of a page table

ASSUME VmAssumption ==
    /\ KTABS \in Nat /\ MAXVA \in Nat \ {0} /\ NPTENTRIES \in Nat \ {0}
    /\ InitProc \in Process /\ NoPage \notin Page

VARIABLES
    free,           \* kmem.freelist
    at,             \* the page in every slot, or NoPage
    pc, sz,         \* of a process
    tgt,            \* the space a process builds or frees: <<process, which>>
    i, goal,        \* the loop of copyuvm() or allocuvm()
    stack,          \* exec() has come to the stack pages
    panicked

vars == <<free, at, pc, sz, tgt, i, goal, stack, panicked>>

\* kstack and mem belong to the process, the other slots to a space.
Kind == {"kstack", "mem", "dir", "ktab", "utab", "pte"}
Slot == Process \X {"own", "cur", "new"} \X Kind \X Nat

KStack(p)   == <<p, "own", "kstack", 0>>
Mem(p)      == <<p, "own", "mem", 0>>
Dir(s)      == <<s[1], s[2], "dir", 0>>
KTab(s, n)  == <<s[1], s[2], "ktab", n>>
UTab(s, v)  == <<s[1], s[2], "utab", v \div NPTENTRIES>>
Pte(s, v)   == <<s[1], s[2], "pte", v>>

Cur(p) == <<p, "cur">>
New(p) == <<p, "new">>

\* The slots of a space; the user part comes first in the directory.
VA      == 0 .. MAXVA - 1
KIndex  == 0 .. KTABS - 1
Ptes(s) == {Pte(s, v) : v \in VA}
Tabs(s) == {UTab(s, v) : v \in VA} \union {KTab(s, n) : n \in KIndex}
SpaceSlots(s) == Ptes(s) \union Tabs(s) \union {Dir(s)}
Slots(p) == {KStack(p), Mem(p)} \union SpaceSlots(Cur(p)) \union SpaceSlots(New(p))
UsedSlot == UNION {Slots(p) : p \in Process}

Held(S) == {s \in S : at[s] # NoPage}

\* userinit(): the first process has a page at 0; the other pages are free.
InitSlots ==
    {KStack(InitProc), Dir(Cur(InitProc)), UTab(Cur(InitProc), 0), Pte(Cur(InitProc), 0)}
    \union {KTab(Cur(InitProc), n) : n \in KIndex}
InitPages == {f \in [InitSlots -> Page] : \A r, s \in InitSlots : f[r] = f[s] => r = s}

ASSUME EnoughPages == InitPages # {}

Init ==
    LET f == CHOOSE g \in InitPages : TRUE IN
    /\ at = [s \in UsedSlot |-> IF s \in InitSlots THEN f[s] ELSE NoPage]
    /\ free = Page \ {f[s] : s \in InitSlots}
    /\ pc = [p \in Process |-> IF p = InitProc THEN "user" ELSE "unused"]
    /\ sz = [p \in Process |-> IF p = InitProc THEN 1 ELSE 0]
    /\ tgt = [p \in Process |-> New(p)]
    /\ i = [p \in Process |-> 0]
    /\ goal = [p \in Process |-> 0]
    /\ stack = [p \in Process |-> FALSE]
    /\ panicked = FALSE

-----------------------------------------------------------------------------
(* The allocator                                                           *)

\* kalloc() returns a page, which the caller puts in slot s.
Kalloc(s) ==
    /\ free # {}
    /\ LET pg == CHOOSE g \in free : TRUE IN
         /\ at' = [at EXCEPT ![s] = pg]
         /\ free' = free \ {pg}

KallocFails == free = {} /\ UNCHANGED <<at, free>>

Kfree(s) ==
    /\ at' = [at EXCEPT ![s] = NoPage]
    /\ free' = free \union {at[s]}

Runs(t, label)  == ~panicked /\ pc[t] = label
Goto(t, label)  == pc' = [pc EXCEPT ![t] = label]
Loop(t, n)      == i' = [i EXCEPT ![t] = n]
Forks(t)        == tgt[t][1] # t

-----------------------------------------------------------------------------
(* fork(): allocproc() and copyuvm()                                       *)

Fork(t, u) ==
    /\ Runs(t, "user") /\ pc[u] = "unused"
    /\ pc' = [pc EXCEPT ![t] = "kstack", ![u] = "embryo"]
    /\ tgt' = [tgt EXCEPT ![t] = Cur(u)]
    /\ UNCHANGED <<free, at, sz, i, goal, stack, panicked>>

AllocKstack(t) ==
    LET u == tgt[t][1] IN
    /\ Runs(t, "kstack")
    /\ \/ Kalloc(KStack(u)) /\ Goto(t, "kdir") /\ UNCHANGED tgt
       \/ /\ KallocFails
          /\ pc' = [pc EXCEPT ![t] = "user", ![u] = "unused"]
          /\ tgt' = [tgt EXCEPT ![t] = New(t)]
    /\ UNCHANGED <<sz, i, goal, stack, panicked>>

\* setupkvm(): the directory, then the tables of the kernel's mappings.
SetupDir(t) ==
    /\ Runs(t, "kdir")
    /\ \/ Kalloc(Dir(tgt[t])) /\ Goto(t, "ktab")
       \/ KallocFails /\ Goto(t, IF Forks(t) THEN "forkfail" ELSE "user")
    /\ Loop(t, 0)
    /\ UNCHANGED <<sz, tgt, goal, stack, panicked>>

SetupTab(t) ==
    /\ Runs(t, "ktab")
    /\ \/ /\ i[t] < KTABS
          /\ \/ Kalloc(KTab(tgt[t], i[t])) /\ Loop(t, i[t] + 1) /\ UNCHANGED pc
             \/ KallocFails /\ Goto(t, "freevm") /\ UNCHANGED i
       \/ /\ i[t] = KTABS
          /\ Loop(t, 0) /\ Goto(t, IF Forks(t) THEN "copy" ELSE "load")
          /\ UNCHANGED <<free, at>>
    /\ UNCHANGED <<sz, tgt, goal, stack, panicked>>

\* One page of copyuvm(): the parent's entry must be there.
Copy(t) ==
    /\ Runs(t, "copy") /\ i[t] < sz[t]
    /\ \/ /\ at[Pte(Cur(t), i[t])] = NoPage
          /\ panicked' = TRUE
          /\ UNCHANGED <<free, at, pc>>
       \/ /\ at[Pte(Cur(t), i[t])] # NoPage
          /\ \/ Kalloc(Mem(t)) /\ Goto(t, "map")
             \/ KallocFails /\ Goto(t, "freevm")
          /\ UNCHANGED panicked
    /\ UNCHANGED <<sz, tgt, i, goal, stack>>

ForkDone(t) ==
    LET u == tgt[t][1] IN
    /\ Runs(t, "copy") /\ i[t] >= sz[t]
    /\ pc' = [pc EXCEPT ![t] = "user", ![u] = "user"]
    /\ sz' = [sz EXCEPT ![u] = sz[t]]
    /\ tgt' = [tgt EXCEPT ![t] = New(t)]
    /\ Loop(t, 0)
    /\ UNCHANGED <<free, at, goal, stack, panicked>>

\* copyuvm() returned 0.
ForkFail(t) ==
    LET u == tgt[t][1] IN
    /\ Runs(t, "forkfail")
    /\ Kfree(KStack(u))
    /\ pc' = [pc EXCEPT ![t] = "user", ![u] = "unused"]
    /\ tgt' = [tgt EXCEPT ![t] = New(t)]
    /\ Loop(t, 0)
    /\ UNCHANGED <<sz, goal, stack, panicked>>

-----------------------------------------------------------------------------
(* mappages() of the page in mem at address i                              *)

MapTable(t) ==
    /\ Runs(t, "map") /\ at[UTab(tgt[t], i[t])] = NoPage
    /\ \/ Kalloc(UTab(tgt[t], i[t])) /\ UNCHANGED pc
       \/ KallocFails /\ Goto(t, "unmem")
    /\ UNCHANGED <<sz, tgt, i, goal, stack, panicked>>

MapPte(t) ==
    /\ Runs(t, "map") /\ at[UTab(tgt[t], i[t])] # NoPage
    /\ \/ /\ at[Pte(tgt[t], i[t])] # NoPage       \* panic("remap")
          /\ panicked' = TRUE
          /\ UNCHANGED <<at, pc, i>>
       \/ /\ at[Pte(tgt[t], i[t])] = NoPage
          /\ at' = [at EXCEPT ![Pte(tgt[t], i[t])] = at[Mem(t)], ![Mem(t)] = NoPage]
          /\ Loop(t, i[t] + 1)
          /\ Goto(t, IF Forks(t) THEN "copy" ELSE "grow")
          /\ UNCHANGED panicked
    /\ UNCHANGED <<free, sz, tgt, goal, stack>>

\* The caller of mappages() gives mem back: copyuvm() first of all, allocuvm()
\* after the pages it has mapped, which makes no difference to anybody.
\* Mutant: it does not.
Unmem_Keeps(t) ==
    /\ Runs(t, "unmem")
    /\ Goto(t, "freevm")
    /\ UNCHANGED <<free, at, sz, tgt, i, goal, stack, panicked>>
Unmem(t) ==
    /\ Runs(t, "unmem")
    /\ Kfree(Mem(t))
    /\ Goto(t, "freevm")
    /\ UNCHANGED <<sz, tgt, i, goal, stack, panicked>>

-----------------------------------------------------------------------------
(* freevm(): the user pages, the page tables, the directory.               *)

\* The page in s is freed, those in the slots before it have been.
KfreeFirst(s, before) == at[s] # NoPage /\ Held(before \ {s}) = {} /\ Kfree(s)

AfterFreevm(t) == IF Forks(t) THEN "forkfail"
                  ELSE IF tgt[t] = New(t) THEN "user" ELSE "unused"

Freevm(t) ==
    /\ Runs(t, "freevm")
    /\ \/ /\ \E v \in VA : KfreeFirst(Pte(tgt[t], v), {Pte(tgt[t], w) : w \in 0 .. v - 1})
          /\ UNCHANGED <<pc, i, tgt>>
       \/ /\ Held(Ptes(tgt[t])) = {}
          /\ \/ \E v \in VA : KfreeFirst(UTab(tgt[t], v), {UTab(tgt[t], w) : w \in 0 .. v - 1})
             \/ \E n \in KIndex : KfreeFirst(KTab(tgt[t], n), {UTab(tgt[t], v) : v \in VA}
                                             \union {KTab(tgt[t], m) : m \in 0 .. n - 1})
          /\ UNCHANGED <<pc, i, tgt>>
       \/ /\ Held(Ptes(tgt[t]) \union Tabs(tgt[t])) = {}
          /\ Kfree(Dir(tgt[t]))
          /\ Goto(t, AfterFreevm(t))
          /\ Loop(t, 0)
          /\ tgt' = IF Forks(t) THEN tgt ELSE [tgt EXCEPT ![t] = New(t)]
    /\ UNCHANGED <<sz, goal, stack, panicked>>

-----------------------------------------------------------------------------
(* exec(): a new space for the segments and two stack pages, then the swap. *)

Exec(t) ==
    /\ Runs(t, "user")
    /\ Goto(t, "kdir")
    /\ stack' = [stack EXCEPT ![t] = FALSE]
    /\ UNCHANGED <<free, at, sz, tgt, i, goal, panicked>>

\* A program header: allocuvm() up to its end.
Segment(t) ==
    /\ Runs(t, "load")
    /\ \E n \in 0 .. MAXVA - 1 :
         /\ n > i[t]
         /\ goal' = [goal EXCEPT ![t] = n]
    /\ Goto(t, "grow")
    /\ UNCHANGED <<free, at, sz, tgt, i, stack, panicked>>

\* allocuvm() refuses a size of KERNBASE.
StackPages(t) ==
    /\ Runs(t, "load") /\ i[t] + 2 < MAXVA
    /\ goal' = [goal EXCEPT ![t] = i[t] + 2]
    /\ stack' = [stack EXCEPT ![t] = TRUE]
    /\ Goto(t, "grow")
    /\ UNCHANGED <<free, at, sz, tgt, i, panicked>>

\* A page of allocuvm(); if there is none, what it mapped is freed, and exec() fails.
\* The two loops of that, deallocuvm() called by allocuvm() and by freevm(), are one
\* here: both free the pages of the same image, and nobody else sees it in between.
Grow(t) ==
    /\ Runs(t, "grow") /\ i[t] < goal[t]
    /\ \/ Kalloc(Mem(t)) /\ Goto(t, "map")
       \/ KallocFails /\ Goto(t, "freevm")
    /\ UNCHANGED <<sz, tgt, i, goal, stack, panicked>>

Grown(t) ==
    /\ Runs(t, "grow") /\ i[t] = goal[t]
    /\ Goto(t, IF stack[t] THEN "args" ELSE "load")
    /\ UNCHANGED <<free, at, sz, tgt, i, goal, stack, panicked>>

\* goto bad: the file is no program, a size is refused, the arguments do not fit.
ExecBad(t) ==
    /\ Runs(t, "load") \/ Runs(t, "args")
    /\ Goto(t, "freevm")
    /\ UNCHANGED <<free, at, sz, tgt, i, goal, stack, panicked>>

\* Slot s with the two spaces of process t exchanged.
Swapped(t, s) ==
    IF s \in SpaceSlots(Cur(t)) THEN <<t, "new", s[3], s[4]>>
    ELSE IF s \in SpaceSlots(New(t)) THEN <<t, "cur", s[3], s[4]>> ELSE s

\* Commit to the new image; the old one, now in New(t), is freed.
Commit(t) ==
    /\ Runs(t, "args")
    /\ at' = [s \in UsedSlot |-> at[Swapped(t, s)]]
    /\ sz' = [sz EXCEPT ![t] = i[t]]
    /\ Goto(t, "freevm")
    /\ UNCHANGED <<free, tgt, i, goal, stack, panicked>>

-----------------------------------------------------------------------------
(* sbrk() moves only p->sz (bound: up to KERNBASE).  wait() of its parent  *)
(* frees the zombie p; it is written as a step of p.                       *)

Sbrk(t) ==
    /\ Runs(t, "user")
    /\ \E n \in 0 .. MAXVA : n # sz[t] /\ sz' = [sz EXCEPT ![t] = n]
    /\ UNCHANGED <<free, at, pc, tgt, i, goal, stack, panicked>>

Exit(p) ==
    /\ Runs(p, "user") /\ p # InitProc
    /\ Goto(p, "zombie")
    /\ UNCHANGED <<free, at, sz, tgt, i, goal, stack, panicked>>

Wait(p) ==
    /\ Runs(p, "zombie")
    /\ Kfree(KStack(p))
    /\ Goto(p, "freevm")
    /\ tgt' = [tgt EXCEPT ![p] = Cur(p)]
    /\ UNCHANGED <<sz, i, goal, stack, panicked>>

ForkStep(t) == AllocKstack(t) \/ Copy(t) \/ ForkDone(t) \/ ForkFail(t)
               \/ \E u \in Process : Fork(t, u)
MapStep(t)  == SetupDir(t) \/ SetupTab(t) \/ MapTable(t) \/ MapPte(t) \/ Unmem(t) \/ Freevm(t)
ExecStep(t) == Exec(t) \/ Segment(t) \/ StackPages(t) \/ Grow(t) \/ Grown(t)
               \/ ExecBad(t) \/ Commit(t)

Next == \E t \in Process :
    ForkStep(t) \/ MapStep(t) \/ ExecStep(t) \/ Sbrk(t) \/ Exit(t) \/ Wait(t)

Spec == Init /\ [][Next]_vars

-----------------------------------------------------------------------------
(* Properties                                                              *)

\* A page is free or in one slot.
PageOnce ==
    /\ \A r, s \in Held(UsedSlot) : at[r] = at[s] => r = s
    /\ \A s \in Held(UsedSlot) : at[s] \notin free
    /\ \A pg \in Page : pg \in free \/ \E s \in UsedSlot : at[s] = pg

\* The slots that may hold a page: those of a process in user mode, and those
\* that a system call under way works on.
MayHold(p) ==
    CASE pc[p] = "unused" -> {}
      [] pc[p] \in {"user", "zombie"} -> {KStack(p)} \union SpaceSlots(Cur(p))
      [] OTHER -> Slots(p)

\* No page is in two places, lost, or kept by a process slot or a system call
\* that is over, wherever kalloc() found the list empty: fork() and exec()
\* give back all they took (vm.c:243-245, 338-343, proc.c:194, exec.c:106-108).
PagesAccounted ==
    PageOnce /\ \A p \in Process : Held(Slots(p)) \subseteq MayHold(p)

-----------------------------------------------------------------------------
(* The inductive invariant of VmProofs.                                    *)

Space == Process \X {"cur", "new"}
Empty(s) == Held(SpaceSlots(s)) = {}

\* Where a process has no system call of its own under way, where a call fills or
\* frees a space that has its directory, and where the pages from i on are still
\* to be mapped.
Idle    == {"unused", "embryo", "user", "zombie"}
Copying == {"copy", "map", "unmem"}
Loading == {"load", "grow", "args"}
Filling == {"ktab"} \union Copying \union Loading
Forking == {"kstack", "kdir", "ktab", "freevm", "forkfail"} \union Copying
Label   == Idle \union Forking \union Loading

TypeOK ==
    /\ free \subseteq Page
    /\ at \in [UsedSlot -> Page \union {NoPage}]
    /\ pc \in [Process -> Label]
    /\ sz \in [Process -> 0 .. MAXVA]
    /\ tgt \in [Process -> Space]
    /\ i \in [Process -> Nat]
    /\ goal \in [Process -> 0 .. MAXVA]
    /\ stack \in [Process -> BOOLEAN]
    /\ panicked \in BOOLEAN

\* fork() builds the space of one embryo, that nobody else builds; otherwise a
\* process works on its second space, or on its own when wait() frees that.
Targets ==
    \A t \in Process :
        /\ Forks(t) =>
            /\ pc[t] \in Forking /\ tgt[t][2] = "cur" /\ pc[tgt[t][1]] = "embryo"
            /\ \A u \in Process : Forks(u) /\ tgt[u] = tgt[t] => u = t
        /\ pc[t] \in {"kstack", "copy", "forkfail"} => Forks(t)
        /\ ~Forks(t) => tgt[t] = New(t) \/ (tgt[t] = Cur(t) /\ pc[t] = "freevm")

\* mem holds a page between kalloc() and mappages(); a process has its kernel stack
\* until wait() frees it, an embryo from allocproc() on.
HasStack(p) ==
    /\ at[Mem(p)] # NoPage <=> pc[p] \in {"map", "unmem"}
    /\ pc[p] = "unused" => at[KStack(p)] = NoPage
    /\ pc[p] \notin {"unused", "embryo"} => (at[KStack(p)] = NoPage <=> tgt[p] = Cur(p))
    /\ Forks(p) => (at[KStack(tgt[p][1])] = NoPage <=> pc[p] = "kstack")

\* The spaces that have a directory, and those that have no page at all.
HasDir(p) ==
    /\ pc[p] = "unused" => Empty(Cur(p))
    /\ pc[p] \in Idle \/ tgt[p] # New(p) => Empty(New(p))
    /\ pc[p] \notin {"unused", "embryo"} => at[Dir(Cur(p))] # NoPage
    /\ pc[p] \in {"kstack", "kdir", "forkfail"} => Empty(tgt[p])
    /\ pc[p] \in Filling \union {"freevm"} => at[Dir(tgt[p])] # NoPage

\* What a loop has not come to yet is not there.
LoopsOn(p) ==
    /\ pc[p] = "ktab" =>
        /\ i[p] <= KTABS /\ \A v \in VA : at[Pte(tgt[p], v)] = NoPage
        /\ \A n \in KIndex : n >= i[p] => at[KTab(tgt[p], n)] = NoPage
    /\ pc[p] \in Copying \union Loading =>
        i[p] <= MAXVA /\ \A v \in VA : v >= i[p] => at[Pte(tgt[p], v)] = NoPage
    /\ pc[p] \in {"map", "unmem"} => i[p] < MAXVA

IInv ==
    /\ TypeOK /\ PageOnce /\ Targets
    /\ \A p \in Process : HasStack(p) /\ HasDir(p) /\ LoopsOn(p)

=============================================================================
