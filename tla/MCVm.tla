--------------------------------- MODULE MCVm ---------------------------------
EXTENDS Vm, FiniteSets

\* Pages are alike: states are told apart by which slots hold a page, which hold
\* the same page or one that is free too, and how many pages are free.
Shared(H) ==
    IF Cardinality({at[s] : s \in H} \union free) = Cardinality(H) + Cardinality(free)
    THEN {}
    ELSE {<<r, s>> \in H \X H : at[r] = at[s]} \union {<<s>> : s \in {r \in H : at[r] \in free}}

\* The variables of a process that are read again before they are set.
Live(p) ==
    << IF pc[p] \in {"unused", "embryo", "zombie"} \/ tgt[p] = Cur(p) THEN 0 ELSE sz[p],
       IF pc[p] \in {"ktab", "copy", "map", "load", "grow", "args"} THEN i[p] ELSE 0,
       IF pc[p] \in {"map", "grow"} /\ ~Forks(p) THEN <<goal[p], stack[p]>> ELSE <<>> >>

PagesForgotten ==
    LET H == Held(UsedSlot) IN
    << H, Shared(H), Cardinality(free), pc, tgt, [p \in Process |-> Live(p)], panicked >>

=============================================================================
