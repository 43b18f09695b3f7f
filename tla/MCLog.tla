------------------------------- MODULE MCLog --------------------------------
(* Threads and blocks are interchangeable.  The property checked with the  *)
(* symmetry is a safety property: it speaks of single steps.               *)
EXTENDS Log, TLC

Symmetry == Permutations(Thread) \union Permutations(Block)
=============================================================================
