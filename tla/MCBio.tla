-------------------------------- MODULE MCBio --------------------------------
(* Threads and blocks are interchangeable; used with safety properties only. *)
EXTENDS Bio

Symmetry == Permutations(Thread) \union Permutations(Block)
=============================================================================
