--------------------------------- MODULE MCLru ---------------------------------
(* LruBufferPool for TLC: the threads are interchangeable. *)
EXTENDS LruBufferPool, TLC

Symmetry == Permutations(Threads)
=============================================================================
