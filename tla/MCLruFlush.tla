------------------------------ MODULE MCLruFlush ------------------------------
(* LruHistory for TLC: the threads are interchangeable. *)
EXTENDS LruHistory, TLC

Symmetry == Permutations(Threads)
=============================================================================
