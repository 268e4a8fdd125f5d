---------------------------- MODULE MCBufferPoolV3 ----------------------------
(* Instances of BufferPoolV3 small enough for TLC. *)
EXTENDS BufferPoolV3, TLC

(* Threads, pages and contents are interchangeable. *)
Symmetry == Permutations(Threads) \union Permutations(Pages) \union Permutations(Contents)
=============================================================================
