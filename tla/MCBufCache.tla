----------------------------- MODULE MCBufCache -----------------------------
(* BufCache for TLC.                                                       *)
EXTENDS BufCache, TLC

(* Processes, buffers, blocks and contents are interchangeable: the list   *)
(* starts in any order.                                                    *)
Symmetry == Permutations(Procs) \cup Permutations(Bufs) \cup Permutations(Blocks) \cup Permutations(Vals)
=============================================================================
