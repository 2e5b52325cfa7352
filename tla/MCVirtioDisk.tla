---------------------------- MODULE MCVirtioDisk ----------------------------
(* VirtioDisk for TLC.                                                     *)
EXTENDS VirtioDisk, TLC

(* Processes, blocks and block contents are interchangeable.               *)
Symmetry == Permutations(Procs) \cup Permutations(Blocks) \cup Permutations(Vals)
=============================================================================
