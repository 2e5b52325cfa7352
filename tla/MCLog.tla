------------------------------- MODULE MCLog --------------------------------
(* Log for TLC.                                                            *)
EXTENDS Log, TLC

(* Processes, block numbers and block contents are interchangeable.        *)
Symmetry == Permutations(Procs) \cup Permutations(Blocks) \cup Permutations(Vals)
=============================================================================
