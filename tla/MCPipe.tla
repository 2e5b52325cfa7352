------------------------------- MODULE MCPipe -------------------------------
(* Pipe for TLC.                                                           *)
EXTENDS Pipe, TLC

(* Processes are interchangeable when all of them or none may be killed,   *)
(* and so are bytes: the pipe never looks at them.                         *)
Symmetry == Permutations(Procs) \cup Permutations(Bytes)
=============================================================================
