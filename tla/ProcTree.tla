------------------------------ MODULE ProcTree ------------------------------
(***************************************************************************)
(* What fork(), exit() and wait() of xv6-riscv promise to programs: a tree *)
(* of processes in which every process, dead or alive, has a live parent,  *)
(* and a dead one is remembered until that parent has been told.           *)
(***************************************************************************)
CONSTANTS Procs, initproc, NoProc

VARIABLES live, dead, parent

vars == <<live, dead, parent>>

Init ==
    /\ live = {initproc}
    /\ dead = {}
    /\ parent = [p \in Procs |-> NoProc]

Fork(p, q) ==
    /\ p \in live
    /\ q \notin live \cup dead
    /\ live' = live \cup {q}
    /\ parent' = [parent EXCEPT ![q] = p]
    /\ UNCHANGED dead

(* The children of an exiting process become children of init.             *)
Exit(p) ==
    /\ p \in live \ {initproc}
    /\ live' = live \ {p}
    /\ dead' = dead \cup {p}
    /\ parent' = [q \in Procs |-> IF parent[q] = p THEN initproc ELSE parent[q]]

(* wait() tells p about its dead child q.                                  *)
Reap(p, q) ==
    /\ p \in live
    /\ q \in dead
    /\ parent[q] = p
    /\ dead' = dead \ {q}
    /\ parent' = [parent EXCEPT ![q] = NoProc]
    /\ UNCHANGED live

Next == \E p, q \in Procs : Fork(p, q) \/ Exit(p) \/ Reap(p, q)

Spec == Init /\ [][Next]_vars
=============================================================================
