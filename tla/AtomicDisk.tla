----------------------------- MODULE AtomicDisk -----------------------------
(***************************************************************************)
(* What the xv6-riscv logging layer (kernel/log.c) promises to the file    *)
(* system above it: a disk that a crash always takes back to the state     *)
(* left by a set of COMPLETE file-system calls.                            *)
(*                                                                         *)
(* "view" is what a read returns now, "stable" is what a read would return *)
(* after a crash and a recovery at this very instant, and "active" is the  *)
(* set of processes between begin_op() and end_op().                       *)
(***************************************************************************)
CONSTANTS Procs,    \* processes that make file-system calls
          Blocks,   \* block numbers outside the log
          Vals      \* contents of a block

VARIABLES view, stable, active

vars == <<view, stable, active>>

TypeOK ==
    /\ view \in [Blocks -> Vals]
    /\ stable \in [Blocks -> Vals]
    /\ active \in SUBSET Procs

Init ==
    /\ stable \in [Blocks -> Vals]
    /\ view = stable
    /\ active = {}

Begin(p) ==
    /\ p \notin active
    /\ active' = active \cup {p}
    /\ UNCHANGED <<view, stable>>

Write(p, b, v) ==
    /\ p \in active
    /\ view' = [view EXCEPT ![b] = v]
    /\ UNCHANGED <<stable, active>>

End(p) ==
    /\ p \in active
    /\ active' = active \ {p}
    /\ UNCHANGED <<view, stable>>

(* All the writes of all the finished calls become durable in one step,    *)
(* and never while a call is half done.                                    *)
Commit ==
    /\ active = {}
    /\ stable' = view
    /\ UNCHANGED <<view, active>>

Crash ==
    /\ view' = stable
    /\ active' = {}
    /\ UNCHANGED stable

Next ==
    \/ \E p \in Procs : Begin(p) \/ End(p)
    \/ \E p \in Procs, b \in Blocks, v \in Vals : Write(p, b, v)
    \/ Commit
    \/ Crash

Spec == Init /\ [][Next]_vars
=============================================================================
