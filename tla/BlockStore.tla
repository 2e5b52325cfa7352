----------------------------- MODULE BlockStore -----------------------------
(***************************************************************************)
(* What the buffer cache of xv6-riscv (kernel/bio.c) promises: one current *)
(* version of every block, changed only by the process that holds it, and  *)
(* held by one process at a time.                                          *)
(***************************************************************************)
CONSTANTS Procs, Blocks, Vals, Nobody

VARIABLES view,      \* the current contents of each block
          holder     \* the process between bread() and brelse()

vars == <<view, holder>>

Init ==
    /\ view \in [Blocks -> Vals]
    /\ holder = [k \in Blocks |-> Nobody]

Bread(p, k) ==
    /\ holder[k] = Nobody
    /\ holder' = [holder EXCEPT ![k] = p]
    /\ UNCHANGED view

Modify(p, k, v) ==
    /\ holder[k] = p
    /\ view' = [view EXCEPT ![k] = v]
    /\ UNCHANGED holder

Brelse(p, k) ==
    /\ holder[k] = p
    /\ holder' = [holder EXCEPT ![k] = Nobody]
    /\ UNCHANGED view

Next ==
    \E p \in Procs, k \in Blocks :
        \/ Bread(p, k) \/ Brelse(p, k)
        \/ \E v \in Vals : Modify(p, k, v)

Spec == Init /\ [][Next]_vars
=============================================================================
