---------------------------- MODULE BlockDevice -----------------------------
(***************************************************************************)
(* What virtio_disk_rw() of xv6-riscv (kernel/virtio_disk.c) promises to   *)
(* the buffer cache: between its call and its return the whole block is    *)
(* transferred, once, in the direction asked for.                          *)
(***************************************************************************)
CONSTANTS Procs, Blocks, Vals, NoBlock, NoData

VARIABLES disk,     \* contents of the blocks
          buf,      \* b->data of the buffer each process passed
          call,     \* "none", "read", "write", or "done"
          blk       \* the block each process's call is about

vars == <<disk, buf, call, blk>>

Init ==
    /\ disk \in [Blocks -> Vals]
    /\ buf = [p \in Procs |-> NoData]
    /\ call = [p \in Procs |-> "none"]
    /\ blk = [p \in Procs |-> NoBlock]

(* The caller holds the only buffer of the block.                          *)
Call(p, kind, b, v) ==
    /\ call[p] = "none"
    /\ \A q \in Procs : blk[q] # b
    /\ call' = [call EXCEPT ![p] = kind]
    /\ blk' = [blk EXCEPT ![p] = b]
    /\ buf' = IF kind = "write" THEN [buf EXCEPT ![p] = v] ELSE buf
    /\ UNCHANGED disk

Transfer(p) ==
    /\ \/ /\ call[p] = "read"
          /\ buf' = [buf EXCEPT ![p] = disk[blk[p]]]
          /\ UNCHANGED disk
       \/ /\ call[p] = "write"
          /\ disk' = [disk EXCEPT ![blk[p]] = buf[p]]
          /\ UNCHANGED buf
    /\ call' = [call EXCEPT ![p] = "done"]
    /\ UNCHANGED blk

Return(p) ==
    /\ call[p] = "done"
    /\ call' = [call EXCEPT ![p] = "none"]
    /\ blk' = [blk EXCEPT ![p] = NoBlock]
    /\ buf' = [buf EXCEPT ![p] = NoData]    \* the caller's from here on
    /\ UNCHANGED disk

Next ==
    \E p \in Procs :
        \/ \E kind \in {"read", "write"}, b \in Blocks, v \in Vals : Call(p, kind, b, v)
        \/ Transfer(p)
        \/ Return(p)

Spec == Init /\ [][Next]_vars
=============================================================================
