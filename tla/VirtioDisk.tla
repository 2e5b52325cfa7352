----------------------------- MODULE VirtioDisk -----------------------------
(***************************************************************************)
(* The virtio disk driver of xv6-riscv (kernel/virtio_disk.c): processes   *)
(* in virtio_disk_rw(), the interrupt handler, and the device, which share *)
(* descriptors and two rings in memory.                                    *)
(*                                                                         *)
(* What a process does in one critical section under vdisk_lock is one     *)
(* action, since the device sees nothing of it before avail->idx moves.    *)
(* The handler also holds vdisk_lock but races with the device, so each    *)
(* of its accesses to a register or to used->idx is an action.             *)
(* Ring entries that have been consumed and the header of a request that   *)
(* is over keep their contents in the code; here they are reset.           *)
(***************************************************************************)
EXTENDS Integers, FiniteSets

CONSTANTS
    Procs,      \* processes; each holds one locked buffer during a call
    Blocks, Vals,
    NoBlock,    \* the process is not in virtio_disk_rw()
    NoBuf,      \* the null pointer in info[].b
    NoData,     \* b->data before a read, and outside of virtio_disk_rw()
    NUM,        \* descriptors, and entries of each ring
    IDX         \* 2^16: the ring indices are uint16

ASSUME DiskAssumption ==
    /\ IsFiniteSet(Procs)
    /\ NUM \in Nat /\ NUM >= 3
    /\ IDX \in Nat \ {0} /\ IDX % NUM = 0
    /\ NoBuf \notin Procs /\ NoBlock \notin Blocks /\ NoData \notin Vals

VARIABLES
    disk,                      \* the blocks themselves
    buf, bdisk,                \* b->data and b->disk of each process's buffer
    free, desc, ops, info,     \* disk.free, desc, ops, info
    avail, avail_idx,          \* the avail ring and its index
    used, used_hw,             \* the used ring and disk.used->idx
    used_idx,                  \* disk.used_idx
    intr,                      \* where virtio_disk_intr() is; it holds vdisk_lock unless idle
    isr,                       \* VIRTIO_MMIO_INTERRUPT_STATUS
    seen, inflight, late,      \* the device: avail entries fetched, requests in work,
                               \*   and whether it has yet to raise the interrupt
    pc, chan, idx, arg         \* each process: position, sleep channel, locals, arguments

bufVars == <<disk, buf>>
descVars == <<free, desc, ops, info>>
ringVars == <<avail, avail_idx, used, used_hw, used_idx>>
devVars == <<isr, seen, inflight, late>>
procVars == <<pc, chan, idx, arg>>
vars == <<disk, buf, bdisk, free, desc, ops, info, avail, avail_idx, used, used_hw, used_idx,
          intr, isr, seen, inflight, late, pc, chan, idx, arg>>

Slots == 0..NUM - 1
NoDesc == [addr |-> <<"zero", 0>>, next |-> 0, flags |-> {}]
(* How many entries one uint16 index is ahead of another.                  *)
Ahead(a, b) == (a - b) % IDX

Requests == [kind : {"read", "write"}, sector : Blocks]
NoReq == [kind |-> "read", sector |-> NoBlock]

TypeOK ==
    /\ disk \in [Blocks -> Vals] /\ buf \in [Procs -> Vals \cup {NoData}]
    /\ bdisk \in [Procs -> {0, 1}]
    /\ free \subseteq Slots /\ inflight \subseteq Slots
    /\ DOMAIN desc = Slots /\ \A s \in Slots : desc[s].next \in Slots
    /\ ops \in [Slots -> Requests \cup {NoReq}]
    /\ info \in [Slots -> [b : Procs \cup {NoBuf}, status : {0, 255}]]
    /\ avail \in [Slots -> Slots] /\ used \in [Slots -> Slots]
    /\ {avail_idx, used_hw, used_idx, seen} \subseteq 0..IDX - 1
    /\ Ahead(avail_idx, seen) + Ahead(used_hw, used_idx) + Cardinality(inflight) <= NUM \div 3
    /\ intr \in {"idle", "ack", "loop"} /\ isr \in BOOLEAN /\ late \in BOOLEAN
    /\ pc \in [Procs -> {"user", "alloc", "wait"}]
    /\ chan \in [Procs -> {"none", "free", "b"}]
    /\ idx \in [Procs -> Slots \X Slots \X Slots]
    /\ arg \in [Procs -> Requests \cup {NoReq}]

(* After virtio_disk_init().                                               *)
Init ==
    /\ disk \in [Blocks -> Vals] /\ buf = [p \in Procs |-> NoData]
    /\ bdisk = [p \in Procs |-> 0]
    /\ free = Slots
    /\ desc = [s \in Slots |-> NoDesc]
    /\ ops = [s \in Slots |-> NoReq]
    /\ info = [s \in Slots |-> [b |-> NoBuf, status |-> 0]]
    /\ avail = [s \in Slots |-> 0] /\ used = [s \in Slots |-> 0]
    /\ avail_idx = 0 /\ used_hw = 0 /\ used_idx = 0 /\ seen = 0
    /\ intr = "idle" /\ isr = FALSE /\ late = FALSE
    /\ inflight = {}
    /\ pc = [p \in Procs |-> "user"]
    /\ chan = [p \in Procs |-> "none"]
    /\ idx = [p \in Procs |-> <<0, 0, 0>>]
    /\ arg = [p \in Procs |-> NoReq]

-----------------------------------------------------------------------------
(* Descriptors                                                             *)

Unlocked == intr = "idle"

(* alloc_desc() takes the first free descriptor.                           *)
alloc_desc(S) == CHOOSE s \in S : \A t \in S : s <= t

alloc3_desc ==
    LET a == alloc_desc(free)
        b == alloc_desc(free \ {a})
        c == alloc_desc(free \ {a, b})
    IN  <<a, b, c>>

(* The descriptors that free_chain(i) frees.                               *)
HeadOnly(i) == {i}
free_chain(i) ==
    LET Follow(S) == {desc[s].next : s \in {t \in S : "NEXT" \in desc[t].flags}}
    IN  {i} \cup Follow({i}) \cup Follow(Follow({i}))

(* wakeup(&disk.free[0]), called by every free_desc().                     *)
FreeUnannounced(ch) == ch
WakeFree(ch) == [p \in Procs |-> IF ch[p] = "free" THEN "none" ELSE ch[p]]

-----------------------------------------------------------------------------
(* virtio_disk_rw(b, write), called by a process with b locked             *)

(* No two processes hold buffers of the same block.  b->data matters only  *)
(* if it is to be written.                                                 *)
virtio_disk_rw(p, r, v) ==
    /\ pc[p] = "user"
    /\ \A q \in Procs : arg[q].sector # r.sector
    /\ pc' = [pc EXCEPT ![p] = "alloc"]
    /\ arg' = [arg EXCEPT ![p] = r]
    /\ buf' = IF r.kind = "write" THEN [buf EXCEPT ![p] = v] ELSE buf
    /\ UNCHANGED <<disk, bdisk, descVars, ringVars, intr, devVars, chan, idx>>

(* alloc3_desc() fails: whatever it got is freed again, with a wakeup.     *)
alloc_fails(p) ==
    /\ pc[p] = "alloc" /\ chan[p] = "none" /\ Unlocked
    /\ Cardinality(free) < 3
    /\ chan' = [(IF free = {} THEN chan ELSE WakeFree(chan)) EXCEPT ![p] = "free"]
    /\ UNCHANGED <<bufVars, bdisk, descVars, ringVars, intr, devVars, pc, idx, arg>>

(* Format the three descriptors, pass them to the device, sleep.           *)
submit(p) ==
    LET i == alloc3_desc IN
    /\ pc[p] = "alloc" /\ chan[p] = "none" /\ Unlocked
    /\ Cardinality(free) >= 3
    /\ idx' = [idx EXCEPT ![p] = i]
    /\ free' = free \ {i[1], i[2], i[3]}
    /\ ops' = [ops EXCEPT ![i[1]] = arg[p]]
    /\ desc' = [desc EXCEPT
          ![i[1]] = [addr |-> <<"op", i[1]>>, next |-> i[2], flags |-> {"NEXT"}],
          ![i[2]] = [addr |-> <<"buf", p>>, next |-> i[3],
                     flags |-> IF arg[p].kind = "write" THEN {"NEXT"} ELSE {"NEXT", "WRITE"}],
          ![i[3]] = [addr |-> <<"status", i[1]>>, next |-> 0, flags |-> {"WRITE"}]]
    /\ info' = [info EXCEPT ![i[1]] = [b |-> p, status |-> 255]]
    /\ bdisk' = [bdisk EXCEPT ![p] = 1]
    /\ avail' = [avail EXCEPT ![avail_idx % NUM] = i[1]]
    /\ avail_idx' = (avail_idx + 1) % IDX
    /\ pc' = [pc EXCEPT ![p] = "wait"]
    /\ chan' = [chan EXCEPT ![p] = "b"]
    /\ UNCHANGED <<bufVars, used, used_hw, used_idx, intr, devVars, arg>>

(* while(b->disk == 1)                                                     *)
AwakeMeansFinished(p) == TRUE
Finished(p) == bdisk[p] = 0

(* Woken by kill(): sleep again.                                           *)
wait_again(p) ==
    /\ pc[p] = "wait" /\ chan[p] = "none" /\ Unlocked
    /\ ~Finished(p)
    /\ chan' = [chan EXCEPT ![p] = "b"]
    /\ UNCHANGED <<bufVars, bdisk, descVars, ringVars, intr, devVars, pc, idx, arg>>

finish(p) ==
    LET chain == free_chain(idx[p][1]) IN
    /\ pc[p] = "wait" /\ chan[p] = "none" /\ Unlocked
    /\ Finished(p)
    /\ info' = [info EXCEPT ![idx[p][1]].b = NoBuf]
    /\ free' = free \cup chain
    /\ desc' = [s \in Slots |-> IF s \in chain THEN NoDesc ELSE desc[s]]
    /\ ops' = [ops EXCEPT ![idx[p][1]] = NoReq]
    /\ chan' = WakeFree(chan)
    /\ pc' = [pc EXCEPT ![p] = "user"]
    /\ idx' = [idx EXCEPT ![p] = <<0, 0, 0>>]
    /\ arg' = [arg EXCEPT ![p] = NoReq]
    /\ buf' = [buf EXCEPT ![p] = NoData]
    /\ UNCHANGED <<disk, bdisk, ringVars, intr, devVars>>

(* kill() by another process wakes a sleeper, whatever it sleeps on.       *)
kill(p) ==
    /\ chan[p] # "none"
    /\ chan' = [chan EXCEPT ![p] = "none"]
    /\ UNCHANGED <<bufVars, bdisk, descVars, ringVars, intr, devVars, pc, idx, arg>>

-----------------------------------------------------------------------------
(* The device                                                              *)

fetch ==
    /\ seen # avail_idx
    /\ inflight' = inflight \cup {avail[seen % NUM]}
    /\ avail' = [avail EXCEPT ![seen % NUM] = 0]
    /\ seen' = (seen + 1) % IDX
    /\ UNCHANGED <<bufVars, bdisk, descVars, avail_idx, used, used_hw, used_idx, intr, isr, late, procVars>>

(* It follows the chain, moves the data, writes the status.  Requests      *)
(* complete in any order.                                                  *)
Target(a) == {p \in Procs : a = <<"buf", p>>}
complete(i) ==
    LET data == desc[desc[i].next]
        stat == desc[data.next]
    IN
    /\ i \in inflight
    /\ inflight' = inflight \ {i}
    /\ \E p \in Target(data.addr) :
          IF ops[i].kind = "write"
          THEN /\ disk' = [disk EXCEPT ![ops[i].sector] = buf[p]]
               /\ UNCHANGED buf
          ELSE /\ "WRITE" \in data.flags
               /\ buf' = [buf EXCEPT ![p] = disk[ops[i].sector]]
               /\ UNCHANGED disk
    /\ info' = [info EXCEPT ![stat.addr[2]].status = 0]
    /\ used' = [used EXCEPT ![used_hw % NUM] = i]
    /\ used_hw' = (used_hw + 1) % IDX
    /\ late' = TRUE
    /\ UNCHANGED <<bdisk, free, desc, ops, avail, avail_idx, used_idx, intr, isr, seen, procVars>>

raise ==
    /\ late
    /\ late' = FALSE
    /\ isr' = TRUE
    /\ UNCHANGED <<bufVars, bdisk, descVars, ringVars, intr, seen, inflight, procVars>>

-----------------------------------------------------------------------------
(* virtio_disk_intr()                                                      *)

intr_enter ==
    /\ isr /\ Unlocked
    /\ intr' = "ack"
    /\ UNCHANGED <<bufVars, bdisk, descVars, ringVars, devVars, procVars>>

intr_ack ==
    /\ intr = "ack"
    /\ intr' = "loop"
    /\ isr' = FALSE
    /\ UNCHANGED <<bufVars, bdisk, descVars, ringVars, seen, inflight, late, procVars>>

(* One iteration: the buffer is done, wakeup(b).                           *)
intr_entry_stays ==
    LET b == info[used[used_idx % NUM]].b IN
    /\ intr = "loop"
    /\ used_idx # used_hw
    /\ b # NoBuf
    /\ bdisk' = [bdisk EXCEPT ![b] = 0]
    /\ chan' = [chan EXCEPT ![b] = IF @ = "b" THEN "none" ELSE @]
    /\ intr' = "idle"
    /\ UNCHANGED <<bufVars, descVars, ringVars, devVars, pc, idx, arg>>
intr_entry ==
    LET b == info[used[used_idx % NUM]].b IN
    /\ intr = "loop"
    /\ used_idx # used_hw
    /\ b # NoBuf
    /\ bdisk' = [bdisk EXCEPT ![b] = 0]
    /\ chan' = [chan EXCEPT ![b] = IF @ = "b" THEN "none" ELSE @]
    /\ used' = [used EXCEPT ![used_idx % NUM] = 0]
    /\ used_idx' = (used_idx + 1) % IDX
    /\ UNCHANGED <<bufVars, descVars, avail, avail_idx, used_hw, intr, devVars, pc, idx, arg>>

intr_exit_early ==
    /\ intr = "loop"
    /\ intr' = "idle"
    /\ UNCHANGED <<bufVars, bdisk, descVars, ringVars, devVars, procVars>>
intr_exit ==
    /\ intr = "loop"
    /\ used_idx = used_hw
    /\ intr' = "idle"
    /\ UNCHANGED <<bufVars, bdisk, descVars, ringVars, devVars, procVars>>

-----------------------------------------------------------------------------
Device == fetch \/ raise \/ \E i \in Slots : complete(i)
Handler == intr_enter \/ intr_ack \/ intr_entry \/ intr_exit

Next ==
    \/ \E p \in Procs :
          \/ \E r \in Requests, v \in Vals : virtio_disk_rw(p, r, v)
          \/ alloc_fails(p) \/ submit(p) \/ wait_again(p) \/ finish(p) \/ kill(p)
    \/ Device
    \/ Handler

Spec == Init /\ [][Next]_vars

-----------------------------------------------------------------------------
(* Refinement of BlockDevice: a transfer is over when the device has       *)
(* overwritten the 0xff in the status byte.                                *)
Call ==
    [p \in Procs |-> IF pc[p] = "user" THEN "none"
                     ELSE IF pc[p] = "wait" /\ info[idx[p][1]].status = 0 THEN "done"
                     ELSE arg[p].kind]
BD == INSTANCE BlockDevice WITH call <- Call, blk <- [p \in Procs |-> arg[p].sector]

(* virtio_disk_rw() returns when its own block has been transferred, and   *)
(* not because of a kill, of another request's completion, or of an entry  *)
(* of the used ring from an earlier turn.                                  *)
ImplementsBlockDevice == BD!Spec

(* No descriptor leaks, and none is in two chains or freed twice           *)
(* (panic("free_desc 2")): those not free are the chains of the waiting    *)
(* processes, and these are disjoint.                                      *)
Waiting == {p \in Procs : pc[p] = "wait"}
Chain(p) == {idx[p][1], idx[p][2], idx[p][3]}
DescriptorsOwned ==
    /\ free = Slots \ UNION {Chain(p) : p \in Waiting}
    /\ \A p, q \in Waiting : Chain(p) \cap Chain(q) # {} => p = q
    /\ \A p \in Waiting : Cardinality(Chain(p)) = 3

(* An entry of the used ring that the handler has not looked at belongs to *)
(* a request whose process still waits: no panic("virtio_disk_intr         *)
(* status"), no null buffer.                                               *)
UsedEntriesValid ==
    \A k \in 0..Ahead(used_hw, used_idx) - 1 :
        LET i == used[(used_idx + k) % NUM] IN
        /\ info[i].status = 0
        /\ info[i].b \in Waiting /\ bdisk[info[i].b] = 1 /\ idx[info[i].b][1] = i

(* Nobody sleeps for descriptors when three are free.                      *)
NoIdleDescriptors == Cardinality(free) >= 3 => \A p \in Procs : chan[p] # "free"

(* No completion is lost to the race between the handler's acknowledgement *)
(* and the device: an entry of the used ring has the handler's attention,  *)
(* or an interrupt that will get it; and nobody sleeps whose buffer is     *)
(* done.                                                                   *)
NoLostCompletion ==
    /\ used_idx # used_hw => late \/ isr \/ intr # "idle"
    /\ \A p \in Waiting : Finished(p) => chan[p] # "b"

-----------------------------------------------------------------------------
(* The parts of an inductive invariant.                                    *)

(* What a process sleeps for, and when its buffer is the device's.         *)
ProcInv ==
    \A p \in Procs :
        /\ pc[p] = "user" => chan[p] = "none"
        /\ pc[p] = "alloc" => chan[p] # "b"
        /\ pc[p] = "wait" => chan[p] # "free"
        /\ pc[p] = "user" <=> arg[p] = NoReq
        /\ pc[p] # "wait" => bdisk[p] = 0
        /\ pc[p] = "wait" /\ bdisk[p] = 0 => info[idx[p][1]].status = 0
        /\ arg[p].kind = "write" => buf[p] \in Vals

(* The chain of a waiting process is as virtio_disk_rw() has formatted it. *)
ChainInv ==
    \A p \in Waiting :
        LET head == idx[p][1]
            data == idx[p][2]
            stat == idx[p][3]
        IN  /\ desc[head].next = data /\ "NEXT" \in desc[head].flags
            /\ desc[data].next = stat /\ "NEXT" \in desc[data].flags
            /\ desc[data].addr = <<"buf", p>>
            /\ arg[p].kind = "read" => "WRITE" \in desc[data].flags
            /\ desc[stat].addr = <<"status", head>> /\ "NEXT" \notin desc[stat].flags
            /\ ops[head] = arg[p] /\ info[head].b = p

(* A request that the device has not completed, given its head.            *)
Pending(i) ==
    /\ info[i].status = 255
    /\ info[i].b \in Waiting /\ bdisk[info[i].b] = 1 /\ idx[info[i].b][1] = i

(* A request is in the avail ring, in the device or in the used ring, once.*)
RingInv ==
    /\ \A k \in 0..Ahead(avail_idx, seen) - 1 :
          /\ Pending(avail[(seen + k) % NUM])
          /\ avail[(seen + k) % NUM] \notin inflight
    /\ \A j, k \in 0..Ahead(avail_idx, seen) - 1 :
          avail[(seen + j) % NUM] = avail[(seen + k) % NUM] => j = k
    /\ \A i \in inflight : Pending(i)
    /\ \A j, k \in 0..Ahead(used_hw, used_idx) - 1 :
          used[(used_idx + j) % NUM] = used[(used_idx + k) % NUM] => j = k

(* The three descriptors of each request, and where each request is.       *)
CountInv ==
    /\ Cardinality(free) + 3 * Cardinality(Waiting) = NUM
    /\ Ahead(avail_idx, seen) + Ahead(used_hw, used_idx) + Cardinality(inflight)
        = Cardinality({p \in Waiting : ~Finished(p)})

IInv == /\ TypeOK /\ ProcInv /\ ChainInv /\ RingInv /\ CountInv
        /\ DescriptorsOwned /\ UsedEntriesValid /\ NoIdleDescriptors /\ NoLostCompletion
=============================================================================
