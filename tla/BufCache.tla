------------------------------ MODULE BufCache ------------------------------
(***************************************************************************)
(* The buffer cache of xv6-riscv (kernel/bio.c) and the sleep locks of its *)
(* buffers (kernel/sleeplock.c).                                           *)
(*                                                                         *)
(* An action is one critical section under bcache.lock or under the        *)
(* spinlock inside a sleep lock, or one transfer by the disk driver (see   *)
(* VirtioDisk).  A process holds one buffer at a time.  It uses it the way *)
(* the log makes all of the file system use buffers: what it modifies is   *)
(* pinned before it is released, and unpinned after it has been written.   *)
(***************************************************************************)
EXTENDS Integers, Sequences, FiniteSets

CONSTANTS
    Procs,
    Bufs,       \* bcache.buf[NBUF]
    Blocks, Vals,
    NoBlock,    \* b->blockno of a buffer never used: dev 0 is no device
    Nobody,     \* a sleep lock nobody holds
    NoBuf,
    MaxPins     \* blocks pinned at the same time: the size of the log

ASSUME CacheAssumption ==
    /\ IsFiniteSet(Bufs) /\ Bufs # {} /\ IsFiniteSet(Procs)
    /\ NoBlock \notin Blocks /\ Nobody \notin Procs /\ NoBuf \notin Bufs
    /\ MaxPins \in Nat

VARIABLES
    disk,
    lru,                              \* the list from head.next (most recent) on
    blockno, valid, refcnt, data,     \* fields of the buffers
    locked,                           \* b->lock: its holder, or Nobody
    pinned,                           \* buffers the log has pinned
    pc, bp,                           \* each process: position, buffer in use
    asleep,                           \* processes asleep in acquiresleep()
    panicked

bufVars == <<blockno, valid, data>>
vars == <<disk, lru, blockno, valid, refcnt, data, locked, pinned, pc, bp, asleep, panicked>>

Points == {"user", "acquiresleep", "bread", "hold", "written", "brelse"}

TypeOK ==
    /\ disk \in [Blocks -> Vals]
    /\ lru \in [1..Cardinality(Bufs) -> Bufs] /\ {lru[i] : i \in DOMAIN lru} = Bufs
    /\ blockno \in [Bufs -> Blocks \cup {NoBlock}]
    /\ valid \in [Bufs -> BOOLEAN]
    /\ refcnt \in [Bufs -> Nat]
    /\ data \in [Bufs -> Vals]
    /\ locked \in [Bufs -> Procs \cup {Nobody}]
    /\ pinned \in SUBSET Bufs
    /\ pc \in [Procs -> Points]
    /\ bp \in [Procs -> Bufs \cup {NoBuf}]
    /\ asleep \in SUBSET Procs
    /\ panicked \in BOOLEAN

(* binit(): each buffer is linked in at the front.                         *)
Init ==
    /\ disk \in [Blocks -> Vals]
    /\ lru \in {s \in [1..Cardinality(Bufs) -> Bufs] : {s[i] : i \in DOMAIN s} = Bufs}
    /\ blockno = [b \in Bufs |-> NoBlock]
    /\ valid = [b \in Bufs |-> FALSE]
    /\ refcnt = [b \in Bufs |-> 0]
    /\ \E v \in Vals : data = [b \in Bufs |-> v]
    /\ locked = [b \in Bufs |-> Nobody]
    /\ pinned = {}
    /\ pc = [p \in Procs |-> "user"]
    /\ bp = [p \in Procs |-> NoBuf]
    /\ asleep = {}
    /\ panicked = FALSE

-----------------------------------------------------------------------------
At(p, point) == ~panicked /\ pc[p] = point /\ p \notin asleep
Goto(p, point) == pc' = [pc EXCEPT ![p] = point]

(* bget(): the two scans, under bcache.lock.                               *)
Cached(k) == {b \in Bufs : blockno[b] = k}
Unused == {i \in DOMAIN lru : refcnt[lru[i]] = 0}
LeastRecent == lru[CHOOSE i \in Unused : \A j \in Unused : j <= i]

bget_cached(p, k) ==
    /\ At(p, "user")
    /\ \E b \in Cached(k) :
          /\ refcnt' = [refcnt EXCEPT ![b] = @ + 1]
          /\ bp' = [bp EXCEPT ![p] = b]
    /\ Goto(p, "acquiresleep")
    /\ UNCHANGED <<disk, lru, bufVars, locked, pinned, asleep, panicked>>

bget_recycle_trusting(p, k) ==
    /\ At(p, "user")
    /\ Cached(k) = {} /\ Unused # {}
    /\ LET b == LeastRecent IN
          /\ blockno' = [blockno EXCEPT ![b] = k]
          /\ refcnt' = [refcnt EXCEPT ![b] = 1]
          /\ bp' = [bp EXCEPT ![p] = b]
    /\ Goto(p, "acquiresleep")
    /\ UNCHANGED <<disk, lru, valid, data, locked, pinned, asleep, panicked>>
bget_recycle(p, k) ==
    /\ At(p, "user")
    /\ Cached(k) = {} /\ Unused # {}
    /\ LET b == LeastRecent IN
          /\ blockno' = [blockno EXCEPT ![b] = k]
          /\ valid' = [valid EXCEPT ![b] = FALSE]
          /\ refcnt' = [refcnt EXCEPT ![b] = 1]
          /\ bp' = [bp EXCEPT ![p] = b]
    /\ Goto(p, "acquiresleep")
    /\ UNCHANGED <<disk, lru, data, locked, pinned, asleep, panicked>>

(* panic("bget: no buffers"), with bcache.lock held: no other process gets *)
(* any further.                                                            *)
bget_panic(p, k) ==
    /\ At(p, "user")
    /\ Cached(k) = {} /\ Unused = {}
    /\ panicked' = TRUE
    /\ UNCHANGED <<disk, lru, bufVars, refcnt, locked, pinned, pc, bp, asleep>>

-----------------------------------------------------------------------------
(* acquiresleep() and the rest of bread()                                  *)

sleep(p) ==
    /\ At(p, "acquiresleep")
    /\ locked[bp[p]] # Nobody
    /\ asleep' = asleep \cup {p}
    /\ UNCHANGED <<disk, lru, bufVars, refcnt, locked, pinned, pc, bp, panicked>>

acquiresleep(p) ==
    /\ At(p, "acquiresleep")
    /\ locked[bp[p]] = Nobody
    /\ locked' = [locked EXCEPT ![bp[p]] = p]
    /\ Goto(p, "bread")
    /\ UNCHANGED <<disk, lru, bufVars, refcnt, pinned, bp, asleep, panicked>>

bread(p) ==
    LET b == bp[p] IN
    /\ At(p, "bread")
    /\ data' = IF valid[b] THEN data ELSE [data EXCEPT ![b] = disk[blockno[b]]]
    /\ valid' = [valid EXCEPT ![b] = TRUE]
    /\ Goto(p, "hold")
    /\ UNCHANGED <<disk, lru, blockno, refcnt, locked, pinned, bp, asleep, panicked>>

-----------------------------------------------------------------------------
(* What the holder does: log_write() after a change, or install_trans()    *)

bpin_lost(b) == refcnt
bpin(b) == [refcnt EXCEPT ![b] = @ + 1]
bunpin(b) == [refcnt EXCEPT ![b] = @ - 1]

log_write(p, v) ==
    LET b == bp[p] IN
    /\ At(p, "hold")
    /\ b \in pinned \/ Cardinality(pinned) < MaxPins
    /\ data' = [data EXCEPT ![b] = v]
    /\ refcnt' = IF b \in pinned THEN refcnt ELSE bpin(b)
    /\ pinned' = pinned \cup {b}
    /\ UNCHANGED <<disk, lru, blockno, valid, locked, pc, bp, asleep, panicked>>

bwrite(p) ==
    /\ At(p, "hold")
    /\ bp[p] \in pinned
    /\ disk' = [disk EXCEPT ![blockno[bp[p]]] = data[bp[p]]]
    /\ Goto(p, "written")
    /\ UNCHANGED <<lru, bufVars, refcnt, locked, pinned, bp, asleep, panicked>>

install(p) ==
    /\ At(p, "written")
    /\ refcnt' = bunpin(bp[p])
    /\ pinned' = pinned \ {bp[p]}
    /\ Goto(p, "hold")
    /\ UNCHANGED <<disk, lru, bufVars, locked, bp, asleep, panicked>>

-----------------------------------------------------------------------------
(* brelse()                                                                *)

(* wakeup(lk), inside the sleep lock's spinlock                            *)
WakeNobody(b) == asleep
Wakeup(b) == {p \in asleep : bp[p] # b}

releasesleep(p) ==
    /\ At(p, "hold")
    /\ locked' = [locked EXCEPT ![bp[p]] = Nobody]
    /\ asleep' = Wakeup(bp[p])
    /\ Goto(p, "brelse")
    /\ UNCHANGED <<disk, lru, bufVars, refcnt, pinned, bp, panicked>>

(* The list with b unlinked, and linked in again at the front.             *)
Position(b) == CHOOSE i \in DOMAIN lru : lru[i] = b
ToFront(b) ==
    [i \in DOMAIN lru |->
        IF i = 1 THEN b ELSE IF i <= Position(b) THEN lru[i - 1] ELSE lru[i]]

brelse(p) ==
    LET b == bp[p] IN
    /\ At(p, "brelse")
    /\ refcnt' = [refcnt EXCEPT ![b] = @ - 1]
    /\ lru' = IF refcnt[b] = 1 THEN ToFront(b) ELSE lru
    /\ bp' = [bp EXCEPT ![p] = NoBuf]
    /\ Goto(p, "user")
    /\ UNCHANGED <<disk, bufVars, locked, pinned, asleep, panicked>>

-----------------------------------------------------------------------------
Next ==
    \E p \in Procs :
        \/ \E k \in Blocks : bget_cached(p, k) \/ bget_recycle(p, k) \/ bget_panic(p, k)
        \/ sleep(p) \/ acquiresleep(p) \/ bread(p)
        \/ \E v \in Vals : log_write(p, v)
        \/ bwrite(p) \/ install(p)
        \/ releasesleep(p) \/ brelse(p)

Spec == Init /\ [][Next]_vars

-----------------------------------------------------------------------------
(* Refinement of BlockStore                                                *)
Current(k) == {b \in Cached(k) : valid[b]}
View == [k \in Blocks |-> IF Current(k) = {} THEN disk[k] ELSE data[CHOOSE b \in Current(k) : TRUE]]
Holders(k) == {p \in Procs : pc[p] \in {"hold", "written"} /\ blockno[bp[p]] = k}
Holder == [k \in Blocks |-> IF Holders(k) = {} THEN Nobody ELSE CHOOSE p \in Holders(k) : TRUE]

BS == INSTANCE BlockStore WITH view <- View, holder <- Holder

(* Every process sees every block as it was left by the last one that held *)
(* it, whatever is recycled, reread or written back in between.            *)
ImplementsBlockStore == BS!Spec

(* A block has at most one buffer, and b->refcnt is exactly the number of  *)
(* processes that use the buffer, wait for it or are about to leave it,    *)
(* plus the log's pin: nothing in use is ever recycled and nothing leaks.  *)
RefcntExact ==
    /\ \A b, c \in Bufs : blockno[b] = blockno[c] /\ blockno[b] # NoBlock => b = c
    /\ \A b \in Bufs :
          refcnt[b] = Cardinality({p \in Procs : bp[p] = b}) + (IF b \in pinned THEN 1 ELSE 0)

(* Nobody sleeps for a buffer that is not locked.                          *)
NoSleepOnFree == \A p \in asleep : locked[bp[p]] # Nobody

-----------------------------------------------------------------------------
(* The parts of an inductive invariant.                                    *)

Locking == {"bread", "hold", "written"}
Reading == {"hold", "written"}

(* Who uses which buffer, and who has it locked.                           *)
HoldInv ==
    /\ \A p \in Procs : bp[p] = NoBuf <=> pc[p] = "user"
    /\ \A p \in Procs, b \in Bufs : locked[b] = p <=> bp[p] = b /\ pc[p] \in Locking
    /\ \A p \in asleep : pc[p] = "acquiresleep"

(* A buffer in use or valid has a block; a pinned one and one between      *)
(* bread() and brelse() are valid.                                         *)
ValidInv ==
    /\ \A p \in Procs : bp[p] # NoBuf => blockno[bp[p]] # NoBlock
    /\ \A p \in Procs : pc[p] \in Reading => valid[bp[p]]
    /\ \A b \in Bufs : b \in pinned => valid[b]
    /\ \A b \in Bufs : valid[b] => blockno[b] # NoBlock

(* Only a pinned buffer differs from the disk, and no longer once it has   *)
(* been written.                                                           *)
CleanInv ==
    /\ \A b \in Bufs : valid[b] /\ b \notin pinned => data[b] = disk[blockno[b]]
    /\ \A p \in Procs : pc[p] = "written" => bp[p] \in pinned /\ data[bp[p]] = disk[blockno[bp[p]]]

IInv == TypeOK /\ HoldInv /\ ValidInv /\ CleanInv /\ RefcntExact /\ NoSleepOnFree
=============================================================================
