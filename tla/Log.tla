-------------------------------- MODULE Log ---------------------------------
(***************************************************************************)
(* The write-ahead log of the xv6-riscv file system (kernel/log.c) with    *)
(* the parts of the buffer cache (kernel/bio.c) that its correctness rests *)
(* on, power failures at every point, and recovery at the next boot.       *)
(*                                                                         *)
(* One action is one critical section under log.lock, or one disk write    *)
(* of commit() or recover_from_log().  A block is written atomically; the  *)
(* driver (kernel/virtio_disk.c) returns only when the write is complete,  *)
(* so a crash falls before or after it.  The cached copies of the log      *)
(* blocks and of the header never differ from the disk between two         *)
(* actions and are not represented.                                        *)
(***************************************************************************)
EXTENDS Integers, Sequences, FiniteSets

CONSTANTS
    Procs,         \* processes that make file-system calls
    Blocks,        \* block numbers outside the log
    Vals,          \* contents of a block
    NotCached,     \* no buffer of the cache holds the block
    MAXOPBLOCKS,   \* max # of blocks any FS op writes        (param.h:10)
    LOGSIZE,       \* entries of logheader.block              (param.h:11)
    NLOG           \* log.size: sb.nlog, header block included

ASSUME LogAssumption ==
    /\ IsFiniteSet(Procs)
    /\ NotCached \notin Vals
    /\ MAXOPBLOCKS \in Nat \ {0}
    /\ LOGSIZE \in Nat \ {0}
    /\ NLOG \in Nat

VARIABLES
    disk,          \* home locations on the disk
    logdata,       \* the log's data blocks on the disk
    dhead,         \* the header block on the disk: its n and block[]
    cache,         \* the buffer that holds each block, if any
    refcnt,        \* what bpin() adds to b->refcnt
    lh,            \* log.lh: block numbers logged since the last commit
    outstanding,   \* log.outstanding
    committing,    \* log.committing
    pc,            \* where each process is in the log's interface
    asleep,        \* processes sleeping on &log in begin_op()
    wset,          \* blocks logged by the call each process is in
    tail,          \* loop counter of write_log() and install_trans()
    sys            \* "off", recovery's phases, "up", or "panic"

diskVars == <<disk, logdata, dhead>>
memVars  == <<cache, refcnt, lh>>
ctlVars  == <<outstanding, committing, asleep>>
vars == <<disk, logdata, dhead, cache, refcnt, lh, outstanding, committing,
          pc, asleep, wset, tail, sys>>

(* The phases of commit(), in the order commit() calls them.               *)
CommitPhases == {"write_log", "write_head", "install_trans", "erase", "committed"}
Phases == {"user", "begin_op", "op"} \cup CommitPhases

TypeOK ==
    /\ disk \in [Blocks -> Vals]
    /\ logdata \in [1..LOGSIZE -> Vals]
    /\ dhead \in Seq(Blocks) /\ Len(dhead) <= LOGSIZE
    /\ cache \in [Blocks -> Vals \cup {NotCached}]
    /\ refcnt \in [Blocks -> Nat]
    /\ lh \in Seq(Blocks) /\ Len(lh) <= LOGSIZE
    /\ outstanding \in Nat
    /\ committing \in BOOLEAN
    /\ pc \in [Procs -> Phases]
    /\ asleep \in SUBSET Procs
    /\ wset \in [Procs -> SUBSET Blocks]
    /\ tail \in Nat
    /\ sys \in {"off", "recover", "clear", "up", "panic"}

(* A disk image and the memory of a machine that has not booted.           *)
Memory0 ==
    /\ cache = [b \in Blocks |-> NotCached]
    /\ refcnt = [b \in Blocks |-> 0]
    /\ lh = <<>>
    /\ outstanding = 0
    /\ committing = FALSE
    /\ pc = [p \in Procs |-> "user"]
    /\ asleep = {}
    /\ wset = [p \in Procs |-> {}]
    /\ tail = 0
    /\ sys = "off"

Init ==
    /\ disk \in [Blocks -> Vals]
    /\ logdata \in [1..LOGSIZE -> Vals]
    /\ dhead = <<>>
    /\ Memory0

-----------------------------------------------------------------------------
(* The buffer cache, as far as the log depends on it.                      *)

(* bread(): the cached copy, or what the disk holds.                       *)
Content(b) == IF cache[b] = NotCached THEN disk[b] ELSE cache[b]
Filled(b, v) == [cache EXCEPT ![b] = v]

PinForgotten(b) == refcnt
bpin(b) == [refcnt EXCEPT ![b] = @ + 1]
bunpin(b) == [refcnt EXCEPT ![b] = @ - 1]

(* A process that reads a block leaves it in the cache.                    *)
Read(b) ==
    /\ sys = "up"
    /\ cache[b] = NotCached
    /\ cache' = Filled(b, disk[b])
    /\ UNCHANGED <<diskVars, refcnt, lh, ctlVars, pc, wset, tail, sys>>

(* bget() recycles the buffer of any block nobody refers to.               *)
Recycle(b) ==
    /\ sys \in {"up", "recover", "clear"}
    /\ cache[b] # NotCached
    /\ refcnt[b] = 0
    /\ cache' = Filled(b, NotCached)
    /\ UNCHANGED <<diskVars, refcnt, lh, ctlVars, pc, wset, tail, sys>>

-----------------------------------------------------------------------------
(* begin_op, log_write, end_op                                             *)

(* wakeup(&log), called with log.lock held                                 *)
WakeupForgotten == asleep
Wakeup == {}

(* log.lh.n + (log.outstanding+1)*MAXOPBLOCKS > LOGSIZE                    *)
NoSpaceOffByOne == Len(lh) + outstanding * MAXOPBLOCKS > LOGSIZE
NoSpace == Len(lh) + (outstanding + 1) * MAXOPBLOCKS > LOGSIZE

SysCall(p) ==
    /\ sys = "up"
    /\ pc[p] = "user"
    /\ pc' = [pc EXCEPT ![p] = "begin_op"]
    /\ UNCHANGED <<diskVars, memVars, ctlVars, wset, tail, sys>>

Sleep(p) ==
    /\ sys = "up"
    /\ pc[p] = "begin_op" /\ p \notin asleep
    /\ committing \/ NoSpace
    /\ asleep' = asleep \cup {p}
    /\ UNCHANGED <<diskVars, memVars, outstanding, committing, pc, wset, tail, sys>>

begin_op(p) ==
    /\ sys = "up"
    /\ pc[p] = "begin_op" /\ p \notin asleep
    /\ ~committing /\ ~NoSpace
    /\ outstanding' = outstanding + 1
    /\ pc' = [pc EXCEPT ![p] = "op"]
    /\ UNCHANGED <<diskVars, memVars, committing, asleep, wset, tail, sys>>

(* The first two tests of log_write(); each ends in panic().               *)
TooBig == Len(lh) >= LOGSIZE \/ Len(lh) >= NLOG - 1 \/ outstanding < 1

(* The loop over log.lh.block[] and what follows it: absorption.           *)
Logged(b) == \E i \in 1..Len(lh) : lh[i] = b

(* A call writes at most MAXOPBLOCKS distinct blocks: the callers' duty.   *)
WithinBudget(p, b) == Cardinality(wset[p] \cup {b}) <= MAXOPBLOCKS

(* bp = bread(b); modify bp->data; log_write(bp); brelse(bp)               *)
log_write(p, b, v) ==
    /\ sys = "up"
    /\ pc[p] = "op"
    /\ WithinBudget(p, b)
    /\ ~TooBig
    /\ cache' = Filled(b, v)
    /\ lh' = IF Logged(b) THEN lh ELSE Append(lh, b)
    /\ refcnt' = IF Logged(b) THEN refcnt ELSE bpin(b)
    /\ wset' = [wset EXCEPT ![p] = @ \cup {b}]
    /\ UNCHANGED <<diskVars, ctlVars, pc, tail, sys>>

(* panic("too big a transaction"), log.lock held for ever                  *)
log_write_panic(p, b) ==
    /\ sys = "up"
    /\ pc[p] = "op"
    /\ WithinBudget(p, b)
    /\ TooBig
    /\ sys' = "panic"
    /\ UNCHANGED <<diskVars, memVars, ctlVars, pc, wset, tail>>

(* log.outstanding == 0 after the decrement                                *)
LastCall == outstanding = 1

(* The last outstanding call commits; any other one has freed log space.   *)
end_op(p) ==
    /\ sys = "up"
    /\ pc[p] = "op"
    /\ outstanding' = outstanding - 1
    /\ sys' = IF committing THEN "panic" ELSE "up"
    /\ wset' = [wset EXCEPT ![p] = {}]
    /\ \/ /\ LastCall
          /\ committing' = TRUE
          /\ pc' = [pc EXCEPT ![p] = IF lh = <<>> THEN "committed" ELSE "write_log"]
          /\ tail' = 0
          /\ UNCHANGED asleep
       \/ /\ ~LastCall
          /\ asleep' = Wakeup
          /\ pc' = [pc EXCEPT ![p] = "user"]
          /\ UNCHANGED <<committing, tail>>
    /\ UNCHANGED <<diskVars, memVars>>

-----------------------------------------------------------------------------
(* commit, run by the process whose end_op() was the last one              *)

Goto(p, phase) == pc' = [pc EXCEPT ![p] = phase]

(* One iteration of write_log(), and its exit.                             *)
write_log(p) ==
    /\ sys = "up"
    /\ pc[p] = "write_log"
    /\ \/ /\ tail < Len(lh)
          /\ logdata' = [logdata EXCEPT ![tail + 1] = Content(lh[tail + 1])]
          /\ cache' = Filled(lh[tail + 1], Content(lh[tail + 1]))
          /\ tail' = tail + 1
          /\ UNCHANGED pc
       \/ /\ tail = Len(lh)
          /\ Goto(p, "write_head")
          /\ UNCHANGED <<logdata, cache, tail>>
    /\ UNCHANGED <<disk, dhead, refcnt, lh, ctlVars, wset, sys>>

(* The first write_head() of commit(): the commit point.                   *)
write_head(p) ==
    /\ sys = "up"
    /\ pc[p] = "write_head"
    /\ dhead' = lh
    /\ tail' = 0
    /\ Goto(p, "install_trans")
    /\ UNCHANGED <<disk, logdata, memVars, ctlVars, wset, sys>>

(* One iteration of install_trans(recovering): copy the log block to its   *)
(* home location, on the disk and in the cache.                            *)
InstallAlwaysUnpins(recovering) ==
    /\ disk' = [disk EXCEPT ![lh[tail + 1]] = logdata[tail + 1]]
    /\ cache' = Filled(lh[tail + 1], logdata[tail + 1])
    /\ refcnt' = bunpin(lh[tail + 1])
    /\ tail' = tail + 1
InstallWrongSlot(recovering) ==
    /\ disk' = [disk EXCEPT ![lh[tail + 1]] = logdata[IF tail = 0 THEN 1 ELSE tail]]
    /\ cache' = Filled(lh[tail + 1], logdata[tail + 1])
    /\ refcnt' = IF recovering THEN refcnt ELSE bunpin(lh[tail + 1])
    /\ tail' = tail + 1
Install(recovering) ==
    /\ disk' = [disk EXCEPT ![lh[tail + 1]] = logdata[tail + 1]]
    /\ cache' = Filled(lh[tail + 1], logdata[tail + 1])
    /\ refcnt' = IF recovering THEN refcnt ELSE bunpin(lh[tail + 1])
    /\ tail' = tail + 1

(* install_trans(0) in commit()                                            *)
install_trans(p) ==
    /\ sys = "up"
    /\ pc[p] = "install_trans"
    /\ \/ /\ tail < Len(lh)
          /\ Install(FALSE)
          /\ UNCHANGED pc
       \/ /\ tail = Len(lh)
          /\ Goto(p, "erase")
          /\ UNCHANGED <<disk, cache, refcnt, tail>>
    /\ UNCHANGED <<logdata, dhead, lh, ctlVars, wset, sys>>

(* log.lh.n = 0; write_head()                                              *)
erase(p) ==
    /\ sys = "up"
    /\ pc[p] = "erase"
    /\ lh' = <<>>
    /\ dhead' = <<>>
    /\ Goto(p, "committed")
    /\ UNCHANGED <<disk, logdata, cache, refcnt, ctlVars, wset, tail, sys>>

(* The end of end_op(), after commit().                                    *)
end_commit(p) ==
    /\ sys = "up"
    /\ pc[p] = "committed"
    /\ committing' = FALSE
    /\ asleep' = Wakeup
    /\ Goto(p, "user")
    /\ UNCHANGED <<diskVars, memVars, outstanding, wset, tail, sys>>

-----------------------------------------------------------------------------
(* Power failure, and recover_from_log() at the next boot                  *)

Crash ==
    /\ sys # "off"
    /\ cache' = [b \in Blocks |-> NotCached]
    /\ refcnt' = [b \in Blocks |-> 0]
    /\ lh' = <<>>
    /\ outstanding' = 0
    /\ committing' = FALSE
    /\ pc' = [p \in Procs |-> "user"]
    /\ asleep' = {}
    /\ wset' = [p \in Procs |-> {}]
    /\ tail' = 0
    /\ sys' = "off"
    /\ UNCHANGED diskVars

read_head ==
    /\ sys = "off"
    /\ lh' = dhead
    /\ tail' = 0
    /\ sys' = "recover"
    /\ UNCHANGED <<diskVars, cache, refcnt, ctlVars, pc, wset>>

(* install_trans(1) in recover_from_log()                                  *)
recover_install ==
    /\ sys = "recover"
    /\ \/ /\ tail < Len(lh)
          /\ Install(TRUE)
          /\ UNCHANGED sys
       \/ /\ tail = Len(lh)
          /\ sys' = "clear"
          /\ UNCHANGED <<disk, cache, refcnt, tail>>
    /\ UNCHANGED <<logdata, dhead, lh, ctlVars, pc, wset>>

recover_clear ==
    /\ sys = "clear"
    /\ lh' = <<>>
    /\ dhead' = <<>>
    /\ sys' = "up"
    /\ UNCHANGED <<disk, logdata, cache, refcnt, ctlVars, pc, wset, tail>>

-----------------------------------------------------------------------------
Commit(p) == write_log(p) \/ write_head(p) \/ install_trans(p) \/ erase(p) \/ end_commit(p)
Recovery == read_head \/ recover_install \/ recover_clear

Next ==
    \/ \E b \in Blocks : Read(b) \/ Recycle(b)
    \/ \E p \in Procs : SysCall(p) \/ Sleep(p) \/ begin_op(p) \/ end_op(p) \/ Commit(p)
    \/ \E p \in Procs, b \in Blocks, v \in Vals : log_write(p, b, v)
    \/ \E p \in Procs, b \in Blocks : log_write_panic(p, b)
    \/ Recovery
    \/ Crash

Spec == Init /\ [][Next]_vars

(* The scheduler runs every runnable process, every file-system call ends, *)
(* every disk write completes.  Nothing forces a call, a read or a crash.  *)
Fairness ==
    /\ \A p \in Procs : WF_vars(Sleep(p) \/ begin_op(p)) /\ WF_vars(end_op(p)) /\ WF_vars(Commit(p))
    /\ WF_vars(Recovery)

FairSpec == Spec /\ Fairness

-----------------------------------------------------------------------------
(* Refinement of AtomicDisk                                                *)

(* The disk d after recovery has replayed a log with header h and blocks l: *)
(* entries are installed in order, so the last one for a block counts.      *)
LastEntry(h, b) == CHOOSE i \in 1..Len(h) : h[i] = b /\ \A j \in 1..Len(h) : h[j] = b => j <= i
InHeader(h, b) == \E i \in 1..Len(h) : h[i] = b
Recovered(d, l, h) == [b \in Blocks |-> IF InHeader(h, b) THEN l[LastEntry(h, b)] ELSE d[b]]

(* What recovery would leave on the disk, had the power failed now.        *)
Stable == Recovered(disk, logdata, dhead)

(* What a read returns; before recovery is over nobody reads.              *)
View == IF sys \in {"up", "panic"} THEN [b \in Blocks |-> Content(b)] ELSE Stable

Active == {p \in Procs : pc[p] = "op"}

AD == INSTANCE AtomicDisk WITH view <- View, stable <- Stable, active <- Active

(* log.c's promise ("there is never any reasoning required about whether a *)
(* commit might write an uncommitted system call's updates to disk"): for  *)
(* every interleaving of calls, commits, cache evictions, crashes and      *)
(* crashes during recovery, the disk goes back to a state that contains    *)
(* all of the writes of some set of complete calls and nothing else.       *)
CrashAtomic == AD!Spec

(* begin_op() never oversleeps: whoever sleeps on &log still has the       *)
(* reason it went to sleep for, a commit under way or too little space.    *)
NoLostWakeup == \A p \in asleep : committing \/ NoSpace

(* Once no call is outstanding and the commit is over, every block on the  *)
(* disk is what reads return, and recovery would have nothing to do.       *)
QuiescentDurable ==
    (sys = "up" /\ outstanding = 0 /\ ~committing) =>
        dhead = <<>> /\ lh = <<>> /\ \A b \in Blocks : disk[b] = Content(b)

(* begin_op()'s admission test is enough: however many calls share the     *)
(* transaction, the blocks already logged plus all that the admitted calls *)
(* may still log fit in the log.  A pair <<p, k>> stands for the k-th      *)
(* block that the call of p may log and has not.                           *)
Reserved == {x \in Active \X (1..MAXOPBLOCKS) : x[2] > Cardinality(wset[x[1]])}
ReservationFits == sys = "up" => Len(lh) + Cardinality(Reserved) <= LOGSIZE

(* A call that keeps within its MAXOPBLOCKS never hits log_write()'s panic. *)
NoPanic == sys # "panic"

(* Every process asleep in begin_op() is woken, unless the kernel panics.  *)
SleepersWake == \A p \in Procs : p \in asleep ~> (p \notin asleep \/ sys = "panic")

-----------------------------------------------------------------------------
(* The inductive invariant behind CrashAtomic, NoLostWakeup and            *)
(* QuiescentDurable                                                        *)

Distinct(s) == \A i, j \in 1..Len(s) : s[i] = s[j] => i = j

(* Entry i of log.lh has been copied home by the running install_trans(0). *)
Copied(i) == \E p \in Procs : (pc[p] = "install_trans" /\ i <= tail) \/ pc[p] = "erase"

(* log.outstanding counts the calls under way, log.committing says whether *)
(* some process is in commit(), and the two exclude each other.            *)
ControlInv ==
    /\ outstanding = Cardinality(Active)
    /\ committing <=> \E p \in Procs : pc[p] \in CommitPhases
    /\ committing => Active = {}
    /\ \A p, q \in Procs : pc[p] \in CommitPhases /\ pc[q] \in CommitPhases => p = q

(* Before recovery ends nobody is in the kernel and nothing is pinned.     *)
BootInv ==
    sys \in {"off", "recover", "clear"} =>
        /\ \A p \in Procs : pc[p] = "user"
        /\ asleep = {}
        /\ \A b \in Blocks : refcnt[b] = 0 /\ Content(b) = disk[b]

(* A logged block stays pinned in the cache until it has been copied home; *)
(* every other block reads the same from the cache and from the disk.      *)
PinInv ==
    sys = "up" =>
        /\ \A b \in Blocks : ~Logged(b) => refcnt[b] = 0 /\ Content(b) = disk[b]
        /\ \A i \in 1..Len(lh) :
              IF Copied(i) THEN refcnt[lh[i]] = 0 /\ Content(lh[i]) = disk[lh[i]]
                           ELSE refcnt[lh[i]] = 1 /\ cache[lh[i]] # NotCached

(* How far commit() has got: which log blocks and which header are on the  *)
(* disk.  Between two transactions the log is empty.                       *)
CommitInv ==
    sys = "up" =>
        /\ dhead = IF \E p \in Procs : pc[p] \in {"install_trans", "erase"} THEN lh ELSE <<>>
        /\ \A p \in Procs :
              /\ pc[p] \in {"write_log", "install_trans"} => tail <= Len(lh)
              /\ pc[p] = "committed" => lh = <<>>
              /\ \A i \in 1..Len(lh) :
                    (pc[p] = "write_log" /\ i <= tail) \/ pc[p] \in {"write_head", "install_trans", "erase"}
                        => logdata[i] = Content(lh[i])
        /\ (Active = {} /\ ~committing) => lh = <<>>

(* How far recover_from_log() has got.                                     *)
RecoverInv ==
    sys \in {"recover", "clear"} =>
        /\ lh = dhead
        /\ tail <= Len(lh)
        /\ sys = "clear" => tail = Len(lh)
        /\ \A i \in 1..Len(lh) : i <= tail => disk[lh[i]] = logdata[i]

IInv ==
    /\ TypeOK
    /\ Distinct(lh) /\ Distinct(dhead)
    /\ ControlInv
    /\ BootInv
    /\ PinInv
    /\ CommitInv
    /\ RecoverInv
    /\ NoLostWakeup

(* What a call has logged is in log.lh until it ends.                      *)
BudgetInv ==
    \A p \in Procs :
        /\ IsFiniteSet(wset[p]) /\ Cardinality(wset[p]) <= MAXOPBLOCKS
        /\ pc[p] # "op" => wset[p] = {}
        /\ \A b \in wset[p] : Logged(b)
=============================================================================
