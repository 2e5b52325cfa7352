-------------------------------- MODULE Pipe --------------------------------
(***************************************************************************)
(* One pipe of xv6-riscv (kernel/pipe.c), shared by several processes that *)
(* read, write, close their ends (kernel/file.c) and may be killed.        *)
(*                                                                         *)
(* An action is one iteration of a loop of pipewrite() or piperead() with  *)
(* pi->lock held, because p->killed is read without a lock and can change  *)
(* between two iterations.  sleep() gives up pi->lock and goes to sleep in *)
(* one step (module Proc is about why it may be seen so), and a process    *)
(* that is woken acquires pi->lock again.                                  *)
(***************************************************************************)
EXTENDS Integers, Sequences, FiniteSets

CONSTANTS
    Procs,
    Bytes,
    PIPESIZE,
    UINT,        \* 2^32: the counters are uint
    Sizes,       \* bound: the n that programs pass to read() and write()
    Killable,    \* processes that somebody may kill
    Nobody       \* pi->lock is free

ASSUME PipeAssumption ==
    /\ PIPESIZE \in Nat \ {0}
    /\ UINT \in Nat /\ UINT > PIPESIZE /\ UINT % PIPESIZE = 0
    /\ Sizes \subseteq Nat
    /\ Killable \subseteq Procs
    /\ Nobody \notin Procs

VARIABLES
    data, nread, nwrite, readopen, writeopen,   \* struct pipe
    freed,      \* kfree(pi) has been called
    lock,       \* holder of pi->lock
    fds,        \* the ends each process has open: f->ref counts them
    pc,         \* where each process is
    i, n,       \* locals of pipewrite() and piperead()
    asleep,     \* the channel each process sleeps on, "none" if awake
    killed,     \* p->killed
    got         \* the byte that was read last

pipeVars == <<data, nread, nwrite>>
openVars == <<readopen, writeopen, freed, fds>>
vars == <<data, nread, nwrite, readopen, writeopen, freed, lock, fds, pc, i, n, asleep, killed, got>>

Ends == {"r", "w"}
InWrite == {"pipewrite", "write", "wbody"}
InRead == {"piperead", "rwait", "rsleep", "rcopy"}
Points == {"user", "close_r", "close_w", "kfree"} \cup InWrite \cup InRead

TypeOK ==
    /\ data \in [0..PIPESIZE - 1 -> Bytes]
    /\ nread \in 0..UINT - 1
    /\ nwrite \in 0..UINT - 1
    /\ (nwrite - nread) % UINT <= PIPESIZE
    /\ readopen \in BOOLEAN /\ writeopen \in BOOLEAN /\ freed \in BOOLEAN
    /\ lock \in Procs \cup {Nobody}
    /\ fds \in [Procs -> SUBSET Ends]
    /\ pc \in [Procs -> Points]
    /\ n \in [Procs -> Sizes \cup {0}]
    /\ i \in [Procs -> Nat] /\ \A p \in Procs : i[p] <= n[p]
    /\ asleep \in [Procs -> {"none", "nread", "nwrite"}]
    /\ killed \in [Procs -> BOOLEAN]
    /\ got \in Bytes

(* After pipealloc(), fork() and whatever ends the programs have closed.   *)
Init ==
    /\ \E b \in Bytes : data = [k \in 0..PIPESIZE - 1 |-> b] /\ got = b
    /\ nread = 0 /\ nwrite = 0
    /\ readopen = TRUE /\ writeopen = TRUE /\ freed = FALSE
    /\ lock = Nobody
    /\ fds \in [Procs -> SUBSET Ends]
    /\ \A e \in Ends : \E p \in Procs : e \in fds[p]
    /\ pc = [p \in Procs |-> "user"]
    /\ i = [p \in Procs |-> 0] /\ n = [p \in Procs |-> 0]
    /\ asleep = [p \in Procs |-> "none"]
    /\ killed = [p \in Procs |-> FALSE]

-----------------------------------------------------------------------------
Goto(p, point) == pc' = [pc EXCEPT ![p] = point]

(* Back to user space; the locals are gone.                                *)
Return(p) ==
    /\ lock' = Nobody
    /\ Goto(p, "user")
    /\ i' = [i EXCEPT ![p] = 0]
    /\ n' = [n EXCEPT ![p] = 0]

(* wakeup(&pi->nread) and wakeup(&pi->nwrite), with pi->lock held          *)
Wakened(ch) == [p \in Procs |-> IF asleep[p] = ch THEN "none" ELSE asleep[p]]

(* acquire(&pi->lock): at the start, and at the end of sleep()             *)
Acquire(p) == lock = Nobody /\ asleep[p] = "none" /\ lock' = p

Empty == nread = nwrite
FullOffByOne == nwrite = (nread + PIPESIZE + 1) % UINT
Full == nwrite = (nread + PIPESIZE) % UINT

(* A system call, by a process that usertrap() does not send to exit().    *)
write(p, m) ==
    /\ pc[p] = "user" /\ ~killed[p]
    /\ "w" \in fds[p]
    /\ n' = [n EXCEPT ![p] = m]
    /\ Goto(p, "pipewrite")
    /\ UNCHANGED <<pipeVars, openVars, lock, i, asleep, killed, got>>

read(p, m) ==
    /\ pc[p] = "user" /\ ~killed[p]
    /\ "r" \in fds[p]
    /\ n' = [n EXCEPT ![p] = m]
    /\ Goto(p, "piperead")
    /\ UNCHANGED <<pipeVars, openVars, lock, i, asleep, killed, got>>

-----------------------------------------------------------------------------
(* pipewrite()                                                             *)

pipewrite(p) ==
    /\ pc[p] = "pipewrite"
    /\ Acquire(p)
    /\ Goto(p, "write")
    /\ UNCHANGED <<pipeVars, openVars, i, n, asleep, killed, got>>

(* The end of the loop, or the break when copyin() fails.                  *)
write_return(p) ==
    /\ asleep' = Wakened("nread")
    /\ Return(p)
    /\ UNCHANGED <<pipeVars, openVars, killed, got>>

(* No reader, or killed: return -1.                                        *)
write_fail(p) ==
    /\ pc[p] = "write" /\ i[p] < n[p]
    /\ ~readopen \/ killed[p]
    /\ Return(p)
    /\ UNCHANGED <<pipeVars, openVars, asleep, killed, got>>

(* The test has passed; readopen cannot change now, p->killed can.         *)
write_test(p) ==
    /\ pc[p] = "write" /\ i[p] < n[p]
    /\ readopen /\ ~killed[p]
    /\ Goto(p, "wbody")
    /\ UNCHANGED <<pipeVars, openVars, lock, i, n, asleep, killed, got>>

write_full_silent(p) ==
    /\ pc[p] = "wbody"
    /\ Full
    /\ asleep' = [asleep EXCEPT ![p] = "nwrite"]
    /\ lock' = Nobody
    /\ Goto(p, "pipewrite")
    /\ UNCHANGED <<pipeVars, openVars, i, n, killed, got>>
write_full(p) ==
    /\ pc[p] = "wbody"
    /\ Full
    /\ asleep' = [Wakened("nread") EXCEPT ![p] = "nwrite"]
    /\ lock' = Nobody
    /\ Goto(p, "pipewrite")
    /\ UNCHANGED <<pipeVars, openVars, i, n, killed, got>>

write_byte_masked_late(p, b) ==
    /\ pc[p] = "wbody"
    /\ ~Full
    /\ nwrite' = (nwrite + 1) % UINT
    /\ data' = [data EXCEPT ![nwrite' % PIPESIZE] = b]
    /\ i' = [i EXCEPT ![p] = @ + 1]
    /\ Goto(p, "write")
    /\ UNCHANGED <<nread, openVars, lock, n, asleep, killed, got>>
write_byte(p, b) ==
    /\ pc[p] = "wbody"
    /\ ~Full
    /\ data' = [data EXCEPT ![nwrite % PIPESIZE] = b]
    /\ nwrite' = (nwrite + 1) % UINT
    /\ i' = [i EXCEPT ![p] = @ + 1]
    /\ Goto(p, "write")
    /\ UNCHANGED <<nread, openVars, lock, n, asleep, killed, got>>

write_copyin_fails(p) ==
    /\ pc[p] = "wbody"
    /\ ~Full
    /\ write_return(p)

write_done(p) ==
    /\ pc[p] = "write" /\ i[p] = n[p]
    /\ write_return(p)

-----------------------------------------------------------------------------
(* piperead()                                                              *)

piperead(p) ==
    /\ pc[p] = "piperead"
    /\ Acquire(p)
    /\ Goto(p, "rwait")
    /\ UNCHANGED <<pipeVars, openVars, i, n, asleep, killed, got>>

read_killed(p) ==
    /\ pc[p] = "rwait"
    /\ Empty /\ writeopen
    /\ killed[p]
    /\ Return(p)
    /\ UNCHANGED <<pipeVars, openVars, asleep, killed, got>>

read_test(p) ==
    /\ pc[p] = "rwait"
    /\ Empty /\ writeopen
    /\ ~killed[p]
    /\ Goto(p, "rsleep")
    /\ UNCHANGED <<pipeVars, openVars, lock, i, n, asleep, killed, got>>

(* A kill() since the test found the process awake: it sleeps all the same. *)
read_sleep(p) ==
    /\ pc[p] = "rsleep"
    /\ asleep' = [asleep EXCEPT ![p] = "nread"]
    /\ lock' = Nobody
    /\ Goto(p, "piperead")
    /\ UNCHANGED <<pipeVars, openVars, i, n, killed, got>>

read_start(p) ==
    /\ pc[p] = "rwait"
    /\ ~Empty \/ ~writeopen
    /\ Goto(p, "rcopy")
    /\ UNCHANGED <<pipeVars, openVars, lock, i, n, asleep, killed, got>>

read_byte(p) ==
    /\ pc[p] = "rcopy" /\ i[p] < n[p]
    /\ ~Empty
    /\ got' = data[nread % PIPESIZE]
    /\ nread' = (nread + 1) % UINT
    /\ i' = [i EXCEPT ![p] = @ + 1]
    /\ UNCHANGED <<data, nwrite, openVars, lock, pc, n, asleep, killed>>

(* The end of the loop.                                                    *)
read_return(p) ==
    /\ asleep' = Wakened("nwrite")
    /\ Return(p)
    /\ UNCHANGED <<data, nwrite, openVars, killed, got>>

(* The byte has left the buffer when copyout() fails.                      *)
read_copyout_fails(p) ==
    /\ pc[p] = "rcopy" /\ i[p] < n[p]
    /\ ~Empty
    /\ nread' = (nread + 1) % UINT
    /\ read_return(p)

read_done(p) ==
    /\ pc[p] = "rcopy" /\ (i[p] = n[p] \/ Empty)
    /\ UNCHANGED nread
    /\ read_return(p)

-----------------------------------------------------------------------------
(* close() and exit(): fileclose() drops the last reference to an end      *)
(* before pipeclose() acquires pi->lock.                                   *)

fileclose(p, e) ==
    /\ pc[p] = "user"
    /\ e \in fds[p]
    /\ fds' = [fds EXCEPT ![p] = @ \ {e}]
    /\ IF \E q \in Procs : e \in fds'[q] THEN UNCHANGED pc
       ELSE Goto(p, IF e = "r" THEN "close_r" ELSE "close_w")
    /\ UNCHANGED <<pipeVars, readopen, writeopen, freed, lock, i, n, asleep, killed, got>>

(* pipeclose(): wake the other side, and free the pipe if that is closed.  *)
pipeclose_silent(p) ==
    /\ lock = Nobody
    /\ \/ /\ pc[p] = "close_r"
          /\ readopen' = FALSE
          /\ UNCHANGED writeopen
       \/ /\ pc[p] = "close_w"
          /\ writeopen' = FALSE
          /\ UNCHANGED readopen
    /\ Goto(p, IF ~readopen' /\ ~writeopen' THEN "kfree" ELSE "user")
    /\ UNCHANGED <<pipeVars, freed, lock, fds, i, n, asleep, killed, got>>
pipeclose_always_frees(p) ==
    /\ lock = Nobody
    /\ \/ /\ pc[p] = "close_r"
          /\ readopen' = FALSE
          /\ asleep' = Wakened("nwrite")
          /\ UNCHANGED writeopen
       \/ /\ pc[p] = "close_w"
          /\ writeopen' = FALSE
          /\ asleep' = Wakened("nread")
          /\ UNCHANGED readopen
    /\ Goto(p, "kfree")
    /\ UNCHANGED <<pipeVars, freed, lock, fds, i, n, killed, got>>
pipeclose(p) ==
    /\ lock = Nobody
    /\ \/ /\ pc[p] = "close_r"
          /\ readopen' = FALSE
          /\ asleep' = Wakened("nwrite")
          /\ UNCHANGED writeopen
       \/ /\ pc[p] = "close_w"
          /\ writeopen' = FALSE
          /\ asleep' = Wakened("nread")
          /\ UNCHANGED readopen
    /\ Goto(p, IF ~readopen' /\ ~writeopen' THEN "kfree" ELSE "user")
    /\ UNCHANGED <<pipeVars, freed, lock, fds, i, n, killed, got>>

kfree(p) ==
    /\ pc[p] = "kfree"
    /\ freed' = TRUE
    /\ Goto(p, "user")
    /\ UNCHANGED <<pipeVars, readopen, writeopen, lock, fds, i, n, asleep, killed, got>>

(* kill(), which takes p->lock only and so comes between any two steps.    *)
kill(p) ==
    /\ p \in Killable /\ ~killed[p]
    /\ killed' = [killed EXCEPT ![p] = TRUE]
    /\ asleep' = [asleep EXCEPT ![p] = "none"]
    /\ UNCHANGED <<pipeVars, openVars, lock, pc, i, n, got>>

-----------------------------------------------------------------------------
Writing(p) ==
    \/ pipewrite(p) \/ write_fail(p) \/ write_test(p) \/ write_full(p) \/ write_copyin_fails(p) \/ write_done(p)
    \/ \E b \in Bytes : write_byte(p, b)
Reading(p) ==
    \/ piperead(p) \/ read_killed(p) \/ read_test(p) \/ read_sleep(p) \/ read_start(p) \/ read_byte(p)
    \/ read_copyout_fails(p) \/ read_done(p)
Closing(p) == pipeclose(p) \/ kfree(p)

Next ==
    \E p \in Procs :
        \/ \E m \in Sizes : write(p, m) \/ read(p, m)
        \/ Writing(p) \/ Reading(p) \/ Closing(p)
        \/ \E e \in Ends : fileclose(p, e)
        \/ kill(p)

Spec == Init /\ [][Next]_vars

(* A process in the kernel goes on, and gets pi->lock when it is free time *)
(* and again; a process that has been killed exits.  Programs need not     *)
(* read, write or close.                                                   *)
Exiting(p) == killed[p] /\ \E e \in Ends : fileclose(p, e)
Fairness ==
    \A p \in Procs :
        /\ SF_vars(Writing(p)) /\ SF_vars(Reading(p))
        /\ SF_vars(Closing(p)) /\ WF_vars(Exiting(p))

FairSpec == Spec /\ Fairness

-----------------------------------------------------------------------------
(* Refinement of PipeQueue: the buffer between the two counters.           *)
Queue == [k \in 1..(nwrite - nread) % UINT |-> data[(nread + k - 1) % PIPESIZE]]

PQ == INSTANCE PipeQueue WITH queue <- Queue

(* Readers get the writers' bytes in order and once each, also when the    *)
(* counters wrap around, whoever is killed, closes an end or passes a bad  *)
(* address meanwhile; and nothing is written for nobody to read.           *)
ImplementsQueue == PQ!Spec

(* Nobody uses the pipe after kfree(), and it is freed once.               *)
InPipe(p) == pc[p] \in InWrite \cup InRead \cup {"close_r", "close_w", "kfree"}
NoUseAfterFree ==
    /\ freed => \A p \in Procs : ~InPipe(p)
    /\ \A p \in Procs : pc[p] = "kfree" => \A q \in Procs : InPipe(q) => q = p

(* When nobody holds pi->lock, a reader sleeps only over an empty buffer   *)
(* and a writer only over a full one, and both know that the other side is *)
(* still there.                                                            *)
ReaderMaySleep == Empty /\ writeopen
WriterMaySleep == Full /\ readopen
SleepersJustified ==
    lock = Nobody =>
        \A p \in Procs :
            /\ asleep[p] = "nread" => ReaderMaySleep
            /\ asleep[p] = "nwrite" => WriterMaySleep

(* As long as no writer has been killed in the middle of a write.          *)
NoStuckSleeper == (\A p \in Procs : ~killed[p]) => SleepersJustified

(* A reader never waits for ever beside a buffer with data in it, or for   *)
(* writers that have all closed the pipe.                                  *)
ReadReturns ==
    \A p \in Procs : (pc[p] = "piperead" /\ ~ReaderMaySleep) ~> (pc[p] = "user" \/ ReaderMaySleep)

-----------------------------------------------------------------------------
(* The parts of an inductive invariant.                                    *)

(* The holder of pi->lock is the process between acquire() and release().  *)
Locked == {"write", "wbody", "rwait", "rsleep", "rcopy"}
LockInv == \A p \in Procs : lock = p <=> pc[p] \in Locked

(* What a process has seen under pi->lock holds until it lets go of it.    *)
SeenInv ==
    \A p \in Procs :
        /\ pc[p] \notin InRead \cup InWrite => i[p] = 0
        /\ pc[p] = "wbody" => readopen /\ i[p] < n[p]
        /\ pc[p] = "rsleep" => ReaderMaySleep
        /\ asleep[p] = "nread" => pc[p] = "piperead"
        /\ asleep[p] = "nwrite" => pc[p] = "pipewrite"

(* An end is open until its last descriptor is closed and pipeclose() has  *)
(* been called for it, once.                                               *)
OpenInv ==
    /\ \A p \in Procs :
        /\ pc[p] \in InRead => "r" \in fds[p]
        /\ pc[p] \in InWrite => "w" \in fds[p]
        /\ "r" \in fds[p] \/ pc[p] = "close_r" => readopen
        /\ "w" \in fds[p] \/ pc[p] = "close_w" => writeopen
        /\ pc[p] = "kfree" => ~readopen /\ ~writeopen /\ ~freed
    /\ \A p, q \in Procs :
        /\ pc[p] = "close_r" => "r" \notin fds[q] /\ (pc[q] = "close_r" => q = p)
        /\ pc[p] = "close_w" => "w" \notin fds[q] /\ (pc[q] = "close_w" => q = p)
        /\ pc[p] = "kfree" /\ pc[q] = "kfree" => q = p
    /\ freed => ~readopen /\ ~writeopen

(* Without kills, whoever has changed the counters under pi->lock will     *)
(* wake the sleepers of the other side before he lets go of it.            *)
SleepInv ==
    (\A p \in Procs : ~killed[p]) =>
        \A p \in Procs :
            /\ asleep[p] = "nread" =>
                  writeopen /\ (Empty \/ \E q \in Procs : pc[q] \in {"write", "wbody"})
            /\ asleep[p] = "nwrite" =>
                  readopen /\ (Full \/ \E q \in Procs : pc[q] = "rcopy")

IInv == TypeOK /\ LockInv /\ SeenInv /\ OpenInv /\ SleepInv
=============================================================================
