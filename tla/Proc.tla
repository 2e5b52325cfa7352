-------------------------------- MODULE Proc --------------------------------
(***************************************************************************)
(* Processes of xv6-riscv (kernel/proc.c): fork, exit, wait, kill, sleep,  *)
(* wakeup, yield and the per-CPU scheduler, with p->lock and wait_lock.    *)
(*                                                                         *)
(* A CPU either looks for a process ("scan"), has just switched to one and *)
(* is still inside sched() ("resume"), runs it ("run"), spins for a lock   *)
(* with interrupts off ("spin"), or runs the last instructions of sched()  *)
(* on the process's stack before it is back in scheduler() ("swtch").      *)
(* An action is what a CPU does between two moments at which it could wait *)
(* for a lock; a critical section that needs one lock only is one action.  *)
(***************************************************************************)
EXTENDS Integers, FiniteSets

CONSTANTS
    Procs,      \* slots of proc[]
    initproc,   \* the slot of the first process
    NoProc,     \* the null pointer to a process
    CPUs,
    NoCPU,      \* a lock nobody holds
    KillArgs,   \* the pids that programs pass to kill()
    MaxPid      \* bound: forks stop when pids run out

ASSUME ProcAssumption ==
    /\ initproc \in Procs
    /\ NoProc \notin Procs
    /\ NoCPU \notin CPUs
    /\ KillArgs \subseteq Nat
    /\ MaxPid \in Nat

VARIABLES
    state,      \* p->state
    parent,     \* p->parent, protected by wait_lock
    killed,     \* p->killed
    chan,       \* p->chan
    pid,        \* p->pid
    nextpid,
    lock,       \* the CPU that holds p->lock
    wait_lock,  \* the CPU that holds wait_lock
    proc,       \* c->proc
    mode,       \* what each CPU is doing
    pc,         \* where each process's kernel thread is
    np          \* fork()'s local variable np

locks == <<lock, wait_lock>>
sched == <<proc, mode>>
vars == <<state, parent, killed, chan, pid, nextpid, lock, wait_lock, proc, mode, pc, np>>

States == {"UNUSED", "USED", "SLEEPING", "RUNNABLE", "RUNNING", "ZOMBIE"}
Modes == {"scan", "resume", "run", "spin", "swtch"}
(* Where a process that holds no lock is about to acquire one.             *)
LockPoints == {"fork_parent", "fork_run", "exit", "wait"}
Points == {"forkret", "user", "fork_parent", "fork_run", "exit", "wake_init", "wake_parent",
           "zombie", "wait", "scan", "sleep", "wakened"}

TypeOK ==
    /\ state \in [Procs -> States]
    /\ parent \in [Procs -> Procs \cup {NoProc}]
    /\ killed \in [Procs -> BOOLEAN]
    /\ chan \in [Procs -> Procs \cup {NoProc}]
    /\ pid \in [Procs -> Nat]
    /\ nextpid \in Nat
    /\ lock \in [Procs -> CPUs \cup {NoCPU}]
    /\ wait_lock \in CPUs \cup {NoCPU}
    /\ proc \in [CPUs -> Procs \cup {NoProc}]
    /\ mode \in [CPUs -> Modes]
    /\ \A c \in CPUs : mode[c] = "scan" <=> proc[c] = NoProc
    /\ pc \in [Procs -> Points]
    /\ np \in [Procs -> Procs \cup {NoProc}]

(* After procinit() and userinit(), when the CPUs enter scheduler().       *)
Init ==
    /\ state = [p \in Procs |-> IF p = initproc THEN "RUNNABLE" ELSE "UNUSED"]
    /\ parent = [p \in Procs |-> NoProc]
    /\ killed = [p \in Procs |-> FALSE]
    /\ chan = [p \in Procs |-> NoProc]
    /\ pid = [p \in Procs |-> IF p = initproc THEN 1 ELSE 0]
    /\ nextpid = 2
    /\ lock = [p \in Procs |-> NoCPU]
    /\ wait_lock = NoCPU
    /\ proc = [c \in CPUs |-> NoProc]
    /\ mode = [c \in CPUs |-> "scan"]
    /\ pc = [p \in Procs |-> "forkret"]
    /\ np = [p \in Procs |-> NoProc]

-----------------------------------------------------------------------------
(* scheduler(), sched(), yield()                                           *)

Free(p) == lock[p] = NoCPU

(* The CPU runs a process that has got to this point.                      *)
At(c, point) == mode[c] = "run" /\ pc[proc[c]] = point
Spinning(c, point) == mode[c] = "spin" /\ pc[proc[c]] = point
Acquired(c) == mode' = [mode EXCEPT ![c] = "run"]
Goto(p, point) == pc' = [pc EXCEPT ![p] = point]

(* scheduler() finds a RUNNABLE process and switches to it, p->lock held.  *)
scheduler(c, p) ==
    /\ mode[c] = "scan"
    /\ Free(p)
    /\ state[p] = "RUNNABLE"
    /\ state' = [state EXCEPT ![p] = "RUNNING"]
    /\ lock' = [lock EXCEPT ![p] = c]
    /\ proc' = [proc EXCEPT ![c] = p]
    /\ mode' = [mode EXCEPT ![c] = "resume"]
    /\ UNCHANGED <<parent, killed, chan, pid, nextpid, wait_lock, pc, np>>

(* The process comes out of swtch() and releases its lock, in forkret(),   *)
(* in yield(), or in sleep(), which then acquires wait_lock again.         *)
resume(c) ==
    LET p == proc[c] IN
    /\ mode[c] = "resume"
    /\ lock' = [lock EXCEPT ![p] = NoCPU]
    /\ mode' = [mode EXCEPT ![c] = "run"]
    /\ \/ /\ pc[p] = "forkret"
          /\ Goto(p, "user")
          /\ UNCHANGED chan
       \/ /\ pc[p] = "wakened"
          /\ chan' = [chan EXCEPT ![p] = NoProc]
          /\ Goto(p, "wait")
       \/ /\ pc[p] \notin {"forkret", "wakened"}
          /\ UNCHANGED <<chan, pc>>
    /\ UNCHANGED <<state, parent, killed, pid, nextpid, wait_lock, proc, np>>

(* sched() with p->state already changed to s and p->lock held.            *)
EnterSchedUnlocked(c, s) ==
    /\ state' = [state EXCEPT ![proc[c]] = s]
    /\ mode' = [mode EXCEPT ![c] = "swtch"]
    /\ UNCHANGED lock
EnterSched(c, s) ==
    /\ state' = [state EXCEPT ![proc[c]] = s]
    /\ lock' = [lock EXCEPT ![proc[c]] = c]
    /\ mode' = [mode EXCEPT ![c] = "swtch"]

(* swtch() arrives in scheduler(), which releases the process's lock.      *)
swtch_keeps_proc(c) ==
    /\ mode[c] = "swtch"
    /\ lock' = [lock EXCEPT ![proc[c]] = NoCPU]
    /\ mode' = [mode EXCEPT ![c] = "scan"]
    /\ UNCHANGED <<state, parent, killed, chan, pid, nextpid, wait_lock, proc, pc, np>>
swtch(c) ==
    /\ mode[c] = "swtch"
    /\ lock' = [lock EXCEPT ![proc[c]] = NoCPU]
    /\ proc' = [proc EXCEPT ![c] = NoProc]
    /\ mode' = [mode EXCEPT ![c] = "scan"]
    /\ UNCHANGED <<state, parent, killed, chan, pid, nextpid, wait_lock, pc, np>>

(* push_off(): no timer interrupt while this CPU holds a spinlock.         *)
InterruptsOff(c) == wait_lock = c \/ \E q \in Procs : lock[q] = c

(* acquire() turns interrupts off before it spins.                         *)
push_off(c) ==
    /\ mode[c] = "run"
    /\ pc[proc[c]] \in LockPoints
    /\ ~InterruptsOff(c)
    /\ mode' = [mode EXCEPT ![c] = "spin"]
    /\ UNCHANGED <<state, parent, killed, chan, pid, nextpid, locks, proc, pc, np>>

(* A timer interrupt, in user space or in the kernel.                      *)
yield(c) ==
    /\ mode[c] = "run"
    /\ ~InterruptsOff(c)
    /\ Free(proc[c])
    /\ EnterSched(c, "RUNNABLE")
    /\ UNCHANGED <<parent, killed, chan, pid, nextpid, wait_lock, proc, pc, np>>

-----------------------------------------------------------------------------
(* fork()                                                                  *)

(* usertrap(): a process that has been killed only gets to exit().         *)
MaySyscall(c) == At(c, "user") /\ ~killed[proc[c]]

(* allocproc() and the copying, which leave the child USED and unlocked.   *)
fork(c, q) ==
    /\ MaySyscall(c)
    /\ nextpid <= MaxPid
    /\ Free(q)
    /\ state[q] = "UNUSED"
    /\ nextpid' = nextpid + 1
    /\ state' = [state EXCEPT ![q] = "USED"]
    /\ pid' = [pid EXCEPT ![q] = nextpid]
    /\ np' = [np EXCEPT ![proc[c]] = q]
    /\ pc' = [pc EXCEPT ![proc[c]] = "fork_parent", ![q] = "forkret"]
    /\ UNCHANGED <<parent, killed, chan, locks, sched>>

(* No memory for the child: freeproc(), and fork() returns -1.             *)
fork_fail(c, q) ==
    /\ MaySyscall(c)
    /\ nextpid <= MaxPid
    /\ Free(q)
    /\ state[q] = "UNUSED"
    /\ nextpid' = nextpid + 1
    /\ killed' = [killed EXCEPT ![q] = FALSE]
    /\ UNCHANGED <<state, parent, chan, pid, locks, sched, pc, np>>

fork_parent(c) ==
    LET p == proc[c] IN
    /\ Spinning(c, "fork_parent")
    /\ wait_lock = NoCPU
    /\ parent' = [parent EXCEPT ![np[p]] = p]
    /\ Goto(p, "fork_run")
    /\ Acquired(c)
    /\ UNCHANGED <<state, killed, chan, pid, nextpid, locks, proc, np>>

fork_run(c) ==
    LET p == proc[c] IN
    /\ Spinning(c, "fork_run")
    /\ Free(np[p])
    /\ state' = [state EXCEPT ![np[p]] = "RUNNABLE"]
    /\ np' = [np EXCEPT ![p] = NoProc]
    /\ Goto(p, "user")
    /\ Acquired(c)
    /\ UNCHANGED <<parent, killed, chan, pid, nextpid, locks, proc>>

-----------------------------------------------------------------------------
(* exit()                                                                  *)

Children(p) == {q \in Procs : parent[q] = p}

(* wakeup(q): the only process that ever sleeps on q is q itself, in wait. *)
(* The loop also locks and unlocks every other process, to no effect.      *)
WakeupIgnored(q) == UNCHANGED state
wakeup(q) ==
    state' = IF state[q] = "SLEEPING" /\ chan[q] = q
             THEN [state EXCEPT ![q] = "RUNNABLE"] ELSE state

(* The system call, or usertrap() after the process has been killed; the   *)
(* open files and the directory are closed before wait_lock is acquired.   *)
exit(c) ==
    /\ At(c, "user")
    /\ proc[c] # initproc
    /\ Goto(proc[c], "exit")
    /\ UNCHANGED <<state, parent, killed, chan, pid, nextpid, locks, sched, np>>

(* acquire(&wait_lock); reparent(p)                                        *)
reparent_nothing(c) ==
    LET p == proc[c] IN
    /\ Spinning(c, "exit")
    /\ wait_lock = NoCPU
    /\ wait_lock' = c
    /\ Goto(p, "wake_parent")
    /\ Acquired(c)
    /\ UNCHANGED <<state, parent, killed, chan, pid, nextpid, lock, proc, np>>
reparent(c) ==
    LET p == proc[c] IN
    /\ Spinning(c, "exit")
    /\ wait_lock = NoCPU
    /\ wait_lock' = c
    /\ parent' = [q \in Procs |-> IF q \in Children(p) THEN initproc ELSE parent[q]]
    /\ Goto(p, IF Children(p) = {} THEN "wake_parent" ELSE "wake_init")
    /\ Acquired(c)
    /\ UNCHANGED <<state, killed, chan, pid, nextpid, lock, proc, np>>

wake_init(c) ==
    /\ At(c, "wake_init")
    /\ Free(initproc)
    /\ wakeup(initproc)
    /\ Goto(proc[c], "wake_parent")
    /\ UNCHANGED <<parent, killed, chan, pid, nextpid, locks, sched, np>>

wake_parent(c) ==
    LET p == proc[c] IN
    /\ At(c, "wake_parent")
    /\ Free(parent[p])
    /\ wakeup(parent[p])
    /\ Goto(p, "zombie")
    /\ UNCHANGED <<parent, killed, chan, pid, nextpid, locks, sched, np>>

(* acquire(&p->lock); p->state = ZOMBIE; release(&wait_lock); sched()      *)
zombie_keeps_wait_lock(c) ==
    /\ At(c, "zombie")
    /\ Free(proc[c])
    /\ EnterSched(c, "ZOMBIE")
    /\ UNCHANGED <<parent, killed, chan, pid, nextpid, wait_lock, proc, pc, np>>
zombie(c) ==
    /\ At(c, "zombie")
    /\ Free(proc[c])
    /\ EnterSched(c, "ZOMBIE")
    /\ wait_lock' = NoCPU
    /\ UNCHANGED <<parent, killed, chan, pid, nextpid, proc, pc, np>>

-----------------------------------------------------------------------------
(* wait()                                                                  *)

wait(c) ==
    /\ MaySyscall(c)
    /\ Goto(proc[c], "wait")
    /\ UNCHANGED <<state, parent, killed, chan, pid, nextpid, locks, sched, np>>

(* acquire(&wait_lock), at the start and again in sleep()                  *)
wait_acquire(c) ==
    /\ Spinning(c, "wait")
    /\ wait_lock = NoCPU
    /\ wait_lock' = c
    /\ Goto(proc[c], "scan")
    /\ Acquired(c)
    /\ UNCHANGED <<state, parent, killed, chan, pid, nextpid, lock, proc, np>>

freeproc_keeps_pid(q) ==
    /\ state' = [state EXCEPT ![q] = "UNUSED"]
    /\ parent' = [parent EXCEPT ![q] = NoProc]
    /\ killed' = [killed EXCEPT ![q] = FALSE]
    /\ chan' = [chan EXCEPT ![q] = NoProc]
    /\ UNCHANGED pid
freeproc(q) ==
    /\ state' = [state EXCEPT ![q] = "UNUSED"]
    /\ parent' = [parent EXCEPT ![q] = NoProc]
    /\ killed' = [killed EXCEPT ![q] = FALSE]
    /\ chan' = [chan EXCEPT ![q] = NoProc]
    /\ pid' = [pid EXCEPT ![q] = 0]

(* A zombie child is found once its lock can be had.                       *)
wait_reap_unlocked(c, q) ==
    /\ At(c, "scan")
    /\ q \in Children(proc[c]) /\ state[q] = "ZOMBIE"
    /\ freeproc(q)
    /\ wait_lock' = NoCPU
    /\ Goto(proc[c], "user")
    /\ UNCHANGED <<nextpid, lock, sched, np>>
wait_reap(c, q) ==
    /\ At(c, "scan")
    /\ q \in Children(proc[c]) /\ state[q] = "ZOMBIE"
    /\ Free(q)
    /\ freeproc(q)
    /\ wait_lock' = NoCPU
    /\ Goto(proc[c], "user")
    /\ UNCHANGED <<nextpid, lock, sched, np>>

(* copyout() of the exit status fails; init passes a null address.         *)
wait_copyout_fails(c, q) ==
    /\ At(c, "scan")
    /\ q \in Children(proc[c]) /\ state[q] = "ZOMBIE"
    /\ Free(q)
    /\ proc[c] # initproc
    /\ wait_lock' = NoCPU
    /\ Goto(proc[c], "user")
    /\ UNCHANGED <<state, parent, killed, chan, pid, nextpid, lock, sched, np>>

(* No child has exited: return -1, or decide to sleep.                     *)
wait_none(c) ==
    LET p == proc[c] IN
    /\ At(c, "scan")
    /\ \A q \in Children(p) : state[q] # "ZOMBIE"
    /\ \/ /\ Children(p) = {} \/ killed[p]
          /\ wait_lock' = NoCPU
          /\ Goto(p, "user")
       \/ /\ Children(p) # {} /\ ~killed[p]
          /\ Goto(p, "sleep")
          /\ UNCHANGED wait_lock
    /\ UNCHANGED <<state, parent, killed, chan, pid, nextpid, lock, sched, np>>

(* sleep(p, &wait_lock) up to sched(): p->lock is acquired before          *)
(* wait_lock is released.                                                  *)
sleep(c) ==
    LET p == proc[c] IN
    /\ At(c, "sleep")
    /\ Free(p)
    /\ EnterSched(c, "SLEEPING")
    /\ chan' = [chan EXCEPT ![p] = p]
    /\ wait_lock' = NoCPU
    /\ Goto(p, "wakened")
    /\ UNCHANGED <<parent, killed, pid, nextpid, proc, np>>

-----------------------------------------------------------------------------
(* kill(): a slot with this pid, in whatever state, woken if it sleeps.    *)
kill(c, n, q) ==
    /\ MaySyscall(c)
    /\ pid[q] = n
    /\ Free(q)
    /\ killed' = [killed EXCEPT ![q] = TRUE]
    /\ state' = IF state[q] = "SLEEPING" THEN [state EXCEPT ![q] = "RUNNABLE"] ELSE state
    /\ UNCHANGED <<parent, chan, pid, nextpid, locks, sched, pc, np>>

-----------------------------------------------------------------------------
Step(c) ==
    \/ resume(c) \/ swtch(c) \/ push_off(c)
    \/ fork_parent(c) \/ fork_run(c)
    \/ exit(c) \/ reparent(c) \/ wake_init(c) \/ wake_parent(c) \/ zombie(c)
    \/ wait(c) \/ wait_acquire(c) \/ wait_none(c) \/ sleep(c)
    \/ \E q \in Procs : wait_reap(c, q) \/ wait_copyout_fails(c, q)

Next ==
    \E c \in CPUs :
        \/ Step(c) \/ yield(c)
        \/ \E q \in Procs : scheduler(c, q) \/ fork(c, q) \/ fork_fail(c, q)
        \/ \E n \in KillArgs, q \in Procs : kill(c, n, q)

Spec == Init /\ [][Next]_vars

(* A process that is inside the kernel gets on whenever it runs again: its *)
(* time slice is long enough to win a spinlock and to go one step further. *)
(* And init calls wait() for ever (user/init.c).                           *)
InKernel(p) ==
    \E c \in CPUs :
        /\ proc[c] = p
        /\ \/ push_off(c)
           \/ fork_parent(c) \/ fork_run(c)
           \/ reparent(c) \/ wake_init(c) \/ wake_parent(c) \/ zombie(c)
           \/ (p = initproc /\ wait(c))
           \/ wait_acquire(c) \/ wait_none(c) \/ sleep(c)
           \/ \E q \in Procs : wait_reap(c, q)

(* The scheduler's scan reaches init, and the timer interrupts every user  *)
(* program.                                                                *)
Fairness ==
    /\ \A c \in CPUs : WF_vars(resume(c) \/ swtch(c)) /\ SF_vars(yield(c))
    /\ \A p \in Procs : SF_vars(InKernel(p))
    /\ SF_vars(\E c \in CPUs : scheduler(c, initproc))

FairSpec == Spec /\ Fairness

-----------------------------------------------------------------------------
OnCPU(p) == \E c \in CPUs : proc[c] = p

(* scheduler() and sched() hand a process from CPU to CPU without ever     *)
(* running it on two of them, and a process that is not RUNNING is at most *)
(* on its way out: its lock keeps everybody else away from its stack.      *)
OneCPU ==
    /\ \A c, d \in CPUs : proc[c] = proc[d] /\ proc[c] # NoProc => c = d
    /\ \A c \in CPUs : proc[c] # NoProc /\ state[proc[c]] # "RUNNING" => lock[proc[c]] = c

(* "make sure the child isn't still in exit() or swtch()" (wait): a slot   *)
(* is only freed, and so reused, after its process has left its stack.     *)
FreedOffCPU == \A p \in Procs : state[p] \in {"UNUSED", "USED"} => ~OnCPU(p)

(* wait() never sleeps over a child that has exited, its own or one that   *)
(* an exiting process left to init.                                        *)
NoLostExit ==
    wait_lock = NoCPU =>
        \A p \in Procs : state[p] = "SLEEPING" =>
            Children(p) # {} /\ \A q \in Children(p) : state[q] # "ZOMBIE"

(* sched() does not panic: the process holds its own lock and no other,    *)
(* and its state is not RUNNING.                                           *)
SchedNeverPanics ==
    \A c \in CPUs : mode[c] = "swtch" =>
        /\ wait_lock # c
        /\ \A q \in Procs : lock[q] = c <=> q = proc[c]
        /\ state[proc[c]] # "RUNNING"

(* Refinement of ProcTree: exit() takes effect when it has handed over the *)
(* children, fork() when it links the child to its parent.                 *)
Exiting == {"wake_init", "wake_parent", "zombie"}
Dead == {p \in Procs : state[p] \notin {"UNUSED", "USED"} /\ pc[p] \in Exiting}
Live == {p \in Procs : p = initproc \/ parent[p] # NoProc} \ Dead

PT == INSTANCE ProcTree WITH live <- Live, dead <- Dead

(* Whatever fork(), exit(), wait() and kill() do concurrently, no process  *)
(* is lost, reaped twice, or left without a live parent.                   *)
ImplementsProcTree == PT!Spec

(* No process stays a zombie child of init, its own or inherited.          *)
OrphansReaped == \A q \in Procs \ {initproc} : []<>~(state[q] = "ZOMBIE" /\ parent[q] = initproc)

(* A pid names one process, from allocproc() to freeproc() and never after: *)
(* a number that kill() and wait() work with is not passed on to the next  *)
(* process in the slot, nor to one that fork() makes at the same time.     *)
PidNamesOwner ==
    /\ \A p \in Procs : pid[p] = 0 <=> state[p] = "UNUSED"
    /\ \A p, q \in Procs : pid[p] = pid[q] /\ pid[p] # 0 => p = q

(* No process is born killed: a free slot is not marked.  False: the pid   *)
(* of every free slot is 0, and kill(0) marks one, because kill() looks at *)
(* p->pid and not at p->state.                                             *)
FreshSlots == \A p \in Procs : state[p] = "UNUSED" => ~killed[p]

-----------------------------------------------------------------------------
(* The parts of an inductive invariant.                                    *)

(* Where a process holds wait_lock, and where fork() has a child in hand.  *)
WaitHeld == Exiting \cup {"scan", "sleep"}
Forking == {"fork_parent", "fork_run"}

(* Who holds which lock, and in which state a CPU's process is.            *)
CpuInv ==
    /\ \A c, d \in CPUs : proc[c] = proc[d] /\ proc[c] # NoProc => c = d
    /\ \A c \in CPUs :
        /\ \A q \in Procs : lock[q] = c <=> proc[c] = q /\ mode[c] \in {"resume", "swtch"}
        /\ wait_lock = c <=> mode[c] = "run" /\ pc[proc[c]] \in WaitHeld
        /\ mode[c] \in {"resume", "run", "spin"} => state[proc[c]] = "RUNNING"
        /\ mode[c] = "swtch" => state[proc[c]] \in {"SLEEPING", "RUNNABLE", "ZOMBIE"}

(* Where a process in each state is.                                       *)
PlaceInv ==
    /\ \A c \in CPUs :
        /\ mode[c] = "resume" => pc[proc[c]] \notin WaitHeld
        /\ mode[c] = "run" => pc[proc[c]] \notin {"forkret", "wakened"}
        /\ mode[c] = "spin" => pc[proc[c]] \in LockPoints
    /\ \A p \in Procs :
        /\ state[p] = "UNUSED" => pc[p] \in {"forkret", "zombie"}
        /\ state[p] = "USED" => pc[p] = "forkret"
        /\ state[p] = "SLEEPING" => pc[p] = "wakened"
        /\ state[p] = "RUNNABLE" => pc[p] \notin WaitHeld
        /\ state[p] = "RUNNING" => \E c \in CPUs : proc[c] = p
        /\ state[p] = "ZOMBIE" => pc[p] = "zombie"
        /\ pc[p] = "wakened" => chan[p] = p

(* A child that fork() is still working on is USED, and its own.           *)
ForkInv ==
    /\ \A p \in Procs : pc[p] \in Forking =>
        np[p] \in Procs /\ state[np[p]] = "USED" /\ (parent[np[p]] = NoProc <=> pc[p] = "fork_parent")
    /\ \A p, q \in Procs : pc[p] \in Forking /\ pc[q] \in Forking /\ np[p] = np[q] => p = q

(* Every process but init has a parent, which has not begun to exit.       *)
TreeInv ==
    /\ parent[initproc] = NoProc
    /\ state[initproc] \notin {"UNUSED", "USED", "ZOMBIE"} /\ pc[initproc] \notin Exiting \cup {"exit"}
    /\ \A q \in Procs :
        /\ state[q] = "UNUSED" => parent[q] = NoProc
        /\ state[q] \notin {"UNUSED", "USED"} /\ q # initproc => parent[q] # NoProc
        /\ parent[q] # NoProc => state[parent[q]] \notin {"UNUSED", "USED"} /\ pc[parent[q]] \notin Exiting

(* wait() has seen under wait_lock that there is something to wait for;    *)
(* whoever makes that false wakes it before he gives up wait_lock.         *)
WaitInv ==
    /\ \A p \in Procs : state[p] = "SLEEPING" \/ pc[p] = "sleep" => \E q \in Procs : parent[q] = p
    /\ \A p, q \in Procs : pc[p] = "sleep" /\ parent[q] = p => state[q] # "ZOMBIE"
    /\ \A p, q \in Procs : state[p] = "SLEEPING" /\ parent[q] = p /\ state[q] = "ZOMBIE" =>
            p = initproc /\ \E c \in CPUs : At(c, "wake_init")
    /\ \A q \in Procs : pc[q] = "zombie" /\ state[q] = "RUNNING" => state[parent[q]] # "SLEEPING"

(* Pids are given out in order, from 1.                                    *)
PidInv ==
    /\ nextpid > 0
    /\ \A p \in Procs : pid[p] < nextpid
    /\ PidNamesOwner

IInv == TypeOK /\ CpuInv /\ PlaceInv /\ ForkInv /\ TreeInv /\ WaitInv /\ PidInv
=============================================================================
