----------------------------- MODULE ProcProof ------------------------------
(***************************************************************************)
(* Proofs about processes and the scheduler, for any number of processes   *)
(* and CPUs.                                                               *)
(***************************************************************************)
EXTENDS Proc, TLAPS

USE ProcAssumption DEF vars, locks, sched, States, Modes, Points, LockPoints, Exiting, WaitHeld, Forking

-----------------------------------------------------------------------------
(* What the invariant says of one CPU.                                     *)

LEMMA Running ==
    ASSUME IInv, NEW c \in CPUs, mode[c] \in {"resume", "run", "spin", "swtch"}
    PROVE  /\ proc[c] \in Procs
           /\ \A d \in CPUs : proc[d] = proc[c] => d = c
           /\ mode[c] # "swtch" => state[proc[c]] = "RUNNING"
  BY DEF IInv, TypeOK, CpuInv

(* wait_lock protects what it should.                                      *)
LEMMA WaitLocked ==
    ASSUME IInv, NEW q \in Procs, state[q] = "RUNNING", pc[q] \in WaitHeld
    PROVE  \E d \in CPUs : proc[d] = q /\ mode[d] = "run" /\ wait_lock = d
  <1>1. PICK d \in CPUs : proc[d] = q
    BY DEF IInv, PlaceInv
  <1>2. mode[d] \in Modes /\ mode[d] # "scan" /\ mode[d] # "swtch"
    BY <1>1 DEF IInv, TypeOK, CpuInv
  <1>3. mode[d] = "run"
    BY <1>1, <1>2 DEF IInv, PlaceInv
  <1> QED
    BY <1>1, <1>3 DEF IInv, CpuInv

LEMMA WaitHolder ==
    ASSUME IInv, NEW c \in CPUs, mode[c] = "run", pc[proc[c]] \in WaitHeld
    PROVE  /\ wait_lock = c
           /\ \A q \in Procs : state[q] = "RUNNING" /\ pc[q] \in WaitHeld => q = proc[c]
  <1>1. wait_lock = c
    BY DEF IInv, CpuInv
  <1>2. ASSUME NEW q \in Procs, state[q] = "RUNNING", pc[q] \in WaitHeld PROVE q = proc[c]
    BY <1>1, <1>2, WaitLocked
  <1> QED
    BY <1>1, <1>2

LEMMA WaitFree ==
    ASSUME IInv, wait_lock = NoCPU
    PROVE  \A q \in Procs : state[q] = "RUNNING" => pc[q] \notin WaitHeld
  BY WaitLocked

(* A process that does not run is not at a point inside the kernel where   *)
(* it holds wait_lock, unless it is dead.                                  *)
LEMMA SleepPoint ==
    ASSUME IInv, NEW q \in Procs, pc[q] \in {"sleep", "scan", "wake_init", "wake_parent"} \cup Forking
    PROVE  state[q] \in {"RUNNING", "RUNNABLE"} /\ (pc[q] \notin Forking => state[q] = "RUNNING")
  BY DEF IInv, TypeOK, PlaceInv

-----------------------------------------------------------------------------
LEMMA InitInv == Init => IInv
  <1> SUFFICES ASSUME Init PROVE IInv
    OBVIOUS
  <1>1. TypeOK
    BY DEF Init, TypeOK
  <1>2. CpuInv
    BY DEF Init, CpuInv
  <1>3. PlaceInv
    BY DEF Init, PlaceInv
  <1>4. ForkInv
    BY DEF Init, ForkInv
  <1>5. TreeInv
    BY DEF Init, TreeInv
  <1>6. WaitInv
    BY DEF Init, WaitInv
  <1>7. PidInv
    BY DEF Init, PidInv, PidNamesOwner
  <1> QED
    BY <1>1, <1>2, <1>3, <1>4, <1>5, <1>6, <1>7 DEF IInv

(* The excuse for a sleeping init: somebody is about to wake it.           *)
InitWaker == \E d \in CPUs : At(d, "wake_init")

CpuPlace ==
    \A c \in CPUs :
        /\ mode[c] = "resume" => pc[proc[c]] \notin WaitHeld
        /\ mode[c] = "run" => pc[proc[c]] \notin {"forkret", "wakened"}
        /\ mode[c] = "spin" => pc[proc[c]] \in LockPoints

PlaceOf(p) ==
    /\ state[p] = "UNUSED" => pc[p] \in {"forkret", "zombie"}
    /\ state[p] = "USED" => pc[p] = "forkret"
    /\ state[p] = "SLEEPING" => pc[p] = "wakened"
    /\ state[p] = "RUNNABLE" => pc[p] \notin WaitHeld
    /\ state[p] = "RUNNING" => \E c \in CPUs : proc[c] = p
    /\ state[p] = "ZOMBIE" => pc[p] = "zombie"
    /\ pc[p] = "wakened" => chan[p] = p

LEMMA PlaceParts == PlaceInv <=> CpuPlace /\ \A p \in Procs : PlaceOf(p)
  BY DEF PlaceInv, CpuPlace, PlaceOf

LEMMA SchedulerInv ==
    ASSUME IInv, NEW c \in CPUs, NEW p \in Procs, scheduler(c, p)
    PROVE  IInv'
  <1> USE DEF IInv, scheduler, Free
  <1>1. /\ state'[p] = "RUNNING" /\ \A q \in Procs \ {p} : state'[q] = state[q]
        /\ lock'[p] = c /\ \A q \in Procs \ {p} : lock'[q] = lock[q]
        /\ proc'[c] = p /\ mode'[c] = "resume"
        /\ \A d \in CPUs \ {c} : proc'[d] = proc[d] /\ mode'[d] = mode[d]
    BY DEF TypeOK
  <1>2. proc[c] = NoProc /\ \A d \in CPUs : proc[d] # p
    BY DEF TypeOK, CpuInv
  <1>3. TypeOK'
    BY <1>1 DEF TypeOK
  <1>4. CpuInv'
    BY <1>1, <1>2 DEF CpuInv
  <1>5. PlaceInv'
    <2>1. CpuPlace'
      BY <1>1 DEF PlaceInv, CpuPlace
    <2>2. ASSUME NEW q \in Procs, state'[q] = "RUNNING" PROVE \E d \in CPUs : proc'[d] = q
      <3>1. CASE q = p
        BY <1>1, <3>1
      <3>2. CASE q # p
        <4>1. PICK d \in CPUs : proc[d] = q
          BY <1>1, <2>2, <3>2 DEF PlaceInv
        <4>2. d # c
          BY <1>2, <4>1
        <4> QED
          BY <1>1, <4>1, <4>2
      <3> QED
        BY <3>1, <3>2
    <2> QED
      BY <1>1, <2>1, <2>2 DEF PlaceInv, CpuPlace
  <1>6. ForkInv'
    BY <1>1 DEF ForkInv
  <1>7. TreeInv'
    BY <1>1, <1>2 DEF TreeInv
  <1>8. WaitInv'
    <2>1. InitWaker => InitWaker'
      BY <1>1 DEF InitWaker, At
    <2>2. pc[p] # "zombie"
      BY DEF PlaceInv
    <2> QED
      BY <1>1, <2>1, <2>2 DEF WaitInv, InitWaker
  <1>9. PidInv'
    BY <1>1 DEF PidInv, PidNamesOwner
  <1> QED
    BY <1>3, <1>4, <1>5, <1>6, <1>7, <1>8, <1>9

LEMMA ResumeInv ==
    ASSUME IInv, NEW c \in CPUs, resume(c)
    PROVE  IInv'
  <1> USE DEF IInv, resume, Goto
  <1> DEFINE p == proc[c]
  <1>1. p \in Procs /\ state[p] = "RUNNING" /\ \A d \in CPUs : proc[d] = p => d = c
    BY Running
  <1>2. /\ \A q \in Procs \ {p} : pc'[q] = pc[q] /\ chan'[q] = chan[q] /\ lock'[q] = lock[q]
        /\ lock'[p] = NoCPU
        /\ pc'[p] = IF pc[p] = "forkret" THEN "user" ELSE IF pc[p] = "wakened" THEN "wait" ELSE pc[p]
        /\ mode'[c] = "run" /\ \A d \in CPUs \ {c} : mode'[d] = mode[d]
    BY <1>1 DEF TypeOK
  <1>3. TypeOK'
    BY <1>1 DEF TypeOK
  <1> HIDE DEF p
  <1>4. /\ pc[p] \notin WaitHeld
        /\ pc'[p] = pc[p] \/ (pc[p] \in {"forkret", "wakened"} /\ pc'[p] \in {"user", "wait"})
        /\ pc'[p] \notin {"forkret", "wakened"}
    BY <1>2 DEF PlaceInv, p
  <1>5. UNCHANGED <<state, parent, killed, pid, nextpid, wait_lock, proc, np>>
    OBVIOUS
  <1>6. CpuInv'
    <2>1. wait_lock # c
      BY DEF CpuInv
    <2> QED
      BY <1>1, <1>2, <1>4, <1>5, <2>1 DEF CpuInv, p, TypeOK
  <1>7. PlaceInv'
    <2>1. CpuPlace'
      <3>1. ASSUME NEW d \in CPUs, d # c, mode[d] # "scan" PROVE pc'[proc[d]] = pc[proc[d]]
        <4>1. proc[d] \in Procs \ {p}
          BY <1>1, <3>1 DEF TypeOK, p
        <4> QED
          BY <1>2, <4>1
      <3> QED
        BY <1>2, <1>4, <1>5, <3>1 DEF PlaceInv, CpuPlace, p
    <2> QED
      BY <1>1, <1>2, <1>4, <1>5, <2>1 DEF PlaceInv, CpuPlace
  <1>8. ForkInv'
    BY <1>1, <1>2, <1>4, <1>5 DEF ForkInv
  <1>9. TreeInv'
    BY <1>1, <1>2, <1>4, <1>5 DEF TreeInv, TypeOK
  <1>10. WaitInv'
    <2>1. InitWaker => InitWaker'
      BY <1>1, <1>2, <1>4, <1>5 DEF InitWaker, At, p, TypeOK
    <2> QED
      BY <1>1, <1>2, <1>4, <1>5, <2>1 DEF WaitInv, InitWaker
  <1>11. PidInv'
    BY DEF PidInv, PidNamesOwner
  <1> QED
    BY <1>3, <1>6, <1>7, <1>8, <1>9, <1>10, <1>11

LEMMA SwtchInv ==
    ASSUME IInv, NEW c \in CPUs, swtch(c)
    PROVE  IInv'
  <1> USE DEF IInv, swtch
  <1> DEFINE p == proc[c]
  <1>1. p \in Procs /\ \A d \in CPUs : proc[d] = p => d = c
    BY Running
  <1>2. /\ lock'[p] = NoCPU /\ \A q \in Procs \ {p} : lock'[q] = lock[q]
        /\ mode'[c] = "scan" /\ proc'[c] = NoProc
        /\ \A d \in CPUs \ {c} : mode'[d] = mode[d] /\ proc'[d] = proc[d]
    BY <1>1 DEF TypeOK
  <1>3. TypeOK'
    BY <1>1, <1>2 DEF TypeOK
  <1>4. state[p] # "RUNNING"
    BY DEF CpuInv
  <1> HIDE DEF p
  <1>5. CpuInv'
    BY <1>1, <1>2 DEF CpuInv, TypeOK, p
  <1>6. PlaceInv'
    BY <1>1, <1>2, <1>4 DEF PlaceInv, p
  <1>7. ForkInv' /\ TreeInv'
    BY DEF ForkInv, TreeInv
  <1>8. WaitInv'
    <2>1. InitWaker => InitWaker'
      BY <1>2 DEF InitWaker, At
    <2> QED
      BY <2>1 DEF WaitInv, InitWaker
  <1>9. PidInv'
    BY DEF PidInv, PidNamesOwner
  <1> QED
    BY <1>3, <1>5, <1>6, <1>7, <1>8, <1>9

LEMMA PushOffInv ==
    ASSUME IInv, NEW c \in CPUs, push_off(c)
    PROVE  IInv'
  <1> USE DEF IInv, push_off
  <1>1. mode'[c] = "spin" /\ \A d \in CPUs \ {c} : mode'[d] = mode[d]
    BY DEF TypeOK
  <1>2. TypeOK'
    BY <1>1 DEF TypeOK
  <1>3. CpuInv'
    BY <1>1 DEF CpuInv
  <1>4. PlaceInv'
    BY <1>1 DEF PlaceInv
  <1>5. ForkInv' /\ TreeInv'
    BY DEF ForkInv, TreeInv
  <1>6. WaitInv'
    <2>1. InitWaker => InitWaker'
      BY <1>1 DEF InitWaker, At
    <2> QED
      BY <2>1 DEF WaitInv, InitWaker
  <1>7. PidInv'
    BY DEF PidInv, PidNamesOwner
  <1> QED
    BY <1>2, <1>3, <1>4, <1>5, <1>6, <1>7

LEMMA YieldInv ==
    ASSUME IInv, NEW c \in CPUs, yield(c)
    PROVE  IInv'
  <1> USE DEF IInv, yield, EnterSched, InterruptsOff, Free
  <1> DEFINE p == proc[c]
  <1>1. p \in Procs /\ state[p] = "RUNNING" /\ \A d \in CPUs : proc[d] = p => d = c
    BY Running
  <1>2. /\ state'[p] = "RUNNABLE" /\ lock'[p] = c
        /\ \A q \in Procs \ {p} : state'[q] = state[q] /\ lock'[q] = lock[q]
        /\ mode'[c] = "swtch" /\ \A d \in CPUs \ {c} : mode'[d] = mode[d]
    BY <1>1 DEF TypeOK
  <1>3. TypeOK'
    BY <1>1, <1>2 DEF TypeOK
  <1>4. pc[p] \notin WaitHeld
    BY DEF CpuInv
  <1> HIDE DEF p
  <1>5. CpuInv'
    BY <1>1, <1>2, <1>4 DEF CpuInv, TypeOK, p
  <1>6. PlaceInv'
    BY <1>1, <1>2, <1>4 DEF PlaceInv, p
  <1>7. ForkInv' /\ TreeInv'
    BY <1>1, <1>2 DEF ForkInv, TreeInv
  <1>8. WaitInv'
    <2>1. InitWaker => InitWaker'
      BY <1>2, <1>4 DEF InitWaker, At, p
    <2> QED
      BY <1>1, <1>2, <1>4, <2>1 DEF WaitInv, InitWaker
  <1>9. PidInv'
    BY <1>1, <1>2 DEF PidInv, PidNamesOwner
  <1> QED
    BY <1>3, <1>5, <1>6, <1>7, <1>8, <1>9

-----------------------------------------------------------------------------
(* fork()                                                                  *)

LEMMA ForkStepInv ==
    ASSUME IInv, NEW c \in CPUs, NEW q \in Procs, fork(c, q)
    PROVE  IInv'
  <1> USE DEF IInv, fork, MaySyscall, At, Free
  <1> DEFINE p == proc[c]
  <1>1. p \in Procs /\ state[p] = "RUNNING" /\ p # q /\ \A d \in CPUs : proc[d] = p => d = c
    BY Running
  <1>2. /\ state'[q] = "USED" /\ pc'[q] = "forkret" /\ pid'[q] = nextpid
        /\ pc[p] = "user" /\ pc'[p] = "fork_parent" /\ np'[p] = q /\ state'[p] = "RUNNING"
        /\ \A s \in Procs \ {q} : state'[s] = state[s] /\ pid'[s] = pid[s]
        /\ \A s \in Procs \ {p, q} : pc'[s] = pc[s]
        /\ \A s \in Procs \ {p} : np'[s] = np[s]
    BY <1>1 DEF TypeOK
  <1>3. UNCHANGED <<parent, killed, chan, lock, wait_lock, proc, mode>> /\ nextpid' = nextpid + 1
    OBVIOUS
  <1>4. TypeOK'
    <2>1. pc' \in [Procs -> Points] /\ np' \in [Procs -> Procs \cup {NoProc}] /\ state' \in [Procs -> States]
      BY <1>1 DEF TypeOK
    <2>2. pid' \in [Procs -> Nat] /\ nextpid' \in Nat
      BY <1>1 DEF TypeOK
    <2> QED
      BY <1>3, <2>1, <2>2 DEF TypeOK
  <1>5. state[q] = "UNUSED" /\ \A d \in CPUs : proc[d] # q
    BY DEF CpuInv, TypeOK
  <1> HIDE DEF p
  <1>6. CpuInv'
    BY <1>1, <1>2, <1>3, <1>5 DEF CpuInv, TypeOK
  <1>7. PlaceInv'
    <2>1. CpuPlace'
      BY <1>1, <1>2, <1>3, <1>5 DEF PlaceInv, CpuPlace, TypeOK, p
    <2>2. q # p /\ pc[q] # "wakened"
      BY <1>1, <1>5 DEF PlaceInv
    <2>3. ASSUME NEW s \in Procs, state'[s] = "RUNNING" PROVE \E d \in CPUs : proc'[d] = s
      BY <1>2, <1>3, <2>3 DEF PlaceInv
    <2>4. \A s \in Procs \ {p, q} : state'[s] = state[s] /\ pc'[s] = pc[s] /\ chan'[s] = chan[s]
      BY <1>2, <1>3
    <2>5. ASSUME NEW s \in Procs PROVE PlaceOf(s)'
      <3>1. CASE s = p
        BY <1>1, <1>2, <2>3, <3>1 DEF PlaceOf
      <3>2. CASE s = q
        BY <1>1, <1>2, <2>3, <3>2 DEF PlaceOf
      <3>3. CASE s \notin {p, q}
        <4>1. PlaceOf(s)
          BY PlaceParts
        <4> QED
          BY <1>3, <2>4, <3>3, <4>1 DEF PlaceOf
      <3> QED
        BY <3>1, <3>2, <3>3
    <2>6. PlaceInv' <=> CpuPlace' /\ \A s \in Procs : PlaceOf(s)'
      BY DEF PlaceInv, CpuPlace, PlaceOf
    <2> QED
      BY <2>1, <2>5, <2>6
  <1>8. ForkInv'
    <2>1. parent[q] = NoProc /\ \A s \in Procs : pc[s] \in Forking => np[s] # q
      BY <1>5 DEF TreeInv, ForkInv
    <2> QED
      BY <1>1, <1>2, <1>3, <2>1 DEF ForkInv, TypeOK
  <1>9. TreeInv'
    BY <1>1, <1>2, <1>3, <1>5 DEF TreeInv, TypeOK
  <1>10. WaitInv'
    <2>1. InitWaker => InitWaker'
      BY <1>1, <1>2, <1>3, <1>5 DEF InitWaker, TypeOK, p
    <2>2. \A s \in Procs : pc'[s] \in {"zombie", "sleep"} => pc'[s] = pc[s] /\ s # q
      BY <1>1, <1>2
    <2>3. \A s \in Procs : state'[s] \in {"SLEEPING", "ZOMBIE"} => state'[s] = state[s]
      BY <1>1, <1>2
    <2>4. ASSUME NEW s \in Procs, pc'[s] = "zombie", state'[s] = "RUNNING" PROVE state'[parent[s]] # "SLEEPING"
      <3>1. s # initproc /\ s # q
        BY <1>2, <2>4, <1>1, <2>2 DEF TreeInv
      <3>2. state[s] = "RUNNING" /\ pc[s] = "zombie" /\ parent[s] \in Procs
        BY <1>2, <2>2, <2>4, <3>1 DEF TreeInv, TypeOK
      <3> QED
        BY <2>3, <3>2 DEF WaitInv
    <2>5. \A s, t \in Procs : pc'[s] = "sleep" /\ parent'[t] = s => state'[t] # "ZOMBIE"
      BY <1>3, <2>2, <2>3 DEF WaitInv
    <2>6. \A s \in Procs : state'[s] = "SLEEPING" \/ pc'[s] = "sleep" => \E t \in Procs : parent'[t] = s
      BY <1>3, <2>2, <2>3 DEF WaitInv
    <2>7. \A s, t \in Procs : state'[s] = "SLEEPING" /\ parent'[t] = s /\ state'[t] = "ZOMBIE" => s = initproc /\ InitWaker'
      <3>1. ASSUME NEW s \in Procs, NEW t \in Procs, state[s] = "SLEEPING", parent[t] = s, state[t] = "ZOMBIE"
            PROVE  s = initproc /\ InitWaker
        BY <3>1 DEF WaitInv, InitWaker
      <3> QED
        BY <1>3, <2>1, <2>3, <3>1
    <2> QED
      BY <1>3, <2>4, <2>5, <2>6, <2>7, ZenonT(60) DEF WaitInv, InitWaker
  <1>11. PidInv'
    <2>1. nextpid \in Nat /\ nextpid > 0 /\ \A s \in Procs : pid[s] \in Nat /\ pid[s] < nextpid
      BY DEF PidInv, TypeOK
    <2>2. pid'[q] = nextpid /\ \A s \in Procs \ {q} : pid'[s] = pid[s]
      BY DEF TypeOK
    <2>3. \A s \in Procs : pid'[s] < nextpid'
      BY <1>1, <2>1, <2>2
    <2>4. \A s \in Procs : pid'[s] = 0 <=> state'[s] = "UNUSED"
      BY <1>1, <1>2, <1>3, <2>1, <2>2 DEF PidInv, PidNamesOwner
    <2>5. ASSUME NEW s \in Procs, NEW t \in Procs, pid'[s] = pid'[t], pid'[s] # 0 PROVE s = t
      BY <2>1, <2>2, <2>5 DEF PidInv, PidNamesOwner
    <2> QED
      BY <1>1, <2>1, <2>3, <2>4, <2>5 DEF PidInv, PidNamesOwner
  <1> QED
    BY <1>4, <1>6, <1>7, <1>8, <1>9, <1>10, <1>11

LEMMA ForkFailInv ==
    ASSUME IInv, NEW c \in CPUs, NEW q \in Procs, fork_fail(c, q)
    PROVE  IInv'
  <1> USE DEF IInv, fork_fail
  <1>1. UNCHANGED <<state, parent, chan, pid, lock, wait_lock, proc, mode, pc, np>> /\ nextpid' = nextpid + 1
    OBVIOUS
  <1>2. TypeOK'
    <2>1. killed' \in [Procs -> BOOLEAN]
      BY DEF TypeOK
    <2>2. nextpid' \in Nat
      BY <1>1 DEF TypeOK
    <2> QED
      BY <1>1, <2>1, <2>2 DEF TypeOK
  <1>3. CpuInv' /\ PlaceInv' /\ ForkInv' /\ TreeInv'
    BY <1>1 DEF CpuInv, PlaceInv, ForkInv, TreeInv
  <1>4. WaitInv'
    BY <1>1 DEF WaitInv, At
  <1>5. PidInv'
    <2>1. nextpid' > 0 /\ \A s \in Procs : pid[s] < nextpid'
      BY <1>1 DEF PidInv, TypeOK
    <2> QED
      BY <1>1, <2>1 DEF PidInv, PidNamesOwner
  <1> QED
    BY <1>2, <1>3, <1>4, <1>5

LEMMA ForkParentInv ==
    ASSUME IInv, NEW c \in CPUs, fork_parent(c)
    PROVE  IInv'
  <1> USE DEF IInv, fork_parent, Spinning, Goto, Acquired
  <1> DEFINE p == proc[c]
             q == np[p]
  <1>1. p \in Procs /\ state[p] = "RUNNING" /\ pc[p] = "fork_parent" /\ \A d \in CPUs : proc[d] = p => d = c
    BY Running
  <1>2. q \in Procs /\ state[q] = "USED" /\ parent[q] = NoProc /\ q # p
    BY <1>1 DEF ForkInv
  <1>3. /\ pc'[p] = "fork_run" /\ \A s \in Procs \ {p} : pc'[s] = pc[s]
        /\ parent'[q] = p /\ \A s \in Procs \ {q} : parent'[s] = parent[s]
        /\ mode[c] = "spin" /\ mode'[c] = "run" /\ \A d \in CPUs \ {c} : mode'[d] = mode[d]
    BY <1>1, <1>2 DEF TypeOK
  <1>4. UNCHANGED <<state, killed, chan, pid, nextpid, lock, wait_lock, proc, np>>
    OBVIOUS
  <1>5. TypeOK'
    <2>1. pc' \in [Procs -> Points] /\ parent' \in [Procs -> Procs \cup {NoProc}] /\ mode' \in [CPUs -> Modes]
      BY <1>1 DEF TypeOK
    <2>2. \A d \in CPUs : mode'[d] = "scan" <=> proc'[d] = NoProc
      BY <1>1, <1>3, <1>4 DEF TypeOK
    <2> QED
      BY <1>4, <2>1, <2>2 DEF TypeOK
  <1>6. p = proc[c] /\ q = np[p]
    OBVIOUS
  <1> HIDE DEF p, q
  <1>7. CpuInv'
    <2>1. wait_lock # c
      BY <1>3 DEF CpuInv
    <2> QED
      BY <1>1, <1>3, <1>4, <1>6, <2>1 DEF CpuInv, TypeOK
  <1>8. PlaceInv'
    <2>1. CpuPlace'
      BY <1>1, <1>3, <1>4, <1>6 DEF PlaceInv, CpuPlace, TypeOK
    <2> QED
      BY <1>1, <1>3, <1>4, <2>1 DEF PlaceInv, CpuPlace
  <1>9. ForkInv'
    BY <1>1, <1>2, <1>3, <1>4, <1>6 DEF ForkInv
  <1>10. TreeInv'
    BY <1>1, <1>2, <1>3, <1>4 DEF TreeInv, TypeOK
  <1>11. WaitInv'
    <2>1. InitWaker => InitWaker'
      BY <1>1, <1>3, <1>4 DEF InitWaker, At, TypeOK, p
    <2> QED
      BY <1>1, <1>2, <1>3, <1>4, <2>1 DEF WaitInv, InitWaker
  <1>12. PidInv'
    BY <1>4 DEF PidInv, PidNamesOwner
  <1> QED
    BY <1>5, <1>7, <1>8, <1>9, <1>10, <1>11, <1>12

LEMMA ForkRunInv ==
    ASSUME IInv, NEW c \in CPUs, fork_run(c)
    PROVE  IInv'
  <1> USE DEF IInv, fork_run, Spinning, Goto, Acquired, Free
  <1> DEFINE p == proc[c]
             q == np[p]
  <1>1. p \in Procs /\ state[p] = "RUNNING" /\ pc[p] = "fork_run" /\ \A d \in CPUs : proc[d] = p => d = c
    BY Running
  <1>2. q \in Procs /\ state[q] = "USED" /\ parent[q] # NoProc /\ q # p /\ pc[q] = "forkret"
    BY <1>1 DEF ForkInv, PlaceInv
  <1>3. /\ pc'[p] = "user" /\ \A s \in Procs \ {p} : pc'[s] = pc[s] /\ np'[s] = np[s]
        /\ state'[q] = "RUNNABLE" /\ \A s \in Procs \ {q} : state'[s] = state[s]
        /\ mode[c] = "spin" /\ mode'[c] = "run" /\ \A d \in CPUs \ {c} : mode'[d] = mode[d]
    BY <1>1, <1>2 DEF TypeOK
  <1>4. UNCHANGED <<parent, killed, chan, pid, nextpid, lock, wait_lock, proc>>
    OBVIOUS
  <1>5. TypeOK'
    <2>1. pc' \in [Procs -> Points] /\ np' \in [Procs -> Procs \cup {NoProc}] /\ mode' \in [CPUs -> Modes] /\ state' \in [Procs -> States]
      BY <1>1 DEF TypeOK
    <2>2. \A d \in CPUs : mode'[d] = "scan" <=> proc'[d] = NoProc
      BY <1>1, <1>3, <1>4 DEF TypeOK
    <2> QED
      BY <1>4, <2>1, <2>2 DEF TypeOK
  <1>6. p = proc[c] /\ q = np[p] /\ \A d \in CPUs : proc[d] # q
    BY <1>2 DEF CpuInv, TypeOK
  <1> HIDE DEF p, q
  <1>7. CpuInv'
    <2>1. wait_lock # c
      BY <1>3 DEF CpuInv
    <2> QED
      BY <1>1, <1>3, <1>4, <1>6, <2>1 DEF CpuInv, TypeOK
  <1>8. PlaceInv'
    <2>1. CpuPlace'
      BY <1>1, <1>3, <1>4, <1>6 DEF PlaceInv, CpuPlace, TypeOK
    <2> QED
      BY <1>1, <1>2, <1>3, <1>4, <2>1 DEF PlaceInv, CpuPlace
  <1>9. ForkInv'
    BY <1>1, <1>2, <1>3, <1>4, <1>6 DEF ForkInv
  <1>10. TreeInv'
    BY <1>1, <1>2, <1>3, <1>4 DEF TreeInv, TypeOK
  <1>11. WaitInv'
    <2>1. InitWaker => InitWaker'
      BY <1>1, <1>3, <1>4 DEF InitWaker, At, TypeOK, p
    <2>2. \A s \in Procs : state'[s] \in {"SLEEPING", "ZOMBIE", "RUNNING"} <=> state[s] \in {"SLEEPING", "ZOMBIE", "RUNNING"}
      BY <1>2, <1>3
    <2> QED
      BY <1>1, <1>2, <1>3, <1>4, <2>1, <2>2 DEF WaitInv, InitWaker
  <1>12. PidInv'
    BY <1>2, <1>3, <1>4 DEF PidInv, PidNamesOwner
  <1> QED
    BY <1>5, <1>7, <1>8, <1>9, <1>10, <1>11, <1>12

(* The system calls exit() and wait() begin.                               *)
LEMMA CallInv ==
    ASSUME IInv, NEW c \in CPUs, exit(c) \/ wait(c)
    PROVE  IInv'
  <1> USE DEF IInv, exit, wait, MaySyscall, At, Goto
  <1> DEFINE p == proc[c]
  <1>1. p \in Procs /\ state[p] = "RUNNING" /\ pc[p] = "user" /\ \A d \in CPUs : proc[d] = p => d = c
    BY Running
  <1>2. /\ pc'[p] \in {"exit", "wait"} /\ (pc'[p] = "exit" => p # initproc)
        /\ \A s \in Procs \ {p} : pc'[s] = pc[s]
    BY <1>1 DEF TypeOK
  <1>3. UNCHANGED <<state, parent, killed, chan, pid, nextpid, lock, wait_lock, proc, mode, np>>
    OBVIOUS
  <1>4. TypeOK'
    <2>1. pc' \in [Procs -> Points]
      BY DEF TypeOK
    <2> QED
      BY <1>3, <2>1 DEF TypeOK
  <1>5. p = proc[c] /\ mode[c] = "run"
    OBVIOUS
  <1> HIDE DEF p
  <1>6. CpuInv'
    BY <1>1, <1>2, <1>3, <1>5 DEF CpuInv, TypeOK
  <1>7. PlaceInv'
    <2>1. CpuPlace'
      BY <1>1, <1>2, <1>3, <1>5 DEF PlaceInv, CpuPlace, TypeOK
    <2> QED
      BY <1>1, <1>2, <1>3, <2>1 DEF PlaceInv, CpuPlace
  <1>8. ForkInv'
    BY <1>1, <1>2, <1>3 DEF ForkInv
  <1>9. TreeInv'
    BY <1>1, <1>2, <1>3 DEF TreeInv, TypeOK
  <1>10. WaitInv'
    <2>1. InitWaker => InitWaker'
      BY <1>1, <1>2, <1>3, <1>5 DEF InitWaker, TypeOK
    <2> QED
      BY <1>1, <1>2, <1>3, <2>1 DEF WaitInv, InitWaker
  <1>11. PidInv'
    BY <1>3 DEF PidInv, PidNamesOwner
  <1> QED
    BY <1>4, <1>6, <1>7, <1>8, <1>9, <1>10, <1>11

-----------------------------------------------------------------------------
(* exit()                                                                  *)

LEMMA ReparentInv ==
    ASSUME IInv, NEW c \in CPUs, reparent(c)
    PROVE  IInv'
  <1> USE DEF IInv, reparent, Spinning, Goto, Acquired, Children
  <1> DEFINE p == proc[c]
  <1>1. p \in Procs /\ state[p] = "RUNNING" /\ pc[p] = "exit" /\ \A d \in CPUs : proc[d] = p => d = c
    BY Running
  <1>2. /\ pc'[p] \in {"wake_init", "wake_parent"} /\ \A s \in Procs \ {p} : pc'[s] = pc[s]
        /\ (\E q \in Procs : parent[q] = p) => pc'[p] = "wake_init"
        /\ \A s \in Procs : parent'[s] = IF parent[s] = p THEN initproc ELSE parent[s]
        /\ mode[c] = "spin" /\ mode'[c] = "run" /\ \A d \in CPUs \ {c} : mode'[d] = mode[d]
        /\ wait_lock = NoCPU /\ wait_lock' = c
    BY <1>1 DEF TypeOK
  <1>3. UNCHANGED <<state, killed, chan, pid, nextpid, lock, proc, np>>
    OBVIOUS
  <1>4. TypeOK'
    <2>1. pc' \in [Procs -> Points] /\ parent' \in [Procs -> Procs \cup {NoProc}] /\ mode' \in [CPUs -> Modes]
      BY <1>1 DEF TypeOK
    <2>2. \A d \in CPUs : mode'[d] = "scan" <=> proc'[d] = NoProc
      BY <1>1, <1>2, <1>3 DEF TypeOK
    <2> QED
      BY <1>2, <1>3, <2>1, <2>2 DEF TypeOK
  <1>5. p = proc[c] /\ p # initproc
    BY <1>1 DEF TreeInv
  <1> HIDE DEF p
  <1>6. CpuInv'
    BY <1>1, <1>2, <1>3, <1>5 DEF CpuInv, TypeOK
  <1>7. PlaceInv'
    <2>1. CpuPlace'
      BY <1>1, <1>2, <1>3, <1>5 DEF PlaceInv, CpuPlace, TypeOK
    <2> QED
      BY <1>1, <1>2, <1>3, <2>1 DEF PlaceInv, CpuPlace
  <1>8. ForkInv'
    BY <1>1, <1>2, <1>3, <1>5 DEF ForkInv
  <1>9. TreeInv'
    BY <1>1, <1>2, <1>3, <1>5 DEF TreeInv, TypeOK
  <1>10. WaitInv'
    <2>1. \A q \in Procs : state[q] = "RUNNING" => pc[q] \notin WaitHeld
      BY <1>2, WaitFree
    <2>2. (\E q \in Procs : parent[q] = p) => InitWaker'
      BY <1>1, <1>2, <1>3, <1>5 DEF InitWaker, At, TypeOK
    <2>3. InitWaker => InitWaker'
      BY <1>1, <1>2, <1>3, <1>5 DEF InitWaker, At, TypeOK
    <2>4. \A s \in Procs : pc'[s] # "sleep" /\ (state'[s] = "SLEEPING" => s # p)
      BY <1>1, <1>2, <1>3, <2>1, SleepPoint
    <2>5. \A s \in Procs : pc'[s] = "zombie" => state'[s] # "RUNNING"
      BY <1>1, <1>2, <1>3, <2>1
    <2>6. ASSUME NEW s \in Procs, state'[s] = "SLEEPING" PROVE \E q \in Procs : parent'[q] = s
      BY <1>2, <1>3, <2>4, <2>6 DEF WaitInv
    <2>7. ASSUME NEW s \in Procs, NEW q \in Procs, state'[s] = "SLEEPING", parent'[q] = s, state'[q] = "ZOMBIE"
          PROVE  s = initproc /\ InitWaker'
      BY <1>2, <1>3, <2>2, <2>3, <2>7 DEF WaitInv, InitWaker
    <2> QED
      BY <2>4, <2>5, <2>6, <2>7 DEF WaitInv, InitWaker
  <1>11. PidInv'
    BY <1>3 DEF PidInv, PidNamesOwner
  <1> QED
    BY <1>4, <1>6, <1>7, <1>8, <1>9, <1>10, <1>11

(* wakeup(q), under the lock of the only process that sleeps on q.         *)
LEMMA WakeupEffect ==
    ASSUME IInv, NEW q \in Procs, wakeup(q)
    PROVE  /\ state' \in [Procs -> States]
           /\ state'[q] = IF state[q] = "SLEEPING" THEN "RUNNABLE" ELSE state[q]
           /\ \A s \in Procs \ {q} : state'[s] = state[s]
  <1>1. state[q] = "SLEEPING" => chan[q] = q
    BY DEF IInv, PlaceInv
  <1> QED
    BY <1>1 DEF IInv, TypeOK, wakeup

LEMMA WakeInitInv ==
    ASSUME IInv, NEW c \in CPUs, wake_init(c)
    PROVE  IInv'
  <1> USE DEF IInv, wake_init, At, Goto, Free
  <1> DEFINE p == proc[c]
  <1>1. p \in Procs /\ state[p] = "RUNNING" /\ pc[p] = "wake_init" /\ \A d \in CPUs : proc[d] = p => d = c
    BY Running
  <1>2. /\ pc'[p] = "wake_parent" /\ \A s \in Procs \ {p} : pc'[s] = pc[s]
        /\ mode[c] = "run" /\ lock[initproc] = NoCPU
    BY <1>1 DEF TypeOK
  <1>3. UNCHANGED <<parent, killed, chan, pid, nextpid, lock, wait_lock, proc, mode, np>>
    OBVIOUS
  <1>4. /\ state' \in [Procs -> States]
        /\ state'[initproc] = IF state[initproc] = "SLEEPING" THEN "RUNNABLE" ELSE state[initproc]
        /\ \A s \in Procs \ {initproc} : state'[s] = state[s]
    BY WakeupEffect
  <1>5. TypeOK'
    <2>1. pc' \in [Procs -> Points]
      BY DEF TypeOK
    <2> QED
      BY <1>3, <1>4, <2>1 DEF TypeOK
  <1>6. p = proc[c] /\ p # initproc
    BY <1>1 DEF TreeInv
  <1>7. state'[initproc] # "SLEEPING" /\ \A s \in Procs : state'[s] = state[s] \/ (s = initproc /\ state[s] = "SLEEPING" /\ state'[s] = "RUNNABLE")
    BY <1>4
  <1> HIDE DEF p
  <1>8. CpuInv'
    BY <1>1, <1>2, <1>3, <1>6, <1>7 DEF CpuInv, TypeOK
  <1>9. PlaceInv'
    <2>1. CpuPlace'
      BY <1>1, <1>2, <1>3, <1>6 DEF PlaceInv, CpuPlace, TypeOK
    <2> QED
      BY <1>1, <1>2, <1>3, <1>7, <2>1 DEF PlaceInv, CpuPlace
  <1>10. ForkInv'
    BY <1>1, <1>2, <1>3, <1>7 DEF ForkInv
  <1>11. TreeInv'
    BY <1>1, <1>2, <1>3, <1>6, <1>7 DEF TreeInv, TypeOK
  <1>12. WaitInv'
    <2>1. ASSUME NEW s \in Procs, state'[s] = "SLEEPING" PROVE state[s] = "SLEEPING" /\ s # initproc
      BY <1>7, <2>1
    <2>2. ASSUME NEW s \in Procs, pc'[s] \in {"sleep", "zombie"} PROVE pc'[s] = pc[s]
      BY <1>1, <1>2, <2>2
    <2>3. ASSUME NEW q \in Procs, pc'[q] = "zombie", state'[q] = "RUNNING" PROVE state'[parent[q]] # "SLEEPING"
      <3>1. pc[q] = "zombie" /\ state[q] = "RUNNING" /\ q # initproc
        BY <1>7, <2>2, <2>3 DEF TreeInv
      <3>2. parent[q] \in Procs /\ state[parent[q]] # "SLEEPING"
        BY <3>1 DEF TreeInv, TypeOK, WaitInv
      <3> QED
        BY <2>1, <3>2
    <2> QED
      BY <1>3, <1>7, <2>1, <2>2, <2>3 DEF WaitInv
  <1>13. PidInv'
    BY <1>3, <1>7 DEF PidInv, PidNamesOwner
  <1> QED
    BY <1>5, <1>8, <1>9, <1>10, <1>11, <1>12, <1>13

LEMMA WakeParentInv ==
    ASSUME IInv, NEW c \in CPUs, wake_parent(c)
    PROVE  IInv'
  <1> USE DEF IInv, wake_parent, At, Goto, Free
  <1> DEFINE p == proc[c]
             r == parent[p]
  <1>1. p \in Procs /\ state[p] = "RUNNING" /\ pc[p] = "wake_parent" /\ \A d \in CPUs : proc[d] = p => d = c
    BY Running
  <1>2. /\ pc'[p] = "zombie" /\ \A s \in Procs \ {p} : pc'[s] = pc[s]
        /\ mode[c] = "run" /\ lock[r] = NoCPU
    BY <1>1 DEF TypeOK
  <1>3. UNCHANGED <<parent, killed, chan, pid, nextpid, lock, wait_lock, proc, mode, np>>
    OBVIOUS
  <1>4. r \in Procs /\ p # initproc
    BY <1>1 DEF TreeInv, TypeOK
  <1>5. /\ state' \in [Procs -> States]
        /\ state'[r] = IF state[r] = "SLEEPING" THEN "RUNNABLE" ELSE state[r]
        /\ \A s \in Procs \ {r} : state'[s] = state[s]
    BY <1>4, WakeupEffect
  <1>6. TypeOK'
    <2>1. pc' \in [Procs -> Points]
      BY DEF TypeOK
    <2> QED
      BY <1>3, <1>5, <2>1 DEF TypeOK
  <1>7. p = proc[c] /\ r = parent[p]
    OBVIOUS
  <1> HIDE DEF p, r
  <1>8. state'[r] # "SLEEPING" /\ \A s \in Procs : state'[s] = state[s] \/ (s = r /\ state[s] = "SLEEPING" /\ state'[s] = "RUNNABLE")
    BY <1>4, <1>5
  <1>9. CpuInv'
    BY <1>1, <1>2, <1>3, <1>7, <1>8 DEF CpuInv, TypeOK
  <1>10. PlaceInv'
    <2>1. CpuPlace'
      BY <1>1, <1>2, <1>3, <1>7 DEF PlaceInv, CpuPlace, TypeOK
    <2> QED
      BY <1>1, <1>2, <1>3, <1>8, <2>1 DEF PlaceInv, CpuPlace
  <1>11. ForkInv'
    BY <1>1, <1>2, <1>3, <1>8 DEF ForkInv
  <1>12. TreeInv'
    BY <1>1, <1>2, <1>3, <1>4, <1>8 DEF TreeInv, TypeOK
  <1>13. WaitInv'
    <2>1. ASSUME NEW s \in Procs, state'[s] = "SLEEPING" PROVE state[s] = "SLEEPING"
      BY <1>8, <2>1
    <2>2. ASSUME NEW s \in Procs, s # p PROVE pc'[s] = pc[s]
      BY <1>2, <2>2
    <2>3. ASSUME NEW q \in Procs, pc'[q] = "zombie", state'[q] = "RUNNING" PROVE state'[parent[q]] # "SLEEPING"
      <3>1. CASE q = p
        BY <1>7, <1>8, <3>1
      <3>2. CASE q # p
        <4>1. pc[q] = "zombie" /\ state[q] = "RUNNING" /\ q # initproc
          BY <1>8, <2>2, <2>3, <3>2 DEF TreeInv
        <4>2. parent[q] \in Procs /\ state[parent[q]] # "SLEEPING"
          BY <4>1 DEF TreeInv, TypeOK, WaitInv
        <4> QED
          BY <2>1, <4>2
      <3> QED
        BY <3>1, <3>2
    <2>4. InitWaker => InitWaker'
      BY <1>1, <1>2, <1>3, <1>7, WaitHolder DEF InitWaker, TypeOK
    <2> QED
      BY <1>1, <1>2, <1>3, <1>8, <2>1, <2>2, <2>3, <2>4 DEF WaitInv, InitWaker
  <1>14. PidInv'
    BY <1>3, <1>8 DEF PidInv, PidNamesOwner
  <1> QED
    BY <1>6, <1>9, <1>10, <1>11, <1>12, <1>13, <1>14

LEMMA ZombieInv ==
    ASSUME IInv, NEW c \in CPUs, zombie(c)
    PROVE  IInv'
  <1> USE DEF IInv, zombie, At, EnterSched, Free
  <1> DEFINE p == proc[c]
  <1>1. p \in Procs /\ state[p] = "RUNNING" /\ pc[p] = "zombie" /\ \A d \in CPUs : proc[d] = p => d = c
    BY Running
  <1>2. /\ state'[p] = "ZOMBIE" /\ lock'[p] = c
        /\ \A q \in Procs \ {p} : state'[q] = state[q] /\ lock'[q] = lock[q]
        /\ mode[c] = "run" /\ mode'[c] = "swtch" /\ \A d \in CPUs \ {c} : mode'[d] = mode[d]
        /\ wait_lock' = NoCPU
    BY <1>1 DEF TypeOK
  <1>3. UNCHANGED <<parent, killed, chan, pid, nextpid, proc, pc, np>>
    OBVIOUS
  <1>4. TypeOK'
    BY <1>1, <1>2 DEF TypeOK
  <1>5. p = proc[c] /\ p # initproc /\ parent[p] \in Procs
    BY <1>1 DEF TreeInv, TypeOK
  <1>6. wait_lock = c /\ \A q \in Procs : state[q] = "RUNNING" /\ pc[q] \in WaitHeld => q = p
    BY <1>1, <1>2, WaitHolder
  <1> HIDE DEF p
  <1>7. CpuInv'
    BY <1>1, <1>2, <1>3, <1>5, <1>6 DEF CpuInv, TypeOK
  <1>8. PlaceInv'
    BY <1>1, <1>2, <1>3, <1>5 DEF PlaceInv
  <1>9. ForkInv'
    BY <1>1, <1>2, <1>3 DEF ForkInv
  <1>10. TreeInv'
    BY <1>1, <1>2, <1>3, <1>5 DEF TreeInv
  <1>11. WaitInv'
    <2>1. state[parent[p]] # "SLEEPING"
      BY <1>1 DEF WaitInv
    <2>2. \A s \in Procs : pc'[s] # "sleep"
      BY <1>1, <1>3, <1>6, SleepPoint
    <2>3. InitWaker => InitWaker'
      BY <1>1, <1>2, <1>3, <1>5 DEF InitWaker, TypeOK
    <2>4. ASSUME NEW q \in Procs, pc'[q] = "zombie", state'[q] = "RUNNING" PROVE FALSE
      BY <1>1, <1>2, <1>3, <1>6, <2>4
    <2>5. \A s \in Procs : state'[s] = "SLEEPING" => state[s] = "SLEEPING" /\ s # parent[p]
      BY <1>2, <2>1
    <2> QED
      BY <1>2, <1>3, <2>2, <2>3, <2>4, <2>5 DEF WaitInv, InitWaker
  <1>12. PidInv'
    BY <1>1, <1>2, <1>3 DEF PidInv, PidNamesOwner
  <1> QED
    BY <1>4, <1>7, <1>8, <1>9, <1>10, <1>11, <1>12

-----------------------------------------------------------------------------
(* wait(), sleep() and kill()                                              *)

LEMMA WaitAcquireInv ==
    ASSUME IInv, NEW c \in CPUs, wait_acquire(c)
    PROVE  IInv'
  <1> USE DEF IInv, wait_acquire, Spinning, Goto, Acquired
  <1> DEFINE p == proc[c]
  <1>1. p \in Procs /\ state[p] = "RUNNING" /\ pc[p] = "wait" /\ \A d \in CPUs : proc[d] = p => d = c
    BY Running
  <1>2. /\ pc'[p] = "scan" /\ \A s \in Procs \ {p} : pc'[s] = pc[s]
        /\ mode[c] = "spin" /\ mode'[c] = "run" /\ \A d \in CPUs \ {c} : mode'[d] = mode[d]
        /\ wait_lock = NoCPU /\ wait_lock' = c
    BY <1>1 DEF TypeOK
  <1>3. UNCHANGED <<state, parent, killed, chan, pid, nextpid, lock, proc, np>>
    OBVIOUS
  <1>4. TypeOK'
    <2>1. pc' \in [Procs -> Points] /\ mode' \in [CPUs -> Modes]
      BY <1>1 DEF TypeOK
    <2>2. \A d \in CPUs : mode'[d] = "scan" <=> proc'[d] = NoProc
      BY <1>1, <1>2, <1>3 DEF TypeOK
    <2> QED
      BY <1>2, <1>3, <2>1, <2>2 DEF TypeOK
  <1>5. p = proc[c]
    OBVIOUS
  <1> HIDE DEF p
  <1>6. CpuInv'
    BY <1>1, <1>2, <1>3, <1>5 DEF CpuInv, TypeOK
  <1>7. PlaceInv'
    <2>1. CpuPlace'
      BY <1>1, <1>2, <1>3, <1>5 DEF PlaceInv, CpuPlace, TypeOK
    <2> QED
      BY <1>1, <1>2, <1>3, <2>1 DEF PlaceInv, CpuPlace
  <1>8. ForkInv'
    BY <1>1, <1>2, <1>3 DEF ForkInv
  <1>9. TreeInv'
    BY <1>1, <1>2, <1>3 DEF TreeInv, TypeOK
  <1>10. WaitInv'
    <2>1. InitWaker => InitWaker'
      BY <1>1, <1>2, <1>3, <1>5 DEF InitWaker, At, TypeOK
    <2> QED
      BY <1>1, <1>2, <1>3, <2>1 DEF WaitInv, InitWaker
  <1>11. PidInv'
    BY <1>3 DEF PidInv, PidNamesOwner
  <1> QED
    BY <1>4, <1>6, <1>7, <1>8, <1>9, <1>10, <1>11

LEMMA WaitReapInv ==
    ASSUME IInv, NEW c \in CPUs, NEW q \in Procs, wait_reap(c, q)
    PROVE  IInv'
  <1> USE DEF IInv, wait_reap, freeproc, At, Goto, Free, Children
  <1> DEFINE p == proc[c]
  <1>1. p \in Procs /\ state[p] = "RUNNING" /\ pc[p] = "scan" /\ \A d \in CPUs : proc[d] = p => d = c
    BY Running
  <1>2. state[q] = "ZOMBIE" /\ parent[q] = p /\ lock[q] = NoCPU /\ q # p /\ mode[c] = "run"
    BY <1>1
  <1>3. /\ state'[q] = "UNUSED" /\ parent'[q] = NoProc /\ killed'[q] = FALSE /\ pid'[q] = 0
        /\ \A s \in Procs \ {q} : state'[s] = state[s] /\ parent'[s] = parent[s] /\ killed'[s] = killed[s]
                                   /\ chan'[s] = chan[s] /\ pid'[s] = pid[s]
        /\ pc'[p] = "user" /\ \A s \in Procs \ {p} : pc'[s] = pc[s]
        /\ wait_lock' = NoCPU
    BY <1>1 DEF TypeOK
  <1>4. UNCHANGED <<nextpid, lock, proc, mode, np>>
    OBVIOUS
  <1>5. TypeOK'
    <2>1. pc' \in [Procs -> Points] /\ state' \in [Procs -> States] /\ parent' \in [Procs -> Procs \cup {NoProc}]
          /\ chan' \in [Procs -> Procs \cup {NoProc}]
      BY <1>1 DEF TypeOK
    <2>2. pid' \in [Procs -> Nat] /\ killed' \in [Procs -> BOOLEAN]
      BY <1>1 DEF TypeOK
    <2> QED
      BY <1>3, <1>4, <2>1, <2>2 DEF TypeOK
  <1>6. p = proc[c] /\ q # initproc /\ pc[q] = "zombie" /\ \A d \in CPUs : proc[d] # q
    BY <1>2 DEF TreeInv, PlaceInv, CpuInv, TypeOK
  <1>7. wait_lock = c /\ \A s \in Procs : state[s] = "RUNNING" /\ pc[s] \in WaitHeld => s = p
    BY <1>1, <1>2, WaitHolder
  <1> HIDE DEF p
  <1>8. CpuInv'
    BY <1>1, <1>2, <1>3, <1>4, <1>6, <1>7 DEF CpuInv, TypeOK
  <1>9. PlaceInv'
    <2>1. CpuPlace'
      BY <1>1, <1>2, <1>3, <1>4, <1>6 DEF PlaceInv, CpuPlace, TypeOK
    <2> QED
      BY <1>1, <1>2, <1>3, <1>4, <1>6, <2>1 DEF PlaceInv, CpuPlace
  <1>10. ForkInv'
    BY <1>1, <1>2, <1>3, <1>4, <1>6 DEF ForkInv
  <1>11. TreeInv'
    <2>1. \A s \in Procs : parent[s] # q
      BY <1>6 DEF TreeInv
    <2> QED
      BY <1>1, <1>2, <1>3, <1>4, <1>6, <2>1 DEF TreeInv, TypeOK
  <1>12. WaitInv'
    <2>1. InitWaker => InitWaker'
      BY <1>1, <1>3, <1>4, <1>6 DEF InitWaker, TypeOK
    <2>2. \A s \in Procs : pc'[s] # "sleep"
      BY <1>1, <1>3, <1>7, SleepPoint
    <2>3. \A s \in Procs : pc'[s] = "zombie" => state'[s] # "RUNNING"
      BY <1>1, <1>2, <1>3, <1>7
    <2>4. ASSUME NEW s \in Procs, state'[s] = "SLEEPING" PROVE \E t \in Procs : parent'[t] = s
      <3>1. state[s] = "SLEEPING" /\ s # p
        BY <1>1, <1>3, <2>4
      <3>2. PICK t \in Procs : parent[t] = s
        BY <3>1 DEF WaitInv
      <3> QED
        BY <1>2, <1>3, <3>1, <3>2
    <2>5. ASSUME NEW s \in Procs, NEW t \in Procs, state'[s] = "SLEEPING", parent'[t] = s, state'[t] = "ZOMBIE"
          PROVE  s = initproc /\ InitWaker'
      BY <1>1, <1>2, <1>3, <2>1, <2>5 DEF WaitInv, InitWaker
    <2> QED
      BY <2>2, <2>3, <2>4, <2>5 DEF WaitInv, InitWaker
  <1>13. PidInv'
    BY <1>1, <1>2, <1>3, <1>4 DEF PidInv, PidNamesOwner
  <1> QED
    BY <1>5, <1>8, <1>9, <1>10, <1>11, <1>12, <1>13

(* The scan ends with a return to the user, or with the decision to sleep. *)
LEMMA WaitDoneInv ==
    ASSUME IInv, NEW c \in CPUs, NEW q \in Procs, wait_none(c) \/ wait_copyout_fails(c, q)
    PROVE  IInv'
  <1> USE DEF IInv, wait_none, wait_copyout_fails, At, Goto
  <1> DEFINE p == proc[c]
  <1>1. p \in Procs /\ state[p] = "RUNNING" /\ pc[p] = "scan" /\ \A d \in CPUs : proc[d] = p => d = c
    BY Running
  <1>2. \A s \in Procs \ {p} : pc'[s] = pc[s]
    BY <1>1 DEF TypeOK
  <1>3. \/ pc'[p] = "user" /\ wait_lock' = NoCPU
        \/ /\ pc'[p] = "sleep" /\ wait_lock' = wait_lock
           /\ (\E s \in Procs : parent[s] = p) /\ \A s \in Procs : parent[s] = p => state[s] # "ZOMBIE"
    BY <1>1 DEF TypeOK, Children
  <1>4. UNCHANGED <<state, parent, killed, chan, pid, nextpid, lock, proc, mode, np>>
    OBVIOUS
  <1>5. TypeOK'
    <2>1. pc' \in [Procs -> Points]
      BY <1>1 DEF TypeOK
    <2> QED
      BY <1>3, <1>4, <2>1 DEF TypeOK
  <1>6. p = proc[c] /\ mode[c] = "run"
    OBVIOUS
  <1>7. wait_lock = c /\ \A s \in Procs : state[s] = "RUNNING" /\ pc[s] \in WaitHeld => s = p
    BY <1>1, WaitHolder
  <1> HIDE DEF p
  <1>8. CpuInv'
    BY <1>1, <1>2, <1>3, <1>4, <1>6, <1>7 DEF CpuInv, TypeOK
  <1>9. PlaceInv'
    <2>1. CpuPlace'
      BY <1>1, <1>2, <1>3, <1>4, <1>6 DEF PlaceInv, CpuPlace, TypeOK
    <2> QED
      BY <1>1, <1>2, <1>3, <1>4, <2>1 DEF PlaceInv, CpuPlace
  <1>10. ForkInv'
    BY <1>1, <1>2, <1>3, <1>4 DEF ForkInv
  <1>11. TreeInv'
    BY <1>1, <1>2, <1>3, <1>4 DEF TreeInv, TypeOK
  <1>12. WaitInv'
    <2>1. InitWaker => InitWaker'
      BY <1>1, <1>2, <1>3, <1>4, <1>6 DEF InitWaker, TypeOK
    <2>2. \A s \in Procs : s # p => pc'[s] # "sleep"
      BY <1>1, <1>2, <1>7, SleepPoint
    <2>3. \A s \in Procs : pc'[s] = "zombie" => state'[s] # "RUNNING"
      BY <1>1, <1>2, <1>3, <1>4, <1>7
    <2> QED
      BY <1>1, <1>3, <1>4, <2>1, <2>2, <2>3 DEF WaitInv, InitWaker
  <1>13. PidInv'
    BY <1>4 DEF PidInv, PidNamesOwner
  <1> QED
    BY <1>5, <1>8, <1>9, <1>10, <1>11, <1>12, <1>13

LEMMA SleepInv ==
    ASSUME IInv, NEW c \in CPUs, sleep(c)
    PROVE  IInv'
  <1> USE DEF IInv, sleep, At, EnterSched, Free, Goto
  <1> DEFINE p == proc[c]
  <1>1. p \in Procs /\ state[p] = "RUNNING" /\ pc[p] = "sleep" /\ \A d \in CPUs : proc[d] = p => d = c
    BY Running
  <1>2. /\ state'[p] = "SLEEPING" /\ lock'[p] = c /\ pc'[p] = "wakened" /\ chan'[p] = p
        /\ \A q \in Procs \ {p} : state'[q] = state[q] /\ lock'[q] = lock[q] /\ pc'[q] = pc[q] /\ chan'[q] = chan[q]
        /\ mode[c] = "run" /\ mode'[c] = "swtch" /\ \A d \in CPUs \ {c} : mode'[d] = mode[d]
        /\ wait_lock' = NoCPU
    BY <1>1 DEF TypeOK
  <1>3. UNCHANGED <<parent, killed, pid, nextpid, proc, np>>
    OBVIOUS
  <1>4. TypeOK'
    <2>1. pc' \in [Procs -> Points] /\ state' \in [Procs -> States] /\ chan' \in [Procs -> Procs \cup {NoProc}]
      BY <1>1 DEF TypeOK
    <2>2. mode' \in [CPUs -> Modes] /\ lock' \in [Procs -> CPUs \cup {NoCPU}]
      BY <1>1 DEF TypeOK
    <2>3. \A d \in CPUs : mode'[d] = "scan" <=> proc'[d] = NoProc
      BY <1>1, <1>2, <1>3 DEF TypeOK
    <2> QED
      BY <1>2, <1>3, <2>1, <2>2, <2>3 DEF TypeOK
  <1>5. p = proc[c]
    OBVIOUS
  <1>6. wait_lock = c /\ \A q \in Procs : state[q] = "RUNNING" /\ pc[q] \in WaitHeld => q = p
    BY <1>1, <1>2, WaitHolder
  <1> HIDE DEF p
  <1>7. CpuInv'
    BY <1>1, <1>2, <1>3, <1>5, <1>6 DEF CpuInv, TypeOK
  <1>8. PlaceInv'
    <2>1. CpuPlace'
      BY <1>1, <1>2, <1>3, <1>5 DEF PlaceInv, CpuPlace, TypeOK
    <2> QED
      BY <1>1, <1>2, <1>3, <1>5, <2>1 DEF PlaceInv, CpuPlace
  <1>9. ForkInv'
    BY <1>1, <1>2, <1>3 DEF ForkInv
  <1>10. TreeInv'
    BY <1>1, <1>2, <1>3, <1>5 DEF TreeInv, TypeOK
  <1>11. WaitInv'
    <2>1. \A s \in Procs : pc'[s] # "sleep"
      BY <1>1, <1>2, <1>6, SleepPoint
    <2>2. \A s \in Procs : pc'[s] = "zombie" => state'[s] # "RUNNING"
      BY <1>1, <1>2, <1>6
    <2>3. InitWaker => InitWaker'
      BY <1>1, <1>2, <1>3, <1>5 DEF InitWaker, TypeOK
    <2>4. (\E q \in Procs : parent[q] = p) /\ \A q \in Procs : parent[q] = p => state[q] # "ZOMBIE"
      BY <1>1 DEF WaitInv
    <2>5. ASSUME NEW s \in Procs, state'[s] = "SLEEPING" PROVE \E q \in Procs : parent'[q] = s
      BY <1>2, <1>3, <2>4, <2>5 DEF WaitInv
    <2>6. ASSUME NEW s \in Procs, NEW q \in Procs, state'[s] = "SLEEPING", parent'[q] = s, state'[q] = "ZOMBIE"
          PROVE  s = initproc /\ InitWaker'
      BY <1>1, <1>2, <1>3, <2>3, <2>4, <2>6 DEF WaitInv, InitWaker
    <2> QED
      BY <2>1, <2>2, <2>5, <2>6 DEF WaitInv, InitWaker
  <1>12. PidInv'
    BY <1>1, <1>2, <1>3 DEF PidInv, PidNamesOwner
  <1> QED
    BY <1>4, <1>7, <1>8, <1>9, <1>10, <1>11, <1>12

LEMMA KillInv ==
    ASSUME IInv, NEW c \in CPUs, NEW n \in KillArgs, NEW q \in Procs, kill(c, n, q)
    PROVE  IInv'
  <1> USE DEF IInv, kill, Free
  <1>1. /\ state' \in [Procs -> States]
        /\ \A s \in Procs : state'[s] = state[s] \/ (s = q /\ state[s] = "SLEEPING" /\ state'[s] = "RUNNABLE")
    BY DEF TypeOK
  <1>2. UNCHANGED <<parent, chan, pid, nextpid, lock, wait_lock, proc, mode, pc, np>> /\ lock[q] = NoCPU
    OBVIOUS
  <1>3. killed' \in [Procs -> BOOLEAN] /\ \A s \in Procs \ {q} : killed'[s] = killed[s]
    BY DEF TypeOK
  <1>4. TypeOK'
    BY <1>1, <1>2, <1>3 DEF TypeOK
  <1>5. CpuInv'
    BY <1>1, <1>2 DEF CpuInv, TypeOK
  <1>6. PlaceInv'
    BY <1>1, <1>2 DEF PlaceInv
  <1>7. ForkInv'
    BY <1>1, <1>2 DEF ForkInv
  <1>8. TreeInv'
    BY <1>1, <1>2 DEF TreeInv, TypeOK
  <1>9. WaitInv'
    <2>1. InitWaker => InitWaker'
      BY <1>2 DEF InitWaker, At
    <2>2. ASSUME NEW s \in Procs, state'[s] = "SLEEPING" PROVE state[s] = "SLEEPING"
      BY <1>1, <2>2
    <2>3. ASSUME NEW s \in Procs, pc'[s] = "zombie", state'[s] = "RUNNING" PROVE state'[parent[s]] # "SLEEPING"
      <3>1. pc[s] = "zombie" /\ state[s] = "RUNNING" /\ s # initproc
        BY <1>1, <1>2, <2>3 DEF TreeInv
      <3>2. parent[s] \in Procs /\ state[parent[s]] # "SLEEPING"
        BY <3>1 DEF TreeInv, TypeOK, WaitInv
      <3> QED
        BY <2>2, <3>2
    <2> QED
      BY <1>1, <1>2, <2>1, <2>2, <2>3 DEF WaitInv, InitWaker
  <1>10. PidInv'
    BY <1>1, <1>2 DEF PidInv, PidNamesOwner
  <1> QED
    BY <1>4, <1>5, <1>6, <1>7, <1>8, <1>9, <1>10

LEMMA StutterInv == IInv /\ UNCHANGED vars => IInv'
  <1> SUFFICES ASSUME IInv, UNCHANGED vars PROVE IInv'
    OBVIOUS
  <1>1. TypeOK' /\ CpuInv' /\ PlaceInv'
    BY DEF IInv, TypeOK, CpuInv, PlaceInv
  <1>2. ForkInv' /\ TreeInv'
    BY DEF IInv, ForkInv, TreeInv
  <1>3. WaitInv' /\ PidInv'
    BY DEF IInv, WaitInv, At, PidInv, PidNamesOwner
  <1> QED
    BY <1>1, <1>2, <1>3 DEF IInv

LEMMA NextInv == IInv /\ [Next]_vars => IInv'
  <1> SUFFICES ASSUME IInv, Next PROVE IInv'
    BY StutterInv
  <1>1. PICK c \in CPUs :
            \/ Step(c) \/ yield(c)
            \/ \E q \in Procs : scheduler(c, q) \/ fork(c, q) \/ fork_fail(c, q)
            \/ \E n \in KillArgs, q \in Procs : kill(c, n, q)
    BY DEF Next
  <1>2. CASE Step(c)
    BY <1>2, ResumeInv, SwtchInv, PushOffInv, ForkParentInv, ForkRunInv, CallInv, ReparentInv, WakeInitInv,
       WakeParentInv, ZombieInv, WaitAcquireInv, WaitReapInv, WaitDoneInv, SleepInv DEF Step
  <1>3. CASE yield(c)
    BY <1>3, YieldInv
  <1>4. CASE \E q \in Procs : scheduler(c, q) \/ fork(c, q) \/ fork_fail(c, q)
    BY <1>4, SchedulerInv, ForkStepInv, ForkFailInv
  <1>5. CASE \E n \in KillArgs, q \in Procs : kill(c, n, q)
    BY <1>5, KillInv
  <1> QED
    BY <1>1, <1>2, <1>3, <1>4, <1>5

-----------------------------------------------------------------------------
(* The inductive invariant: who holds which lock, where a process in each  *)
(* state is, and what wait_lock keeps true of parents and children, is     *)
(* preserved by every step of scheduler(), fork(), exit(), wait(), sleep(),*)
(* wakeup() and kill(), on any number of CPUs.                             *)
THEOREM Invariance == Spec => []IInv
  BY InitInv, NextInv, PTL DEF Spec

(* The state of proc.c keeps its types.                                    *)
THEOREM TypeCorrect == Spec => []TypeOK
  <1>1. IInv => TypeOK
    BY DEF IInv
  <1> QED
    BY <1>1, Invariance, PTL

LEMMA InvOneCPU == IInv => OneCPU
  <1> SUFFICES ASSUME IInv PROVE OneCPU
    OBVIOUS
  <1>1. ASSUME NEW c \in CPUs, proc[c] # NoProc, state[proc[c]] # "RUNNING" PROVE lock[proc[c]] = c
    <2>1. mode[c] = "swtch" /\ proc[c] \in Procs
      BY <1>1 DEF IInv, TypeOK, CpuInv
    <2> QED
      BY <2>1 DEF IInv, CpuInv
  <1> QED
    BY <1>1 DEF IInv, CpuInv, OneCPU

(* scheduler() and sched() never run one process on two CPUs, and a        *)
(* process that is leaving its CPU holds its own lock.                     *)
THEOREM NeverTwice == Spec => []OneCPU
  BY InvOneCPU, Invariance, PTL

LEMMA InvFreedOffCPU == IInv => FreedOffCPU
  BY DEF IInv, TypeOK, CpuInv, FreedOffCPU, OnCPU

(* wait() frees a slot only after its process has left its stack.          *)
THEOREM FreedAfterSwitch == Spec => []FreedOffCPU
  BY InvFreedOffCPU, Invariance, PTL

LEMMA InvSchedNeverPanics == IInv => SchedNeverPanics
  BY DEF IInv, CpuInv, SchedNeverPanics

(* None of sched()'s panics: its caller holds exactly its own lock and has *)
(* changed its state.                                                      *)
THEOREM SchedSafe == Spec => []SchedNeverPanics
  BY InvSchedNeverPanics, Invariance, PTL

LEMMA InvNoLostExit == IInv => NoLostExit
  <1> SUFFICES ASSUME IInv, wait_lock = NoCPU, NEW p \in Procs, state[p] = "SLEEPING"
               PROVE  Children(p) # {} /\ \A q \in Children(p) : state[q] # "ZOMBIE"
    BY DEF NoLostExit
  <1>1. \A c \in CPUs : ~At(c, "wake_init")
    BY DEF IInv, CpuInv, At
  <1>2. \E q \in Procs : parent[q] = p
    BY DEF IInv, WaitInv
  <1>3. \A q \in Procs : parent[q] = p => state[q] # "ZOMBIE"
    BY <1>1 DEF IInv, WaitInv
  <1> QED
    BY <1>2, <1>3 DEF Children

(* No exit() is lost on wait(): when nobody is inside wait_lock, a process *)
(* that sleeps in wait() has children, and none of them is a zombie.       *)
THEOREM ExitsNoticed == Spec => []NoLostExit
  BY InvNoLostExit, Invariance, PTL

(* The number that fork() returns names its child alone until wait() has   *)
(* freed it, whatever other CPUs fork and free meanwhile: kill() of it hits *)
(* nobody else.                                                            *)
THEOREM PidsUnique == Spec => []PidNamesOwner
  <1>1. IInv => PidNamesOwner
    BY DEF IInv, PidInv
  <1> QED
    BY <1>1, Invariance, PTL

-----------------------------------------------------------------------------
(* Refinement of ProcTree                                                  *)

LEMMA SameTree ==
    ASSUME parent' = parent,
           \A q \in Procs : (q \in Dead)' <=> q \in Dead
    PROVE  UNCHANGED PT!vars
  <1>1. Dead' = Dead
    BY DEF Dead
  <1>2. Live' = Live
    BY <1>1 DEF Live
  <1> QED
    BY <1>1, <1>2 DEF PT!vars

(* Steps that link, mark and unlink nobody.                                *)
LEMMA OtherSteps ==
    ASSUME IInv, NEW c \in CPUs, NEW q \in Procs,
           \/ resume(c) \/ swtch(c) \/ push_off(c) \/ yield(c) \/ scheduler(c, q)
           \/ fork(c, q) \/ fork_fail(c, q) \/ fork_run(c)
           \/ exit(c) \/ wake_init(c) \/ wake_parent(c) \/ zombie(c)
           \/ wait(c) \/ wait_acquire(c) \/ wait_none(c) \/ sleep(c) \/ wait_copyout_fails(c, q)
           \/ \E n \in KillArgs : kill(c, n, q)
    PROVE  UNCHANGED PT!vars
  <1> DEFINE p == proc[c]
             Unmoved == \A s \in Procs : (s \in Dead)' <=> s \in Dead
  <1> USE DEF Goto, At, Spinning, Free, EnterSched, Acquired, MaySyscall
  <1>1. CASE resume(c)
    <2>1. p \in Procs /\ pc[p] \notin WaitHeld
      BY <1>1, Running DEF IInv, PlaceInv, resume
    <2>2. Unmoved
      BY <1>1, <2>1 DEF Dead, resume, IInv, TypeOK
    <2> QED
      BY <1>1, <2>2, SameTree DEF resume
  <1>2. CASE swtch(c) \/ push_off(c) \/ fork_fail(c, q)
    <2>1. Unmoved /\ parent' = parent
      BY <1>2 DEF Dead, swtch, push_off, fork_fail
    <2> QED
      BY <2>1, SameTree
  <1>3. CASE yield(c)
    <2>1. p \in Procs /\ pc[p] \notin WaitHeld
      BY <1>3, Running DEF IInv, CpuInv, yield, InterruptsOff
    <2>2. Unmoved /\ parent' = parent
      BY <1>3, <2>1 DEF Dead, yield, IInv, TypeOK
    <2> QED
      BY <2>2, SameTree
  <1>4. CASE scheduler(c, q)
    <2>1. Unmoved /\ parent' = parent
      BY <1>4 DEF Dead, scheduler, IInv, TypeOK
    <2> QED
      BY <2>1, SameTree
  <1>5. CASE fork(c, q)
    <2>1. p \in Procs /\ state[p] = "RUNNING" /\ pc[p] = "user"
      BY <1>5, Running DEF fork
    <2>2. Unmoved /\ parent' = parent
      BY <1>5, <2>1 DEF Dead, fork, IInv, TypeOK
    <2> QED
      BY <2>2, SameTree
  <1>6. CASE fork_run(c)
    <2>1. p \in Procs /\ pc[p] = "fork_run" /\ np[p] \in Procs /\ state[np[p]] = "USED" /\ pc[np[p]] = "forkret"
      BY <1>6, Running DEF fork_run, IInv, ForkInv, PlaceInv
    <2>2. Unmoved /\ parent' = parent
      BY <1>6, <2>1 DEF Dead, fork_run, IInv, TypeOK
    <2> QED
      BY <2>2, SameTree
  <1>7. CASE exit(c) \/ wait(c) \/ wait_acquire(c) \/ wait_none(c) \/ wait_copyout_fails(c, q)
    <2>1. p \in Procs /\ pc[p] \notin Exiting
      BY <1>7, Running DEF exit, wait, wait_acquire, wait_none, wait_copyout_fails
    <2>2. Unmoved /\ parent' = parent
      BY <1>7, <2>1 DEF Dead, exit, wait, wait_acquire, wait_none, wait_copyout_fails, IInv, TypeOK
    <2> QED
      BY <2>2, SameTree
  <1>8. CASE wake_init(c)
    <2>1. p \in Procs /\ state[p] = "RUNNING" /\ pc[p] = "wake_init" /\ p # initproc
      BY <1>8, Running DEF wake_init, IInv, TreeInv
    <2>2. \A s \in Procs : state'[s] = state[s] \/ (state[s] = "SLEEPING" /\ state'[s] = "RUNNABLE")
      BY <1>8, WakeupEffect DEF wake_init
    <2>3. Unmoved /\ parent' = parent
      BY <1>8, <2>1, <2>2 DEF Dead, wake_init, IInv, TypeOK
    <2> QED
      BY <2>3, SameTree
  <1>9. CASE wake_parent(c)
    <2>1. p \in Procs /\ state[p] = "RUNNING" /\ pc[p] = "wake_parent" /\ parent[p] \in Procs
      BY <1>9, Running DEF wake_parent, IInv, TypeOK, TreeInv
    <2>2. \A s \in Procs : state'[s] = state[s] \/ (state[s] = "SLEEPING" /\ state'[s] = "RUNNABLE")
      BY <1>9, <2>1, WakeupEffect DEF wake_parent
    <2>3. Unmoved /\ parent' = parent
      BY <1>9, <2>1, <2>2 DEF Dead, wake_parent, IInv, TypeOK
    <2> QED
      BY <2>3, SameTree
  <1>10. CASE zombie(c) \/ sleep(c)
    <2>1. p \in Procs /\ state[p] = "RUNNING"
      BY <1>10, Running DEF zombie, sleep
    <2>2. Unmoved /\ parent' = parent
      BY <1>10, <2>1 DEF Dead, zombie, sleep, IInv, TypeOK
    <2> QED
      BY <2>2, SameTree
  <1>11. CASE \E n \in KillArgs : kill(c, n, q)
    <2>1. Unmoved /\ parent' = parent
      BY <1>11 DEF Dead, kill, IInv, TypeOK
    <2> QED
      BY <2>1, SameTree
  <1> QED
    BY <1>1, <1>2, <1>3, <1>4, <1>5, <1>6, <1>7, <1>8, <1>9, <1>10, <1>11

LEMMA ForkIsFork ==
    ASSUME IInv, NEW c \in CPUs, fork_parent(c)
    PROVE  PT!Next
  <1> DEFINE p == proc[c]
             q == np[p]
  <1>1. p \in Procs /\ state[p] = "RUNNING" /\ pc[p] = "fork_parent"
    BY Running DEF fork_parent, Spinning
  <1>2. q \in Procs /\ state[q] = "USED" /\ parent[q] = NoProc /\ q # p /\ q # initproc
    BY <1>1 DEF IInv, ForkInv, TreeInv
  <1>3. parent' = [parent EXCEPT ![q] = p] /\ state' = state /\ pc' = [pc EXCEPT ![p] = "fork_run"]
    BY DEF fork_parent, Goto
  <1>4. p \in Live /\ q \notin Live \cup Dead
    BY <1>1, <1>2 DEF Live, Dead, IInv, TreeInv
  <1>5. \A s \in Procs : (s \in Dead)' <=> s \in Dead
    BY <1>1, <1>3 DEF Dead, IInv, TypeOK
  <1>6. Dead' = Dead
    BY <1>5 DEF Dead
  <1>7. Live' = Live \cup {q}
    BY <1>1, <1>2, <1>3, <1>4, <1>6 DEF Live, IInv, TypeOK
  <1>8. PT!Fork(p, q)
    BY <1>3, <1>4, <1>6, <1>7 DEF PT!Fork
  <1> QED
    BY <1>1, <1>2, <1>8 DEF PT!Next

LEMMA ExitIsExit ==
    ASSUME IInv, NEW c \in CPUs, reparent(c)
    PROVE  PT!Next
  <1> DEFINE p == proc[c]
  <1>1. p \in Procs /\ state[p] = "RUNNING" /\ pc[p] = "exit" /\ p # initproc /\ parent[p] # NoProc
    BY Running DEF reparent, Spinning, IInv, TreeInv
  <1>2. /\ parent' = [q \in Procs |-> IF parent[q] = p THEN initproc ELSE parent[q]]
        /\ state' = state
        /\ pc'[p] \in Exiting /\ \A s \in Procs \ {p} : pc'[s] = pc[s]
    BY <1>1 DEF reparent, Goto, Children, IInv, TypeOK
  <1>3. p \in Live \ {initproc}
    BY <1>1 DEF Live, Dead
  <1> HIDE DEF p
  <1>4. Dead' = Dead \cup {p}
    BY <1>1, <1>2 DEF Dead
  <1>5. \A s \in Procs : parent'[s] # NoProc <=> parent[s] # NoProc
    BY <1>1, <1>2
  <1>6. Live' = Live \ {p}
    BY <1>4, <1>5 DEF Live
  <1>7. PT!Exit(p)
    BY <1>2, <1>3, <1>4, <1>6 DEF PT!Exit
  <1> QED
    BY <1>1, <1>7 DEF PT!Next

LEMMA ReapIsReap ==
    ASSUME IInv, NEW c \in CPUs, NEW q \in Procs, wait_reap(c, q)
    PROVE  PT!Next
  <1> DEFINE p == proc[c]
  <1>1. p \in Procs /\ state[p] = "RUNNING" /\ pc[p] = "scan"
    BY Running DEF wait_reap, At
  <1>2. state[q] = "ZOMBIE" /\ parent[q] = p /\ q # p /\ q # initproc /\ pc[q] = "zombie"
    BY <1>1 DEF wait_reap, Children, IInv, PlaceInv, TreeInv
  <1>3. /\ parent' = [parent EXCEPT ![q] = NoProc]
        /\ state' = [state EXCEPT ![q] = "UNUSED"] /\ pc' = [pc EXCEPT ![p] = "user"]
    BY DEF wait_reap, freeproc, Goto
  <1>4. p \in Live /\ q \in Dead
    BY <1>1, <1>2 DEF Live, Dead, IInv, TreeInv
  <1> HIDE DEF p
  <1>5. Dead' = Dead \ {q}
    BY <1>1, <1>2, <1>3 DEF Dead, IInv, TypeOK
  <1>6. Live' = Live
    BY <1>2, <1>3, <1>4, <1>5 DEF Live, IInv, TypeOK
  <1>7. PT!Reap(p, q)
    BY <1>2, <1>3, <1>4, <1>5, <1>6 DEF PT!Reap
  <1> QED
    BY <1>1, <1>7 DEF PT!Next

LEMMA TreeStep == IInv /\ [Next]_vars => [PT!Next]_PT!vars
  <1> SUFFICES ASSUME IInv, [Next]_vars PROVE PT!Next \/ UNCHANGED PT!vars
    OBVIOUS
  <1>1. CASE UNCHANGED vars
    BY <1>1 DEF PT!vars, Live, Dead
  <1>2. CASE Next
    <2>1. PICK c \in CPUs :
            \/ Step(c) \/ yield(c)
            \/ \E q \in Procs : scheduler(c, q) \/ fork(c, q) \/ fork_fail(c, q)
            \/ \E n \in KillArgs, q \in Procs : kill(c, n, q)
      BY <1>2 DEF Next
    <2>2. CASE fork_parent(c) \/ reparent(c) \/ \E q \in Procs : wait_reap(c, q)
      BY <2>2, ForkIsFork, ExitIsExit, ReapIsReap
    <2>3. CASE ~(fork_parent(c) \/ reparent(c) \/ \E q \in Procs : wait_reap(c, q))
      BY <2>1, <2>3, OtherSteps DEF Step
    <2> QED
      BY <2>2, <2>3
  <1> QED
    BY <1>1, <1>2

(* fork(), exit(), wait() and kill(), on any number of CPUs, implement the *)
(* tree of processes: no process is lost, reaped twice, or left without a  *)
(* live parent.                                                            *)
THEOREM ProcIsTree == Spec => ImplementsProcTree
  <1>1. Init => PT!Init
    BY DEF Init, PT!Init, Live, Dead
  <1> QED
    BY <1>1, TreeStep, Invariance, PTL DEF Spec, ImplementsProcTree, PT!Spec
=============================================================================
