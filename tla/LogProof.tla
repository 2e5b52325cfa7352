------------------------------ MODULE LogProof ------------------------------
(***************************************************************************)
(* Proofs about the write-ahead log, for any number of processes and       *)
(* blocks and any log size.                                                *)
(***************************************************************************)
EXTENDS Log, FiniteSetTheorems, TLAPS

USE LogAssumption DEF vars, diskVars, memVars, ctlVars

(* The set of calls under way is finite.                                   *)
LEMMA ActiveFinite == IsFiniteSet(Active)
  BY FS_Subset, Active \in SUBSET Procs DEF Active

LEMMA InitInv == Init => IInv
  <1> SUFFICES ASSUME Init PROVE IInv
    OBVIOUS
  <1> USE DEF Init, Memory0
  <1>1. Active = {}
    BY DEF Active
  <1>2. TypeOK
    <2>1. <<>> \in Seq(Blocks) /\ Len(<<>>) <= LOGSIZE
      OBVIOUS
    <2>2. pc \in [Procs -> Phases] /\ wset \in [Procs -> SUBSET Blocks]
      BY DEF Phases
    <2>3. cache \in [Blocks -> Vals \cup {NotCached}] /\ refcnt \in [Blocks -> Nat]
      OBVIOUS
    <2> QED
      BY <2>1, <2>2, <2>3 DEF TypeOK
  <1>3. ControlInv
    BY <1>1, FS_EmptySet DEF ControlInv, CommitPhases
  <1>4. BootInv /\ PinInv /\ CommitInv /\ RecoverInv /\ NoLostWakeup
    BY DEF BootInv, PinInv, CommitInv, RecoverInv, NoLostWakeup, Content
  <1>5. Distinct(lh) /\ Distinct(dhead)
    BY DEF Distinct
  <1> QED
    BY <1>2, <1>3, <1>4, <1>5 DEF IInv

(* The buffer cache may fetch a block or recycle an unpinned buffer.       *)
LEMMA ReadInv == ASSUME NEW b \in Blocks, IInv, Read(b) PROVE IInv'
  <1> USE DEF IInv, Read
  <1>1. TypeOK'
    BY DEF TypeOK, Filled
  <1>2. ControlInv' /\ NoLostWakeup' /\ Distinct(lh)' /\ Distinct(dhead)' /\ Active' = Active
    BY DEF ControlInv, Active, NoLostWakeup, NoSpace, Distinct
  <1>3. \A c \in Blocks : Content(c)' = Content(c)
    BY DEF Content, Filled, TypeOK
  <1>4. BootInv' /\ PinInv' /\ CommitInv' /\ RecoverInv'
    BY <1>2, <1>3 DEF BootInv, PinInv, CommitInv, RecoverInv, Content, Filled, TypeOK, Logged, Copied
  <1> QED
    BY <1>1, <1>2, <1>3, <1>4

LEMMA RecycleInv == ASSUME NEW b \in Blocks, IInv, Recycle(b) PROVE IInv'
  <1> USE DEF IInv, Recycle
  <1>1. TypeOK'
    BY DEF TypeOK, Filled
  <1>2. ControlInv' /\ NoLostWakeup' /\ Distinct(lh)' /\ Distinct(dhead)' /\ Active' = Active
    BY DEF ControlInv, Active, NoLostWakeup, NoSpace, Distinct
  <1>3. \A c \in Blocks : Content(c)' = Content(c)
    <2>1. Content(b) = disk[b]
      <3>1. CASE sys = "up"
        BY <3>1 DEF PinInv, Logged
      <3>2. CASE sys # "up"
        BY <3>2 DEF BootInv
      <3> QED
        BY <3>1, <3>2
    <2> QED
      BY <2>1 DEF Content, Filled, TypeOK
  <1>4. BootInv' /\ PinInv' /\ CommitInv' /\ RecoverInv'
    BY <1>2, <1>3 DEF BootInv, PinInv, CommitInv, RecoverInv, Filled, TypeOK, Logged, Copied
  <1> QED
    BY <1>1, <1>2, <1>3, <1>4

(* The process enters the kernel, or goes to sleep in begin_op().          *)
LEMMA SysCallInv == ASSUME NEW p \in Procs, IInv, SysCall(p) PROVE IInv'
  <1> USE DEF IInv, SysCall
  <1>1. TypeOK'
    BY DEF TypeOK, Phases
  <1>2. /\ Active' = Active
        /\ \A q \in Procs : pc'[q] # pc[q] => pc[q] = "user" /\ pc'[q] = "begin_op"
    BY DEF Active, TypeOK
  <1>3. ControlInv' /\ NoLostWakeup' /\ Distinct(lh)' /\ Distinct(dhead)'
    BY <1>2 DEF ControlInv, CommitPhases, NoLostWakeup, NoSpace, Distinct
  <1>4. BootInv' /\ RecoverInv'
    BY DEF BootInv, RecoverInv
  <1>5. PinInv'
    BY <1>2 DEF PinInv, Content, Logged, Copied
  <1>6. CommitInv'
    BY <1>2 DEF CommitInv, Content
  <1> QED
    BY <1>1, <1>3, <1>4, <1>5, <1>6

LEMMA SleepInv == ASSUME NEW p \in Procs, IInv, Sleep(p) PROVE IInv'
  <1> USE DEF IInv, Sleep
  <1>1. TypeOK'
    BY DEF TypeOK
  <1>2. ControlInv' /\ Distinct(lh)' /\ Distinct(dhead)' /\ Active' = Active
    BY DEF ControlInv, Active, Distinct
  <1>3. NoLostWakeup'
    BY DEF NoLostWakeup, NoSpace
  <1>4. BootInv' /\ PinInv' /\ CommitInv' /\ RecoverInv'
    BY <1>2 DEF BootInv, PinInv, CommitInv, RecoverInv, Content, Logged, Copied
  <1> QED
    BY <1>1, <1>2, <1>3, <1>4

(* A call is admitted: one more member of Active, and nobody is asleep.    *)
LEMMA BeginInv == ASSUME NEW p \in Procs, IInv, begin_op(p) PROVE IInv'
  <1> USE DEF IInv, begin_op
  <1>1. TypeOK'
    BY DEF TypeOK, Phases
  <1>2. /\ Active' = Active \cup {p}
        /\ p \notin Active
        /\ \A q \in Procs : pc'[q] # pc[q] => pc[q] = "begin_op" /\ pc'[q] = "op"
    BY DEF Active, TypeOK
  <1>3. Cardinality(Active') = outstanding'
    BY <1>2, ActiveFinite, FS_AddElement DEF ControlInv
  <1>4. ControlInv'
    BY <1>2, <1>3 DEF ControlInv, CommitPhases
  <1>5. NoLostWakeup' /\ Distinct(lh)' /\ Distinct(dhead)'
    BY DEF NoLostWakeup, Distinct
  <1>6. BootInv' /\ RecoverInv'
    BY DEF BootInv, RecoverInv
  <1>7. PinInv'
    BY <1>2 DEF PinInv, Content, Logged, Copied
  <1>8. CommitInv'
    BY <1>2 DEF CommitInv, Content
  <1> QED
    BY <1>1, <1>4, <1>5, <1>6, <1>7, <1>8

(* While a call is under way nobody commits: no entry of log.lh has been   *)
(* copied home, and the header on the disk is empty.                       *)
LEMMA NoCommitDuringCall ==
  ASSUME NEW p \in Procs, IInv, sys = "up", pc[p] = "op"
  PROVE  /\ ~committing
         /\ \A q \in Procs : pc[q] \notin CommitPhases
         /\ \A i : ~Copied(i)
         /\ dhead = <<>>
  <1>1. ~committing /\ \A q \in Procs : pc[q] \notin CommitPhases
    BY DEF IInv, ControlInv, Active
  <1>2. \A q \in Procs : pc[q] # "install_trans" /\ pc[q] # "erase"
    BY <1>1 DEF CommitPhases
  <1> QED
    BY <1>1, <1>2 DEF Copied, IInv, CommitInv

LEMMA LogWriteInv ==
  ASSUME NEW p \in Procs, NEW b \in Blocks, NEW v \in Vals, IInv, log_write(p, b, v)
  PROVE  IInv'
  <1> USE DEF IInv, log_write
  <1>1. /\ ~committing /\ dhead = <<>>
        /\ \A q \in Procs : pc[q] \notin CommitPhases
        /\ \A i : ~Copied(i) /\ ~Copied(i)'
    <2>1. \A i : ~Copied(i)
      BY NoCommitDuringCall
    <2>2. \A q \in Procs : pc[q] # "install_trans" /\ pc[q] # "erase"
      BY NoCommitDuringCall DEF CommitPhases
    <2>3. \A i : ~Copied(i)'
      BY <2>2 DEF Copied
    <2> QED
      BY <2>1, <2>3, NoCommitDuringCall
  <1>2. Active' = Active /\ p \in Active
    BY DEF Active
  <1>3. Len(lh) < LOGSIZE
    BY DEF TooBig, TypeOK
  <1>4. TypeOK'
    BY <1>3, SMTT(30) DEF TypeOK, Filled, bpin, Logged
  <1>5. Distinct(lh)' /\ Distinct(dhead)'
    BY SMTT(30) DEF Distinct, Logged, TypeOK
  <1>6. ControlInv' /\ BootInv' /\ RecoverInv'
    BY <1>2 DEF ControlInv, BootInv, RecoverInv
  <1>7. NoLostWakeup'
    <2>1. Len(lh) \in Nat /\ Len(lh') \in Nat /\ Len(lh') >= Len(lh)
      BY DEF TypeOK
    <2>2. (outstanding + 1) * MAXOPBLOCKS \in Nat
      BY DEF TypeOK
    <2>3. NoSpace => NoSpace'
      BY <2>1, <2>2 DEF NoSpace
    <2> QED
      BY <2>3 DEF NoLostWakeup
  <1>8. /\ cache'[b] = v /\ v # NotCached
        /\ \A c \in Blocks \ {b} : cache'[c] = cache[c] /\ Content(c)' = Content(c)
    BY DEF Filled, TypeOK, Content
  <1>9. PinInv'
    <2>1. CASE Logged(b)
      BY <2>1, <1>1, <1>8, SMTT(30) DEF PinInv, Logged, TypeOK
    <2>2. CASE ~Logged(b)
      <3>1. \A i \in 1..Len(lh) : lh'[i] = lh[i] /\ lh[i] # b /\ lh[i] \in Blocks
        BY <2>2 DEF Logged, TypeOK
      <3>2. Len(lh') = Len(lh) + 1 /\ lh'[Len(lh) + 1] = b
        BY <2>2 DEF TypeOK
      <3>3. \A i \in 1..Len(lh') : i \in 1..Len(lh) \/ i = Len(lh) + 1
        BY <3>2 DEF TypeOK
      <3>4. refcnt'[b] = 1 /\ \A c \in Blocks \ {b} : refcnt'[c] = refcnt[c]
        BY <2>2 DEF PinInv, bpin, TypeOK
      <3>5. \A c \in Blocks : ~Logged(c)' => c # b /\ ~Logged(c)
        <4>1. Len(lh) \in Nat /\ Len(lh) + 1 \in 1..Len(lh')
          BY <3>2 DEF TypeOK
        <4>2. \A i \in 1..Len(lh) : i \in 1..Len(lh')
          BY <3>2, <4>1
        <4> QED
          BY <3>1, <3>2, <4>1, <4>2 DEF Logged
      <3>6. \A i \in 1..Len(lh') : refcnt'[lh'[i]] = 1 /\ cache'[lh'[i]] # NotCached
        BY <1>1, <1>8, <3>1, <3>2, <3>3, <3>4 DEF PinInv
      <3>7. \A c \in Blocks : ~Logged(c)' => refcnt'[c] = 0 /\ Content(c)' = disk'[c]
        BY <1>8, <3>4, <3>5 DEF PinInv
      <3> QED
        BY <1>1, <3>6, <3>7 DEF PinInv
    <2> QED
      BY <2>1, <2>2
  <1>10. CommitInv'
    BY <1>1, <1>2 DEF CommitInv, CommitPhases
  <1> QED
    BY <1>4, <1>5, <1>6, <1>7, <1>9, <1>10

(* After a panic nothing is claimed but types, control and sleepers.       *)
LEMMA LogWritePanicInv ==
  ASSUME NEW p \in Procs, NEW b \in Blocks, IInv, log_write_panic(p, b) PROVE IInv'
  <1> USE DEF IInv, log_write_panic
  <1>1. TypeOK' /\ Distinct(lh)' /\ Distinct(dhead)' /\ Active' = Active
    BY DEF TypeOK, Distinct, Active
  <1> QED
    BY <1>1 DEF ControlInv, BootInv, PinInv, CommitInv, RecoverInv, NoLostWakeup, NoSpace

(* A call ends: one member of Active less.  The last one starts commit().  *)
LEMMA EndInv == ASSUME NEW p \in Procs, IInv, end_op(p) PROVE IInv'
  <1> USE DEF IInv, end_op
  <1>1. /\ ~committing /\ sys' = "up" /\ dhead = <<>>
        /\ \A q \in Procs : pc[q] \notin CommitPhases
        /\ \A i : ~Copied(i)
    BY NoCommitDuringCall
  <1>2. p \in Active /\ Active' = Active \ {p}
    BY DEF Active, TypeOK
  <1>3. Cardinality(Active') = outstanding' /\ outstanding \in Nat \ {0}
    BY <1>2, ActiveFinite, FS_RemoveElement, FS_EmptySet, FS_CardinalityType DEF ControlInv
  <1>4. \A i : ~Copied(i)'
    BY <1>1 DEF Copied, TypeOK, CommitPhases
  <1>5. TypeOK'
    <2>1. pc' \in [Procs -> Phases]
      BY DEF TypeOK, Phases, CommitPhases
    <2>2. outstanding' \in Nat /\ tail' \in Nat
      BY <1>3 DEF TypeOK
    <2>3. committing' \in BOOLEAN
      BY Zenon DEF TypeOK
    <2>4. asleep' \in SUBSET Procs /\ wset' \in [Procs -> SUBSET Blocks]
      BY DEF TypeOK, Wakeup
    <2> QED
      BY <1>1, <2>1, <2>2, <2>3, <2>4 DEF TypeOK
  <1>6. Distinct(lh)' /\ Distinct(dhead)' /\ BootInv' /\ RecoverInv'
    BY <1>1 DEF Distinct, BootInv, RecoverInv
  <1>7. PinInv'
    BY <1>1, <1>4 DEF PinInv, Logged, Content
  <1>8. CASE LastCall
    <2>1. Active' = {} /\ committing'
      <3>1. IsFiniteSet(Active')
        BY <1>2, ActiveFinite, FS_Subset
      <3> QED
        BY <1>3, <1>8, <3>1, FS_EmptySet DEF LastCall
    <2>2. \A q \in Procs \ {p} : pc'[q] = pc[q]
      BY DEF TypeOK
    <2>3. pc'[p] = IF lh = <<>> THEN "committed" ELSE "write_log"
      BY <1>8 DEF TypeOK
    <2>4. ControlInv'
      BY <1>1, <1>3, <2>1, <2>2, <2>3 DEF ControlInv, CommitPhases
    <2>5. CommitInv'
      BY <1>1, <1>8, <2>1, <2>2, <2>3 DEF CommitInv, CommitPhases, TypeOK
    <2>6. NoLostWakeup'
      BY <2>1 DEF NoLostWakeup
    <2> QED
      BY <1>5, <1>6, <1>7, <2>4, <2>5, <2>6
  <1>9. CASE ~LastCall
    <2>1. pc'[p] = "user" /\ \A q \in Procs \ {p} : pc'[q] = pc[q]
      BY <1>9 DEF TypeOK
    <2>2. ControlInv'
      BY <1>1, <1>3, <1>9, <2>1 DEF ControlInv, CommitPhases
    <2>3. Active' # {}
      <3>1. outstanding' # 0
        BY <1>3, <1>9 DEF LastCall
      <3> QED
        BY <1>3, <3>1, FS_EmptySet
    <2>4. CommitInv'
      BY <1>1, <2>1, <2>3 DEF CommitInv, CommitPhases
    <2>5. NoLostWakeup'
      BY <1>9 DEF NoLostWakeup, Wakeup
    <2> QED
      BY <1>5, <1>6, <1>7, <2>2, <2>4, <2>5
  <1> QED
    BY <1>8, <1>9

(* At most one process is in commit(), and no call is then under way.      *)
LEMMA OneCommitter ==
  ASSUME NEW p \in Procs, IInv, pc[p] \in CommitPhases
  PROVE  /\ committing
         /\ Active = {}
         /\ \A q \in Procs : q # p => pc[q] \notin CommitPhases
  BY DEF IInv, ControlInv

(* What moving the committing process p to another phase of commit() keeps. *)
LEMMA GotoControl ==
  ASSUME NEW p \in Procs, NEW phase \in CommitPhases, IInv, pc[p] \in CommitPhases,
         Goto(p, phase), UNCHANGED <<outstanding, committing>>
  PROVE  /\ ControlInv'
         /\ Active' = {}
         /\ pc' \in [Procs -> Phases]
         /\ pc'[p] = phase
         /\ \A q \in Procs : q # p => pc'[q] = pc[q] /\ pc[q] \notin CommitPhases
  <1>1. pc'[p] = phase /\ \A q \in Procs : q # p => pc'[q] = pc[q]
    BY DEF Goto, IInv, TypeOK
  <1>2. Active' = {} /\ Active = {}
    BY <1>1, OneCommitter DEF Active, CommitPhases
  <1>3. pc' \in [Procs -> Phases]
    BY DEF Goto, IInv, TypeOK, Phases
  <1>4. ControlInv'
    BY <1>1, <1>2, OneCommitter DEF ControlInv, IInv
  <1> QED
    BY <1>1, <1>2, <1>3, <1>4, OneCommitter

LEMMA WriteLogInv == ASSUME NEW p \in Procs, IInv, write_log(p) PROVE IInv'
  <1> USE DEF IInv, write_log
  <1>1. /\ pc[p] \in CommitPhases /\ committing /\ Active = {}
        /\ \A q \in Procs : q # p => pc[q] \notin CommitPhases
    BY OneCommitter DEF CommitPhases
  <1>2. \A q \in Procs : pc[q] # "install_trans" /\ pc[q] # "erase"
    BY <1>1 DEF CommitPhases
  <1>3. Distinct(lh)' /\ Distinct(dhead)' /\ BootInv' /\ RecoverInv' /\ NoLostWakeup'
    BY <1>1 DEF Distinct, BootInv, RecoverInv, NoLostWakeup
  <1>4. CASE tail < Len(lh)
    <2>1. lh[tail + 1] \in Blocks /\ tail + 1 \in 1..LOGSIZE /\ tail + 1 \in 1..Len(lh)
      BY <1>4 DEF TypeOK
    <2>2. Content(lh[tail + 1]) \in Vals
      BY <2>1 DEF Content, TypeOK
    <2>3. /\ \A c \in Blocks : Content(c)' = Content(c)
          /\ \A c \in Blocks : cache[c] # NotCached => cache'[c] # NotCached
      BY <1>4, <2>1, <2>2 DEF Content, Filled, TypeOK
    <2>4. TypeOK'
      <3>1. logdata' = [logdata EXCEPT ![tail + 1] = Content(lh[tail + 1])]
        BY <1>4 DEF TypeOK
      <3>2. cache' = Filled(lh[tail + 1], Content(lh[tail + 1]))
        BY <1>4 DEF TypeOK
      <3>3. logdata' \in [1..LOGSIZE -> Vals]
        BY <2>1, <2>2, <3>1 DEF TypeOK
      <3>4. cache' \in [Blocks -> Vals \cup {NotCached}]
        BY <2>1, <2>2, <3>2 DEF TypeOK, Filled
      <3>5. tail' \in Nat /\ pc' = pc
        BY <1>4 DEF TypeOK
      <3> QED
        BY <3>3, <3>4, <3>5 DEF TypeOK
    <2>5. ControlInv' /\ Active' = Active /\ \A i : ~Copied(i) /\ ~Copied(i)'
      <3>1. pc' = pc
        BY <1>4 DEF TypeOK
      <3>2. Active' = Active
        BY <3>1 DEF Active
      <3> QED
        BY <1>2, <3>1, <3>2 DEF ControlInv, Copied
    <2>6. PinInv'
      BY <2>3, <2>5 DEF PinInv, Logged, TypeOK
    <2>7. CommitInv'
      <3>1. \A i \in 1..Len(lh) : i <= tail' => logdata'[i] = Content(lh[i])'
        <4> SUFFICES ASSUME NEW i \in 1..Len(lh), i <= tail' PROVE logdata'[i] = Content(lh[i])'
          OBVIOUS
        <4>1. lh[i] \in Blocks /\ Content(lh[i])' = Content(lh[i])
          BY <2>3 DEF TypeOK
        <4>2. CASE i = tail + 1
          BY <4>1, <4>2, <2>1, <1>4 DEF TypeOK
        <4>3. CASE i # tail + 1
          <5>1. i <= tail /\ logdata'[i] = logdata[i]
            BY <4>3, <1>4, <2>1 DEF TypeOK
          <5> QED
            BY <5>1, <4>1 DEF CommitInv
        <4> QED
          BY <4>2, <4>3
      <3>2. tail' <= Len(lh')
        BY <1>4, <2>1 DEF TypeOK
      <3> QED
        BY <1>1, <1>2, <1>4, <2>5, <3>1, <3>2 DEF CommitInv, CommitPhases
    <2> QED
      BY <1>3, <2>4, <2>5, <2>6, <2>7
  <1>5. CASE tail = Len(lh) /\ Goto(p, "write_head") /\ UNCHANGED <<logdata, cache, tail>>
    <2>1. /\ ControlInv' /\ Active' = {} /\ pc' \in [Procs -> Phases] /\ pc'[p] = "write_head"
          /\ \A q \in Procs : q # p => pc'[q] = pc[q] /\ pc[q] \notin CommitPhases
      BY <1>1, <1>5, GotoControl DEF CommitPhases
    <2>2. TypeOK'
      BY <1>5, <2>1 DEF TypeOK
    <2>3. \A i : ~Copied(i) /\ ~Copied(i)'
      BY <1>2, <2>1 DEF Copied
    <2>4. PinInv'
      BY <1>5, <2>3 DEF PinInv, Content, Logged
    <2>5. CommitInv'
      BY <1>1, <1>2, <1>5, <2>1 DEF CommitInv, CommitPhases, Content, TypeOK
    <2> QED
      BY <1>3, <2>1, <2>2, <2>4, <2>5
  <1> QED
    BY <1>4, <1>5

(* The commit point.                                                       *)
LEMMA WriteHeadInv == ASSUME NEW p \in Procs, IInv, write_head(p) PROVE IInv'
  <1> USE DEF IInv, write_head
  <1>1. /\ pc[p] \in CommitPhases /\ committing
        /\ \A q \in Procs : q # p => pc[q] \notin CommitPhases
    BY OneCommitter DEF CommitPhases
  <1>2. /\ ControlInv' /\ Active' = {} /\ pc' \in [Procs -> Phases] /\ pc'[p] = "install_trans"
        /\ \A q \in Procs : q # p => pc'[q] = pc[q] /\ pc[q] \notin CommitPhases
    BY <1>1, GotoControl DEF CommitPhases
  <1>3. Distinct(lh)' /\ Distinct(dhead)' /\ BootInv' /\ RecoverInv' /\ NoLostWakeup'
    BY <1>1 DEF Distinct, BootInv, RecoverInv, NoLostWakeup
  <1>4. TypeOK'
    BY <1>2 DEF TypeOK
  <1>5. \A i \in 1..Len(lh) : ~Copied(i) /\ ~Copied(i)'
    BY <1>1, <1>2 DEF Copied, CommitPhases
  <1>6. PinInv'
    BY <1>5 DEF PinInv, Content, Logged
  <1>7. CommitInv'
    BY <1>1, <1>2 DEF CommitInv, CommitPhases, Content, TypeOK
  <1> QED
    BY <1>2, <1>3, <1>4, <1>6, <1>7

LEMMA InstallInv == ASSUME NEW p \in Procs, IInv, install_trans(p) PROVE IInv'
  <1> USE DEF IInv, install_trans
  <1>1. /\ pc[p] \in CommitPhases /\ committing /\ Active = {}
        /\ \A q \in Procs : q # p => pc[q] \notin CommitPhases
    BY OneCommitter DEF CommitPhases
  <1>2. dhead = lh /\ \A i \in 1..Len(lh) : logdata[i] = Content(lh[i])
    BY DEF CommitInv
  <1>3. Distinct(lh)' /\ Distinct(dhead)' /\ BootInv' /\ RecoverInv' /\ NoLostWakeup'
    BY <1>1 DEF Distinct, BootInv, RecoverInv, NoLostWakeup
  <1>4. tail \in Nat /\ tail <= Len(lh) /\ Len(lh) \in Nat
    BY DEF CommitInv, TypeOK
  <1>5. \A i \in 1..Len(lh) : Copied(i) <=> i <= tail
    BY <1>1 DEF Copied, CommitPhases
  <1>6. CASE tail < Len(lh) /\ Install(FALSE) /\ UNCHANGED pc
    <2> DEFINE h == lh[tail + 1]
    <2>1. h \in Blocks /\ tail + 1 \in 1..LOGSIZE /\ tail + 1 \in 1..Len(lh) /\ Logged(h)
      BY <1>6, <1>4 DEF TypeOK, Logged
    <2>2. logdata[tail + 1] = Content(h) /\ Content(h) \in Vals
      BY <1>2, <2>1 DEF TypeOK
    <2>3. refcnt[h] = 1
      BY <1>4, <1>5, <2>1 DEF PinInv
    <2>4. /\ cache'[h] = Content(h) /\ disk'[h] = Content(h) /\ refcnt'[h] = 0
          /\ \A c \in Blocks : c # h =>
                cache'[c] = cache[c] /\ disk'[c] = disk[c] /\ refcnt'[c] = refcnt[c]
      BY <1>6, <2>1, <2>2, <2>3 DEF Install, Filled, bunpin, TypeOK
    <2>5. \A c \in Blocks : Content(c)' = Content(c)
      BY <2>2, <2>4 DEF Content
    <2>6. tail' = tail + 1 /\ pc' = pc
      BY <1>6 DEF Install
    <2>7. TypeOK'
      <3>1. disk' \in [Blocks -> Vals] /\ cache' \in [Blocks -> Vals \cup {NotCached}]
        BY <1>6, <2>1, <2>2 DEF Install, Filled, TypeOK
      <3>2. refcnt' \in [Blocks -> Nat]
        BY <1>6, <2>1, <2>3 DEF Install, bunpin, TypeOK
      <3> QED
        BY <2>6, <3>1, <3>2, <1>4 DEF TypeOK
    <2>8. Active' = Active
      BY <2>6 DEF Active
    <2>9. ControlInv'
      BY <2>6, <2>8 DEF ControlInv
    <2>10. \A i \in 1..Len(lh) : Copied(i)' <=> i <= tail + 1
      BY <1>1, <2>6 DEF Copied, CommitPhases
    <2>11. PinInv'
      <3>1. \A c \in Blocks : ~Logged(c)' => refcnt'[c] = 0 /\ Content(c)' = disk'[c]
        BY <2>1, <2>4, <2>5 DEF PinInv, Logged
      <3>2. ASSUME NEW i \in 1..Len(lh)
            PROVE  IF Copied(i)' THEN refcnt'[lh[i]] = 0 /\ Content(lh[i])' = disk'[lh[i]]
                                 ELSE refcnt'[lh[i]] = 1 /\ cache'[lh[i]] # NotCached
        <4>1. lh[i] \in Blocks
          BY DEF TypeOK
        <4>2. CASE i = tail + 1
          BY <4>2, <2>4, <2>5, <2>10, <2>1
        <4>3. CASE i # tail + 1
          <5>1. lh[i] # h
            BY <4>3, <2>1 DEF Distinct
          <5>2. Copied(i)' <=> Copied(i)
            BY <4>3, <1>4, <1>5, <2>10
          <5> QED
            BY <4>1, <5>1, <5>2, <2>4, <2>5 DEF PinInv
        <4> QED
          BY <4>2, <4>3
      <3> QED
        BY <3>1, <3>2 DEF PinInv
    <2>12. CommitInv'
      <3>1. \A i \in 1..Len(lh) : logdata'[i] = Content(lh[i])'
        BY <1>2, <2>5 DEF TypeOK
      <3>2. tail' <= Len(lh')
        BY <1>4, <1>6, <2>6
      <3> QED
        BY <1>1, <1>2, <2>6, <2>8, <3>1, <3>2 DEF CommitInv, CommitPhases
    <2> QED
      BY <1>3, <2>7, <2>9, <2>11, <2>12
  <1>7. CASE tail = Len(lh) /\ Goto(p, "erase") /\ UNCHANGED <<disk, cache, refcnt, tail>>
    <2>1. /\ ControlInv' /\ Active' = {} /\ pc' \in [Procs -> Phases] /\ pc'[p] = "erase"
          /\ \A q \in Procs : q # p => pc'[q] = pc[q] /\ pc[q] \notin CommitPhases
      BY <1>1, <1>7, GotoControl DEF CommitPhases
    <2>2. TypeOK'
      BY <1>7, <2>1 DEF TypeOK
    <2>3. \A i \in 1..Len(lh) : Copied(i) /\ Copied(i)'
      BY <1>5, <1>7, <2>1 DEF Copied
    <2>4. PinInv'
      BY <1>7, <2>3 DEF PinInv, Content, Logged
    <2>5. CommitInv'
      BY <1>1, <1>2, <1>7, <2>1 DEF CommitInv, CommitPhases, Content, TypeOK
    <2> QED
      BY <1>3, <2>1, <2>2, <2>4, <2>5
  <1> QED
    BY <1>6, <1>7

LEMMA EraseInv == ASSUME NEW p \in Procs, IInv, erase(p) PROVE IInv'
  <1> USE DEF IInv, erase
  <1>1. pc[p] \in CommitPhases /\ committing
    BY OneCommitter DEF CommitPhases
  <1>2. /\ ControlInv' /\ Active' = {} /\ pc' \in [Procs -> Phases] /\ pc'[p] = "committed"
        /\ \A q \in Procs : q # p => pc'[q] = pc[q] /\ pc[q] \notin CommitPhases
    BY <1>1, GotoControl DEF CommitPhases
  <1>3. Distinct(lh)' /\ Distinct(dhead)' /\ BootInv' /\ RecoverInv' /\ NoLostWakeup'
    BY <1>1 DEF Distinct, BootInv, RecoverInv, NoLostWakeup
  <1>4. TypeOK'
    BY <1>2 DEF TypeOK
  <1>5. \A b \in Blocks : refcnt[b] = 0 /\ Content(b) = disk[b]
    <2>1. \A i \in 1..Len(lh) : Copied(i)
      BY DEF Copied
    <2> QED
      BY <2>1 DEF PinInv, Logged
  <1>6. PinInv'
    BY <1>5 DEF PinInv, Content
  <1>7. CommitInv'
    BY <1>2 DEF CommitInv, CommitPhases
  <1> QED
    BY <1>2, <1>3, <1>4, <1>6, <1>7

LEMMA EndCommitInv == ASSUME NEW p \in Procs, IInv, end_commit(p) PROVE IInv'
  <1> USE DEF IInv, end_commit
  <1>1. /\ pc[p] \in CommitPhases /\ Active = {} /\ lh = <<>> /\ dhead = <<>>
        /\ \A q \in Procs : q # p => pc[q] \notin CommitPhases
    BY OneCommitter DEF CommitPhases, CommitInv
  <1>2. pc' \in [Procs -> Phases] /\ pc'[p] = "user" /\ \A q \in Procs : q # p => pc'[q] = pc[q]
    BY DEF Goto, TypeOK, Phases
  <1>3. Active' = {}
    BY <1>1, <1>2 DEF Active
  <1>4. TypeOK'
    BY <1>2 DEF TypeOK, Wakeup
  <1>5. ControlInv'
    BY <1>1, <1>2, <1>3 DEF ControlInv, CommitPhases
  <1>6. Distinct(lh)' /\ Distinct(dhead)' /\ BootInv' /\ RecoverInv' /\ NoLostWakeup'
    BY DEF Distinct, BootInv, RecoverInv, NoLostWakeup, Wakeup
  <1>7. PinInv'
    BY <1>1 DEF PinInv, Content, Logged
  <1>8. CommitInv'
    BY <1>1, <1>2, <1>3 DEF CommitInv, CommitPhases
  <1> QED
    BY <1>4, <1>5, <1>6, <1>7, <1>8

(* A crash keeps the disk only.                                            *)
LEMMA CrashInv == ASSUME IInv, Crash PROVE IInv'
  <1> USE DEF IInv, Crash
  <1>1. Active' = {}
    BY DEF Active
  <1>2. TypeOK'
    <2>1. <<>> \in Seq(Blocks) /\ Len(<<>>) <= LOGSIZE
      OBVIOUS
    <2>2. pc' \in [Procs -> Phases] /\ wset' \in [Procs -> SUBSET Blocks]
      BY DEF Phases
    <2>3. cache' \in [Blocks -> Vals \cup {NotCached}] /\ refcnt' \in [Blocks -> Nat]
      OBVIOUS
    <2> QED
      BY <2>1, <2>2, <2>3 DEF TypeOK
  <1>3. ControlInv'
    BY <1>1, FS_EmptySet DEF ControlInv, CommitPhases
  <1>4. BootInv' /\ PinInv' /\ CommitInv' /\ RecoverInv' /\ NoLostWakeup'
    BY DEF BootInv, PinInv, CommitInv, RecoverInv, NoLostWakeup, Content
  <1>5. Distinct(lh)' /\ Distinct(dhead)'
    BY DEF Distinct
  <1> QED
    BY <1>2, <1>3, <1>4, <1>5

LEMMA ReadHeadInv == ASSUME IInv, read_head PROVE IInv'
  <1> USE DEF IInv, read_head
  <1>1. Active' = Active
    BY DEF Active
  <1>2. TypeOK' /\ Distinct(lh)' /\ Distinct(dhead)'
    BY DEF TypeOK, Distinct
  <1>3. ControlInv' /\ BootInv' /\ NoLostWakeup'
    BY <1>1 DEF ControlInv, BootInv, NoLostWakeup, Content
  <1>4. PinInv' /\ CommitInv'
    BY DEF PinInv, CommitInv
  <1>5. RecoverInv'
    BY DEF RecoverInv, TypeOK
  <1> QED
    BY <1>2, <1>3, <1>4, <1>5

LEMMA RecoverInstallInv == ASSUME IInv, recover_install PROVE IInv'
  <1> USE DEF IInv, recover_install
  <1>1. Active' = Active
    BY DEF Active
  <1>2. /\ lh = dhead /\ tail \in Nat /\ tail <= Len(lh) /\ Len(lh) \in Nat
        /\ \A i \in 1..Len(lh) : i <= tail => disk[lh[i]] = logdata[i]
    BY DEF RecoverInv, TypeOK
  <1>3. ControlInv' /\ Distinct(lh)' /\ Distinct(dhead)'
    BY <1>1 DEF ControlInv, Distinct
  <1>4. asleep = {} /\ NoLostWakeup'
    BY DEF BootInv, NoLostWakeup
  <1>5. CASE tail < Len(lh) /\ Install(TRUE) /\ UNCHANGED sys
    <2> DEFINE h == lh[tail + 1]
    <2>1. h \in Blocks /\ tail + 1 \in 1..LOGSIZE /\ tail + 1 \in 1..Len(lh)
      BY <1>5, <1>2 DEF TypeOK
    <2>2. logdata[tail + 1] \in Vals /\ logdata[tail + 1] # NotCached
      BY <2>1 DEF TypeOK
    <2>3. /\ cache'[h] = logdata[tail + 1] /\ disk'[h] = logdata[tail + 1]
          /\ \A c \in Blocks : c # h => cache'[c] = cache[c] /\ disk'[c] = disk[c]
          /\ refcnt' = refcnt /\ tail' = tail + 1
      BY <1>5, <2>1, <2>2 DEF Install, Filled, TypeOK
    <2>4. TypeOK'
      <3>1. disk' \in [Blocks -> Vals] /\ cache' \in [Blocks -> Vals \cup {NotCached}]
        BY <1>5, <2>1, <2>2 DEF Install, Filled, TypeOK
      <3> QED
        BY <2>3, <3>1, <1>2, <1>5 DEF TypeOK
    <2>5. BootInv'
      BY <1>5, <2>1, <2>2, <2>3 DEF BootInv, Content
    <2>6. PinInv' /\ CommitInv'
      BY <1>5 DEF PinInv, CommitInv
    <2>7. \A i \in 1..Len(lh) : i <= tail + 1 => disk'[lh[i]] = logdata[i]
      <3> SUFFICES ASSUME NEW i \in 1..Len(lh), i <= tail + 1 PROVE disk'[lh[i]] = logdata[i]
        OBVIOUS
      <3>1. CASE i = tail + 1
        BY <3>1, <2>3
      <3>2. CASE i # tail + 1
        <4>1. lh[i] # h /\ lh[i] \in Blocks /\ i <= tail
          BY <3>2, <2>1, <1>2 DEF Distinct, TypeOK
        <4> QED
          BY <4>1, <1>2, <2>3
      <3> QED
        BY <3>1, <3>2
    <2>8. RecoverInv'
      BY <1>2, <1>5, <2>1, <2>3, <2>7 DEF RecoverInv
    <2> QED
      BY <1>3, <1>4, <2>4, <2>5, <2>6, <2>8
  <1>6. CASE tail = Len(lh) /\ sys' = "clear" /\ UNCHANGED <<disk, cache, refcnt, tail>>
    <2>1. TypeOK'
      BY <1>6 DEF TypeOK
    <2>2. BootInv' /\ PinInv' /\ CommitInv' /\ RecoverInv'
      BY <1>2, <1>6 DEF BootInv, PinInv, CommitInv, RecoverInv, Content
    <2> QED
      BY <1>3, <1>4, <2>1, <2>2
  <1> QED
    BY <1>5, <1>6

LEMMA RecoverClearInv == ASSUME IInv, recover_clear PROVE IInv'
  <1> USE DEF IInv, recover_clear
  <1>1. Active' = Active /\ Active = {}
    BY DEF Active, BootInv
  <1>2. TypeOK' /\ Distinct(lh)' /\ Distinct(dhead)'
    BY DEF TypeOK, Distinct
  <1>3. ControlInv' /\ NoLostWakeup' /\ BootInv' /\ RecoverInv'
    BY <1>1 DEF ControlInv, NoLostWakeup, BootInv, RecoverInv
  <1>4. \A q \in Procs : pc[q] = "user"
    BY DEF BootInv
  <1>5. PinInv'
    BY DEF PinInv, BootInv, Content
  <1>6. CommitInv'
    BY <1>4 DEF CommitInv
  <1> QED
    BY <1>2, <1>3, <1>5, <1>6

LEMMA StutterInv == ASSUME IInv, UNCHANGED vars PROVE IInv'
  <1> USE DEF IInv
  <1>1. TypeOK' /\ Distinct(lh)' /\ Distinct(dhead)' /\ Active' = Active
    BY DEF TypeOK, Distinct, Active
  <1>2. ControlInv' /\ NoLostWakeup' /\ BootInv'
    BY <1>1 DEF ControlInv, NoLostWakeup, NoSpace, BootInv, Content
  <1>3. PinInv' /\ CommitInv' /\ RecoverInv'
    BY <1>1 DEF PinInv, CommitInv, RecoverInv, Content, Logged, Copied
  <1> QED
    BY <1>1, <1>2, <1>3

(* Every step of the log preserves the inductive invariant.                *)
LEMMA NextInv == ASSUME IInv, [Next]_vars PROVE IInv'
  <1>1. ASSUME NEW b \in Blocks, Read(b) \/ Recycle(b) PROVE IInv'
    BY <1>1, ReadInv, RecycleInv
  <1>2. ASSUME NEW p \in Procs, SysCall(p) \/ Sleep(p) \/ begin_op(p) \/ end_op(p) PROVE IInv'
    BY <1>2, SysCallInv, SleepInv, BeginInv, EndInv
  <1>3. ASSUME NEW p \in Procs, Commit(p) PROVE IInv'
    BY <1>3, WriteLogInv, WriteHeadInv, InstallInv, EraseInv, EndCommitInv DEF Commit
  <1>4. ASSUME NEW p \in Procs, NEW b \in Blocks, NEW v \in Vals, log_write(p, b, v) PROVE IInv'
    BY <1>4, LogWriteInv
  <1>5. ASSUME NEW p \in Procs, NEW b \in Blocks, log_write_panic(p, b) PROVE IInv'
    BY <1>5, LogWritePanicInv
  <1>6. CASE Recovery
    BY <1>6, ReadHeadInv, RecoverInstallInv, RecoverClearInv DEF Recovery
  <1>7. CASE Crash
    BY <1>7, CrashInv
  <1>8. CASE UNCHANGED vars
    BY <1>8, StutterInv
  <1> QED
    BY <1>1, <1>2, <1>3, <1>4, <1>5, <1>6, <1>7, <1>8 DEF Next

(* The inductive invariant holds in every reachable state of the log.      *)
THEOREM Invariance == Spec => []IInv
  BY InitInv, NextInv, PTL DEF Spec

(* The type invariant: the header on the disk never has more entries than  *)
(* LOGSIZE, and bunpin() never drops a reference that bpin() did not take. *)
THEOREM TypeCorrect == Spec => []TypeOK
  <1>1. IInv => TypeOK
    BY DEF IInv
  <1> QED
    BY <1>1, Invariance, PTL

(* No process oversleeps in begin_op().                                    *)
THEOREM WakeupNeverLost == Spec => []NoLostWakeup
  <1>1. IInv => NoLostWakeup
    BY DEF IInv
  <1> QED
    BY <1>1, Invariance, PTL

(* A file system at rest is entirely in its home locations.                *)
THEOREM Durable == Spec => []QuiescentDurable
  <1>1. ASSUME IInv PROVE QuiescentDurable
    <2> SUFFICES ASSUME sys = "up", outstanding = 0, ~committing
                 PROVE  dhead = <<>> /\ lh = <<>> /\ \A b \in Blocks : disk[b] = Content(b)
      BY DEF QuiescentDurable
    <2> USE <1>1 DEF IInv
    <2>1. Active = {}
      BY ActiveFinite, FS_EmptySet DEF ControlInv
    <2>2. \A p \in Procs : pc[p] # "install_trans" /\ pc[p] # "erase"
      BY DEF ControlInv, CommitPhases
    <2>3. lh = <<>> /\ dhead = <<>>
      BY <2>1, <2>2 DEF CommitInv
    <2>4. \A b \in Blocks : ~Logged(b)
      BY <2>3 DEF Logged
    <2> QED
      BY <2>3, <2>4 DEF PinInv
  <1> QED
    BY <1>1, Invariance, PTL

-----------------------------------------------------------------------------
(* The space reserved by begin_op().                                       *)

SInv == BudgetInv /\ ReservationFits

(* Calls of MAXOPBLOCKS blocks each.                                       *)
LEMMA Places ==
  ASSUME NEW A \in SUBSET Procs
  PROVE  /\ IsFiniteSet(A \X (1..MAXOPBLOCKS))
         /\ Cardinality(A \X (1..MAXOPBLOCKS)) = Cardinality(A) * MAXOPBLOCKS
  <1>1. IsFiniteSet(1..MAXOPBLOCKS) /\ Cardinality(1..MAXOPBLOCKS) = MAXOPBLOCKS
    BY FS_Interval
  <1>2. IsFiniteSet(A)
    BY FS_Subset
  <1> QED
    BY <1>1, <1>2, FS_Product, Zenon

(* There are finitely many blocks left to log, a natural number of them.   *)
LEMMA ReservedFinite ==
  /\ IsFiniteSet(Active \X (1..MAXOPBLOCKS))
  /\ Reserved \in SUBSET (Active \X (1..MAXOPBLOCKS))
  /\ IsFiniteSet(Reserved) /\ Cardinality(Reserved) \in Nat
  <1>1. IsFiniteSet(Active \X (1..MAXOPBLOCKS))
    BY Active \in SUBSET Procs, Places DEF Active
  <1>2. Reserved \in SUBSET (Active \X (1..MAXOPBLOCKS))
    BY DEF Reserved
  <1> QED
    BY <1>1, <1>2, FS_Subset, FS_CardinalityType

(* The calls under way may never log more than MAXOPBLOCKS blocks each.    *)
LEMMA ReservedBound ==
  ASSUME IInv
  PROVE  Cardinality(Reserved) <= outstanding * MAXOPBLOCKS
  <1>1. Active \in SUBSET Procs
    BY DEF Active
  <1>2. Cardinality(Active \X (1..MAXOPBLOCKS)) = outstanding * MAXOPBLOCKS
    BY <1>1, Places DEF IInv, ControlInv
  <1> QED
    BY <1>2, ReservedFinite, FS_Subset

(* Fewer calls, none of which has less of its budget left, reserve less.   *)
LEMMA ReservedShrinks ==
  ASSUME Active' \subseteq Active, \A q \in Active' : wset'[q] = wset[q]
  PROVE  Cardinality(Reserved') <= Cardinality(Reserved)
  <1>1. Reserved' \subseteq Reserved
    BY DEF Reserved
  <1> QED
    BY <1>1, ReservedFinite, FS_Subset

(* A step that touches neither the log nor the calls keeps the reservation. *)
LEMMA SameReservation ==
  ASSUME IInv, SInv, sys = "up", UNCHANGED <<lh, wset>>,
         \A q \in Procs : (pc'[q] = "op") <=> (pc[q] = "op")
  PROVE  SInv'
  <1>1. Active' = Active
    BY DEF Active
  <1>2. ReservationFits'
    BY <1>1 DEF SInv, ReservationFits, Reserved
  <1>3. BudgetInv'
    BY DEF SInv, BudgetInv, Logged
  <1> QED
    BY <1>2, <1>3 DEF SInv

(* Where no call is under way, nothing is reserved and the log fits.       *)
LEMMA NobodyReserves ==
  ASSUME IInv', \A q \in Procs : pc'[q] # "op" /\ wset'[q] = {}
  PROVE  SInv'
  <1>1. Active' = {}
    BY DEF Active
  <1>2. Reserved' = {}
    BY <1>1 DEF Reserved
  <1>3. ReservationFits'
    BY <1>2, FS_EmptySet DEF IInv, TypeOK, ReservationFits
  <1>4. BudgetInv'
    BY FS_EmptySet DEF BudgetInv
  <1> QED
    BY <1>3, <1>4 DEF SInv

LEMMA InitReservation == Init => SInv
  <1> SUFFICES ASSUME Init PROVE SInv
    OBVIOUS
  <1>1. \A q \in Procs : pc[q] = "user" /\ wset[q] = {}
    BY DEF Init, Memory0
  <1>2. sys = "off"
    BY DEF Init, Memory0
  <1> QED
    BY <1>1, <1>2, FS_EmptySet DEF SInv, BudgetInv, ReservationFits

(* The admission test leaves room for all that the new call may log too.   *)
LEMMA BeginReservation ==
  ASSUME NEW p \in Procs, IInv, SInv, begin_op(p)
  PROVE  SInv'
  <1> USE DEF begin_op
  <1>1. Cardinality(Reserved') \in Nat /\ Cardinality(Reserved') <= outstanding' * MAXOPBLOCKS
    <2>1. Active' \in SUBSET Procs
      BY DEF Active
    <2>2. Cardinality(Active') = outstanding'
      BY BeginInv DEF IInv, ControlInv
    <2>3. /\ IsFiniteSet(Active' \X (1..MAXOPBLOCKS))
          /\ Cardinality(Active' \X (1..MAXOPBLOCKS)) = outstanding' * MAXOPBLOCKS
      BY <2>1, <2>2, Places
    <2>4. Reserved' \in SUBSET (Active' \X (1..MAXOPBLOCKS))
      BY DEF Reserved
    <2> QED
      BY <2>3, <2>4, FS_Subset, FS_CardinalityType
  <1>2. Len(lh) + outstanding' * MAXOPBLOCKS <= LOGSIZE
    <2>1. outstanding \in Nat /\ Len(lh) \in Nat
      BY DEF IInv, TypeOK
    <2>2. ~(Len(lh) + (outstanding + 1) * MAXOPBLOCKS > LOGSIZE)
      BY DEF NoSpace
    <2> QED
      BY <2>1, <2>2
  <1>3. Len(lh') = Len(lh) /\ Len(lh) \in Nat /\ outstanding' * MAXOPBLOCKS \in Nat
    BY DEF IInv, TypeOK
  <1>4. ReservationFits'
    BY <1>1, <1>2, <1>3 DEF ReservationFits
  <1>5. BudgetInv'
    BY DEF SInv, BudgetInv, Logged, IInv, TypeOK
  <1> QED
    BY <1>4, <1>5 DEF SInv

(* A finite set less one of its members.                                   *)
LEMMA OneFewer ==
  ASSUME NEW S, NEW x \in S, IsFiniteSet(S)
  PROVE  IsFiniteSet(S \ {x}) /\ Cardinality(S \ {x}) = Cardinality(S) - 1
  BY FS_RemoveElement

(* A block logged for the first time by its call uses up one place of the  *)
(* call's reservation, and at most one entry of the log.                   *)
LEMMA LogWriteReservation ==
  ASSUME NEW p \in Procs, NEW b \in Blocks, NEW v \in Vals, IInv, SInv, log_write(p, b, v)
  PROVE  SInv'
  <1> USE DEF log_write
  <1> DEFINE k == Cardinality(wset[p])
  <1>1. /\ wset \in [Procs -> SUBSET Blocks] /\ lh \in Seq(Blocks)
        /\ pc[p] = "op" /\ Active' = Active /\ p \in Active
    BY DEF IInv, TypeOK, Active
  <1>2. IsFiniteSet(wset[p]) /\ k \in Nat
    BY FS_CardinalityType DEF SInv, BudgetInv
  <1>3. \A q \in Procs : wset'[q] = IF q = p THEN wset[p] \cup {b} ELSE wset[q]
    BY <1>1
  <1>4. IsFiniteSet(wset[p] \cup {b}) /\ Cardinality(wset[p] \cup {b}) <= MAXOPBLOCKS
    BY <1>2, FS_AddElement DEF WithinBudget
  <1>5. \A c : Logged(c)' <=> Logged(c) \/ c = b
    <2>1. CASE Logged(b)
      BY <2>1 DEF Logged
    <2>2. CASE ~Logged(b)
      <3>1. lh' = Append(lh, b) /\ Len(lh') = Len(lh) + 1
        BY <1>1, <2>2
      <3>2. \A i \in 1..Len(lh) : lh'[i] = lh[i]
        BY <1>1, <3>1
      <3>3. lh'[Len(lh) + 1] = b
        BY <1>1, <3>1
      <3>4. 1..Len(lh') = (1..Len(lh)) \cup {Len(lh) + 1}
        BY <1>1, <3>1
      <3> QED
        BY <3>2, <3>3, <3>4 DEF Logged
    <2> QED
      BY <2>1, <2>2
  <1>6. BudgetInv'
    BY <1>1, <1>3, <1>4, <1>5 DEF SInv, BudgetInv
  <1>7. Len(lh) + Cardinality(Reserved) <= LOGSIZE
    BY DEF SInv, ReservationFits
  <1>8. CASE b \in wset[p]
    <2>1. lh' = lh
      BY <1>8 DEF SInv, BudgetInv
    <2>2. \A q \in Procs : wset'[q] = wset[q]
      BY <1>3, <1>8
    <2>3. Reserved' = Reserved
      BY <1>1, <2>2 DEF Reserved, Active
    <2> QED
      BY <1>6, <1>7, <2>1, <2>3 DEF SInv, ReservationFits
  <1>9. CASE b \notin wset[p]
    <2>1. Cardinality(wset[p] \cup {b}) = k + 1
      BY <1>2, <1>9, FS_AddElement
    <2>2. k + 1 \in 1..MAXOPBLOCKS
      BY <1>2, <1>4, <2>1
    <2>3. <<p, k + 1>> \in Reserved
      BY <1>1, <1>2, <2>2 DEF Reserved
    <2>4. ASSUME NEW x \in Active \X (1..MAXOPBLOCKS), x[2] > Cardinality(wset'[x[1]])
          PROVE  x \in Reserved \ {<<p, k + 1>>}
      <3>1. x[1] \in Procs /\ x[2] \in Int /\ x = <<x[1], x[2]>>
        BY DEF Active
      <3>2. CASE x[1] = p
        <4>1. x[2] > k + 1
          BY <1>3, <2>1, <2>4, <3>2
        <4>2. x[2] > Cardinality(wset[x[1]])
          BY <4>1, <1>2, <3>1, <3>2
        <4>3. x # <<p, k + 1>>
          BY <4>1, <1>2, <3>1
        <4> QED
          BY <4>2, <4>3 DEF Reserved
      <3>3. CASE x[1] # p
        BY <1>3, <2>4, <3>1, <3>3 DEF Reserved
      <3> QED
        BY <3>2, <3>3
    <2>5. Reserved' \subseteq Reserved \ {<<p, k + 1>>}
      BY <1>1, <2>4 DEF Reserved
    <2>6. Cardinality(Reserved') <= Cardinality(Reserved) - 1
      <3>1. /\ IsFiniteSet(Reserved \ {<<p, k + 1>>})
            /\ Cardinality(Reserved \ {<<p, k + 1>>}) = Cardinality(Reserved) - 1
        BY <2>3, ReservedFinite, OneFewer
      <3> QED
        BY <2>5, <3>1, FS_Subset
    <2>7. Len(lh') \in Nat /\ Len(lh') <= Len(lh) + 1
      BY <1>1
    <2>8. Cardinality(Reserved') \in Nat
      BY <2>5, ReservedFinite, FS_RemoveElement, FS_Subset, FS_CardinalityType
    <2>9. Len(lh') + Cardinality(Reserved') <= LOGSIZE
      BY <1>1, <1>7, <2>6, <2>7, <2>8, ReservedFinite
    <2> QED
      BY <1>6, <2>9 DEF SInv, ReservationFits
  <1> QED
    BY <1>8, <1>9

(* A call that ends gives up what it has reserved.                         *)
LEMMA EndReservation ==
  ASSUME NEW p \in Procs, IInv, SInv, end_op(p)
  PROVE  SInv'
  <1> USE DEF end_op
  <1>1. /\ wset \in [Procs -> SUBSET Blocks] /\ pc \in [Procs -> Phases] /\ lh \in Seq(Blocks)
        /\ lh' = lh /\ pc[p] = "op"
    BY DEF IInv, TypeOK
  <1>2. \A q \in Procs : wset'[q] = IF q = p THEN {} ELSE wset[q]
    BY <1>1
  <1>3. pc'[p] # "op" /\ \A q \in Procs \ {p} : pc'[q] = pc[q]
    BY <1>1
  <1>4. Active' \subseteq Active \ {p}
    BY <1>3 DEF Active
  <1>5. Cardinality(Reserved') <= Cardinality(Reserved)
    <2>1. \A q \in Active' : wset'[q] = wset[q]
      BY <1>2, <1>4 DEF Active
    <2> QED
      BY <2>1, <1>4, ReservedShrinks
  <1>6. Cardinality(Reserved') \in Nat
    <2>1. Reserved' \in SUBSET (Active \X (1..MAXOPBLOCKS))
      BY <1>4 DEF Reserved
    <2> QED
      BY <2>1, ReservedFinite, FS_Subset, FS_CardinalityType
  <1>7. ReservationFits'
    BY <1>1, <1>5, <1>6, ReservedFinite DEF SInv, ReservationFits
  <1>8. BudgetInv'
    BY <1>1, <1>2, <1>3, FS_EmptySet DEF SInv, BudgetInv, Logged
  <1> QED
    BY <1>7, <1>8 DEF SInv

(* Nobody is in the middle of a call while a commit runs.                  *)
LEMMA CommitReservation ==
  ASSUME NEW p \in Procs, IInv, IInv', SInv, Commit(p)
  PROVE  SInv'
  <1>1. sys = "up" /\ pc[p] \in CommitPhases /\ wset' = wset
    BY DEF Commit, write_log, write_head, install_trans, erase, end_commit, CommitPhases
  <1>2. committing /\ Active = {}
    BY <1>1 DEF IInv, ControlInv
  <1>3. \A q \in Procs : pc[q] # "op" /\ wset[q] = {}
    BY <1>2 DEF Active, SInv, BudgetInv
  <1>4. \A q \in Procs : pc'[q] # "op"
    <2>1. pc \in [Procs -> Phases]
      BY DEF IInv, TypeOK
    <2> QED
      BY <1>3, <2>1 DEF Commit, Goto, write_log, write_head, install_trans, erase, end_commit
  <1> QED
    BY <1>1, <1>3, <1>4, NobodyReserves

(* Every step of the log keeps the reservation.                            *)
LEMMA NextReservation == ASSUME IInv, SInv, [Next]_vars PROVE SInv'
  <1>0. IInv'
    BY NextInv
  <1>1. ASSUME NEW b \in Blocks, Read(b) \/ Recycle(b) PROVE SInv'
    <2>1. UNCHANGED <<lh, wset, pc, sys>>
      BY <1>1 DEF Read, Recycle
    <2> QED
      BY <2>1 DEF SInv, BudgetInv, ReservationFits, Reserved, Active, Logged
  <1>2. ASSUME NEW p \in Procs, SysCall(p) \/ Sleep(p) PROVE SInv'
    <2>1. sys = "up" /\ UNCHANGED <<lh, wset>>
      BY <1>2 DEF SysCall, Sleep
    <2>2. \A q \in Procs : (pc'[q] = "op") <=> (pc[q] = "op")
      BY <1>2 DEF SysCall, Sleep, IInv, TypeOK
    <2> QED
      BY <2>1, <2>2, SameReservation
  <1>3. ASSUME NEW p \in Procs, begin_op(p) \/ end_op(p) PROVE SInv'
    BY <1>3, BeginReservation, EndReservation
  <1>4. ASSUME NEW p \in Procs, Commit(p) PROVE SInv'
    BY <1>0, <1>4, CommitReservation
  <1>5. ASSUME NEW p \in Procs, NEW b \in Blocks, NEW v \in Vals, log_write(p, b, v) PROVE SInv'
    BY <1>5, LogWriteReservation
  <1>6. ASSUME NEW p \in Procs, NEW b \in Blocks, log_write_panic(p, b) PROVE SInv'
    BY <1>6 DEF log_write_panic, SInv, BudgetInv, ReservationFits, Logged
  <1>7. CASE Recovery
    <2>1. sys \in {"off", "recover", "clear"} /\ UNCHANGED <<pc, wset>>
      BY <1>7 DEF Recovery, read_head, recover_install, recover_clear
    <2>2. \A q \in Procs : pc[q] = "user" /\ wset[q] = {}
      BY <2>1 DEF IInv, BootInv, SInv, BudgetInv
    <2> QED
      BY <1>0, <2>1, <2>2, NobodyReserves
  <1>8. CASE Crash
    BY <1>0, <1>8, NobodyReserves DEF Crash
  <1>9. CASE UNCHANGED vars
    BY <1>9 DEF SInv, BudgetInv, ReservationFits, Reserved, Active, Logged
  <1> QED
    BY <1>1, <1>2, <1>3, <1>4, <1>5, <1>6, <1>7, <1>8, <1>9 DEF Next

(* The calls admitted by begin_op() never need more than the log has.      *)
THEOREM ReservationSound == Spec => []ReservationFits
  <1>1. Init => IInv /\ SInv
    BY InitInv, InitReservation
  <1>2. IInv /\ SInv /\ [Next]_vars => (IInv /\ SInv)'
    BY NextInv, NextReservation
  <1>3. IInv /\ SInv => ReservationFits
    BY DEF SInv
  <1> QED
    BY <1>1, <1>2, <1>3, PTL DEF Spec

(* What the reservation is for: whichever block a call within its budget   *)
(* logs next, log.lh.block[] has an entry for it or already holds it.      *)
RoomForNext ==
    \A p \in Procs, b \in Blocks :
        sys = "up" /\ pc[p] = "op" /\ WithinBudget(p, b) => Logged(b) \/ Len(lh) < LOGSIZE

THEOREM NextBlockFits == Spec => []RoomForNext
  <1>1. ASSUME IInv, SInv PROVE RoomForNext
    <2> SUFFICES ASSUME NEW p \in Procs, NEW b \in Blocks, sys = "up", pc[p] = "op",
                        WithinBudget(p, b), ~Logged(b)
                 PROVE  Len(lh) < LOGSIZE
      BY DEF RoomForNext
    <2> DEFINE k == Cardinality(wset[p])
    <2>1. IsFiniteSet(wset[p]) /\ k \in Nat /\ b \notin wset[p]
      BY <1>1, FS_CardinalityType DEF SInv, BudgetInv
    <2>2. k + 1 \in 1..MAXOPBLOCKS
      <3>1. Cardinality(wset[p] \cup {b}) = k + 1
        BY <2>1, FS_AddElement
      <3> QED
        BY <2>1, <3>1 DEF WithinBudget
    <2>3. <<p, k + 1>> \in Reserved
      BY <2>1, <2>2 DEF Reserved, Active
    <2>4. Cardinality(Reserved) # 0
      BY <2>3, ReservedFinite, FS_EmptySet
    <2>5. Len(lh) + Cardinality(Reserved) <= LOGSIZE /\ Len(lh) \in Nat
      BY <1>1 DEF IInv, TypeOK, SInv, ReservationFits
    <2> QED
      BY <2>4, <2>5, ReservedFinite
  <1>2. Init => IInv /\ SInv
    BY InitInv, InitReservation
  <1>3. IInv /\ SInv /\ [Next]_vars => (IInv /\ SInv)'
    BY NextInv, NextReservation
  <1> QED
    BY <1>1, <1>2, <1>3, PTL DEF Spec

-----------------------------------------------------------------------------
(* Crash atomicity: Log implements AtomicDisk.                             *)

(* Replaying a log whose entries are distinct puts l[i] into block h[i].   *)
LEMMA RecoveredAt ==
  ASSUME NEW d, NEW l, NEW h \in Seq(Blocks), Distinct(h)
  PROVE  /\ \A i \in 1..Len(h) : Recovered(d, l, h)[h[i]] = l[i]
         /\ \A b \in Blocks : ~InHeader(h, b) => Recovered(d, l, h)[b] = d[b]
  <1>1. ASSUME NEW i \in 1..Len(h) PROVE Recovered(d, l, h)[h[i]] = l[i]
    <2>1. h[i] \in Blocks /\ InHeader(h, h[i])
      BY DEF InHeader
    <2>2. h[i] = h[i] /\ \A j \in 1..Len(h) : h[j] = h[i] => j <= i
      BY DEF Distinct
    <2>3. \A k \in 1..Len(h) : h[k] = h[i] => k = i
      BY DEF Distinct
    <2>4. LastEntry(h, h[i]) = i
      BY <2>2, <2>3 DEF LastEntry
    <2> QED
      BY <2>1, <2>4 DEF Recovered
  <1> QED
    BY <1>1 DEF Recovered

(* Two recovered disks are equal when they agree on every block.           *)
LEMMA RecoveredEq ==
  ASSUME NEW d1, NEW l1, NEW h1 \in Seq(Blocks), NEW f, f = [b \in Blocks |-> f[b]], Distinct(h1),
         \A i \in 1..Len(h1) : f[h1[i]] = l1[i],
         \A b \in Blocks : ~InHeader(h1, b) => f[b] = d1[b]
  PROVE  Recovered(d1, l1, h1) = f
  <1>1. ASSUME NEW b \in Blocks PROVE Recovered(d1, l1, h1)[b] = f[b]
    BY RecoveredAt DEF InHeader
  <1>2. Recovered(d1, l1, h1) = [b \in Blocks |-> Recovered(d1, l1, h1)[b]]
    BY DEF Recovered
  <1> QED
    BY <1>1, <1>2

LEMMA EmptyLog == ASSUME NEW d \in [Blocks -> Vals], NEW l PROVE Recovered(d, l, <<>>) = d
  BY DEF Recovered, InHeader

LEMMA RefinesInit == Init => AD!Init
  <1> SUFFICES ASSUME Init PROVE AD!Init
    OBVIOUS
  <1>1. Stable = disk
    BY EmptyLog DEF Init, Stable
  <1>2. View = Stable /\ Active = {}
    BY DEF Init, Memory0, View, Active
  <1> QED
    BY <1>1, <1>2 DEF AD!Init, Init

(* What a step that changes neither the disk's meaning nor the cache's     *)
(* leaves alone.                                                           *)
LEMMA ViewUp ==
  ASSUME sys \in {"up", "panic"}, sys' \in {"up", "panic"}, \A c \in Blocks : Content(c)' = Content(c)
  PROVE  View' = View
  BY DEF View

LEMMA ViewDown ==
  ASSUME sys \notin {"up", "panic"}, sys' \notin {"up", "panic"}, Stable' = Stable
  PROVE  View' = View
  BY DEF View

(* Steps that the abstract disk does not see, or sees as a begin or an end. *)
LEMMA RefinesCache ==
  ASSUME NEW b \in Blocks, IInv, Read(b) \/ Recycle(b) PROVE UNCHANGED AD!vars
  <1>1. Stable' = Stable /\ Active' = Active /\ sys' = sys
    BY DEF Read, Recycle, Stable, Active
  <1>2. \A c \in Blocks : Content(c)' = Content(c)
    <2>1. CASE Read(b)
      BY <2>1 DEF Read, Content, Filled, IInv, TypeOK
    <2>2. CASE Recycle(b)
      <3>1. Content(b) = disk[b]
        BY <2>2 DEF Recycle, IInv, PinInv, BootInv, Logged
      <3> QED
        BY <2>2, <3>1 DEF Recycle, Content, Filled, IInv, TypeOK
    <2> QED
      BY <2>1, <2>2
  <1>3. View' = View
    BY <1>1, <1>2, ViewUp, ViewDown
  <1> QED
    BY <1>1, <1>3 DEF AD!vars

LEMMA RefinesCall ==
  ASSUME NEW p \in Procs, IInv, SysCall(p) \/ Sleep(p) \/ begin_op(p) \/ end_op(p)
  PROVE  [AD!Next]_(AD!vars)
  <1>1. Stable' = Stable
    BY DEF SysCall, Sleep, begin_op, end_op, Stable
  <1>2. sys = "up" /\ sys' \in {"up", "panic"} /\ \A c \in Blocks : Content(c)' = Content(c)
    BY DEF SysCall, Sleep, begin_op, end_op, Content
  <1>3. View' = View
    BY <1>2, ViewUp
  <1>4. CASE SysCall(p) \/ Sleep(p)
    <2>1. Active' = Active
      BY <1>4 DEF SysCall, Sleep, Active, IInv, TypeOK
    <2> QED
      BY <1>1, <1>3, <2>1 DEF AD!vars
  <1>5. CASE begin_op(p)
    <2>1. p \notin Active /\ Active' = Active \cup {p}
      BY <1>5 DEF begin_op, Active, IInv, TypeOK
    <2> QED
      BY <1>1, <1>3, <2>1 DEF AD!Next, AD!Begin
  <1>6. CASE end_op(p)
    <2>1. p \in Active /\ Active' = Active \ {p}
      BY <1>6 DEF end_op, Active, IInv, TypeOK
    <2> QED
      BY <1>1, <1>3, <2>1 DEF AD!Next, AD!End
  <1> QED
    BY <1>4, <1>5, <1>6

LEMMA RefinesWrite ==
  ASSUME NEW p \in Procs, NEW b \in Blocks, NEW v \in Vals, IInv, log_write(p, b, v)
  PROVE  AD!Next
  <1>1. Stable' = Stable /\ Active' = Active /\ p \in Active
    BY DEF log_write, Stable, Active
  <1>2. \A c \in Blocks : Content(c)' = IF c = b THEN v ELSE Content(c)
    BY DEF log_write, Content, Filled, IInv, TypeOK
  <1>3. View' = [View EXCEPT ![b] = v]
    BY <1>2 DEF View, log_write
  <1> QED
    BY <1>1, <1>3 DEF AD!Next, AD!Write

LEMMA RefinesPanic ==
  ASSUME NEW p \in Procs, NEW b \in Blocks, log_write_panic(p, b) PROVE UNCHANGED AD!vars
  <1>1. Stable' = Stable /\ Active' = Active
    BY DEF log_write_panic, Stable, Active
  <1>2. View' = View
    BY ViewUp DEF log_write_panic, Content
  <1> QED
    BY <1>1, <1>2 DEF AD!vars

(* write_log() writes into a log that the header does not refer to yet.    *)
LEMMA RefinesWriteLog == ASSUME NEW p \in Procs, IInv, write_log(p) PROVE UNCHANGED AD!vars
  <1> USE DEF IInv, write_log
  <1>1. \A q \in Procs : pc[q] # "install_trans" /\ pc[q] # "erase"
    BY OneCommitter DEF CommitPhases
  <1>2. dhead = <<>>
    BY <1>1 DEF CommitInv
  <1>3. Stable = disk /\ Stable' = disk
    BY <1>2, EmptyLog DEF Stable, TypeOK
  <1>4. Active' = Active
    BY DEF Active, Goto, TypeOK
  <1>5. \A c \in Blocks : Content(c)' = Content(c)
    BY DEF Content, Filled, TypeOK
  <1>6. View' = View
    BY <1>5, ViewUp
  <1> QED
    BY <1>3, <1>4, <1>6 DEF AD!vars

(* Writing the header is the one step that makes calls durable, all of     *)
(* them at once, and no call is half done.                                 *)
LEMMA RefinesWriteHead == ASSUME NEW p \in Procs, IInv, write_head(p) PROVE AD!Next
  <1> USE DEF IInv, write_head
  <1>1. Active = {}
    BY OneCommitter DEF CommitPhases
  <1>2. Active' = Active
    BY DEF Active, Goto, TypeOK
  <1>3. View' = View
    BY ViewUp DEF Content
  <1>4. View = [b \in Blocks |-> Content(b)]
    BY DEF View
  <1>5. Stable' = View
    <2>1. \A i \in 1..Len(lh) : lh[i] \in Blocks /\ logdata[i] = Content(lh[i])
      BY DEF CommitInv, TypeOK
    <2>2. \A b \in Blocks : ~InHeader(lh, b) => Content(b) = disk[b]
      BY DEF PinInv, Logged, InHeader
    <2>3. View = [b \in Blocks |-> View[b]]
      BY <1>4
    <2>4. Recovered(disk, logdata, lh) = View
      <3>1. lh \in Seq(Blocks) /\ Distinct(lh)
        BY DEF TypeOK
      <3> QED
        BY <3>1, <1>4, <2>1, <2>2, <2>3, RecoveredEq
    <2> QED
      BY <2>4 DEF Stable
  <1> QED
    BY <1>1, <1>2, <1>3, <1>5 DEF AD!Next, AD!Commit

(* Installing touches only blocks whose committed contents are in the log. *)
LEMMA InstallKeepsRecovered ==
  ASSUME NEW d, NEW d2, NEW l, NEW h \in Seq(Blocks), Distinct(h),
         \A b \in Blocks : ~InHeader(h, b) => d2[b] = d[b]
  PROVE  Recovered(d2, l, h) = Recovered(d, l, h)
  BY DEF Recovered

LEMMA RefinesInstall == ASSUME NEW p \in Procs, IInv, install_trans(p) PROVE UNCHANGED AD!vars
  <1> USE DEF IInv, install_trans
  <1>1. Active' = Active
    BY DEF Active, Goto, TypeOK
  <1>2. dhead = lh /\ tail \in Nat /\ Len(lh) \in Nat /\ \A i \in 1..Len(lh) : logdata[i] = Content(lh[i])
    BY DEF CommitInv, TypeOK
  <1>3. CASE tail < Len(lh) /\ Install(FALSE) /\ UNCHANGED pc
    <2>1. tail + 1 \in 1..Len(lh) /\ tail + 1 \in 1..LOGSIZE /\ lh[tail + 1] \in Blocks
      BY <1>2, <1>3 DEF TypeOK
    <2>2. logdata[tail + 1] = Content(lh[tail + 1]) /\ logdata[tail + 1] \in Vals
      BY <1>2, <2>1 DEF TypeOK
    <2>3. \A c \in Blocks : Content(c)' = Content(c)
      BY <1>3, <2>1, <2>2 DEF Install, Content, Filled, TypeOK
    <2>4. \A b \in Blocks : ~InHeader(dhead, b) => disk'[b] = disk[b]
      BY <1>2, <1>3, <2>1 DEF InHeader, Install, TypeOK
    <2>5. Stable' = Stable
      BY <2>4, InstallKeepsRecovered DEF Stable, TypeOK
    <2>6. View' = View
      BY <2>3, ViewUp
    <2> QED
      BY <1>1, <2>5, <2>6 DEF AD!vars
  <1>4. CASE tail = Len(lh) /\ Goto(p, "erase") /\ UNCHANGED <<disk, cache, refcnt, tail>>
    <2>1. Stable' = Stable
      BY <1>4 DEF Stable
    <2>2. View' = View
      BY <1>4, ViewUp DEF Content
    <2> QED
      BY <1>1, <2>1, <2>2 DEF AD!vars
  <1> QED
    BY <1>3, <1>4

(* The log is erased only when every block in it is home.                  *)
LEMMA RefinesErase == ASSUME NEW p \in Procs, IInv, erase(p) PROVE UNCHANGED AD!vars
  <1> USE DEF IInv, erase
  <1>1. Active' = Active
    BY DEF Active, Goto, TypeOK
  <1>2. View' = View
    BY ViewUp DEF Content
  <1>3. dhead = lh /\ \A i \in 1..Len(lh) : logdata[i] = disk[lh[i]]
    BY DEF CommitInv, PinInv, Copied
  <1>4. Stable = disk
    <2>1. disk = [b \in Blocks |-> disk[b]] /\ dhead \in Seq(Blocks)
      BY DEF TypeOK
    <2> QED
      BY <1>3, <2>1, RecoveredEq DEF Stable
  <1>5. Stable' = disk
    BY EmptyLog DEF Stable, TypeOK
  <1> QED
    BY <1>1, <1>2, <1>4, <1>5 DEF AD!vars

LEMMA RefinesEndCommit == ASSUME NEW p \in Procs, IInv, end_commit(p) PROVE UNCHANGED AD!vars
  <1> USE DEF IInv, end_commit
  <1>1. Active' = Active /\ Stable' = Stable
    BY DEF Active, Goto, TypeOK, Stable
  <1>2. View' = View
    BY ViewUp DEF Content
  <1> QED
    BY <1>1, <1>2 DEF AD!vars

LEMMA RefinesCrash == ASSUME IInv, Crash PROVE AD!Next
  <1>1. Stable' = Stable /\ View' = Stable' /\ Active' = {}
    BY DEF Crash, Stable, View, Active
  <1> QED
    BY <1>1 DEF AD!Next, AD!Crash

(* Recovery, however often it is interrupted, is invisible.                *)
LEMMA RefinesRecovery == ASSUME IInv, Recovery PROVE UNCHANGED AD!vars
  <1> USE DEF IInv
  <1>1. Active' = Active
    BY DEF Active, Recovery, read_head, recover_install, recover_clear
  <1>2. CASE read_head
    <2>1. Stable' = Stable
      BY <1>2 DEF read_head, Stable
    <2> QED
      BY <1>1, <1>2, <2>1, ViewDown DEF read_head, AD!vars
  <1>3. CASE recover_install
    <2>1. lh = dhead /\ tail \in Nat /\ Len(lh) \in Nat
      BY <1>3 DEF recover_install, RecoverInv, TypeOK
    <2>2. \A b \in Blocks : ~InHeader(dhead, b) => disk'[b] = disk[b]
      BY <1>3, <2>1 DEF recover_install, InHeader, Install, TypeOK
    <2>3. Stable' = Stable
      BY <1>3, <2>2, InstallKeepsRecovered DEF recover_install, Stable, TypeOK
    <2>4. View' = View
      BY <1>3, <2>3, ViewDown DEF recover_install
    <2> QED
      BY <1>1, <2>3, <2>4 DEF AD!vars
  <1>4. CASE recover_clear
    <2>1. dhead = lh /\ tail = Len(lh) /\ \A i \in 1..Len(lh) : logdata[i] = disk[lh[i]]
      BY <1>4 DEF recover_clear, RecoverInv, TypeOK
    <2>2. Stable = disk
      <3>1. disk = [b \in Blocks |-> disk[b]] /\ dhead \in Seq(Blocks)
        BY DEF TypeOK
      <3> QED
        BY <2>1, <3>1, RecoveredEq DEF Stable
    <2>3. Stable' = disk
      BY <1>4, EmptyLog DEF recover_clear, Stable, TypeOK
    <2>4. \A b \in Blocks : Content(b)' = disk[b]
      BY <1>4 DEF recover_clear, BootInv, Content
    <2>5. View = disk /\ View' = disk
      BY <1>4, <2>2, <2>4 DEF recover_clear, View, TypeOK
    <2> QED
      BY <1>1, <2>2, <2>3, <2>5 DEF AD!vars
  <1> QED
    BY <1>2, <1>3, <1>4 DEF Recovery

LEMMA RefinesStutter == ASSUME UNCHANGED vars PROVE UNCHANGED AD!vars
  BY DEF AD!vars, View, Stable, Active, Content

(* Every step of the log is a step of the atomic disk or invisible.        *)
LEMMA RefinesNext == ASSUME IInv, [Next]_vars PROVE [AD!Next]_(AD!vars)
  <1>1. ASSUME NEW b \in Blocks, Read(b) \/ Recycle(b) PROVE [AD!Next]_(AD!vars)
    BY <1>1, RefinesCache
  <1>2. ASSUME NEW p \in Procs, SysCall(p) \/ Sleep(p) \/ begin_op(p) \/ end_op(p)
        PROVE  [AD!Next]_(AD!vars)
    BY <1>2, RefinesCall
  <1>3. ASSUME NEW p \in Procs, Commit(p) PROVE [AD!Next]_(AD!vars)
    BY <1>3, RefinesWriteLog, RefinesWriteHead, RefinesInstall, RefinesErase, RefinesEndCommit DEF Commit
  <1>4. ASSUME NEW p \in Procs, NEW b \in Blocks, NEW v \in Vals, log_write(p, b, v)
        PROVE  [AD!Next]_(AD!vars)
    BY <1>4, RefinesWrite
  <1>5. ASSUME NEW p \in Procs, NEW b \in Blocks, log_write_panic(p, b) PROVE [AD!Next]_(AD!vars)
    BY <1>5, RefinesPanic
  <1>6. CASE Recovery
    BY <1>6, RefinesRecovery
  <1>7. CASE Crash
    BY <1>7, RefinesCrash
  <1>8. CASE UNCHANGED vars
    BY <1>8, RefinesStutter
  <1> QED
    BY <1>1, <1>2, <1>3, <1>4, <1>5, <1>6, <1>7, <1>8 DEF Next

(* Crash atomicity of the logging layer, for every number of processes and *)
(* blocks, every log size and every placement of the crashes.              *)
THEOREM Atomicity == Spec => CrashAtomic
  BY RefinesInit, RefinesNext, Invariance, PTL DEF Spec, CrashAtomic, AD!Spec
=============================================================================
