----------------------------- MODULE PipeProof ------------------------------
(***************************************************************************)
(* Proofs about pipes, for any number of processes, any buffer size and    *)
(* any width of the counters that the buffer size divides.                 *)
(***************************************************************************)
EXTENDS Pipe, TLAPS

-----------------------------------------------------------------------------
(* Arithmetic of unsigned counters that run freely and wrap around at U,   *)
(* and of a ring of N places indexed by a counter modulo N, where N        *)
(* divides U.                                                              *)

(* The remainder is determined by any representation.                      *)
LEMMA ModUnique ==
    ASSUME NEW U \in Nat \ {0}, NEW a \in Int, NEW q \in Int, NEW d \in 0..U - 1,
           a = U * q + d
    PROVE  a % U = d
  OBVIOUS

LEMMA DivMod ==
    ASSUME NEW U \in Nat \ {0}, NEW a \in Int
    PROVE  a \div U \in Int /\ a % U \in 0..U - 1 /\ a = U * (a \div U) + (a % U)
  OBVIOUS

(* Adding less than U wraps around at most once.                           *)
LEMMA ModAdd ==
    ASSUME NEW U \in Nat \ {0}, NEW a \in Int, NEW k \in 0..U - 1
    PROVE  (a + k) % U = IF (a % U) + k < U THEN (a % U) + k ELSE (a % U) + k - U
  <1> DEFINE q == a \div U
             d == a % U
  <1>1. q \in Int /\ d \in 0..U - 1 /\ a = U * q + d
    BY DivMod
  <1> HIDE DEF q, d
  <1>2. CASE d + k < U
    <2>1. a + k = U * q + (d + k) /\ d + k \in 0..U - 1 /\ a + k \in Int
      BY <1>1, <1>2
    <2>2. (a + k) % U = d + k
      BY <1>1, <2>1, ModUnique
    <2> QED
      BY <1>2, <2>2 DEF d
  <1>3. CASE d + k >= U
    <2>1. U * (q + 1) = U * q + U
      BY <1>1
    <2>2. a + k = U * (q + 1) + (d + k - U) /\ d + k - U \in 0..U - 1 /\ a + k \in Int /\ q + 1 \in Int
      BY <1>1, <1>3, <2>1
    <2>3. (a + k) % U = d + k - U
      BY <2>2, ModUnique
    <2> QED
      BY <1>1, <1>3, <2>3 DEF d
  <1> QED
    BY <1>1, <1>2, <1>3

(* The distance between two counters.                                      *)
LEMMA Distance ==
    ASSUME NEW U \in Nat \ {0}, NEW a \in 0..U - 1, NEW b \in 0..U - 1
    PROVE  (a - b) % U = IF a >= b THEN a - b ELSE a - b + U
  OBVIOUS

LEMMA Advance ==
    ASSUME NEW U \in Nat \ {0}, NEW a \in 0..U - 1, NEW k \in 0..U - 1
    PROVE  (a + k) % U = IF a + k < U THEN a + k ELSE a + k - U
  OBVIOUS

(* A counter that has wrapped still points to the right place.             *)
LEMMA WrapMod ==
    ASSUME NEW N \in Nat \ {0}, NEW U \in Nat \ {0}, U % N = 0, NEW a \in Int
    PROVE  (a % U) % N = a % N
  <1> DEFINE m == U \div N
             q == a \div U
             d == a % U
             s == d \div N
             t == d % N
  <1>1. m \in Int /\ U = N * m
    BY DivMod
  <1>2. q \in Int /\ d \in 0..U - 1 /\ a = U * q + d
    BY DivMod
  <1>3. s \in Int /\ t \in 0..N - 1 /\ d = N * s + t
    BY <1>2, DivMod
  <1> HIDE DEF m, q, d, s, t
  <1>4. m * q + s \in Int /\ a = N * (m * q + s) + t
    <2>1. m * q \in Int
      BY <1>1, <1>2
    <2>2. U * q = N * (m * q)
      BY <1>1, <1>2
    <2>3. N * (m * q + s) = N * (m * q) + N * s
      BY <1>3, <2>1
    <2> QED
      BY <1>1, <1>2, <1>3, <2>1, <2>2, <2>3
  <1>5. a % N = t
    BY <1>3, <1>4, ModUnique
  <1> QED
    BY <1>5 DEF t, d

(* A whole turn of the counter changes no place.                           *)
LEMMA TurnMod ==
    ASSUME NEW N \in Nat \ {0}, NEW U \in Nat \ {0}, U % N = 0, NEW a \in Int
    PROVE  (a + U) % N = a % N
  <1> DEFINE q == a \div U
             d == a % U
  <1>1. q \in Int /\ d \in 0..U - 1 /\ a = U * q + d
    BY DivMod
  <1> HIDE DEF q, d
  <1>2. a + U = U * (q + 1) + d /\ a + U \in Int /\ q + 1 \in Int
    BY <1>1
  <1>3. (a + U) % U = d
    BY <1>1, <1>2, ModUnique
  <1>4. a % U = d
    BY <1>1, ModUnique
  <1>5. ((a + U) % U) % N = (a + U) % N
    BY <1>2, WrapMod
  <1>6. (a % U) % N = a % N
    BY WrapMod
  <1> QED
    BY <1>3, <1>4, <1>5, <1>6

(* The place of the counter b, seen from the counter a.                    *)
LEMMA BackOf ==
    ASSUME NEW N \in Nat \ {0}, NEW U \in Nat \ {0}, U % N = 0, NEW a \in 0..U - 1, NEW b \in 0..U - 1
    PROVE  (a + ((b - a) % U)) % N = b % N
  <1>1. (b - a) % U = IF b >= a THEN b - a ELSE b - a + U
    BY Distance
  <1>2. a + ((b - a) % U) = b \/ a + ((b - a) % U) = b + U
    BY <1>1
  <1>3. (b + U) % N = b % N
    <2>1. b \in Int
      OBVIOUS
    <2> QED
      BY <2>1, TurnMod
  <1> QED
    BY <1>2, <1>3

(* Places less than N apart are different.                                 *)
LEMMA DistinctPlaces ==
    ASSUME NEW N \in Nat \ {0}, NEW a \in Int, NEW j \in 0..N - 1, NEW k \in 0..N - 1,
           (a + j) % N = (a + k) % N
    PROVE  j = k
  <1>1. a % N \in 0..N - 1
    BY DivMod
  <1>2. /\ (a + j) % N = IF (a % N) + j < N THEN (a % N) + j ELSE (a % N) + j - N
        /\ (a + k) % N = IF (a % N) + k < N THEN (a % N) + k ELSE (a % N) + k - N
    BY ModAdd
  <1> QED
    BY <1>1, <1>2

-----------------------------------------------------------------------------
USE PipeAssumption DEF vars, pipeVars, openVars

-----------------------------------------------------------------------------
(* The two counters.                                                       *)

(* The number of bytes in the buffer.                                      *)
Used == (nwrite - nread) % UINT

LEMMA UsedFacts ==
    ASSUME TypeOK
    PROVE  /\ Used \in 0..PIPESIZE
           /\ Empty <=> Used = 0
           /\ Full <=> Used = PIPESIZE
  <1>1. nread \in 0..UINT - 1 /\ nwrite \in 0..UINT - 1 /\ PIPESIZE \in 0..UINT - 1 /\ UINT \in Nat \ {0}
    BY DEF TypeOK
  <1>2. Used = IF nwrite >= nread THEN nwrite - nread ELSE nwrite - nread + UINT
    BY <1>1, Distance DEF Used
  <1>3. (nread + PIPESIZE) % UINT = IF nread + PIPESIZE < UINT THEN nread + PIPESIZE ELSE nread + PIPESIZE - UINT
    BY <1>1, Advance, ZenonT(60)
  <1>4. Used <= PIPESIZE
    BY DEF TypeOK, Used
  <1>5. Used \in 0..PIPESIZE
    BY <1>1, <1>2, <1>4
  <1>6. Empty <=> Used = 0
    BY <1>1, <1>2 DEF Empty
  <1>7. Full <=> Used = PIPESIZE
    BY <1>1, <1>2, <1>3 DEF Full
  <1> QED
    BY <1>5, <1>6, <1>7

(* One more byte, and one less.                                            *)
LEMMA PutCounter ==
    ASSUME TypeOK, ~Full, nwrite' = (nwrite + 1) % UINT, nread' = nread
    PROVE  nwrite' \in 0..UINT - 1 /\ Used' = Used + 1 /\ Used' <= PIPESIZE
  <1>1. nread \in 0..UINT - 1 /\ nwrite \in 0..UINT - 1 /\ 1 \in 0..UINT - 1 /\ UINT \in Nat \ {0}
    BY DEF TypeOK
  <1>2. nwrite' = IF nwrite + 1 < UINT THEN nwrite + 1 ELSE nwrite + 1 - UINT
    BY <1>1, Advance
  <1>3. nwrite' \in 0..UINT - 1
    BY <1>1, <1>2
  <1>4. /\ Used = IF nwrite >= nread THEN nwrite - nread ELSE nwrite - nread + UINT
        /\ Used' = IF nwrite' >= nread THEN nwrite' - nread ELSE nwrite' - nread + UINT
    BY <1>1, <1>3, Distance, ZenonT(60) DEF Used
  <1>5. Used \in 0..PIPESIZE - 1
    BY UsedFacts
  <1> QED
    BY <1>1, <1>2, <1>3, <1>4, <1>5

LEMMA TakeCounter ==
    ASSUME TypeOK, ~Empty, nread' = (nread + 1) % UINT, nwrite' = nwrite
    PROVE  nread' \in 0..UINT - 1 /\ Used' = Used - 1 /\ Used' <= PIPESIZE
  <1>1. nread \in 0..UINT - 1 /\ nwrite \in 0..UINT - 1 /\ 1 \in 0..UINT - 1 /\ UINT \in Nat \ {0}
    BY DEF TypeOK
  <1>2. nread' = IF nread + 1 < UINT THEN nread + 1 ELSE nread + 1 - UINT
    BY <1>1, Advance
  <1>3. nread' \in 0..UINT - 1
    BY <1>1, <1>2
  <1>4. /\ Used = IF nwrite >= nread THEN nwrite - nread ELSE nwrite - nread + UINT
        /\ Used' = IF nwrite >= nread' THEN nwrite - nread' ELSE nwrite - nread' + UINT
    BY <1>1, <1>3, Distance, ZenonT(60) DEF Used
  <1>5. Used \in 1..PIPESIZE
    BY UsedFacts
  <1> QED
    BY <1>1, <1>2, <1>3, <1>4, <1>5

-----------------------------------------------------------------------------
(* The invariant holds initially and every action preserves it.            *)

LEMMA InitInv == Init => IInv
  <1> SUFFICES ASSUME Init PROVE IInv
    OBVIOUS
  <1>1. (nwrite - nread) % UINT = 0
    BY Distance DEF Init
  <1>2. TypeOK
    <2>1. data \in [0..PIPESIZE - 1 -> Bytes] /\ got \in Bytes
      BY DEF Init
    <2>2. i \in [Procs -> Nat] /\ \A p \in Procs : i[p] <= n[p]
      BY DEF Init
    <2>3. nread \in 0..UINT - 1 /\ nwrite \in 0..UINT - 1 /\ (nwrite - nread) % UINT <= PIPESIZE
      BY <1>1 DEF Init
    <2>4. asleep \in [Procs -> {"none", "nread", "nwrite"}] /\ killed \in [Procs -> BOOLEAN]
      BY DEF Init
    <2>5. pc \in [Procs -> Points] /\ n \in [Procs -> Sizes \cup {0}]
      BY DEF Init, Points
    <2> QED
      BY <2>1, <2>2, <2>3, <2>4, <2>5 DEF Init, TypeOK
  <1>3. LockInv
    BY DEF Init, LockInv, Locked
  <1>4. SeenInv
    BY DEF Init, SeenInv
  <1>5. OpenInv
    BY DEF Init, OpenInv, InRead, InWrite
  <1>6. SleepInv
    BY DEF Init, SleepInv
  <1> QED
    BY <1>2, <1>3, <1>4, <1>5, <1>6 DEF IInv

LEMMA CallInv ==
    ASSUME IInv, NEW p \in Procs, NEW m \in Sizes, write(p, m) \/ read(p, m)
    PROVE  IInv'
  <1> USE DEF IInv, write, read, Goto, Points, InRead, InWrite, Locked
  <1>1. TypeOK'
    <2>1. n' = [n EXCEPT ![p] = m] /\ i[p] = 0 /\ m \in Nat
      BY DEF SeenInv
    <2>2. n' \in [Procs -> Sizes \cup {0}] /\ \A q \in Procs : i[q] <= n'[q]
      BY <2>1 DEF TypeOK
    <2> QED
      BY <2>2, ZenonT(60) DEF TypeOK
  <1>2. LockInv'
    BY ZenonT(60) DEF TypeOK, LockInv
  <1>3. SeenInv'
    BY DEF TypeOK, SeenInv, Empty, ReaderMaySleep
  <1>4. OpenInv'
    BY DEF TypeOK, OpenInv
  <1>5. SleepInv'
    BY DEF TypeOK, SleepInv, Empty, Full
  <1> QED
    BY <1>1, <1>2, <1>3, <1>4, <1>5

LEMMA AcquireInv ==
    ASSUME IInv, NEW p \in Procs, pipewrite(p) \/ piperead(p)
    PROVE  IInv'
  <1> USE DEF IInv, pipewrite, piperead, Acquire, Goto, Points, InRead, InWrite, Locked
  <1>1. TypeOK'
    BY DEF TypeOK
  <1>2. LockInv'
    BY DEF TypeOK, LockInv
  <1>3. SeenInv' /\ OpenInv'
    BY DEF TypeOK, SeenInv, OpenInv, Empty, ReaderMaySleep
  <1>4. SleepInv'
    BY DEF TypeOK, SleepInv, Empty, Full
  <1> QED
    BY <1>1, <1>2, <1>3, <1>4

(* At most one process is inside the critical section.                     *)
LEMMA OneHolder ==
    ASSUME IInv, NEW p \in Procs, pc[p] \in Locked
    PROVE  lock = p /\ \A q \in Procs : pc[q] \in Locked => q = p
  BY DEF IInv, LockInv

(* A process that returns has given up pi->lock.                           *)
LEMMA ReturnLock ==
    ASSUME IInv, NEW p \in Procs, pc[p] \in Locked, pc' = [pc EXCEPT ![p] = "user"], lock' = Nobody
    PROVE  LockInv'
  <1>1. \A q \in Procs : q # p => pc[q] \notin Locked
    BY OneHolder
  <1>2. pc'[p] = "user" /\ \A q \in Procs : q # p => pc'[q] = pc[q]
    BY DEF IInv, TypeOK
  <1>3. \A q \in Procs : pc'[q] \notin Locked
    BY <1>1, <1>2 DEF Locked
  <1>4. Nobody \notin Procs
    BY PipeAssumption
  <1> QED
    BY <1>3, <1>4 DEF LockInv

(* The locals i and n.                                                     *)
LocalsOK == n \in [Procs -> Sizes \cup {0}] /\ i \in [Procs -> Nat] /\ \A q \in Procs : i[q] <= n[q]

LEMMA NatLocals == ASSUME TypeOK, NEW p \in Procs PROVE i[p] \in Nat /\ n[p] \in Nat /\ i[p] <= n[p]
  <1>1. i[p] \in Nat /\ i[p] <= n[p]
    BY DEF TypeOK
  <1>2. n[p] \in Sizes \/ n[p] = 0
    BY DEF TypeOK
  <1>3. 0 \in Nat /\ Sizes \subseteq Nat
    BY PipeAssumption
  <1>4. n[p] \in Nat
    BY <1>2, <1>3, Zenon
  <1> QED
    BY <1>1, <1>4

LEMMA CountLocal ==
    ASSUME TypeOK, NEW p \in Procs, i[p] < n[p], i' = [i EXCEPT ![p] = @ + 1], n' = n
    PROVE  LocalsOK'
  <1>1. i' \in [Procs -> Nat]
    BY DEF TypeOK
  <1>2. ASSUME NEW q \in Procs PROVE i'[q] <= n[q]
    BY NatLocals DEF TypeOK
  <1> QED
    BY <1>1, <1>2 DEF LocalsOK, TypeOK

LEMMA DropLocals ==
    ASSUME TypeOK, NEW p \in Procs, i' = [i EXCEPT ![p] = 0], n' = [n EXCEPT ![p] = 0]
    PROVE  LocalsOK'
  <1>1. i' \in [Procs -> Nat] /\ n' \in [Procs -> Sizes \cup {0}]
    BY DEF TypeOK
  <1>2. ASSUME NEW q \in Procs PROVE i'[q] <= n'[q]
    BY NatLocals DEF TypeOK
  <1> QED
    BY <1>1, <1>2 DEF LocalsOK

(* Tests made under pi->lock: only the holder's position changes.          *)
LEMMA TestInv ==
    ASSUME IInv, NEW p \in Procs, write_test(p) \/ read_test(p) \/ read_start(p)
    PROVE  IInv'
  <1> USE DEF IInv, write_test, read_test, read_start, Goto, Points, InRead, InWrite, Locked
  <1>1. TypeOK'
    BY DEF TypeOK
  <1>2. LockInv'
    BY DEF TypeOK, LockInv
  <1>3. SeenInv'
    BY DEF TypeOK, SeenInv, Empty, ReaderMaySleep
  <1>4. OpenInv'
    BY DEF TypeOK, OpenInv
  <1>5. SleepInv'
    <2>1. \A q \in Procs : pc[q] \in Locked => q = p
      BY OneHolder
    <2> QED
      BY <2>1 DEF TypeOK, SleepInv, Empty, Full
  <1> QED
    BY <1>1, <1>2, <1>3, <1>4, <1>5

(* Without a reader nobody sleeps in piperead(), so that pipewrite() need  *)
(* not wake anybody when it fails.                                         *)
LEMMA FailInv ==
    ASSUME IInv, NEW p \in Procs, write_fail(p) \/ read_killed(p)
    PROVE  IInv'
  <1> USE DEF IInv, write_fail, read_killed, Return, Goto, Points, InRead, InWrite, Locked
  <1>1. TypeOK'
    <2>1. LocalsOK'
      BY DropLocals
    <2>2. pc' \in [Procs -> Points] /\ lock' \in Procs \cup {Nobody}
      BY DEF TypeOK
    <2>3. asleep' \in [Procs -> {"none", "nread", "nwrite"}]
      BY DEF TypeOK
    <2> QED
      BY <2>1, <2>2, <2>3 DEF TypeOK, LocalsOK
  <1>2. LockInv'
    BY ReturnLock
  <1>3. SeenInv'
    BY DEF TypeOK, SeenInv, Empty, ReaderMaySleep
  <1>4. OpenInv'
    BY DEF TypeOK, OpenInv
  <1>5. SleepInv'
    <2>1. \A q \in Procs : pc[q] \in Locked => q = p
      BY OneHolder
    <2>2. pc[p] \in {"write", "rwait"} /\ (pc[p] = "write" /\ ~killed[p] => ~readopen)
      OBVIOUS
    <2>3. ~readopen => \A q \in Procs : asleep[q] # "nread"
      BY DEF SeenInv, OpenInv
    <2>4. \A q \in Procs : q # p => pc'[q] = pc[q]
      BY DEF TypeOK
    <2> QED
      BY <2>1, <2>2, <2>3, <2>4 DEF TypeOK, SleepInv, Empty, Full
  <1> QED
    BY <1>1, <1>2, <1>3, <1>4, <1>5

(* A full buffer: wake the readers and sleep.                              *)
LEMMA FullInv ==
    ASSUME IInv, NEW p \in Procs, write_full(p)
    PROVE  IInv'
  <1> USE DEF IInv, write_full, Wakened, Goto, Points, InRead, InWrite, Locked
  <1>1. TypeOK'
    BY DEF TypeOK
  <1>2. LockInv'
    BY OneHolder DEF TypeOK, LockInv
  <1>3. SeenInv'
    BY DEF TypeOK, SeenInv, Empty, ReaderMaySleep
  <1>4. OpenInv'
    BY DEF TypeOK, OpenInv
  <1>5. SleepInv'
    <2>1. \A q \in Procs : asleep'[q] # "nread"
      BY DEF TypeOK
    <2>2. Full /\ readopen /\ Full' /\ readopen'
      BY DEF SeenInv, Full
    <2> QED
      BY <2>1, <2>2 DEF SleepInv
  <1> QED
    BY <1>1, <1>2, <1>3, <1>4, <1>5

LEMMA WriteByteInv ==
    ASSUME IInv, NEW p \in Procs, NEW b \in Bytes, write_byte(p, b)
    PROVE  IInv'
  <1> USE DEF IInv, write_byte, Goto, Points, InRead, InWrite, Locked
  <1>1. TypeOK'
    <2>1. nwrite' \in 0..UINT - 1 /\ ((nwrite - nread) % UINT)' <= PIPESIZE
      BY PutCounter DEF Used
    <2>2. data' \in [0..PIPESIZE - 1 -> Bytes]
      BY DEF TypeOK
    <2>3. LocalsOK'
      BY CountLocal DEF SeenInv
    <2> QED
      BY <2>1, <2>2, <2>3 DEF TypeOK, LocalsOK
  <1>2. LockInv'
    BY DEF TypeOK, LockInv
  <1>3. \A q \in Procs : pc[q] \in Locked => q = p
    BY OneHolder
  <1>4. SeenInv'
    BY <1>3 DEF TypeOK, SeenInv, ReaderMaySleep
  <1>5. OpenInv'
    BY DEF TypeOK, OpenInv
  <1>6. SleepInv'
    <2>1. (\A q \in Procs : ~killed[q]) => \A q \in Procs : asleep[q] # "nwrite"
      BY <1>3 DEF SleepInv
    <2>2. pc'[p] = "write"
      BY DEF TypeOK
    <2> QED
      BY <2>1, <2>2 DEF SleepInv
  <1> QED
    BY <1>1, <1>2, <1>4, <1>5, <1>6

(* The end of pipewrite() wakes the readers.                               *)
LEMMA WriteReturnInv ==
    ASSUME IInv, NEW p \in Procs, write_copyin_fails(p) \/ write_done(p)
    PROVE  IInv'
  <1> USE DEF IInv, write_copyin_fails, write_done, write_return, Return, Wakened, Goto, Points, InRead, InWrite, Locked
  <1>1. TypeOK'
    <2>1. LocalsOK'
      BY DropLocals
    <2>2. pc' \in [Procs -> Points] /\ lock' \in Procs \cup {Nobody}
      <3>1. pc' = [pc EXCEPT ![p] = "user"] /\ lock' = Nobody
        OBVIOUS
      <3>2. pc \in [Procs -> Points]
        BY DEF TypeOK
      <3> QED
        BY <3>1, <3>2
    <2>3. asleep' \in [Procs -> {"none", "nread", "nwrite"}]
      BY DEF TypeOK
    <2> QED
      BY <2>1, <2>2, <2>3 DEF TypeOK, LocalsOK
  <1>2. \A q \in Procs : pc[q] \in Locked => q = p
    BY OneHolder
  <1>3. LockInv'
    BY <1>2, ZenonT(60) DEF TypeOK, LockInv
  <1>4. SeenInv'
    BY DEF TypeOK, SeenInv, Empty, ReaderMaySleep
  <1>5. OpenInv'
    BY DEF TypeOK, OpenInv
  <1>6. SleepInv'
    <2>1. \A q \in Procs : asleep'[q] # "nread" /\ (asleep'[q] = "nwrite" => asleep[q] = "nwrite")
      BY DEF TypeOK
    <2>2. \A q \in Procs : pc[q] # "rcopy"
      BY <1>2
    <2>3. (Full <=> Full') /\ readopen' = readopen /\ killed' = killed
      BY DEF Full
    <2> QED
      BY <2>1, <2>2, <2>3 DEF SleepInv
  <1> QED
    BY <1>1, <1>3, <1>4, <1>5, <1>6

LEMMA ReadSleepInv ==
    ASSUME IInv, NEW p \in Procs, read_sleep(p)
    PROVE  IInv'
  <1> USE DEF IInv, read_sleep, Goto, Points, InRead, InWrite, Locked
  <1>1. TypeOK'
    BY DEF TypeOK
  <1>2. \A q \in Procs : pc[q] \in Locked => q = p
    BY OneHolder
  <1>3. LockInv'
    BY <1>2 DEF TypeOK, LockInv
  <1>4. SeenInv'
    BY DEF TypeOK, SeenInv, Empty, ReaderMaySleep
  <1>5. OpenInv'
    BY DEF TypeOK, OpenInv
  <1>6. SleepInv'
    <2>1. (Empty <=> Empty') /\ (Full <=> Full') /\ Empty /\ writeopen
      BY DEF Empty, Full, SeenInv, ReaderMaySleep
    <2>2. \A q \in Procs : pc[q] # "rcopy"
      BY <1>2
    <2> QED
      BY <2>1, <2>2 DEF SleepInv, TypeOK
  <1> QED
    BY <1>1, <1>3, <1>4, <1>5, <1>6

LEMMA ReadByteInv ==
    ASSUME IInv, NEW p \in Procs, read_byte(p)
    PROVE  IInv'
  <1> USE DEF IInv, read_byte, Goto, Points, InRead, InWrite, Locked
  <1>1. TypeOK'
    <2>1. nread' \in 0..UINT - 1 /\ ((nwrite - nread) % UINT)' <= PIPESIZE
      BY TakeCounter DEF Used
    <2>2. LocalsOK'
      BY CountLocal
    <2>3. got' \in Bytes
      BY DEF TypeOK
    <2> QED
      BY <2>1, <2>2, <2>3 DEF TypeOK, LocalsOK
  <1>2. \A q \in Procs : pc[q] \in Locked => q = p
    BY OneHolder
  <1>3. LockInv'
    BY DEF TypeOK, LockInv
  <1>4. SeenInv'
    BY <1>2 DEF TypeOK, SeenInv, ReaderMaySleep
  <1>5. OpenInv'
    BY DEF TypeOK, OpenInv
  <1>6. SleepInv'
    <2>1. (\A q \in Procs : ~killed[q]) => \A q \in Procs : asleep[q] # "nread"
      BY <1>2 DEF SleepInv
    <2> QED
      BY <2>1 DEF SleepInv
  <1> QED
    BY <1>1, <1>3, <1>4, <1>5, <1>6

(* The end of piperead() wakes the writers.                                *)
LEMMA ReadReturnInv ==
    ASSUME IInv, NEW p \in Procs, read_copyout_fails(p) \/ read_done(p)
    PROVE  IInv'
  <1> USE DEF IInv, read_copyout_fails, read_done, read_return, Return, Wakened, Goto, Points, InRead, InWrite, Locked
  <1>1. TypeOK'
    <2>1. nread' \in 0..UINT - 1 /\ ((nwrite - nread) % UINT)' <= PIPESIZE
      BY TakeCounter DEF Used, TypeOK
    <2>2. LocalsOK'
      BY DropLocals
    <2>3. pc' \in [Procs -> Points] /\ lock' \in Procs \cup {Nobody}
      BY DEF TypeOK
    <2>4. asleep' \in [Procs -> {"none", "nread", "nwrite"}]
      BY DEF TypeOK
    <2>5. UNCHANGED <<data, nwrite, readopen, writeopen, freed, fds, killed, got>>
      BY DEF openVars
    <2> QED
      BY <2>1, <2>2, <2>3, <2>4, <2>5 DEF TypeOK, LocalsOK
  <1>2. \A q \in Procs : pc[q] \in Locked => q = p
    BY OneHolder
  <1>3. LockInv'
    BY ReturnLock
  <1>4. SeenInv'
    <2>1. pc'[p] = "user" /\ i'[p] = 0 /\ asleep'[p] = "none"
      BY DEF TypeOK, SeenInv
    <2>2. \A q \in Procs \ {p} : pc'[q] = pc[q] /\ i'[q] = i[q] /\ n'[q] = n[q]
      BY DEF TypeOK
    <2>3. \A q \in Procs : asleep'[q] # "none" => asleep'[q] = asleep[q]
      BY DEF TypeOK
    <2> QED
      BY <1>2, <2>1, <2>2, <2>3 DEF SeenInv
  <1>5. OpenInv'
    BY DEF TypeOK, OpenInv
  <1>6. SleepInv'
    <2>1. \A q \in Procs : asleep'[q] # "nwrite" /\ (asleep'[q] = "nread" => asleep[q] = "nread")
      BY DEF TypeOK
    <2>2. \A q \in Procs : pc[q] \notin {"write", "wbody"}
      BY <1>2
    <2>3. Empty => Empty'
      BY DEF Empty
    <2> QED
      BY <2>1, <2>2, <2>3 DEF SleepInv
  <1> QED
    BY <1>1, <1>3, <1>4, <1>5, <1>6

-----------------------------------------------------------------------------
(* The ends of the pipe.                                                   *)

(* The last descriptor of an end is dropped before pipeclose() starts.     *)
LEMMA FilecloseInv ==
    ASSUME IInv, NEW p \in Procs, NEW e \in Ends, fileclose(p, e)
    PROVE  IInv'
  <1> USE DEF IInv, fileclose, Goto, Points, InRead, InWrite, Locked, Ends
  <1>1. TypeOK'
    <2>1. pc' \in [Procs -> Points]
      BY DEF TypeOK
    <2>2. fds' \in [Procs -> SUBSET Ends]
      BY DEF TypeOK
    <2> QED
      BY <2>1, <2>2 DEF TypeOK
  <1>2. /\ pc'[p] \in {"user", "close_r", "close_w"}
        /\ \A q \in Procs \ {p} : pc'[q] = pc[q]
    BY DEF TypeOK
  <1>3. /\ pc'[p] = "close_r" => e = "r" /\ \A q \in Procs : "r" \notin fds'[q]
        /\ pc'[p] = "close_w" => e = "w" /\ \A q \in Procs : "w" \notin fds'[q]
    BY DEF TypeOK
  <1>4. /\ fds'[p] = fds[p] \ {e}
        /\ \A q \in Procs \ {p} : fds'[q] = fds[q]
    BY DEF TypeOK
  <1>5. LockInv'
    BY <1>2 DEF LockInv
  <1>6. SeenInv'
    BY <1>2 DEF SeenInv, Empty, ReaderMaySleep
  <1>7. OpenInv'
    BY <1>2, <1>3, <1>4 DEF OpenInv
  <1>8. SleepInv'
    BY <1>2 DEF SleepInv, Empty, Full
  <1> QED
    BY <1>1, <1>5, <1>6, <1>7, <1>8

(* pipeclose() is called once for each end.                                *)
LEMMA PipecloseInv ==
    ASSUME IInv, NEW p \in Procs, pipeclose(p)
    PROVE  IInv'
  <1> USE DEF IInv, pipeclose, Wakened, Goto, Points, InRead, InWrite, Locked
  <1>1. /\ pc'[p] \in {"user", "kfree"}
        /\ \A q \in Procs \ {p} : pc'[q] = pc[q]
    BY DEF TypeOK
  <1>2. TypeOK'
    <2>1. pc' \in [Procs -> Points]
      BY DEF TypeOK
    <2>2. asleep' \in [Procs -> {"none", "nread", "nwrite"}]
      BY DEF TypeOK
    <2> QED
      BY <2>1, <2>2 DEF TypeOK
  <1>3. LockInv'
    BY <1>1 DEF LockInv
  <1>4. \A q \in Procs : asleep'[q] # "none" => asleep'[q] = asleep[q]
    BY DEF TypeOK
  <1>5. \A q \in Procs : pc[q] \notin Locked
    BY DEF TypeOK, LockInv
  <1>6. SeenInv'
    BY <1>1, <1>4, <1>5 DEF SeenInv
  <1>7. CASE pc[p] = "close_r"
    <2>1. ~readopen' /\ writeopen' = writeopen /\ fds' = fds /\ freed' = freed
      BY <1>7
    <2>2. \A q \in Procs : "r" \notin fds[q] /\ (pc[q] = "close_r" => q = p)
      BY <1>7 DEF OpenInv
    <2>3. pc'[p] = "kfree" => ~writeopen
      BY <1>7 DEF TypeOK
    <2>4. readopen /\ ~freed /\ \A q \in Procs : pc[q] # "kfree"
      BY <1>7 DEF OpenInv
    <2>5. OpenInv'
      BY <1>1, <2>1, <2>2, <2>3, <2>4 DEF OpenInv
    <2>6. \A q \in Procs : asleep'[q] # "nwrite"
      BY <1>7 DEF TypeOK
    <2>7. SleepInv'
      BY <1>4, <1>5, <2>1, <2>6 DEF SleepInv, Empty
    <2> QED
      BY <1>2, <1>3, <1>6, <2>5, <2>7
  <1>8. CASE pc[p] = "close_w"
    <2>1. readopen' = readopen /\ ~writeopen' /\ fds' = fds /\ freed' = freed
      BY <1>8
    <2>2. \A q \in Procs : "w" \notin fds[q] /\ (pc[q] = "close_w" => q = p)
      BY <1>8 DEF OpenInv
    <2>3. pc'[p] = "kfree" => ~readopen
      BY <1>8 DEF TypeOK
    <2>4. writeopen /\ ~freed /\ \A q \in Procs : pc[q] # "kfree"
      BY <1>8 DEF OpenInv
    <2>5. OpenInv'
      BY <1>1, <2>1, <2>2, <2>3, <2>4 DEF OpenInv
    <2>6. \A q \in Procs : asleep'[q] # "nread"
      BY <1>8 DEF TypeOK
    <2>7. SleepInv'
      BY <1>4, <1>5, <2>1, <2>6 DEF SleepInv, Full
    <2> QED
      BY <1>2, <1>3, <1>6, <2>5, <2>7
  <1> QED
    BY <1>7, <1>8

LEMMA KfreeInv ==
    ASSUME IInv, NEW p \in Procs, kfree(p)
    PROVE  IInv'
  <1> USE DEF IInv, kfree, Goto, Points, InRead, InWrite, Locked
  <1>1. pc'[p] = "user" /\ \A q \in Procs \ {p} : pc'[q] = pc[q]
    BY DEF TypeOK
  <1>2. TypeOK'
    BY DEF TypeOK
  <1>3. LockInv' /\ SeenInv'
    BY <1>1 DEF LockInv, SeenInv, Empty, ReaderMaySleep
  <1>4. OpenInv'
    BY <1>1 DEF OpenInv
  <1>5. SleepInv'
    BY <1>1 DEF SleepInv, Empty, Full
  <1> QED
    BY <1>2, <1>3, <1>4, <1>5

(* kill() sets p->killed for good, whatever the process is doing.          *)
LEMMA KillInv ==
    ASSUME IInv, NEW p \in Procs, kill(p)
    PROVE  IInv'
  <1> USE DEF IInv, kill, Points, InRead, InWrite, Locked
  <1>1. \A q \in Procs : asleep'[q] # "none" => asleep'[q] = asleep[q]
    BY DEF TypeOK
  <1>2. killed'[p]
    BY DEF TypeOK
  <1>3. TypeOK'
    <2>1. asleep' \in [Procs -> {"none", "nread", "nwrite"}] /\ killed' \in [Procs -> BOOLEAN]
      BY DEF TypeOK
    <2> QED
      BY <2>1 DEF TypeOK
  <1>4. LockInv'
    BY DEF LockInv
  <1>5. SeenInv'
    BY <1>1 DEF SeenInv, Empty, ReaderMaySleep
  <1>6. OpenInv'
    BY DEF OpenInv
  <1>7. SleepInv'
    BY <1>2 DEF SleepInv
  <1> QED
    BY <1>3, <1>4, <1>5, <1>6, <1>7

LEMMA StutterInv ==
    ASSUME IInv, UNCHANGED vars
    PROVE  IInv'
  BY DEF IInv, TypeOK, LockInv, SeenInv, OpenInv, SleepInv, Empty, Full, ReaderMaySleep

LEMMA NextInv ==
    ASSUME IInv, [Next]_vars
    PROVE  IInv'
  <1>1. ASSUME NEW p \in Procs, Writing(p) PROVE IInv'
    BY <1>1, AcquireInv, FailInv, TestInv, FullInv, WriteReturnInv, WriteByteInv DEF Writing
  <1>2. ASSUME NEW p \in Procs, Reading(p) PROVE IInv'
    BY <1>2, AcquireInv, FailInv, TestInv, ReadSleepInv, ReadByteInv, ReadReturnInv DEF Reading
  <1>3. ASSUME NEW p \in Procs, Closing(p) PROVE IInv'
    BY <1>3, PipecloseInv, KfreeInv DEF Closing
  <1> QED
    BY <1>1, <1>2, <1>3, CallInv, FilecloseInv, KillInv, StutterInv DEF Next

-----------------------------------------------------------------------------
(* The invariants of the pipe.                                             *)

(* All parts of the invariant hold in every reachable state.               *)
THEOREM Invariance == Spec => []IInv
  <1>1. Init => IInv
    BY InitInv
  <1>2. IInv /\ [Next]_vars => IInv'
    BY NextInv
  <1> QED
    BY <1>1, <1>2, PTL DEF Spec

(* The counters stay within PIPESIZE of each other and no loop passes n.   *)
THEOREM TypeCorrect == Spec => []TypeOK
  <1>1. IInv => TypeOK
    BY DEF IInv
  <1> QED
    BY <1>1, Invariance, PTL

(* Nobody is in pipewrite(), piperead() or pipeclose() after kfree(), and  *)
(* nobody but the process that frees the pipe is in them meanwhile.        *)
THEOREM FreedLast == Spec => []NoUseAfterFree
  <1>1. IInv => NoUseAfterFree
    BY DEF IInv, OpenInv, NoUseAfterFree, InPipe
  <1> QED
    BY <1>1, Invariance, PTL

(* Nobody sleeps over a buffer that would let him go on, unless a process  *)
(* has been killed.                                                        *)
THEOREM SleepersWoken == Spec => []NoStuckSleeper
  <1>1. ASSUME IInv PROVE NoStuckSleeper
    <2>1. lock = Nobody => \A q \in Procs : pc[q] \notin Locked
      BY <1>1 DEF IInv, LockInv
    <2> QED
      BY <1>1, <2>1 DEF IInv, SleepInv, NoStuckSleeper, SleepersJustified, ReaderMaySleep, WriterMaySleep, Locked
  <1> QED
    BY <1>1, Invariance, PTL

-----------------------------------------------------------------------------
(* A pipe is a queue.                                                      *)

QueueOK ==
    /\ Queue \in Seq(Bytes)
    /\ Len(Queue) = Used
    /\ \A k \in 1..Used : Queue[k] = data[(nread + k - 1) % PIPESIZE]

LEMMA QueueFacts == TypeOK => QueueOK
  <1> SUFFICES ASSUME TypeOK PROVE QueueOK
    OBVIOUS
  <1>1. Used \in Nat
    BY UsedFacts
  <1>2. ASSUME NEW k \in 1..Used PROVE (nread + k - 1) % PIPESIZE \in 0..PIPESIZE - 1
    <2>1. nread + k - 1 \in Int
      BY <1>1 DEF TypeOK
    <2> QED
      BY <2>1, DivMod
  <1>3. Queue = [k \in 1..Used |-> data[(nread + k - 1) % PIPESIZE]]
    BY DEF Queue, Used
  <1>4. \A k \in 1..Used : data[(nread + k - 1) % PIPESIZE] \in Bytes
    BY <1>2 DEF TypeOK
  <1> HIDE DEF Used
  <1> QED
    BY <1>1, <1>3, <1>4 DEF QueueOK

(* The place behind the last byte is the one that pipewrite() fills.       *)
LEMMA BackPlace ==
    ASSUME TypeOK
    PROVE  nwrite % PIPESIZE = (nread + Used) % PIPESIZE
  <1>1. nread \in 0..UINT - 1 /\ nwrite \in 0..UINT - 1 /\ UINT \in Nat \ {0} /\ PIPESIZE \in Nat \ {0} /\ UINT % PIPESIZE = 0
    BY DEF TypeOK
  <1> QED
    BY <1>1, BackOf DEF Used

LEMMA PutStep ==
    ASSUME TypeOK, TypeOK', NEW b \in Bytes, ~Full, nread' = nread,
           nwrite' = (nwrite + 1) % UINT, data' = [data EXCEPT ![nwrite % PIPESIZE] = b]
    PROVE  Len(Queue) < PIPESIZE /\ Queue' = Append(Queue, b)
  <1>1. Used \in 0..PIPESIZE - 1 /\ Used' = Used + 1
    BY UsedFacts, PutCounter
  <1>2. Queue' \in Seq(Bytes) /\ Len(Queue') = Used + 1
        /\ \A k \in 1..Used + 1 : Queue'[k] = data'[(nread + k - 1) % PIPESIZE]
    <2>1. TypeOK' => QueueOK'
      BY QueueFacts, PTL
    <2> QED
      BY <1>1, <2>1 DEF QueueOK
  <1>3. Queue \in Seq(Bytes) /\ Len(Queue) = Used
        /\ \A k \in 1..Used : Queue[k] = data[(nread + k - 1) % PIPESIZE]
    BY QueueFacts DEF QueueOK
  <1> DEFINE u == Used
  <1>4. u \in 0..PIPESIZE - 1 /\ nread \in Int /\ PIPESIZE \in Nat \ {0} /\ nwrite % PIPESIZE = (nread + u) % PIPESIZE
    BY <1>1, BackPlace DEF TypeOK
  <1>5. data \in [0..PIPESIZE - 1 -> Bytes]
    BY DEF TypeOK
  <1> HIDE DEF u
  <1>6. ASSUME NEW k \in 1..u + 1 PROVE Queue'[k] = Append(Queue, b)[k]
    <2>0. nread + k - 1 = nread + (k - 1) /\ k - 1 \in 0..PIPESIZE - 1
      BY <1>4
    <2>1. (nread + (k - 1)) % PIPESIZE \in 0..PIPESIZE - 1
      <3>1. nread + (k - 1) \in Int
        BY <1>4
      <3> QED
        BY <1>4, <3>1, DivMod
    <2>2. Queue'[k] = data'[(nread + (k - 1)) % PIPESIZE]
      BY <1>2, <2>0 DEF u
    <2>3. CASE k = u + 1
      <3>1. Queue'[k] = b
        BY <1>4, <1>5, <2>1, <2>2, <2>3
      <3>2. Append(Queue, b)[k] = b
        BY <1>3, <1>4, <2>3 DEF u
      <3> QED
        BY <3>1, <3>2
    <2>4. CASE k \in 1..u
      <3>1. (nread + (k - 1)) % PIPESIZE # nwrite % PIPESIZE
        <4>1. k - 1 # u /\ u \in 0..PIPESIZE - 1
          BY <1>4, <2>4
        <4>2. (nread + (k - 1)) % PIPESIZE # (nread + u) % PIPESIZE
          BY <1>4, <2>0, <4>1, DistinctPlaces
        <4> QED
          BY <1>4, <4>2
      <3>2. Queue'[k] = data[(nread + (k - 1)) % PIPESIZE]
        BY <1>5, <2>1, <2>2, <3>1
      <3>3. Append(Queue, b)[k] = Queue[k]
        BY <1>3, <1>4, <2>4 DEF u
      <3>4. Queue[k] = data[(nread + (k - 1)) % PIPESIZE]
        BY <1>3, <2>0, <2>4 DEF u
      <3> QED
        BY <3>2, <3>3, <3>4
    <2>5. k = u + 1 \/ k \in 1..u
      BY <1>4
    <2> QED
      BY <2>3, <2>4, <2>5
  <1>7. Append(Queue, b) \in Seq(Bytes) /\ Len(Append(Queue, b)) = u + 1
    BY <1>3, <1>4 DEF u
  <1>8. Queue' = Append(Queue, b)
    BY <1>2, <1>4, <1>6, <1>7 DEF u
  <1> QED
    BY <1>3, <1>4, <1>8 DEF u

LEMMA TakeStep ==
    ASSUME TypeOK, TypeOK', ~Empty, nread' = (nread + 1) % UINT, nwrite' = nwrite, data' = data
    PROVE  /\ Queue # <<>>
           /\ Head(Queue) = data[nread % PIPESIZE]
           /\ Queue' = Tail(Queue)
  <1>1. Used \in 1..PIPESIZE /\ Used' = Used - 1
    BY UsedFacts, TakeCounter
  <1>2. Queue' \in Seq(Bytes) /\ Len(Queue') = Used - 1
        /\ \A k \in 1..Used - 1 : Queue'[k] = data[(nread' + k - 1) % PIPESIZE]
    <2>1. TypeOK' => QueueOK'
      BY QueueFacts, PTL
    <2> QED
      BY <1>1, <2>1 DEF QueueOK
  <1>3. Queue \in Seq(Bytes) /\ Len(Queue) = Used
        /\ \A k \in 1..Used : Queue[k] = data[(nread + k - 1) % PIPESIZE]
    BY QueueFacts DEF QueueOK
  <1> DEFINE u == Used
  <1>4. u \in 1..PIPESIZE /\ nread \in 0..UINT - 1 /\ 1 \in 0..UINT - 1
        /\ PIPESIZE \in Nat \ {0} /\ UINT \in Nat \ {0} /\ UINT % PIPESIZE = 0
    BY <1>1 DEF TypeOK
  <1>5. nread' = nread + 1 \/ nread' = nread + 1 - UINT
    BY <1>4, Advance
  <1> HIDE DEF u
  <1>6. ASSUME NEW k \in 1..u - 1 PROVE Queue'[k] = Tail(Queue)[k]
    <2>1. nread' + k - 1 \in Int /\ (nread + k = nread' + k - 1 \/ nread + k = (nread' + k - 1) + UINT)
      BY <1>4, <1>5
    <2>2. (nread' + k - 1) % PIPESIZE = (nread + k) % PIPESIZE
      BY <1>4, <2>1, TurnMod, ZenonT(60)
    <2>3. k + 1 \in 1..u /\ nread + (k + 1) - 1 = nread + k
      BY <1>4
    <2>4. Queue[k + 1] = data[(nread + k) % PIPESIZE]
      BY <1>3, <2>3 DEF u
    <2>5. Queue'[k] = data[(nread + k) % PIPESIZE]
      BY <1>2, <2>2 DEF u
    <2>6. Tail(Queue)[k] = Queue[k + 1]
      BY <1>3, <1>4 DEF u
    <2> QED
      BY <2>4, <2>5, <2>6
  <1>7. Queue # <<>> /\ Tail(Queue) \in Seq(Bytes) /\ Len(Tail(Queue)) = u - 1
    BY <1>3, <1>4 DEF u
  <1>8. Queue' = Tail(Queue)
    <2>1. Queue' \in Seq(Bytes) /\ Len(Queue') = u - 1 /\ u - 1 \in Nat
      BY <1>2, <1>4 DEF u
    <2> QED
      BY <1>6, <1>7, <2>1
  <1>9. Head(Queue) = data[nread % PIPESIZE]
    <2>1. Queue[1] = data[(nread + 1 - 1) % PIPESIZE] /\ nread + 1 - 1 = nread
      BY <1>3, <1>4 DEF u
    <2> QED
      BY <1>3, <1>7, <2>1
  <1> QED
    BY <1>7, <1>8, <1>9

(* Only pipewrite() with a byte, piperead() with a byte and the close of   *)
(* the last reader are steps of the queue.                                 *)
LEMMA SameQueue ==
    ASSUME UNCHANGED <<data, nread, nwrite, got, readopen>>
    PROVE  UNCHANGED PQ!vars
  BY DEF PQ!vars, Queue

LEMMA RefineInit == Init => PQ!Init
  <1> SUFFICES ASSUME Init PROVE PQ!Init
    OBVIOUS
  <1>1. TypeOK
    BY InitInv DEF IInv
  <1>2. Used = 0
    BY <1>1, UsedFacts DEF Init, Empty
  <1>3. Queue = <<>>
    BY <1>1, <1>2, QueueFacts DEF QueueOK
  <1> QED
    BY <1>3 DEF Init, PQ!Init

LEMMA RefineWriting ==
    ASSUME IInv, IInv', NEW p \in Procs, Writing(p)
    PROVE  [PQ!Next]_PQ!vars
  <1>1. ASSUME NEW b \in Bytes, write_byte(p, b) PROVE PQ!Put(b)
    <2>1. Len(Queue) < PIPESIZE /\ Queue' = Append(Queue, b)
      BY <1>1, PutStep DEF IInv, write_byte
    <2> QED
      BY <1>1, <2>1 DEF IInv, SeenInv, write_byte, PQ!Put
  <1>2. ASSUME ~\E b \in Bytes : write_byte(p, b)
        PROVE  UNCHANGED <<data, nread, nwrite, got, readopen>>
    BY <1>2 DEF Writing, pipewrite, write_fail, write_test, write_full, write_copyin_fails, write_done, write_return
  <1> QED
    BY <1>1, <1>2, SameQueue DEF PQ!Next

LEMMA RefineReading ==
    ASSUME IInv, IInv', NEW p \in Procs, Reading(p)
    PROVE  [PQ!Next]_PQ!vars
  <1>1. ASSUME read_byte(p) PROVE PQ!Take
    <2>1. Queue # <<>> /\ Head(Queue) = data[nread % PIPESIZE] /\ Queue' = Tail(Queue)
      BY <1>1, TakeStep DEF IInv, read_byte
    <2> QED
      BY <1>1, <2>1 DEF read_byte, PQ!Take
  <1>2. ASSUME read_copyout_fails(p) PROVE PQ!Lose
    <2>1. Queue # <<>> /\ Queue' = Tail(Queue)
      BY <1>2, TakeStep DEF IInv, read_copyout_fails, read_return
    <2> QED
      BY <1>2, <2>1 DEF read_copyout_fails, read_return, PQ!Lose
  <1>3. ASSUME ~read_byte(p), ~read_copyout_fails(p)
        PROVE  UNCHANGED <<data, nread, nwrite, got, readopen>>
    BY <1>3 DEF Reading, piperead, read_killed, read_test, read_sleep, read_start, read_done, read_return
  <1> QED
    BY <1>1, <1>2, <1>3, SameQueue DEF PQ!Next

LEMMA RefineClosing ==
    ASSUME IInv, NEW p \in Procs, Closing(p)
    PROVE  [PQ!Next]_PQ!vars
  <1>1. ASSUME pipeclose(p), pc[p] = "close_r" PROVE PQ!CloseRead
    <2>1. readopen /\ ~readopen'
      BY <1>1 DEF IInv, OpenInv, pipeclose
    <2>2. UNCHANGED <<Queue, got>>
      BY <1>1 DEF pipeclose, Queue
    <2>3. readopen' = FALSE
      BY <1>1 DEF pipeclose
    <2> QED
      BY <2>1, <2>2, <2>3 DEF PQ!CloseRead
  <1>2. ASSUME ~(pipeclose(p) /\ pc[p] = "close_r")
        PROVE  UNCHANGED <<data, nread, nwrite, got, readopen>>
    BY <1>2 DEF Closing, pipeclose, kfree
  <1> QED
    BY <1>1, <1>2, SameQueue DEF PQ!Next

LEMMA RefineNext ==
    ASSUME IInv, IInv', [Next]_vars
    PROVE  [PQ!Next]_PQ!vars
  <1>1. ASSUME NEW p \in Procs, NEW m \in Sizes, write(p, m) \/ read(p, m)
        PROVE  UNCHANGED <<data, nread, nwrite, got, readopen>>
    BY <1>1 DEF write, read
  <1>2. ASSUME NEW p \in Procs, NEW e \in Ends, fileclose(p, e)
        PROVE  UNCHANGED <<data, nread, nwrite, got, readopen>>
    BY <1>2 DEF fileclose
  <1>3. ASSUME NEW p \in Procs, kill(p)
        PROVE  UNCHANGED <<data, nread, nwrite, got, readopen>>
    BY <1>3 DEF kill
  <1>4. ASSUME UNCHANGED vars
        PROVE  UNCHANGED <<data, nread, nwrite, got, readopen>>
    BY <1>4
  <1> QED
    BY <1>1, <1>2, <1>3, <1>4, SameQueue, RefineWriting, RefineReading, RefineClosing DEF Next

(* A pipe is a bounded queue: bytes are read in the order in which they    *)
(* were written, each once, also across the wrap-around of the counters.   *)
THEOREM PipeIsQueue == Spec => ImplementsQueue
  <1>1. Init => PQ!Init
    BY RefineInit
  <1>2. IInv /\ IInv' /\ [Next]_vars => [PQ!Next]_PQ!vars
    BY RefineNext
  <1> QED
    BY <1>1, <1>2, Invariance, PTL DEF Spec, ImplementsQueue, PQ!Spec
=============================================================================
