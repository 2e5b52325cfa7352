--------------------------- MODULE BufCacheProof ----------------------------
(***************************************************************************)
(* Proofs about the buffer cache, for any number of buffers, processes and *)
(* blocks.                                                                 *)
(***************************************************************************)
EXTENDS BufCache, FiniteSetTheorems, WellFoundedInduction, TLAPS

-----------------------------------------------------------------------------
(* Least and greatest elements of sets of numbers.                         *)

(* The order of the numbers.                                               *)
Less == {ss \in Nat \X Nat : ss[1] < ss[2]}

LEMMA LeastElement ==
    ASSUME NEW S \in SUBSET Nat, S # {}
    PROVE  \E m \in S : \A k \in S : m <= k
  <1>1. IsWellFoundedOn(Less, Nat)
    BY NatLessThanWellFounded DEF OpToRel, Less
  <1>2. PICK x \in S : \A y \in S : ~(<<y, x>> \in Less)
    BY <1>1, WFMin
  <1>3. ASSUME NEW k \in S PROVE x <= k
    <2>1. k \in Nat /\ x \in Nat
      OBVIOUS
    <2>2. k < x => <<k, x>> \in Less
      BY <2>1 DEF Less
    <2> QED
      BY <1>2, <2>1, <2>2
  <1> QED
    BY <1>3

LEMMA GreatestElement ==
    ASSUME NEW N \in Nat, NEW S \in SUBSET (0..N), S # {}
    PROVE  \E m \in S : \A k \in S : k <= m
  <1> DEFINE D == {d \in Nat : N - d \in S}
  <1>1. ASSUME NEW k \in S PROVE N - k \in D
    <2>1. k \in 0..N
      OBVIOUS
    <2>2. N - k \in Nat /\ N - (N - k) = k
      BY <2>1
    <2> QED
      BY <2>2
  <1>2. D \in SUBSET Nat /\ D # {}
    BY <1>1
  <1>3. PICK d \in D : \A k \in D : d <= k
    BY <1>2, LeastElement
  <1>4. ASSUME NEW k \in S PROVE k <= N - d
    <2>1. N - k \in Nat /\ d \in Nat /\ d <= N - k /\ k \in 0..N
      BY <1>1, <1>3
    <2> QED
      BY <2>1
  <1> QED
    BY <1>3, <1>4

-----------------------------------------------------------------------------
USE CacheAssumption DEF vars, bufVars, Points, Locking, Reading, Goto

-----------------------------------------------------------------------------
(* Counting the users of a buffer                                          *)

Users(b) == {p \in Procs : bp[p] = b}
Pins(b) == IF b \in pinned THEN 1 ELSE 0

OneBuffer == \A b, c \in Bufs : blockno[b] = blockno[c] /\ blockno[b] # NoBlock => b = c
Counted == \A b \in Bufs : refcnt[b] = Cardinality(Users(b)) + Pins(b)

LEMMA RefcntParts == RefcntExact <=> OneBuffer /\ Counted
  BY DEF RefcntExact, OneBuffer, Counted, Users, Pins

LEMMA UsersFinite ==
    ASSUME NEW S \in SUBSET Procs
    PROVE  IsFiniteSet(S) /\ Cardinality(S) \in Nat /\ (Cardinality(S) = 0 <=> S = {})
  <1>1. IsFiniteSet(S)
    BY FS_Subset
  <1> QED
    BY <1>1, FS_CardinalityType, FS_EmptySet

LEMMA OneMore ==
    ASSUME NEW S \in SUBSET Procs, NEW p, p \notin S
    PROVE  Cardinality(S \cup {p}) = Cardinality(S) + 1
  BY UsersFinite, FS_AddElement

LEMMA OneLess ==
    ASSUME NEW S \in SUBSET Procs, NEW p \in S
    PROVE  Cardinality(S \ {p}) = Cardinality(S) - 1
  BY UsersFinite, FS_RemoveElement

(* A buffer that bget() may recycle is nobody's.                           *)
LEMMA Nobodys ==
    ASSUME IInv, NEW b \in Bufs, refcnt[b] = 0
    PROVE  Users(b) = {} /\ b \notin pinned
  <1>1. Users(b) \in SUBSET Procs
    BY DEF Users
  <1>2. Cardinality(Users(b)) + Pins(b) = 0
    BY RefcntParts DEF IInv, Counted
  <1> QED
    BY <1>1, <1>2, UsersFinite DEF Pins

LEMMA BufsSize == Cardinality(Bufs) \in Nat /\ Cardinality(Bufs) >= 1
  BY FS_CardinalityType, FS_EmptySet

(* The scan for the least recently used buffer finds one.                  *)
LEMMA Victim ==
    ASSUME TypeOK, Unused # {}
    PROVE  LeastRecent \in Bufs /\ refcnt[LeastRecent] = 0
  <1>1. DOMAIN lru = 1..Cardinality(Bufs)
    BY DEF TypeOK
  <1>2. Unused \in SUBSET (0..Cardinality(Bufs))
    BY <1>1, BufsSize DEF Unused
  <1>3. \E i \in Unused : \A j \in Unused : j <= i
    BY <1>2, BufsSize, GreatestElement
  <1> DEFINE i == CHOOSE i \in Unused : \A j \in Unused : j <= i
  <1>4. i \in Unused
    BY <1>3
  <1> QED
    BY <1>1, <1>4 DEF LeastRecent, Unused, TypeOK

(* Moving a buffer to the front keeps every buffer in the list.            *)
LEMMA FrontType ==
    ASSUME TypeOK, NEW b \in Bufs
    PROVE  /\ ToFront(b) \in [1..Cardinality(Bufs) -> Bufs]
           /\ {ToFront(b)[i] : i \in DOMAIN ToFront(b)} = Bufs
  <1> DEFINE n == Cardinality(Bufs)
             k == Position(b)
             t == ToFront(b)
  <1>1. n \in Nat /\ DOMAIN lru = 1..n /\ lru \in [1..n -> Bufs]
    BY BufsSize DEF TypeOK
  <1>2. \A c \in Bufs : \E i \in 1..n : lru[i] = c
    BY <1>1 DEF TypeOK
  <1>3. k \in 1..n /\ lru[k] = b
    BY <1>1, <1>2 DEF Position
  <1>4. t = [i \in 1..n |-> IF i = 1 THEN b ELSE IF i <= k THEN lru[i - 1] ELSE lru[i]]
    BY <1>1 DEF ToFront
  <1> HIDE DEF n, k, t
  <1>5. ASSUME NEW i \in 1..n PROVE t[i] \in Bufs
    <2>1. CASE i = 1
      BY <1>4, <2>1
    <2>2. CASE i # 1 /\ i <= k
      BY <1>1, <1>3, <1>4, <2>2
    <2>3. CASE i # 1 /\ ~(i <= k)
      BY <1>1, <1>3, <1>4, <2>3
    <2> QED
      BY <2>1, <2>2, <2>3
  <1>6. t \in [1..n -> Bufs]
    BY <1>4, <1>5
  <1>7. ASSUME NEW c \in Bufs PROVE \E i \in 1..n : t[i] = c
    <2>1. PICK i \in 1..n : lru[i] = c
      BY <1>2
    <2>2. CASE i = k
      <3>1. 1 \in 1..n /\ t[1] = c
        BY <1>1, <1>3, <1>4, <2>1, <2>2
      <3> QED
        BY <3>1
    <2>3. CASE i < k
      <3>1. i + 1 \in 1..n /\ i + 1 # 1 /\ i + 1 <= k
        BY <1>1, <1>3, <2>3
      <3>2. t[i + 1] = lru[i + 1 - 1]
        BY <1>4, <3>1
      <3> QED
        BY <2>1, <3>1, <3>2
    <2>4. CASE i > k
      BY <1>1, <1>3, <1>4, <2>1, <2>4
    <2> QED
      BY <1>1, <1>3, <2>2, <2>3, <2>4
  <1> QED
    BY <1>6, <1>7 DEF n, t

-----------------------------------------------------------------------------
LEMMA InitInv == Init => IInv
  <1> SUFFICES ASSUME Init PROVE IInv
    OBVIOUS
  <1>1. TypeOK
    BY DEF Init, TypeOK
  <1>2. HoldInv /\ ValidInv /\ CleanInv /\ NoSleepOnFree
    BY DEF Init, HoldInv, ValidInv, CleanInv, NoSleepOnFree
  <1>3. OneBuffer
    BY DEF Init, OneBuffer
  <1>4. Counted
    <2>1. ASSUME NEW b \in Bufs PROVE Users(b) = {} /\ Pins(b) = 0 /\ refcnt[b] = 0
      BY DEF Init, Users, Pins
    <2> QED
      BY <2>1, FS_EmptySet DEF Counted
  <1> QED
    BY <1>1, <1>2, <1>3, <1>4, RefcntParts DEF IInv

(* What the holder of a buffer keeps to itself.                            *)
LEMMA HoldsAlone ==
    ASSUME IInv, NEW p \in Procs, pc[p] \in Locking
    PROVE  /\ bp[p] \in Bufs /\ locked[bp[p]] = p
           /\ \A q \in Procs : bp[q] = bp[p] /\ pc[q] \in Locking => q = p
           /\ blockno[bp[p]] \in Blocks
           /\ \A b \in Bufs : blockno[b] = blockno[bp[p]] => b = bp[p]
  <1>1. bp[p] \in Bufs /\ blockno[bp[p]] # NoBlock
    BY DEF IInv, TypeOK, HoldInv, ValidInv
  <1>2. locked[bp[p]] = p
    BY <1>1 DEF IInv, HoldInv
  <1> QED
    BY <1>1, <1>2 DEF IInv, TypeOK, HoldInv, RefcntExact

LEMMA BgetCachedInv ==
    ASSUME IInv, NEW p \in Procs, NEW k \in Blocks, bget_cached(p, k)
    PROVE  IInv'
  <1> USE DEF IInv, bget_cached, At
  <1>1. PICK b \in Bufs : /\ blockno[b] = k
                          /\ refcnt' = [refcnt EXCEPT ![b] = @ + 1]
                          /\ bp' = [bp EXCEPT ![p] = b]
    BY DEF Cached
  <1>2. UNCHANGED <<disk, lru, blockno, valid, data, locked, pinned, asleep, panicked>>
    OBVIOUS
  <1>3. /\ bp'[p] = b /\ pc'[p] = "acquiresleep" /\ pc[p] = "user" /\ bp[p] = NoBuf /\ p \notin asleep
        /\ \A q \in Procs \ {p} : bp'[q] = bp[q] /\ pc'[q] = pc[q]
        /\ refcnt'[b] = refcnt[b] + 1 /\ \A c \in Bufs \ {b} : refcnt'[c] = refcnt[c]
    BY <1>1 DEF TypeOK, HoldInv
  <1>4. TypeOK'
    <2>1. refcnt' \in [Bufs -> Nat]
      BY <1>1 DEF TypeOK
    <2>2. pc' \in [Procs -> Points] /\ bp' \in [Procs -> Bufs \cup {NoBuf}]
      BY <1>1 DEF TypeOK
    <2> QED
      BY <1>2, <2>1, <2>2, SMTT(30) DEF TypeOK
  <1>5. HoldInv' /\ ValidInv' /\ CleanInv' /\ NoSleepOnFree'
    BY <1>1, <1>2, <1>3 DEF HoldInv, ValidInv, CleanInv, NoSleepOnFree, TypeOK
  <1>6. OneBuffer'
    BY <1>2, RefcntParts DEF OneBuffer
  <1>7. Counted'
    <2>1. ASSUME NEW c \in Bufs PROVE refcnt'[c] = Cardinality(Users(c)') + Pins(c)'
      <3>1. refcnt[c] = Cardinality(Users(c)) + Pins(c) /\ Pins(c)' = Pins(c) /\ Pins(c) \in {0, 1}
        BY <1>2, RefcntParts DEF Counted, Pins
      <3>2. Users(c) \in SUBSET Procs /\ Cardinality(Users(c)) \in Nat
        BY UsersFinite DEF Users
      <3>3. CASE c = b
        <4>1. p \notin Users(b) /\ Users(b)' = Users(b) \cup {p}
          BY <1>3 DEF Users
        <4>2. Cardinality(Users(b)') = Cardinality(Users(b)) + 1
          BY <3>2, <3>3, <4>1, OneMore
        <4> QED
          BY <1>3, <3>1, <3>2, <3>3, <4>2
      <3>4. CASE c # b
        <4>1. Users(c)' = Users(c)
          BY <1>3, <3>4 DEF Users
        <4> QED
          BY <1>3, <3>1, <3>4, <4>1
      <3> QED
        BY <3>3, <3>4
    <2> QED
      BY <2>1 DEF Counted
  <1>8. RefcntExact'
    BY <1>6, <1>7 DEF RefcntExact, OneBuffer, Counted, Users, Pins
  <1> QED
    BY <1>4, <1>5, <1>8

LEMMA NextParts == OneBuffer' /\ Counted' => RefcntExact'
  BY DEF RefcntExact, OneBuffer, Counted, Users, Pins

LEMMA SameCount ==
    ASSUME IInv, UNCHANGED <<blockno, refcnt, pinned, bp>>
    PROVE  RefcntExact'
  BY DEF IInv, RefcntExact

LEMMA BgetRecycleInv ==
    ASSUME IInv, NEW p \in Procs, NEW k \in Blocks, bget_recycle(p, k)
    PROVE  IInv'
  <1> USE DEF IInv, bget_recycle, At
  <1> DEFINE b == LeastRecent
  <1>1. b \in Bufs /\ refcnt[b] = 0
    BY Victim
  <1>2. UNCHANGED <<disk, lru, data, locked, pinned, asleep, panicked>>
    OBVIOUS
  <1>3. /\ bp'[p] = b /\ pc'[p] = "acquiresleep" /\ pc[p] = "user" /\ bp[p] = NoBuf /\ p \notin asleep
        /\ \A q \in Procs \ {p} : bp'[q] = bp[q] /\ pc'[q] = pc[q]
        /\ refcnt'[b] = 1 /\ blockno'[b] = k /\ valid'[b] = FALSE
        /\ \A c \in Bufs \ {b} : refcnt'[c] = refcnt[c] /\ blockno'[c] = blockno[c] /\ valid'[c] = valid[c]
    BY <1>1 DEF TypeOK, HoldInv
  <1>4. \A c \in Bufs : blockno[c] # k
    BY DEF Cached
  <1>5. TypeOK'
    <2>1. refcnt' \in [Bufs -> Nat]
      BY <1>1 DEF TypeOK
    <2>2. pc' \in [Procs -> Points] /\ bp' \in [Procs -> Bufs \cup {NoBuf}]
      BY <1>1 DEF TypeOK
    <2>3. blockno' \in [Bufs -> Blocks \cup {NoBlock}]
      BY <1>1 DEF TypeOK
    <2>4. valid' \in [Bufs -> BOOLEAN]
      BY <1>1 DEF TypeOK
    <2> QED
      BY <1>2, <2>1, <2>2, <2>3, <2>4 DEF TypeOK
  <1>6. Users(b) = {} /\ b \notin pinned
    BY <1>1, Nobodys
  <1>7. \A q \in Procs : bp[q] # b
    BY <1>6 DEF Users
  <1> HIDE DEF b
  <1>8. HoldInv' /\ NoSleepOnFree'
    BY <1>2, <1>3, <1>7 DEF HoldInv, NoSleepOnFree, TypeOK
  <1>9. ValidInv'
    BY <1>1, <1>2, <1>3, <1>6, <1>7 DEF ValidInv, TypeOK, HoldInv
  <1>10. CleanInv'
    BY <1>1, <1>2, <1>3, <1>6, <1>7 DEF CleanInv, TypeOK, HoldInv
  <1>11. OneBuffer'
    BY <1>3, <1>4, RefcntParts DEF OneBuffer
  <1>12. Counted'
    <2>1. ASSUME NEW c \in Bufs PROVE refcnt'[c] = Cardinality(Users(c)') + Pins(c)'
      <3>1. CASE c = b
        <4>1. Users(c)' = {p} /\ Pins(c)' = 0
          BY <1>2, <1>3, <1>6, <1>7, <3>1 DEF Users, Pins
        <4> QED
          BY <1>3, <3>1, <4>1, FS_Singleton, SMTT(30)
      <3>2. CASE c # b
        <4>1. Users(c)' = Users(c) /\ Pins(c)' = Pins(c) /\ refcnt'[c] = refcnt[c]
          BY <1>2, <1>3, <3>2 DEF Users, Pins
        <4> QED
          BY <4>1, RefcntParts DEF Counted
      <3> QED
        BY <3>1, <3>2
    <2> QED
      BY <2>1 DEF Counted
  <1> QED
    BY <1>5, <1>8, <1>9, <1>10, <1>11, <1>12, NextParts

LEMMA PanicInv ==
    ASSUME IInv, NEW p \in Procs, NEW k \in Blocks, bget_panic(p, k)
    PROVE  IInv'
  <1>1. UNCHANGED <<disk, lru, blockno, valid, data, refcnt, locked, pinned, pc, bp, asleep>> /\ panicked' \in BOOLEAN
    BY DEF bget_panic
  <1>2. TypeOK' /\ HoldInv' /\ ValidInv' /\ CleanInv' /\ NoSleepOnFree'
    BY <1>1 DEF IInv, TypeOK, HoldInv, ValidInv, CleanInv, NoSleepOnFree
  <1> QED
    BY <1>1, <1>2, SameCount DEF IInv

LEMMA SleepInv ==
    ASSUME IInv, NEW p \in Procs, sleep(p)
    PROVE  IInv'
  <1> USE DEF IInv, sleep, At
  <1>1. UNCHANGED <<disk, lru, blockno, valid, data, refcnt, locked, pinned, pc, bp, panicked>>
    OBVIOUS
  <1>2. TypeOK' /\ HoldInv' /\ ValidInv' /\ CleanInv' /\ NoSleepOnFree'
    BY <1>1, SMTT(30) DEF TypeOK, HoldInv, ValidInv, CleanInv, NoSleepOnFree
  <1> QED
    BY <1>1, <1>2, SameCount

LEMMA AcquireSleepInv ==
    ASSUME IInv, NEW p \in Procs, acquiresleep(p)
    PROVE  IInv'
  <1> USE DEF IInv, acquiresleep, At
  <1> DEFINE b == bp[p]
  <1>1. b \in Bufs /\ pc[p] = "acquiresleep" /\ locked[b] = Nobody /\ p \notin asleep
    BY DEF TypeOK, HoldInv
  <1>2. UNCHANGED <<disk, lru, blockno, valid, data, refcnt, pinned, bp, asleep, panicked>>
    OBVIOUS
  <1>3. /\ locked'[b] = p /\ \A c \in Bufs \ {b} : locked'[c] = locked[c]
        /\ pc'[p] = "bread" /\ \A q \in Procs \ {p} : pc'[q] = pc[q]
    BY <1>1 DEF TypeOK
  <1>4. TypeOK'
    <2>1. pc' \in [Procs -> Points] /\ locked' \in [Bufs -> Procs \cup {Nobody}]
      BY <1>1 DEF TypeOK
    <2> QED
      BY <1>2, <2>1 DEF TypeOK
  <1>5. b = bp[p]
    OBVIOUS
  <1> HIDE DEF b
  <1>6. HoldInv' /\ ValidInv' /\ CleanInv' /\ NoSleepOnFree'
    BY <1>1, <1>2, <1>3, <1>5 DEF HoldInv, ValidInv, CleanInv, NoSleepOnFree, TypeOK
  <1> QED
    BY <1>2, <1>4, <1>6, SameCount

LEMMA BreadInv ==
    ASSUME IInv, NEW p \in Procs, bread(p)
    PROVE  IInv'
  <1> USE DEF IInv, bread, At
  <1> DEFINE b == bp[p]
  <1>1. b \in Bufs /\ pc[p] = "bread" /\ p \notin asleep /\ blockno[b] \in Blocks
        /\ \A q \in Procs : bp[q] = b /\ pc[q] \in Locking => q = p
    BY HoldsAlone
  <1>2. UNCHANGED <<disk, lru, blockno, refcnt, locked, pinned, bp, asleep, panicked>>
    OBVIOUS
  <1>3. /\ valid'[b] = TRUE /\ data'[b] = IF valid[b] THEN data[b] ELSE disk[blockno[b]]
        /\ \A c \in Bufs \ {b} : valid'[c] = valid[c] /\ data'[c] = data[c]
        /\ pc'[p] = "hold" /\ \A q \in Procs \ {p} : pc'[q] = pc[q]
    BY <1>1 DEF TypeOK
  <1>4. TypeOK'
    <2>1. pc' \in [Procs -> Points] /\ data' \in [Bufs -> Vals]
      BY <1>1 DEF TypeOK
    <2>2. valid' \in [Bufs -> BOOLEAN]
      BY <1>1 DEF TypeOK
    <2> QED
      BY <1>2, <2>1, <2>2 DEF TypeOK
  <1>5. b = bp[p]
    OBVIOUS
  <1> HIDE DEF b
  <1>6. HoldInv' /\ NoSleepOnFree'
    BY <1>1, <1>2, <1>3, <1>5 DEF HoldInv, NoSleepOnFree
  <1>7. ValidInv'
    BY <1>1, <1>2, <1>3, <1>5 DEF ValidInv, TypeOK
  <1>8. CleanInv'
    BY <1>1, <1>2, <1>3, <1>5 DEF CleanInv, TypeOK
  <1> QED
    BY <1>2, <1>4, <1>6, <1>7, <1>8, SameCount

-----------------------------------------------------------------------------
(* Pins                                                                    *)

(* The pin is counted when it is set and when it is cleared.               *)
LEMMA PinCount ==
    ASSUME IInv, NEW b \in Bufs, UNCHANGED <<blockno, bp>>,
           \/ b \notin pinned /\ pinned' = pinned \cup {b} /\ refcnt' = bpin(b)
           \/ b \in pinned /\ pinned' = pinned \ {b} /\ refcnt' = bunpin(b)
    PROVE  RefcntExact' /\ refcnt' \in [Bufs -> Nat]
  <1>1. ASSUME NEW c \in Bufs PROVE refcnt'[c] = Cardinality(Users(c)') + Pins(c)' /\ refcnt'[c] \in Nat
    <2>1. Users(c) \in SUBSET Procs /\ Cardinality(Users(c)) \in Nat /\ Users(c)' = Users(c)
      BY UsersFinite DEF Users
    <2>2. refcnt[c] = Cardinality(Users(c)) + Pins(c) /\ refcnt[c] \in Nat
      BY RefcntParts DEF Counted, IInv, TypeOK
    <2>3. CASE c # b
      <3>1. Pins(c)' = Pins(c) /\ refcnt'[c] = refcnt[c]
        BY <2>3 DEF Pins, bpin, bunpin, IInv, TypeOK
      <3> QED
        BY <2>1, <2>2, <3>1
    <2>4. CASE c = b /\ b \notin pinned
      <3>1. Pins(c)' = 1 /\ Pins(c) = 0 /\ refcnt'[c] = refcnt[c] + 1
        BY <2>4 DEF Pins, bpin, IInv, TypeOK
      <3> QED
        BY <2>1, <2>2, <3>1
    <2>5. CASE c = b /\ b \in pinned
      <3>1. Pins(c)' = 0 /\ Pins(c) = 1 /\ refcnt'[c] = refcnt[c] - 1
        BY <2>5 DEF Pins, bunpin, IInv, TypeOK
      <3> QED
        BY <2>1, <2>2, <3>1
    <2> QED
      BY <2>3, <2>4, <2>5
  <1>2. OneBuffer'
    BY RefcntParts DEF OneBuffer, IInv
  <1>3. Counted'
    BY <1>1 DEF Counted
  <1>4. refcnt' \in [Bufs -> Nat]
    BY <1>1 DEF bpin, bunpin, IInv, TypeOK
  <1> QED
    BY <1>2, <1>3, <1>4, NextParts

LEMMA LogWriteInv ==
    ASSUME IInv, NEW p \in Procs, NEW v \in Vals, log_write(p, v)
    PROVE  IInv'
  <1> USE DEF IInv, log_write, At
  <1> DEFINE b == bp[p]
  <1>1. b \in Bufs /\ pc[p] = "hold" /\ p \notin asleep /\ \A q \in Procs : bp[q] = b /\ pc[q] \in Locking => q = p
    BY HoldsAlone
  <1>2. UNCHANGED <<disk, lru, blockno, valid, locked, pc, bp, asleep, panicked>> /\ pinned' = pinned \cup {b}
    OBVIOUS
  <1>3. data'[b] = v /\ \A c \in Bufs \ {b} : data'[c] = data[c]
    BY <1>1 DEF TypeOK
  <1>4. RefcntExact' /\ refcnt' \in [Bufs -> Nat]
    <2>1. CASE b \in pinned
      <3>1. pinned' = pinned /\ refcnt' = refcnt
        BY <1>2, <2>1
      <3> QED
        BY <1>2, <3>1, SameCount DEF TypeOK
    <2>2. CASE b \notin pinned
      BY <1>1, <1>2, <2>2, PinCount
    <2> QED
      BY <2>1, <2>2
  <1>5. TypeOK'
    BY <1>1, <1>2, <1>4 DEF TypeOK
  <1>6. b = bp[p] /\ valid[b]
    BY <1>1 DEF ValidInv
  <1> HIDE DEF b
  <1>7. HoldInv' /\ NoSleepOnFree' /\ ValidInv'
    BY <1>1, <1>2, <1>6 DEF HoldInv, NoSleepOnFree, ValidInv
  <1>8. CleanInv'
    BY <1>1, <1>2, <1>3, <1>6 DEF CleanInv
  <1> QED
    BY <1>4, <1>5, <1>7, <1>8

LEMMA BwriteInv ==
    ASSUME IInv, NEW p \in Procs, bwrite(p)
    PROVE  IInv'
  <1> USE DEF IInv, bwrite, At
  <1> DEFINE b == bp[p]
  <1>1. b \in Bufs /\ pc[p] = "hold" /\ p \notin asleep /\ blockno[b] \in Blocks
        /\ (\A q \in Procs : bp[q] = b /\ pc[q] \in Locking => q = p)
        /\ \A c \in Bufs : blockno[c] = blockno[b] => c = b
    BY HoldsAlone
  <1>2. UNCHANGED <<lru, blockno, valid, data, refcnt, locked, pinned, bp, asleep, panicked>> /\ b \in pinned
    OBVIOUS
  <1>3. /\ disk'[blockno[b]] = data[b] /\ \A k \in Blocks \ {blockno[b]} : disk'[k] = disk[k]
        /\ pc'[p] = "written" /\ \A q \in Procs \ {p} : pc'[q] = pc[q]
    BY <1>1 DEF TypeOK
  <1>4. TypeOK'
    <2>1. pc' \in [Procs -> Points] /\ disk' \in [Blocks -> Vals]
      BY <1>1 DEF TypeOK
    <2> QED
      BY <1>2, <2>1 DEF TypeOK
  <1>5. b = bp[p] /\ valid[b]
    BY <1>1 DEF ValidInv
  <1> HIDE DEF b
  <1>6. HoldInv' /\ NoSleepOnFree' /\ ValidInv'
    BY <1>1, <1>2, <1>3, <1>5 DEF HoldInv, NoSleepOnFree, ValidInv
  <1>7. CleanInv'
    <2>1. ASSUME NEW c \in Bufs, valid[c], c \notin pinned PROVE data[c] = disk'[blockno[c]]
      <3>1. blockno[c] \in Blocks \ {blockno[b]}
        BY <1>1, <1>2, <2>1 DEF TypeOK, ValidInv
      <3> QED
        BY <1>3, <2>1, <3>1 DEF CleanInv
    <2>2. ASSUME NEW q \in Procs, pc'[q] = "written" PROVE bp[q] \in pinned /\ data[bp[q]] = disk'[blockno[bp[q]]]
      <3>1. CASE q = p
        BY <1>2, <1>3, <1>5, <3>1
      <3>2. CASE q # p
        <4>1. pc[q] = "written" /\ bp[q] \in Bufs
          BY <1>3, <2>2, <3>2, HoldsAlone
        <4>2. bp[q] # b
          BY <1>1, <3>2, <4>1
        <4>3. blockno[bp[q]] \in Blocks \ {blockno[b]}
          BY <1>1, <4>1, <4>2, HoldsAlone
        <4> QED
          BY <1>3, <4>1, <4>3 DEF CleanInv
      <3> QED
        BY <3>1, <3>2
    <2> QED
      BY <1>2, <2>1, <2>2 DEF CleanInv
  <1> QED
    BY <1>2, <1>4, <1>6, <1>7, SameCount

LEMMA InstallInv ==
    ASSUME IInv, NEW p \in Procs, install(p)
    PROVE  IInv'
  <1> USE DEF IInv, install, At
  <1> DEFINE b == bp[p]
  <1>1. b \in Bufs /\ pc[p] = "written" /\ p \notin asleep /\ \A q \in Procs : bp[q] = b /\ pc[q] \in Locking => q = p
    BY HoldsAlone
  <1>2. UNCHANGED <<disk, lru, blockno, valid, data, locked, bp, asleep, panicked>> /\ pinned' = pinned \ {b}
    OBVIOUS
  <1>3. pc'[p] = "hold" /\ \A q \in Procs \ {p} : pc'[q] = pc[q]
    BY <1>1 DEF TypeOK
  <1>4. b \in pinned /\ data[b] = disk[blockno[b]]
    BY <1>1 DEF CleanInv
  <1>5. RefcntExact' /\ refcnt' \in [Bufs -> Nat]
    BY <1>1, <1>2, <1>4, PinCount
  <1>6. TypeOK'
    <2>1. pc' \in [Procs -> Points]
      BY DEF TypeOK
    <2> QED
      BY <1>2, <1>5, <2>1 DEF TypeOK
  <1>7. b = bp[p]
    OBVIOUS
  <1> HIDE DEF b
  <1>8. HoldInv' /\ NoSleepOnFree' /\ ValidInv'
    BY <1>1, <1>2, <1>3, <1>7 DEF HoldInv, NoSleepOnFree, ValidInv
  <1>9. CleanInv'
    BY <1>1, <1>2, <1>3, <1>4, <1>7 DEF CleanInv
  <1> QED
    BY <1>5, <1>6, <1>8, <1>9

-----------------------------------------------------------------------------
(* brelse()                                                                *)

LEMMA ReleaseSleepInv ==
    ASSUME IInv, NEW p \in Procs, releasesleep(p)
    PROVE  IInv'
  <1> USE DEF IInv, releasesleep, At, Wakeup
  <1> DEFINE b == bp[p]
  <1>1. b \in Bufs /\ pc[p] = "hold" /\ p \notin asleep /\ \A q \in Procs : bp[q] = b /\ pc[q] \in Locking => q = p
    BY HoldsAlone
  <1>2. UNCHANGED <<disk, lru, blockno, valid, data, refcnt, pinned, bp, panicked>>
    OBVIOUS
  <1>3. /\ pc'[p] = "brelse" /\ \A q \in Procs \ {p} : pc'[q] = pc[q]
        /\ locked'[b] = Nobody /\ \A c \in Bufs \ {b} : locked'[c] = locked[c]
        /\ asleep' = {q \in asleep : bp[q] # b}
    BY <1>1 DEF TypeOK
  <1>4. TypeOK'
    <2>1. pc' \in [Procs -> Points] /\ locked' \in [Bufs -> Procs \cup {Nobody}] /\ asleep' \in SUBSET Procs
      BY DEF TypeOK
    <2> QED
      BY <1>2, <2>1 DEF TypeOK
  <1>5. b = bp[p]
    OBVIOUS
  <1> HIDE DEF b
  <1>6. HoldInv'
    BY <1>1, <1>2, <1>3, <1>5 DEF HoldInv, TypeOK
  <1>7. ValidInv' /\ CleanInv'
    BY <1>1, <1>2, <1>3 DEF ValidInv, CleanInv
  <1>8. NoSleepOnFree'
    <2>1. ASSUME NEW q \in asleep' PROVE locked'[bp[q]] # Nobody
      <3>1. q \in asleep /\ bp[q] # b /\ q \in Procs
        BY <1>3, <2>1 DEF TypeOK
      <3>2. bp[q] \in Bufs /\ locked[bp[q]] # Nobody
        BY <3>1 DEF HoldInv, TypeOK, NoSleepOnFree
      <3> QED
        BY <1>3, <3>1, <3>2
    <2> QED
      BY <1>2, <2>1 DEF NoSleepOnFree
  <1> QED
    BY <1>2, <1>4, <1>6, <1>7, <1>8, SameCount

LEMMA BrelseInv ==
    ASSUME IInv, NEW p \in Procs, brelse(p)
    PROVE  IInv'
  <1> USE DEF IInv, brelse, At
  <1> DEFINE b == bp[p]
  <1>1. b \in Bufs /\ pc[p] = "brelse" /\ p \notin asleep
    BY DEF TypeOK, HoldInv
  <1>2. UNCHANGED <<disk, blockno, valid, data, locked, pinned, asleep, panicked>>
    OBVIOUS
  <1>3. /\ pc'[p] = "user" /\ bp'[p] = NoBuf /\ \A q \in Procs \ {p} : pc'[q] = pc[q] /\ bp'[q] = bp[q]
        /\ refcnt'[b] = refcnt[b] - 1 /\ \A c \in Bufs \ {b} : refcnt'[c] = refcnt[c]
    BY <1>1 DEF TypeOK
  <1>4. lru' \in [1..Cardinality(Bufs) -> Bufs] /\ {lru'[i] : i \in DOMAIN lru'} = Bufs
    <2>1. CASE lru' = lru
      <3>1. lru \in [1..Cardinality(Bufs) -> Bufs] /\ {lru[i] : i \in DOMAIN lru} = Bufs
        BY DEF TypeOK
      <3> QED
        BY <2>1, <3>1, Zenon
    <2>2. CASE lru' = ToFront(b)
      BY <1>1, <2>2, FrontType
    <2> QED
      BY <2>1, <2>2
  <1>5. ASSUME NEW c \in Bufs PROVE refcnt'[c] = Cardinality(Users(c)') + Pins(c)' /\ refcnt'[c] \in Nat
    <2>1. refcnt[c] = Cardinality(Users(c)) + Pins(c) /\ Pins(c)' = Pins(c) /\ Pins(c) \in {0, 1} /\ refcnt[c] \in Nat
      BY <1>2, RefcntParts DEF Counted, Pins, TypeOK
    <2>2. Users(c) \in SUBSET Procs /\ Users(c)' \in SUBSET Procs
      BY DEF Users
    <2>3. Cardinality(Users(c)) \in Nat /\ Cardinality(Users(c)') \in Nat
      BY <2>2, UsersFinite
    <2>4. CASE c = b
      <3>1. p \in Users(c) /\ Users(c)' = Users(c) \ {p}
        BY <1>1, <1>3, <2>4 DEF Users
      <3>2. Cardinality(Users(c)') = Cardinality(Users(c)) - 1
        BY <2>2, <3>1, OneLess
      <3> QED
        BY <1>3, <2>1, <2>3, <2>4, <3>2
    <2>5. CASE c # b
      <3>1. Users(c)' = Users(c)
        BY <1>1, <1>3, <2>5 DEF Users
      <3> QED
        BY <1>3, <2>1, <2>5, <3>1
    <2> QED
      BY <2>4, <2>5
  <1>6. RefcntExact'
    <2>1. OneBuffer'
      BY <1>2, RefcntParts DEF OneBuffer
    <2>2. Counted'
      BY <1>5 DEF Counted
    <2> QED
      BY <2>1, <2>2, NextParts
  <1>7. TypeOK'
    <2>1. pc' \in [Procs -> Points] /\ bp' \in [Procs -> Bufs \cup {NoBuf}]
      BY DEF TypeOK
    <2>2. refcnt' \in [Bufs -> Nat]
      BY <1>5 DEF TypeOK
    <2> QED
      BY <1>2, <1>4, <2>1, <2>2 DEF TypeOK
  <1>8. b = bp[p]
    OBVIOUS
  <1> HIDE DEF b
  <1>9. HoldInv' /\ ValidInv' /\ CleanInv' /\ NoSleepOnFree'
    BY <1>1, <1>2, <1>3, <1>8 DEF HoldInv, ValidInv, CleanInv, NoSleepOnFree, TypeOK
  <1> QED
    BY <1>6, <1>7, <1>9

LEMMA NextInv == IInv /\ [Next]_vars => IInv'
  <1> SUFFICES ASSUME IInv, [Next]_vars PROVE IInv'
    OBVIOUS
  <1>1. CASE UNCHANGED vars
    <2>1. TypeOK' /\ HoldInv' /\ ValidInv' /\ CleanInv' /\ NoSleepOnFree'
      BY <1>1 DEF IInv, TypeOK, HoldInv, ValidInv, CleanInv, NoSleepOnFree
    <2> QED
      BY <1>1, <2>1, SameCount DEF IInv
  <1>2. CASE Next
    <2>1. PICK p \in Procs :
            \/ \E k \in Blocks : bget_cached(p, k) \/ bget_recycle(p, k) \/ bget_panic(p, k)
            \/ sleep(p) \/ acquiresleep(p) \/ bread(p)
            \/ \E v \in Vals : log_write(p, v)
            \/ bwrite(p) \/ install(p)
            \/ releasesleep(p) \/ brelse(p)
      BY <1>2 DEF Next
    <2> QED
      BY <2>1, BgetCachedInv, BgetRecycleInv, PanicInv, SleepInv, AcquireSleepInv, BreadInv, LogWriteInv,
         BwriteInv, InstallInv, ReleaseSleepInv, BrelseInv
  <1> QED
    BY <1>1, <1>2

-----------------------------------------------------------------------------
(* The inductive invariant: who has which buffer, how often it is counted, *)
(* and when its contents may differ from the disk's.                       *)
THEOREM Invariance == Spec => []IInv
  BY InitInv, NextInv, PTL DEF Spec

(* b->refcnt is exactly the number of users of a buffer plus the log's     *)
(* pin, and no block has two buffers, however bget(), brelse(), bpin() and *)
(* bunpin() interleave.                                                    *)
THEOREM CountsExact == Spec => []RefcntExact
  <1>1. IInv => RefcntExact
    BY DEF IInv
  <1> QED
    BY <1>1, Invariance, PTL

(* releasesleep() wakes everybody who would otherwise sleep for ever: no   *)
(* process is asleep for a buffer that is not locked.                      *)
THEOREM SleepersWoken == Spec => []NoSleepOnFree
  <1>1. IInv => NoSleepOnFree
    BY DEF IInv
  <1> QED
    BY <1>1, Invariance, PTL

-----------------------------------------------------------------------------
(* Refinement of BlockStore                                                *)

(* The one valid buffer of a block is its view; without one, the disk is.  *)
LEMMA ViewIsData ==
    ASSUME IInv, NEW b \in Bufs, valid[b]
    PROVE  blockno[b] \in Blocks /\ View[blockno[b]] = data[b]
  <1>1. blockno[b] \in Blocks
    BY DEF IInv, TypeOK, ValidInv
  <1>2. Current(blockno[b]) = {b}
    BY <1>1 DEF Current, Cached, IInv, RefcntExact
  <1> QED
    BY <1>1, <1>2 DEF View

LEMMA ViewIsDisk ==
    ASSUME NEW k \in Blocks, \A b \in Bufs : ~(valid[b] /\ blockno[b] = k)
    PROVE  View[k] = disk[k]
  BY DEF View, Current, Cached

LEMMA HolderIs ==
    ASSUME IInv, NEW p \in Procs, pc[p] \in Reading
    PROVE  blockno[bp[p]] \in Blocks /\ Holder[blockno[bp[p]]] = p
  <1> DEFINE k == blockno[bp[p]]
  <1>1. k \in Blocks
    BY HoldsAlone
  <1>2. ASSUME NEW q \in Procs, pc[q] \in Reading, blockno[bp[q]] = k PROVE q = p
    <2>1. bp[q] \in Bufs /\ bp[q] = bp[p]
      BY <1>2, HoldsAlone
    <2> QED
      BY <1>2, <2>1, HoldsAlone
  <1>3. Holders(k) = {p}
    BY <1>2 DEF Holders
  <1> QED
    BY <1>1, <1>3 DEF Holder

LEMMA HolderNone ==
    ASSUME NEW k \in Blocks, \A p \in Procs : ~(pc[p] \in Reading /\ blockno[bp[p]] = k)
    PROVE  Holder[k] = Nobody
  BY DEF Holder, Holders

(* The same in the next state                                              *)
LEMMA ViewIsDataNext ==
    ASSUME IInv', NEW b \in Bufs, valid'[b]
    PROVE  View'[blockno'[b]] = data'[b]
  <1>1. blockno'[b] \in Blocks
    BY DEF IInv, TypeOK, ValidInv
  <1>2. Current(blockno[b])' = {b}
    BY <1>1 DEF Current, Cached, IInv, RefcntExact
  <1> QED
    BY <1>1, <1>2 DEF View

LEMMA ViewIsDiskNext ==
    ASSUME NEW k \in Blocks, \A b \in Bufs : ~(valid'[b] /\ blockno'[b] = k)
    PROVE  View'[k] = disk'[k]
  BY DEF View, Current, Cached

LEMMA ViewType == View = [k \in Blocks |-> View[k]] /\ View' = [k \in Blocks |-> View'[k]]
  BY DEF View

LEMMA HolderType == Holder = [k \in Blocks |-> Holder[k]] /\ Holder' = [k \in Blocks |-> Holder'[k]]
  BY DEF Holder

LEMMA SameHolder ==
    ASSUME \A k \in Blocks, p \in Procs :
               pc'[p] \in Reading /\ blockno'[bp'[p]] = k <=> pc[p] \in Reading /\ blockno[bp[p]] = k
    PROVE  Holder' = Holder
  <1>1. ASSUME NEW k \in Blocks PROVE Holder'[k] = Holder[k]
    <2>1. Holders(k)' = Holders(k)
      BY DEF Holders
    <2> QED
      BY <2>1 DEF Holder
  <1> QED
    BY <1>1, HolderType

(* Steps that touch no buffer's contents.                                  *)
LEMMA QuietSteps ==
    ASSUME IInv, IInv', NEW p \in Procs,
           \/ \E k \in Blocks : bget_cached(p, k) \/ bget_panic(p, k)
           \/ sleep(p) \/ acquiresleep(p) \/ install(p) \/ brelse(p)
    PROVE  UNCHANGED BS!vars
  <1> USE DEF At
  <1>1. UNCHANGED <<disk, blockno, valid, data>>
    BY DEF bget_cached, bget_panic, sleep, acquiresleep, install, brelse
  <1>2. View' = View
    BY <1>1 DEF View, Current, Cached
  <1>3. \A q \in Procs : /\ pc'[q] \in Reading <=> pc[q] \in Reading
                         /\ pc[q] \in Reading => bp'[q] = bp[q]
    <2> USE DEF IInv, TypeOK
    <2>1. CASE \E k \in Blocks : bget_cached(p, k)
      BY <2>1 DEF bget_cached
    <2>2. CASE \E k \in Blocks : bget_panic(p, k)
      BY <2>2 DEF bget_panic
    <2>3. CASE sleep(p)
      BY <2>3 DEF sleep
    <2>4. CASE acquiresleep(p)
      BY <2>4 DEF acquiresleep
    <2>5. CASE install(p)
      BY <2>5 DEF install
    <2>6. CASE brelse(p)
      BY <2>6 DEF brelse
    <2> QED
      BY <2>1, <2>2, <2>3, <2>4, <2>5, <2>6
  <1>4. Holder' = Holder
    BY <1>1, <1>3, SameHolder
  <1> QED
    BY <1>2, <1>4 DEF BS!vars

LEMMA RecycleIsQuiet ==
    ASSUME IInv, IInv', NEW p \in Procs, NEW k \in Blocks, bget_recycle(p, k)
    PROVE  UNCHANGED BS!vars
  <1> USE DEF At
  <1>1. PICK b \in Bufs : b = LeastRecent /\ refcnt[b] = 0
    BY Victim DEF IInv, bget_recycle
  <1>2. Users(b) = {} /\ b \notin pinned
    BY <1>1, Nobodys
  <1>3. /\ blockno' = [blockno EXCEPT ![b] = k] /\ valid' = [valid EXCEPT ![b] = FALSE]
        /\ bp' = [bp EXCEPT ![p] = b] /\ pc' = [pc EXCEPT ![p] = "acquiresleep"]
        /\ pc[p] = "user" /\ UNCHANGED <<disk, data>> /\ \A c \in Bufs : blockno[c] # k
    BY <1>1 DEF bget_recycle, Cached
  <1>4. ~valid'[b] /\ \A c \in Bufs \ {b} : valid'[c] = valid[c] /\ blockno'[c] = blockno[c]
    BY <1>3 DEF IInv, TypeOK
  <1>5. ASSUME NEW j \in Blocks PROVE View'[j] = View[j]
    <2>1. CASE \E c \in Bufs \ {b} : valid[c] /\ blockno[c] = j
      <3>1. PICK c \in Bufs \ {b} : valid[c] /\ blockno[c] = j
        BY <2>1
      <3> QED
        BY <1>3, <1>4, <3>1, ViewIsData, ViewIsDataNext
    <2>2. CASE ~\E c \in Bufs \ {b} : valid[c] /\ blockno[c] = j
      <3>1. View'[j] = disk[j]
        BY <1>3, <1>4, <2>2, ViewIsDiskNext
      <3>2. CASE valid[b] /\ blockno[b] = j
        <4>1. View[j] = data[b] /\ data[b] = disk[j]
          BY <1>2, <3>2, ViewIsData DEF IInv, CleanInv
        <4> QED
          BY <3>1, <4>1
      <3>3. CASE ~(valid[b] /\ blockno[b] = j)
        BY <2>2, <3>1, <3>3, ViewIsDisk
      <3> QED
        BY <3>2, <3>3
    <2> QED
      BY <2>1, <2>2
  <1>6. View' = View
    BY <1>5, ViewType
  <1>7. \A q \in Procs : /\ pc'[q] \in Reading <=> pc[q] \in Reading
                         /\ pc[q] \in Reading => bp'[q] = bp[q] /\ blockno'[bp[q]] = blockno[bp[q]]
    <2>1. ASSUME NEW q \in Procs, pc[q] \in Reading PROVE bp[q] \in Bufs \ {b}
      BY <1>2, <2>1, HoldsAlone DEF Users
    <2>2. \A q \in Procs : pc'[q] = (IF q = p THEN "acquiresleep" ELSE pc[q]) /\ (q # p => bp'[q] = bp[q])
      BY <1>3 DEF IInv, TypeOK
    <2> QED
      BY <1>3, <1>4, <2>1, <2>2
  <1>8. Holder' = Holder
    BY <1>7, SameHolder
  <1> QED
    BY <1>6, <1>8 DEF BS!vars

LEMMA BreadIsBread ==
    ASSUME IInv, IInv', NEW p \in Procs, bread(p)
    PROVE  BS!Next
  <1> USE DEF At
  <1> DEFINE b == bp[p]
             k == blockno[b]
  <1>1. pc[p] = "bread" /\ b \in Bufs /\ k \in Blocks
        /\ (\A q \in Procs : bp[q] = b /\ pc[q] \in Locking => q = p)
        /\ \A c \in Bufs : blockno[c] = k => c = b
    BY HoldsAlone DEF bread
  <1>2. /\ data' = (IF valid[b] THEN data ELSE [data EXCEPT ![b] = disk[k]])
        /\ valid' = [valid EXCEPT ![b] = TRUE] /\ pc' = [pc EXCEPT ![p] = "hold"]
        /\ UNCHANGED <<disk, blockno, bp>>
    BY DEF bread
  <1>3. \A c \in Bufs \ {b} : valid'[c] = valid[c] /\ data'[c] = data[c]
    BY <1>1, <1>2 DEF IInv, TypeOK
  <1>4. valid'[b] /\ data'[b] = IF valid[b] THEN data[b] ELSE disk[k]
    BY <1>1, <1>2 DEF IInv, TypeOK
  <1>5. \A q \in Procs \ {p} : pc'[q] = pc[q]
    BY <1>1, <1>2 DEF IInv, TypeOK
  <1>6. pc'[p] = "hold"
    BY <1>1, <1>2 DEF IInv, TypeOK
  <1>7. b = bp[p] /\ k = blockno[b]
    OBVIOUS
  <1> HIDE DEF b, k
  <1>8. ASSUME NEW j \in Blocks PROVE View'[j] = View[j]
    <2>1. CASE j = k
      <3>1. View'[j] = data'[b]
        BY <1>1, <1>2, <1>4, <1>7, <2>1, ViewIsDataNext
      <3>2. CASE valid[b]
        BY <1>1, <1>4, <1>7, <2>1, <3>1, <3>2, ViewIsData
      <3>3. CASE ~valid[b]
        <4>1. View[j] = disk[j]
          BY <1>1, <2>1, <3>3, ViewIsDisk
        <4> QED
          BY <1>4, <2>1, <3>1, <3>3, <4>1
      <3> QED
        BY <3>2, <3>3
    <2>2. CASE j # k /\ \E c \in Bufs : valid[c] /\ blockno[c] = j
      <3>1. PICK c \in Bufs : valid[c] /\ blockno[c] = j
        BY <2>2
      <3>2. c # b /\ valid'[c] /\ data'[c] = data[c] /\ blockno'[c] = j
        BY <1>2, <1>3, <1>7, <2>2, <3>1
      <3> QED
        BY <3>1, <3>2, ViewIsData, ViewIsDataNext
    <2>3. CASE j # k /\ ~\E c \in Bufs : valid[c] /\ blockno[c] = j
      <3>1. \A c \in Bufs : ~(valid'[c] /\ blockno'[c] = j)
        BY <1>2, <1>3, <1>7, <2>3
      <3> QED
        BY <1>2, <2>3, <3>1, ViewIsDisk, ViewIsDiskNext
    <2> QED
      BY <2>1, <2>2, <2>3
  <1>9. View' = View
    BY <1>8, ViewType
  <1>10. Holder[k] = Nobody
    <2>1. ASSUME NEW q \in Procs, pc[q] \in Reading, blockno[bp[q]] = k PROVE FALSE
      <3>1. bp[q] = b
        BY <1>1, <2>1, HoldsAlone
      <3> QED
        BY <1>1, <2>1, <3>1
    <2> QED
      BY <1>1, <2>1, HolderNone
  <1>11. ASSUME NEW j \in Blocks PROVE Holder'[j] = IF j = k THEN p ELSE Holder[j]
    <2>1. CASE j = k
      <3>1. Holders(j)' = Holders(j) \cup {p}
        BY <1>1, <1>2, <1>5, <1>6, <1>7, <2>1 DEF Holders
      <3>2. Holders(j) = {}
        <4>1. ASSUME NEW q \in Procs, pc[q] \in Reading, blockno[bp[q]] = k PROVE FALSE
          <5>1. bp[q] = b
            BY <1>1, <4>1, HoldsAlone
          <5> QED
            BY <1>1, <4>1, <5>1
        <4> QED
          BY <2>1, <4>1 DEF Holders
      <3> QED
        BY <2>1, <3>1, <3>2 DEF Holder
    <2>2. CASE j # k
      <3>1. Holders(j)' = Holders(j)
        BY <1>1, <1>2, <1>5, <1>6, <1>7, <2>2 DEF Holders
      <3> QED
        BY <2>2, <3>1 DEF Holder
    <2> QED
      BY <2>1, <2>2
  <1>12. Holder' = [Holder EXCEPT ![k] = p]
    BY <1>1, <1>11, HolderType
  <1>13. BS!Bread(p, k)
    BY <1>9, <1>10, <1>12 DEF BS!Bread
  <1> QED
    BY <1>1, <1>13 DEF BS!Next

(* log_write() changes the block that its caller holds.                    *)
LEMMA WriteIsModify ==
    ASSUME IInv, IInv', NEW p \in Procs, NEW v \in Vals, log_write(p, v)
    PROVE  BS!Next
  <1> USE DEF At
  <1> DEFINE b == bp[p]
             k == blockno[b]
  <1>1. pc[p] = "hold" /\ b \in Bufs /\ k \in Blocks /\ valid[b] /\ \A c \in Bufs : blockno[c] = k => c = b
    BY HoldsAlone DEF log_write, IInv, ValidInv
  <1>2. data' = [data EXCEPT ![b] = v] /\ UNCHANGED <<disk, blockno, valid, pc, bp>>
    BY DEF log_write
  <1>3. data'[b] = v /\ \A c \in Bufs \ {b} : data'[c] = data[c]
    BY <1>1, <1>2 DEF IInv, TypeOK
  <1>4. Holder[k] = p
    BY <1>1, HolderIs
  <1>5. Holder' = Holder
    BY <1>2, SameHolder
  <1> HIDE DEF b, k
  <1>6. ASSUME NEW j \in Blocks PROVE View'[j] = IF j = k THEN v ELSE View[j]
    <2>1. CASE j = k
      BY <1>1, <1>2, <1>3, <2>1, ViewIsDataNext DEF k
    <2>2. CASE j # k /\ \E c \in Bufs : valid[c] /\ blockno[c] = j
      <3>1. PICK c \in Bufs : valid[c] /\ blockno[c] = j
        BY <2>2
      <3>2. c # b
        BY <2>2, <3>1 DEF k
      <3> QED
        BY <1>2, <1>3, <2>2, <3>1, <3>2, ViewIsData, ViewIsDataNext
    <2>3. CASE j # k /\ ~\E c \in Bufs : valid[c] /\ blockno[c] = j
      BY <1>2, <2>3, ViewIsDisk, ViewIsDiskNext
    <2> QED
      BY <2>1, <2>2, <2>3
  <1>7. View' = [View EXCEPT ![k] = v]
    BY <1>1, <1>6, ViewType
  <1>8. BS!Modify(p, k, v)
    BY <1>4, <1>5, <1>7 DEF BS!Modify
  <1> QED
    BY <1>1, <1>8 DEF BS!Next

(* bwrite() writes what everybody already sees.                            *)
LEMMA BwriteIsQuiet ==
    ASSUME IInv, IInv', NEW p \in Procs, bwrite(p)
    PROVE  UNCHANGED BS!vars
  <1> USE DEF At
  <1> DEFINE b == bp[p]
             k == blockno[b]
  <1>1. pc[p] = "hold" /\ b \in Bufs /\ k \in Blocks /\ valid[b]
    BY HoldsAlone DEF bwrite, IInv, ValidInv
  <1>2. /\ disk' = [disk EXCEPT ![k] = data[b]] /\ pc' = [pc EXCEPT ![p] = "written"]
        /\ UNCHANGED <<blockno, valid, data, bp>>
    BY DEF bwrite
  <1>3. \A j \in Blocks \ {k} : disk'[j] = disk[j]
    BY <1>1, <1>2 DEF IInv, TypeOK
  <1>4. \A q \in Procs : pc'[q] \in Reading <=> pc[q] \in Reading
    BY <1>1, <1>2 DEF IInv, TypeOK
  <1>5. Holder' = Holder
    BY <1>2, <1>4, SameHolder
  <1> HIDE DEF b, k
  <1>6. ASSUME NEW j \in Blocks PROVE View'[j] = View[j]
    <2>1. CASE \E c \in Bufs : valid[c] /\ blockno[c] = j
      BY <1>2, <2>1, ViewIsData, ViewIsDataNext
    <2>2. CASE ~\E c \in Bufs : valid[c] /\ blockno[c] = j
      <3>1. j # k
        BY <1>1, <2>2 DEF k
      <3> QED
        BY <1>2, <1>3, <2>2, <3>1, ViewIsDisk, ViewIsDiskNext
    <2> QED
      BY <2>1, <2>2
  <1>7. View' = View
    BY <1>6, ViewType
  <1> QED
    BY <1>5, <1>7 DEF BS!vars

LEMMA ReleaseIsBrelse ==
    ASSUME IInv, IInv', NEW p \in Procs, releasesleep(p)
    PROVE  BS!Next
  <1> USE DEF At
  <1> DEFINE k == blockno[bp[p]]
  <1>1. pc[p] = "hold" /\ k \in Blocks /\ Holder[k] = p
    BY HolderIs DEF releasesleep
  <1>2. pc' = [pc EXCEPT ![p] = "brelse"] /\ UNCHANGED <<disk, blockno, valid, data, bp>>
    BY DEF releasesleep
  <1>3. pc'[p] = "brelse" /\ \A q \in Procs \ {p} : pc'[q] = pc[q]
    BY <1>2 DEF IInv, TypeOK
  <1>4. View' = View
    BY <1>2 DEF View, Current, Cached
  <1>5. ASSUME NEW j \in Blocks PROVE Holder'[j] = IF j = k THEN Nobody ELSE Holder[j]
    <2>1. CASE j = k
      <3>1. ASSUME NEW q \in Procs, pc'[q] \in Reading, blockno[bp[q]] = k PROVE FALSE
        <4>1. q # p /\ pc[q] \in Reading
          BY <1>3, <3>1
        <4>2. Holder[k] = q
          BY <3>1, <4>1, HolderIs
        <4> QED
          BY <1>1, <4>1, <4>2
      <3>2. Holders(j)' = {}
        BY <1>2, <2>1, <3>1 DEF Holders
      <3> QED
        BY <2>1, <3>2 DEF Holder
    <2>2. CASE j # k
      <3>1. Holders(j)' = Holders(j)
        BY <1>1, <1>2, <1>3, <2>2 DEF Holders
      <3> QED
        BY <2>2, <3>1 DEF Holder
    <2> QED
      BY <2>1, <2>2
  <1> HIDE DEF k
  <1>6. Holder' = [Holder EXCEPT ![k] = Nobody]
    BY <1>1, <1>5, HolderType
  <1>7. BS!Brelse(p, k)
    BY <1>1, <1>4, <1>6 DEF BS!Brelse
  <1> QED
    BY <1>1, <1>7 DEF BS!Next

LEMMA StoreStep == IInv /\ IInv' /\ [Next]_vars => [BS!Next]_BS!vars
  <1> SUFFICES ASSUME IInv, IInv', [Next]_vars PROVE BS!Next \/ UNCHANGED BS!vars
    OBVIOUS
  <1>1. CASE UNCHANGED vars
    <2>1. View' = View
      BY <1>1 DEF View, Current, Cached
    <2>2. Holder' = Holder
      BY <1>1, SameHolder
    <2> QED
      BY <2>1, <2>2 DEF BS!vars
  <1>2. CASE Next
    BY <1>2, QuietSteps, RecycleIsQuiet, BreadIsBread, WriteIsModify, BwriteIsQuiet, ReleaseIsBrelse DEF Next
  <1> QED
    BY <1>1, <1>2

LEMMA StoreInit == Init => BS!Init
  <1> SUFFICES ASSUME Init PROVE BS!Init
    OBVIOUS
  <1>1. ASSUME NEW k \in Blocks PROVE View[k] = disk[k] /\ Holder[k] = Nobody
    BY ViewIsDisk, HolderNone DEF Init
  <1> QED
    BY <1>1, ViewType, HolderType DEF BS!Init, Init

(* bread(), brelse() and bwrite() implement a store with one current       *)
(* version of each block, held by one process at a time: what bget()       *)
(* recycles and bread() rereads is never out of date.                      *)
THEOREM CacheIsStore == Spec => ImplementsBlockStore
  BY StoreInit, StoreStep, Invariance, PTL DEF Spec, ImplementsBlockStore, BS!Spec
=============================================================================
