-------------------------- MODULE VirtioDiskProof ---------------------------
(***************************************************************************)
(* Proofs about the disk driver, for any number of processes, blocks and   *)
(* descriptors.                                                            *)
(***************************************************************************)
EXTENDS VirtioDisk, FiniteSetTheorems, WellFoundedInduction, TLAPS

-----------------------------------------------------------------------------
(* Arithmetic of unsigned counters that run freely and wrap around at U,   *)
(* and of a ring of N places indexed by a counter modulo N, where N        *)
(* divides U.                                                              *)

(* The remainder is determined by any representation.                      *)
LEMMA ModUnique ==
    ASSUME NEW U \in Nat \ {0}, NEW a \in Int, NEW q \in Int, NEW d \in 0..U - 1,
           a = U * q + d
    PROVE  a % U = d
  OBVIOUS

LEMMA DivMod ==
    ASSUME NEW U \in Nat \ {0}, NEW a \in Int
    PROVE  a \div U \in Int /\ a % U \in 0..U - 1 /\ a = U * (a \div U) + (a % U)
  OBVIOUS

(* Adding less than U wraps around at most once.                           *)
LEMMA ModAdd ==
    ASSUME NEW U \in Nat \ {0}, NEW a \in Int, NEW k \in 0..U - 1
    PROVE  (a + k) % U = IF (a % U) + k < U THEN (a % U) + k ELSE (a % U) + k - U
  <1> DEFINE q == a \div U
             d == a % U
  <1>1. q \in Int /\ d \in 0..U - 1 /\ a = U * q + d
    BY DivMod
  <1> HIDE DEF q, d
  <1>2. CASE d + k < U
    <2>1. a + k = U * q + (d + k) /\ d + k \in 0..U - 1 /\ a + k \in Int
      BY <1>1, <1>2
    <2>2. (a + k) % U = d + k
      BY <1>1, <2>1, ModUnique
    <2> QED
      BY <1>2, <2>2 DEF d
  <1>3. CASE d + k >= U
    <2>1. U * (q + 1) = U * q + U
      BY <1>1
    <2>2. a + k = U * (q + 1) + (d + k - U) /\ d + k - U \in 0..U - 1 /\ a + k \in Int /\ q + 1 \in Int
      BY <1>1, <1>3, <2>1
    <2>3. (a + k) % U = d + k - U
      BY <2>2, ModUnique
    <2> QED
      BY <1>1, <1>3, <2>3 DEF d
  <1> QED
    BY <1>1, <1>2, <1>3

(* The distance between two counters.                                      *)
LEMMA Distance ==
    ASSUME NEW U \in Nat \ {0}, NEW a \in 0..U - 1, NEW b \in 0..U - 1
    PROVE  (a - b) % U = IF a >= b THEN a - b ELSE a - b + U
  OBVIOUS

LEMMA Advance ==
    ASSUME NEW U \in Nat \ {0}, NEW a \in 0..U - 1, NEW k \in 0..U - 1
    PROVE  (a + k) % U = IF a + k < U THEN a + k ELSE a + k - U
  OBVIOUS

(* A counter that has wrapped still points to the right place.             *)
LEMMA WrapMod ==
    ASSUME NEW N \in Nat \ {0}, NEW U \in Nat \ {0}, U % N = 0, NEW a \in Int
    PROVE  (a % U) % N = a % N
  <1> DEFINE m == U \div N
             q == a \div U
             d == a % U
             s == d \div N
             t == d % N
  <1>1. m \in Int /\ U = N * m
    BY DivMod
  <1>2. q \in Int /\ d \in 0..U - 1 /\ a = U * q + d
    BY DivMod
  <1>3. s \in Int /\ t \in 0..N - 1 /\ d = N * s + t
    BY <1>2, DivMod
  <1> HIDE DEF m, q, d, s, t
  <1>4. m * q + s \in Int /\ a = N * (m * q + s) + t
    <2>1. m * q \in Int
      BY <1>1, <1>2
    <2>2. U * q = N * (m * q)
      BY <1>1, <1>2
    <2>3. N * (m * q + s) = N * (m * q) + N * s
      BY <1>3, <2>1
    <2> QED
      BY <1>1, <1>2, <1>3, <2>1, <2>2, <2>3
  <1>5. a % N = t
    BY <1>3, <1>4, ModUnique
  <1> QED
    BY <1>5 DEF t, d

(* A whole turn of the counter changes no place.                           *)
LEMMA TurnMod ==
    ASSUME NEW N \in Nat \ {0}, NEW U \in Nat \ {0}, U % N = 0, NEW a \in Int
    PROVE  (a + U) % N = a % N
  <1> DEFINE q == a \div U
             d == a % U
  <1>1. q \in Int /\ d \in 0..U - 1 /\ a = U * q + d
    BY DivMod
  <1> HIDE DEF q, d
  <1>2. a + U = U * (q + 1) + d /\ a + U \in Int /\ q + 1 \in Int
    BY <1>1
  <1>3. (a + U) % U = d
    BY <1>1, <1>2, ModUnique
  <1>4. a % U = d
    BY <1>1, ModUnique
  <1>5. ((a + U) % U) % N = (a + U) % N
    BY <1>2, WrapMod
  <1>6. (a % U) % N = a % N
    BY WrapMod
  <1> QED
    BY <1>3, <1>4, <1>5, <1>6

(* The place of the counter b, seen from the counter a.                    *)
LEMMA BackOf ==
    ASSUME NEW N \in Nat \ {0}, NEW U \in Nat \ {0}, U % N = 0, NEW a \in 0..U - 1, NEW b \in 0..U - 1
    PROVE  (a + ((b - a) % U)) % N = b % N
  <1>1. (b - a) % U = IF b >= a THEN b - a ELSE b - a + U
    BY Distance
  <1>2. a + ((b - a) % U) = b \/ a + ((b - a) % U) = b + U
    BY <1>1
  <1>3. (b + U) % N = b % N
    <2>1. b \in Int
      OBVIOUS
    <2> QED
      BY <2>1, TurnMod
  <1> QED
    BY <1>2, <1>3

(* The places in front of a counter that has been incremented.             *)
LEMMA NextOf ==
    ASSUME NEW N \in Nat \ {0}, NEW U \in Nat \ {0}, U > 1, U % N = 0, NEW a \in 0..U - 1, NEW k \in Int
    PROVE  (((a + 1) % U) + k) % N = (a + 1 + k) % N
  <1>1. 1 \in 0..U - 1
    OBVIOUS
  <1>2. (a + 1) % U = a + 1 \/ (a + 1) % U = a + 1 - U
    BY <1>1, Advance
  <1>3. CASE (a + 1) % U = a + 1
    BY <1>3
  <1>4. CASE (a + 1) % U = a + 1 - U
    <2>1. (a + 1 - U) + k \in Int /\ ((a + 1 - U) + k) + U = a + 1 + k
      OBVIOUS
    <2>2. (((a + 1 - U) + k) + U) % N = ((a + 1 - U) + k) % N
      BY <2>1, TurnMod
    <2> QED
      BY <1>4, <2>1, <2>2
  <1> QED
    BY <1>2, <1>3, <1>4

(* Places less than N apart are different.                                 *)
LEMMA DistinctPlaces ==
    ASSUME NEW N \in Nat \ {0}, NEW a \in Int, NEW j \in 0..N - 1, NEW k \in 0..N - 1,
           (a + j) % N = (a + k) % N
    PROVE  j = k
  <1>1. a % N \in 0..N - 1
    BY DivMod
  <1>2. /\ (a + j) % N = IF (a % N) + j < N THEN (a % N) + j ELSE (a % N) + j - N
        /\ (a + k) % N = IF (a % N) + k < N THEN (a % N) + k ELSE (a % N) + k - N
    BY ModAdd
  <1> QED
    BY <1>1, <1>2

-----------------------------------------------------------------------------
(* Least elements of sets of numbers.                                      *)

(* The order of the numbers.                                               *)
Less == {ss \in Nat \X Nat : ss[1] < ss[2]}

LEMMA LeastElement ==
    ASSUME NEW S \in SUBSET Nat, S # {}
    PROVE  \E m \in S : \A k \in S : m <= k
  <1>1. IsWellFoundedOn(Less, Nat)
    BY NatLessThanWellFounded DEF OpToRel, Less
  <1>2. PICK x \in S : \A y \in S : ~(<<y, x>> \in Less)
    BY <1>1, WFMin
  <1>3. ASSUME NEW k \in S PROVE x <= k
    <2>1. k \in Nat /\ x \in Nat
      OBVIOUS
    <2>2. k < x => <<k, x>> \in Less
      BY <2>1 DEF Less
    <2> QED
      BY <1>2, <2>1, <2>2
  <1> QED
    BY <1>3

-----------------------------------------------------------------------------
USE DEF vars, bufVars, descVars, ringVars, devVars, procVars

-----------------------------------------------------------------------------
(* The rings                                                               *)

LEMMA Sizes == IDX \in Nat \ {0} /\ IDX >= NUM /\ IDX > 1 /\ NUM \in Nat \ {0} /\ NUM >= 3
  <1>1. CASE IDX < NUM
    <2>1. IDX \in 0..NUM - 1 /\ IDX = NUM * 0 + IDX
      BY <1>1, DiskAssumption
    <2>2. IDX % NUM = IDX
      BY <2>1, ModUnique, DiskAssumption
    <2> QED
      BY <2>2, DiskAssumption
  <1> QED
    BY <1>1, DiskAssumption

LEMMA Divides == IDX % NUM = 0
  BY DiskAssumption

LEMMA RingBack ==
    ASSUME NEW lo \in 0..IDX - 1, NEW hi \in 0..IDX - 1
    PROVE  (lo + Ahead(hi, lo)) % NUM = hi % NUM
  <1> DEFINE P(N, U) == N \in Nat \ {0} /\ U \in Nat \ {0} /\ U % N = 0
             Q(N, U) == \A x, y \in 0..U - 1 : (x + ((y - x) % U)) % N = y % N
  <1>1. P(NUM, IDX)
    BY Sizes, Divides
  <1>2. \A N, U : P(N, U) => Q(N, U)
    BY BackOf
  <1> HIDE DEF P, Q
  <1>3. Q(NUM, IDX)
    BY <1>1, <1>2, Zenon
  <1> QED
    BY <1>3, Zenon DEF Ahead, Q

LEMMA RingNext ==
    ASSUME NEW lo \in 0..IDX - 1, NEW k \in Nat
    PROVE  (((lo + 1) % IDX) + k) % NUM = (lo + 1 + k) % NUM
  <1> DEFINE P(N, U) == N \in Nat \ {0} /\ U \in Nat \ {0} /\ U > 1 /\ U % N = 0
             Q(N, U) == \A x \in 0..U - 1, y \in Int : (((x + 1) % U) + y) % N = (x + 1 + y) % N
  <1>1. P(NUM, IDX)
    BY Sizes, Divides
  <1>2. \A N, U : P(N, U) => Q(N, U)
    BY NextOf
  <1> HIDE DEF P, Q
  <1>3. Q(NUM, IDX)
    BY <1>1, <1>2, Zenon
  <1>4. k \in Int
    OBVIOUS
  <1> QED
    BY <1>3, <1>4, Zenon DEF Q

LEMMA RingApart ==
    ASSUME NEW lo \in 0..IDX - 1, NEW j \in 0..NUM - 1, NEW k \in 0..NUM - 1, j # k
    PROVE  (lo + j) % NUM # (lo + k) % NUM
  <1>1. NUM \in Nat \ {0} /\ lo \in Int
    BY Sizes
  <1>2. SUFFICES ASSUME (lo + j) % NUM = (lo + k) % NUM PROVE FALSE
    OBVIOUS
  <1> QED
    BY <1>1, <1>2, DistinctPlaces

USE Sizes

LEMMA AheadType ==
    ASSUME NEW a \in 0..IDX - 1, NEW b \in 0..IDX - 1
    PROVE  Ahead(a, b) \in 0..IDX - 1 /\ (Ahead(a, b) = 0 <=> a = b)
  BY Distance DEF Ahead

LEMMA Place == \A a \in Int : a % NUM \in Slots
  BY DivMod DEF Slots

(* An entry is added at hi.                                                *)
LEMMA RingPush ==
    ASSUME NEW f \in [Slots -> Slots], NEW lo \in 0..IDX - 1, NEW hi \in 0..IDX - 1, NEW x \in Slots,
           Ahead(hi, lo) + 1 < NUM
    PROVE  LET g == [f EXCEPT ![hi % NUM] = x]
               top == (hi + 1) % IDX
               n == Ahead(hi, lo)
           IN  /\ g \in [Slots -> Slots] /\ top \in 0..IDX - 1 /\ Ahead(top, lo) = n + 1
               /\ g[(lo + n) % NUM] = x
               /\ \A k \in 0..n - 1 : g[(lo + k) % NUM] = f[(lo + k) % NUM]
  <1> DEFINE g == [f EXCEPT ![hi % NUM] = x]
             top == (hi + 1) % IDX
             n == Ahead(hi, lo)
  <1>1. n \in 0..IDX - 1 /\ n + 1 < NUM /\ n + 1 < IDX
    BY AheadType
  <1>2. top = IF hi + 1 < IDX THEN hi + 1 ELSE 0
    <2>1. 1 \in 0..IDX - 1 /\ IDX \in Nat \ {0}
      OBVIOUS
    <2>2. top = IF hi + 1 < IDX THEN hi + 1 ELSE hi + 1 - IDX
      BY <2>1, Advance
    <2> HIDE DEF top
    <2> QED
      BY <2>2
  <1>3. top \in 0..IDX - 1
    BY <1>2
  <1>4. n = IF hi >= lo THEN hi - lo ELSE hi - lo + IDX
    BY Distance DEF Ahead
  <1>5. Ahead(top, lo) = IF top >= lo THEN top - lo ELSE top - lo + IDX
    BY <1>3, Distance DEF Ahead
  <1>6. Ahead(top, lo) = n + 1
    BY <1>1, <1>2, <1>4, <1>5
  <1>7. (lo + n) % NUM = hi % NUM
    BY RingBack
  <1>8. \A a \in Int : a % NUM \in Slots
    BY DivMod DEF Slots
  <1>9. ASSUME NEW k \in 0..n - 1 PROVE g[(lo + k) % NUM] = f[(lo + k) % NUM]
    <2>1. k \in 0..NUM - 1 /\ n \in 0..NUM - 1 /\ k # n
      BY <1>1
    <2>2. (lo + k) % NUM # (lo + n) % NUM
      <3> HIDE DEF n
      <3> QED
        BY <2>1, RingApart
    <2>3. (lo + k) % NUM \in Slots
      <3>1. lo + k \in Int
        BY <2>1
      <3> QED
        BY <1>8, <3>1, Zenon
    <2> QED
      BY <1>7, <2>2, <2>3
  <1>10. g \in [Slots -> Slots]
    OBVIOUS
  <1>11. g[(lo + n) % NUM] = x
    <2>1. (lo + n) % NUM \in Slots
      BY <1>1, <1>8
    <2> QED
      BY <1>7, <2>1
  <1> QED
    BY <1>3, <1>6, <1>9, <1>10, <1>11

(* The entry at lo is consumed.                                            *)
LEMMA RingPop ==
    ASSUME NEW f \in [Slots -> Slots], NEW lo \in 0..IDX - 1, NEW hi \in 0..IDX - 1,
           lo # hi, Ahead(hi, lo) <= NUM
    PROVE  LET g == [f EXCEPT ![lo % NUM] = 0]
               bot == (lo + 1) % IDX
               n == Ahead(hi, lo)
           IN  /\ g \in [Slots -> Slots] /\ bot \in 0..IDX - 1
               /\ n \in Nat /\ n > 0 /\ Ahead(hi, bot) = n - 1
               /\ \A k \in 0..n - 2 : g[(bot + k) % NUM] = f[(lo + (k + 1)) % NUM]
  <1> DEFINE g == [f EXCEPT ![lo % NUM] = 0]
             bot == (lo + 1) % IDX
             n == Ahead(hi, lo)
  <1>1. n \in 0..IDX - 1 /\ n # 0
    BY AheadType
  <1>2. bot = IF lo + 1 < IDX THEN lo + 1 ELSE 0
    <2>1. 1 \in 0..IDX - 1 /\ IDX \in Nat \ {0}
      OBVIOUS
    <2>2. bot = IF lo + 1 < IDX THEN lo + 1 ELSE lo + 1 - IDX
      BY <2>1, Advance
    <2> HIDE DEF bot
    <2> QED
      BY <2>2
  <1>3. bot \in 0..IDX - 1
    BY <1>2
  <1>4. n = IF hi >= lo THEN hi - lo ELSE hi - lo + IDX
    BY Distance DEF Ahead
  <1>5. Ahead(hi, bot) = IF hi >= bot THEN hi - bot ELSE hi - bot + IDX
    BY <1>3, Distance, ZenonT(60) DEF Ahead
  <1>6. Ahead(hi, bot) = n - 1
    BY <1>1, <1>2, <1>4, <1>5
  <1>7. \A a \in Int : a % NUM \in Slots
    BY DivMod DEF Slots
  <1>8. 0 \in Slots /\ g \in [Slots -> Slots]
    BY DEF Slots
  <1>9. ASSUME NEW k \in 0..n - 2 PROVE g[(bot + k) % NUM] = f[(lo + (k + 1)) % NUM]
    <2>1. k + 1 \in 0..NUM - 1 /\ k + 1 # 0 /\ 0 \in 0..NUM - 1
      BY <1>1
    <2>2. (bot + k) % NUM = (lo + 1 + k) % NUM
      BY <2>1, RingNext
    <2>3. lo + 1 + k = lo + (k + 1) /\ lo + 0 = lo
      BY <2>1
    <2>4. (lo + (k + 1)) % NUM # (lo + 0) % NUM
      <3> DEFINE j == k + 1
      <3>1. j \in 0..NUM - 1 /\ j # 0
        BY <2>1
      <3> HIDE DEF j
      <3>2. (lo + j) % NUM # (lo + 0) % NUM
        BY <2>1, <3>1, RingApart
      <3> QED
        BY <3>2 DEF j
    <2>5. (lo + (k + 1)) % NUM \in Slots
      BY <1>7, <2>1
    <2> QED
      BY <2>2, <2>3, <2>4, <2>5
  <1> QED
    BY <1>1, <1>3, <1>6, <1>8, <1>9

-----------------------------------------------------------------------------
(* Counting descriptors and requests                                       *)

LEMMA SlotsFinite ==
    ASSUME NEW S \in SUBSET Slots
    PROVE  IsFiniteSet(S) /\ Cardinality(S) \in Nat
  <1>1. IsFiniteSet(Slots)
    BY FS_Interval DEF Slots
  <1> QED
    BY <1>1, FS_Subset, FS_CardinalityType

LEMMA ProcsFinite ==
    ASSUME NEW S \in SUBSET Procs
    PROVE  IsFiniteSet(S) /\ Cardinality(S) \in Nat
  BY DiskAssumption, FS_Subset, FS_CardinalityType

LEMMA SlotsSize == Cardinality(Slots) = NUM
  BY FS_Interval DEF Slots

(* Every request has three descriptors of its own.                         *)
LEMMA Fits ==
    ASSUME NEW F \in SUBSET Slots, NEW W \in SUBSET Procs, NEW B \in SUBSET W,
           Cardinality(F) + 3 * Cardinality(W) = NUM
    PROVE  /\ Cardinality(B) \in Nat /\ Cardinality(W) \in Nat /\ Cardinality(F) \in Nat
           /\ Cardinality(B) <= Cardinality(W) /\ Cardinality(B) <= NUM \div 3
           /\ 3 * Cardinality(B) <= NUM
  <1>1. Cardinality(B) \in Nat /\ Cardinality(W) \in Nat /\ Cardinality(F) \in Nat
    BY SlotsFinite, ProcsFinite
  <1>2. Cardinality(B) <= Cardinality(W)
    BY ProcsFinite, FS_Subset
  <1> QED
    BY <1>1, <1>2

LEMMA RemoveThree ==
    ASSUME NEW S \in SUBSET Slots, NEW a \in S, NEW b \in S, NEW c \in S, a # b, a # c, b # c
    PROVE  Cardinality(S \ {a, b, c}) = Cardinality(S) - 3
  <1>1. IsFiniteSet(S) /\ IsFiniteSet(S \ {a}) /\ IsFiniteSet((S \ {a}) \ {b}) /\ Cardinality(S) \in Nat
    BY SlotsFinite
  <1>2. Cardinality(S \ {a}) = Cardinality(S) - 1
    BY <1>1, FS_RemoveElement
  <1>3. Cardinality((S \ {a}) \ {b}) = Cardinality(S \ {a}) - 1
    BY <1>1, FS_RemoveElement
  <1>4. Cardinality(((S \ {a}) \ {b}) \ {c}) = Cardinality((S \ {a}) \ {b}) - 1
    BY <1>1, FS_RemoveElement
  <1>5. ((S \ {a}) \ {b}) \ {c} = S \ {a, b, c}
    OBVIOUS
  <1> QED
    BY <1>1, <1>2, <1>3, <1>4, <1>5

LEMMA AddThree ==
    ASSUME NEW S \in SUBSET Slots, NEW a \in Slots \ S, NEW b \in Slots \ S, NEW c \in Slots \ S,
           a # b, a # c, b # c
    PROVE  Cardinality(S \cup {a, b, c}) = Cardinality(S) + 3
  <1> DEFINE T == S \cup {a, b, c}
  <1>1. T \in SUBSET Slots /\ T \ {a, b, c} = S
    OBVIOUS
  <1>2. a \in T /\ b \in T /\ c \in T
    OBVIOUS
  <1> HIDE DEF T
  <1>3. Cardinality(S) = Cardinality(T) - 3
    BY <1>1, <1>2, RemoveThree
  <1> QED
    BY <1>1, <1>3, SlotsFinite DEF T

(* alloc_desc() finds a descriptor whenever one is free.                   *)
LEMMA AllocDesc ==
    ASSUME NEW S \in SUBSET Slots, S # {}
    PROVE  alloc_desc(S) \in S
  <1>1. S \in SUBSET Nat
    BY DEF Slots
  <1>2. \E s \in S : \A t \in S : s <= t
    BY <1>1, LeastElement
  <1> QED
    BY <1>2 DEF alloc_desc

LEMMA Alloc3 ==
    ASSUME free \subseteq Slots, Cardinality(free) >= 3
    PROVE  LET i == alloc3_desc
           IN  /\ i \in Slots \X Slots \X Slots
               /\ i[1] \in free /\ i[2] \in free /\ i[3] \in free
               /\ i[1] # i[2] /\ i[1] # i[3] /\ i[2] # i[3]
  <1> DEFINE a == alloc_desc(free)
             b == alloc_desc(free \ {a})
             c == alloc_desc(free \ {a, b})
  <1>1. IsFiniteSet(free) /\ Cardinality(free) \in Nat
    BY SlotsFinite
  <1>2. a \in free
    <2>1. free # {}
      BY <1>1, FS_EmptySet
    <2> QED
      BY <2>1, AllocDesc
  <1>3. IsFiniteSet(free \ {a}) /\ Cardinality(free \ {a}) = Cardinality(free) - 1
    BY <1>1, <1>2, FS_RemoveElement
  <1>4. b \in free \ {a}
    <2>1. free \ {a} # {}
      BY <1>1, <1>3, FS_EmptySet
    <2>2. free \ {a} \in SUBSET Slots
      OBVIOUS
    <2> QED
      BY <2>1, <2>2, AllocDesc
  <1> HIDE DEF a, b
  <1>5. (free \ {a}) \ {b} = free \ {a, b}
    OBVIOUS
  <1>6. IsFiniteSet(free \ {a, b}) /\ Cardinality(free \ {a, b}) = Cardinality(free) - 2
    <2> DEFINE S == free \ {a}
    <2>1. IsFiniteSet(S) /\ b \in S /\ S \ {b} = free \ {a, b} /\ Cardinality(S) = Cardinality(free) - 1
      BY <1>3, <1>4, <1>5
    <2> HIDE DEF S
    <2>2. IsFiniteSet(S \ {b}) /\ Cardinality(S \ {b}) = Cardinality(S) - 1
      BY <2>1, FS_RemoveElement
    <2> QED
      BY <1>1, <2>1, <2>2
  <1>7. c \in free \ {a, b}
    <2>1. free \ {a, b} # {}
      BY <1>1, <1>6, FS_EmptySet
    <2>2. free \ {a, b} \in SUBSET Slots
      OBVIOUS
    <2> QED
      BY <2>1, <2>2, AllocDesc
  <1>8. alloc3_desc = <<a, b, c>>
    BY DEF alloc3_desc, a, b
  <1> HIDE DEF c
  <1> QED
    BY <1>2, <1>4, <1>7, <1>8

-----------------------------------------------------------------------------
(* The invariant, in the parts the steps below need                        *)

A == Ahead(avail_idx, seen)
U == Ahead(used_hw, used_idx)
Busy == {p \in Waiting : ~Finished(p)}

Types ==
    /\ disk \in [Blocks -> Vals] /\ buf \in [Procs -> Vals \cup {NoData}]
    /\ bdisk \in [Procs -> {0, 1}]
    /\ free \subseteq Slots /\ inflight \subseteq Slots
    /\ DOMAIN desc = Slots /\ \A s \in Slots : desc[s].next \in Slots
    /\ ops \in [Slots -> Requests \cup {NoReq}]
    /\ info \in [Slots -> [b : Procs \cup {NoBuf}, status : {0, 255}]]
    /\ avail \in [Slots -> Slots] /\ used \in [Slots -> Slots]
    /\ avail_idx \in 0..IDX - 1 /\ used_hw \in 0..IDX - 1 /\ used_idx \in 0..IDX - 1 /\ seen \in 0..IDX - 1
    /\ intr \in {"idle", "ack", "loop"} /\ isr \in BOOLEAN /\ late \in BOOLEAN
    /\ pc \in [Procs -> {"user", "alloc", "wait"}]
    /\ chan \in [Procs -> {"none", "free", "b"}]
    /\ idx \in [Procs -> Slots \X Slots \X Slots]
    /\ arg \in [Procs -> Requests \cup {NoReq}]

LEMMA TypeParts == TypeOK <=> Types /\ A + U + Cardinality(inflight) <= NUM \div 3
  BY DEF TypeOK, Types, A, U

LEMMA InvTypes == IInv => Types
  BY TypeParts DEF IInv

LEMMA NextTypes ==
    ASSUME Types', CountInv'
    PROVE  TypeOK'
  <1>1. Waiting' \in SUBSET Procs /\ Busy' \in SUBSET Waiting' /\ free' \in SUBSET Slots
    BY DEF Waiting, Busy, Types
  <1>2. Cardinality(Busy') <= NUM \div 3
    BY <1>1, Fits DEF CountInv
  <1>3. A' + U' + Cardinality(inflight') = Cardinality(Busy')
    BY DEF CountInv, A, U, Busy
  <1> QED
    BY <1>2, <1>3 DEF TypeOK, Types, A, U

(* A process's request occupies three descriptors: the rings have room.    *)
LEMMA Room ==
    ASSUME IInv
    PROVE  /\ A \in Nat /\ U \in Nat /\ Cardinality(inflight) \in Nat
           /\ Cardinality(free) \in Nat /\ Cardinality(Waiting) \in Nat /\ Cardinality(Busy) \in Nat
           /\ A + U + Cardinality(inflight) = Cardinality(Busy)
           /\ Cardinality(Busy) <= Cardinality(Waiting)
           /\ Cardinality(free) + 3 * Cardinality(Waiting) = NUM
  <1>1. Waiting \in SUBSET Procs /\ Busy \in SUBSET Waiting /\ free \in SUBSET Slots /\ inflight \in SUBSET Slots
    BY InvTypes DEF Waiting, Busy, Types
  <1>2. A \in Nat /\ U \in Nat
    BY InvTypes, AheadType DEF A, U, Types
  <1>3. Cardinality(free) + 3 * Cardinality(Waiting) = NUM
    BY DEF IInv, CountInv
  <1>4. A + U + Cardinality(inflight) = Cardinality(Busy)
    BY DEF IInv, CountInv, A, U, Busy
  <1> QED
    BY <1>1, <1>2, <1>3, <1>4, Fits, SlotsFinite

(* Steps that concern no request.                                          *)
LEMMA SameRequests ==
    ASSUME IInv, Waiting' = Waiting, \A p \in Waiting : arg'[p] = arg[p],
           UNCHANGED <<bdisk, free, desc, ops, info, avail, avail_idx, used, used_hw, used_idx, seen, inflight, idx>>
    PROVE  ChainInv' /\ RingInv' /\ CountInv' /\ DescriptorsOwned' /\ UsedEntriesValid'
  <1>1. ChainInv'
    BY DEF IInv, ChainInv
  <1>2. RingInv'
    BY DEF IInv, RingInv, Pending, Ahead
  <1>3. CountInv'
    BY DEF IInv, CountInv, Ahead, Finished
  <1>4. DescriptorsOwned'
    BY DEF IInv, DescriptorsOwned, Chain
  <1>5. UsedEntriesValid'
    BY DEF IInv, UsedEntriesValid, Ahead
  <1> QED
    BY <1>1, <1>2, <1>3, <1>4, <1>5

-----------------------------------------------------------------------------
LEMMA InitInv == Init => IInv
  <1> SUFFICES ASSUME Init PROVE IInv
    OBVIOUS
  <1>1. Types
    <2>1. 0 \in Slots /\ 0 \in 0..IDX - 1
      BY DEF Slots
    <2>2. desc = [s \in Slots |-> NoDesc] /\ NoDesc.next = 0
      BY DEF Init, NoDesc
    <2>3. info \in [Slots -> [b : Procs \cup {NoBuf}, status : {0, 255}]]
      BY DEF Init
    <2>4. ops \in [Slots -> Requests \cup {NoReq}] /\ arg \in [Procs -> Requests \cup {NoReq}]
      BY DEF Init
    <2>5. avail \in [Slots -> Slots] /\ used \in [Slots -> Slots] /\ idx \in [Procs -> Slots \X Slots \X Slots]
      BY <2>1 DEF Init
    <2>6. DOMAIN desc = Slots /\ \A s \in Slots : desc[s].next \in Slots
      BY <2>1, <2>2
    <2>7. disk \in [Blocks -> Vals] /\ buf \in [Procs -> Vals \cup {NoData}] /\ bdisk \in [Procs -> {0, 1}]
      BY DEF Init
    <2>8. pc \in [Procs -> {"user", "alloc", "wait"}] /\ chan \in [Procs -> {"none", "free", "b"}]
      BY DEF Init
    <2>9. free \subseteq Slots /\ inflight \subseteq Slots /\ intr = "idle" /\ isr = FALSE /\ late = FALSE
      BY DEF Init
    <2>10. avail_idx = 0 /\ used_hw = 0 /\ used_idx = 0 /\ seen = 0
      BY DEF Init
    <2> QED
      BY <2>1, <2>3, <2>4, <2>5, <2>6, <2>7, <2>8, <2>9, <2>10 DEF Types
  <1>2. Waiting = {}
    BY DEF Init, Waiting
  <1>3. A = 0 /\ U = 0
    BY AheadType DEF Init, A, U
  <1>4. CountInv
    <2>1. {p \in Waiting : ~Finished(p)} = {} /\ inflight = {} /\ free = Slots
      BY <1>2 DEF Init
    <2> QED
      BY <1>2, <1>3, <2>1, FS_EmptySet, SlotsSize DEF CountInv, A, U
  <1>5. TypeOK
    <2>1. A + U + Cardinality(inflight) <= NUM \div 3
      BY <1>3, FS_EmptySet DEF Init
    <2> QED
      BY <1>1, <2>1, TypeParts
  <1>6. ProcInv /\ ChainInv /\ NoIdleDescriptors /\ NoLostCompletion
    BY <1>2 DEF Init, ProcInv, ChainInv, NoIdleDescriptors, NoLostCompletion, NoReq
  <1>7. RingInv /\ UsedEntriesValid
    <2>1. 0..A - 1 = {} /\ 0..U - 1 = {} /\ inflight = {}
      BY <1>3 DEF Init
    <2> QED
      BY <2>1 DEF RingInv, UsedEntriesValid, A, U
  <1>8. DescriptorsOwned
    BY <1>2 DEF DescriptorsOwned, Init
  <1> QED
    BY <1>4, <1>5, <1>6, <1>7, <1>8 DEF IInv

LEMMA CallInv ==
    ASSUME IInv, NEW p \in Procs, NEW r \in Requests, NEW v \in Vals, virtio_disk_rw(p, r, v)
    PROVE  IInv'
  <1> USE DEF virtio_disk_rw
  <1>0. Types
    BY InvTypes
  <1>1. pc[p] = "user" /\ pc'[p] = "alloc" /\ arg'[p] = r /\ r # NoReq /\ \A q \in Procs \ {p} : pc'[q] = pc[q] /\ arg'[q] = arg[q]
    BY <1>0, DiskAssumption DEF Types, Requests, NoReq
  <1>2. UNCHANGED <<disk, bdisk, free, desc, ops, info, avail, avail_idx, used, used_hw, used_idx, intr, isr,
                    seen, inflight, late, chan, idx>>
    OBVIOUS
  <1>3. Waiting' = Waiting /\ p \notin Waiting /\ \A q \in Waiting : arg'[q] = arg[q]
    BY <1>1 DEF Waiting
  <1>4. ChainInv' /\ RingInv' /\ CountInv' /\ DescriptorsOwned' /\ UsedEntriesValid'
    BY <1>2, <1>3, SameRequests
  <1>5. Types'
    BY <1>0, <1>2 DEF Types
  <1>6. ProcInv'
    <2>1. \A q \in Procs : arg'[q].kind = "write" => buf'[q] \in Vals
      <3>1. (r.kind = "write" => buf'[p] \in Vals) /\ \A q \in Procs \ {p} : buf'[q] = buf[q]
        BY <1>0 DEF Types
      <3> QED
        BY <1>1, <3>1 DEF IInv, ProcInv
    <2> QED
      BY <1>1, <1>2, <2>1 DEF IInv, ProcInv
  <1>7. NoIdleDescriptors' /\ NoLostCompletion'
    BY <1>2, <1>3 DEF IInv, NoIdleDescriptors, NoLostCompletion, Finished
  <1> QED
    BY <1>4, <1>5, <1>6, <1>7, NextTypes DEF IInv

(* Going to sleep, and being woken by kill().                              *)
LEMMA SleepInv ==
    ASSUME IInv, NEW p \in Procs, alloc_fails(p) \/ wait_again(p) \/ kill(p)
    PROVE  IInv'
  <1> USE DEF alloc_fails, wait_again, kill
  <1>0. Types
    BY InvTypes
  <1>1. UNCHANGED <<disk, buf, bdisk, free, desc, ops, info, avail, avail_idx, used, used_hw, used_idx, intr, isr,
                    seen, inflight, late, pc, idx, arg>>
    OBVIOUS
  <1>2. chan' \in [Procs -> {"none", "free", "b"}] /\ \A q \in Procs \ {p} : chan'[q] = chan[q] \/ chan'[q] = "none"
    <2> USE <1>0 DEF Types
    <2>1. CASE alloc_fails(p)
      <3> DEFINE woken == IF free = {} THEN chan ELSE WakeFree(chan)
      <3>1. woken \in [Procs -> {"none", "free", "b"}] /\ \A q \in Procs : woken[q] = chan[q] \/ woken[q] = "none"
        BY DEF WakeFree
      <3>2. chan' = [woken EXCEPT ![p] = "free"]
        BY <2>1
      <3> HIDE DEF woken
      <3> QED
        BY <3>1, <3>2
    <2>2. CASE wait_again(p)
      BY <2>2
    <2>3. CASE kill(p)
      BY <2>3
    <2> QED
      BY <2>1, <2>2, <2>3
  <1>3. \/ pc[p] = "alloc" /\ chan'[p] = "free" /\ Cardinality(free) < 3
        \/ pc[p] = "wait" /\ chan'[p] = "b" /\ ~Finished(p)
        \/ chan'[p] = "none"
    BY <1>0 DEF Types, WakeFree
  <1>4. Waiting' = Waiting
    BY <1>1 DEF Waiting
  <1>5. ChainInv' /\ RingInv' /\ CountInv' /\ DescriptorsOwned' /\ UsedEntriesValid'
    BY <1>1, <1>4, SameRequests
  <1>6. Types'
    BY <1>0, <1>1, <1>2 DEF Types
  <1>7. ProcInv'
    BY <1>1, <1>2, <1>3 DEF IInv, ProcInv
  <1>8. NoIdleDescriptors'
    <2>1. Cardinality(free) \in Nat
      BY Room
    <2> QED
      BY <1>1, <1>2, <1>3, <2>1 DEF IInv, NoIdleDescriptors
  <1>9. NoLostCompletion'
    <2>1. ASSUME NEW q \in Waiting, Finished(q) PROVE chan'[q] # "b"
      <3>1. q \in Procs /\ chan[q] # "b"
        BY <2>1 DEF IInv, NoLostCompletion, Waiting
      <3> QED
        BY <1>2, <1>3, <2>1, <3>1
    <2> QED
      BY <1>1, <1>4, <2>1 DEF IInv, NoLostCompletion, Finished
  <1> QED
    BY <1>5, <1>6, <1>7, <1>8, <1>9, NextTypes DEF IInv

(* The device's interrupt line, and the handler on its way in and out.     *)
LEMMA FlagInv ==
    ASSUME IInv, raise \/ intr_enter \/ intr_ack \/ intr_exit
    PROVE  IInv'
  <1> USE DEF raise, intr_enter, intr_ack, intr_exit
  <1>0. Types
    BY InvTypes
  <1>1. UNCHANGED <<disk, buf, bdisk, free, desc, ops, info, avail, avail_idx, used, used_hw, used_idx,
                    seen, inflight, pc, chan, idx, arg>>
    OBVIOUS
  <1>2. Waiting' = Waiting
    BY <1>1 DEF Waiting
  <1>3. ChainInv' /\ RingInv' /\ CountInv' /\ DescriptorsOwned' /\ UsedEntriesValid'
    BY <1>1, <1>2, SameRequests
  <1>4. Types'
    <2>1. intr' \in {"idle", "ack", "loop"} /\ isr' \in BOOLEAN /\ late' \in BOOLEAN
      BY <1>0 DEF Types
    <2> QED
      BY <1>0, <1>1, <2>1 DEF Types
  <1>5. ProcInv' /\ NoIdleDescriptors'
    BY <1>1 DEF IInv, ProcInv, NoIdleDescriptors
  <1>6. NoLostCompletion'
    <2>1. used_idx # used_hw => late' \/ isr' \/ intr' # "idle"
      BY DEF IInv, NoLostCompletion, Unlocked
    <2> QED
      BY <1>1, <1>2, <2>1 DEF IInv, NoLostCompletion, Finished
  <1> QED
    BY <1>3, <1>4, <1>5, <1>6, NextTypes DEF IInv

-----------------------------------------------------------------------------
(* The rings advance                                                       *)

LEMMA FetchInv ==
    ASSUME IInv, fetch
    PROVE  IInv'
  <1> DEFINE x == avail[seen % NUM]
  <1>0. Types
    BY InvTypes
  <1>1. UNCHANGED <<disk, buf, bdisk, free, desc, ops, info, avail_idx, used, used_hw, used_idx, intr, isr, late,
                    pc, chan, idx, arg>>
    BY DEF fetch
  <1>2. Waiting' = Waiting
    BY <1>1 DEF Waiting
  <1>3. A \in Nat /\ A <= NUM /\ U \in Nat /\ Cardinality(inflight) \in Nat
    BY Room
  <1>4. /\ avail' \in [Slots -> Slots] /\ seen' \in 0..IDX - 1
        /\ A > 0 /\ A' = A - 1
        /\ \A k \in 0..A - 2 : avail'[(seen' + k) % NUM] = avail[(seen + (k + 1)) % NUM]
    <2>1. avail_idx # seen /\ avail' = [avail EXCEPT ![seen % NUM] = 0] /\ seen' = (seen + 1) % IDX
      BY DEF fetch
    <2>2. avail \in [Slots -> Slots] /\ seen \in 0..IDX - 1 /\ avail_idx \in 0..IDX - 1 /\ Ahead(avail_idx, seen) <= NUM
      BY <1>0, <1>3 DEF Types, A
    <2> QED
      BY <1>1, <2>1, <2>2, RingPop DEF A
  <1>5. x = avail[(seen + 0) % NUM] /\ 0 \in 0..A - 1 /\ inflight' = inflight \cup {x}
    BY <1>0, <1>3, <1>4 DEF fetch, Types
  <1> HIDE DEF x
  <1>6. Pending(x) /\ x \notin inflight
    BY <1>5 DEF IInv, RingInv, A
  <1>7. x \in Slots
    <2>1. (seen + 0) % NUM \in Slots
      BY <1>0, DivMod DEF Types, Slots
    <2> QED
      BY <1>0, <1>5, <2>1 DEF Types
  <1>8. ASSUME NEW k \in 0..A' - 1
        PROVE  k + 1 \in 0..A - 1 /\ k + 1 # 0 /\ avail'[(seen' + k) % NUM] = avail[(seen + (k + 1)) % NUM]
    BY <1>3, <1>4, <1>8
  <1>9. Types'
    BY <1>0, <1>1, <1>4, <1>5, <1>7 DEF Types
  <1>10. \A i : Pending(i)' <=> Pending(i)
    BY <1>1, <1>2 DEF Pending
  <1>11. RingInv'
    <2>1. ASSUME NEW k \in 0..A' - 1
          PROVE  Pending(avail[(seen + k) % NUM])' /\ avail'[(seen' + k) % NUM] \notin inflight'
      <3>1. Pending(avail[(seen + (k + 1)) % NUM]) /\ avail[(seen + (k + 1)) % NUM] \notin inflight
        BY <1>8 DEF IInv, RingInv, A
      <3>2. avail[(seen + (k + 1)) % NUM] # x
        BY <1>5, <1>8 DEF IInv, RingInv, A
      <3>3. avail'[(seen' + k) % NUM] = avail[(seen + (k + 1)) % NUM]
        BY <1>8
      <3>4. avail'[(seen' + k) % NUM] \notin inflight'
        BY <1>5, <3>1, <3>2, <3>3
      <3>5. Pending(avail[(seen + k) % NUM])'
        <4> DEFINE y == avail'[(seen' + k) % NUM]
        <4>1. Pending(y)
          BY <3>1, <3>3
        <4>2. info'[y].status = 255 /\ info'[y].b \in Waiting' /\ bdisk'[info'[y].b] = 1 /\ idx'[info'[y].b][1] = y
          <5> HIDE DEF y
          <5> QED
            BY <1>1, <1>2, <4>1 DEF Pending
        <4> QED
          BY <4>2, Zenon DEF Pending
      <3> QED
        BY <3>4, <3>5
    <2>2. ASSUME NEW j \in 0..A' - 1, NEW k \in 0..A' - 1, avail'[(seen' + j) % NUM] = avail'[(seen' + k) % NUM]
          PROVE  j = k
      <3>1. j + 1 = k + 1
        BY <1>8, <2>2 DEF IInv, RingInv, A
      <3> QED
        BY <3>1
    <2>3. ASSUME NEW i \in inflight' PROVE Pending(i)'
      BY <1>5, <1>6, <1>10, <2>3 DEF IInv, RingInv
    <2>4. \A j, k \in 0..U' - 1 : used'[(used_idx' + j) % NUM] = used'[(used_idx' + k) % NUM] => j = k
      BY <1>1 DEF IInv, RingInv, U, Ahead
    <2> QED
      BY <2>1, <2>2, <2>3, <2>4 DEF RingInv, A, U
  <1>12. CountInv'
    <2>1. Cardinality(inflight') = Cardinality(inflight) + 1
      BY <1>0, <1>5, <1>6, SlotsFinite, FS_AddElement DEF Types
    <2>2. Busy' = Busy /\ U' = U
      BY <1>1, <1>2 DEF Busy, Finished, U, Ahead
    <2>3. A' + U' + Cardinality(inflight') = Cardinality(Busy')
      BY <1>3, <1>4, <2>1, <2>2, Room
    <2> QED
      BY <1>1, <1>2, <2>3 DEF IInv, CountInv, A, U, Busy
  <1>13. ChainInv' /\ DescriptorsOwned'
    <2>1. ChainInv'
      BY <1>1, <1>2, SMTT(30) DEF IInv, ChainInv, Chain
    <2>2. DescriptorsOwned'
      BY <1>1, <1>2, SMTT(30) DEF IInv, DescriptorsOwned, Chain
    <2> QED
      BY <2>1, <2>2
  <1>14. UsedEntriesValid'
    BY <1>1, <1>2 DEF IInv, UsedEntriesValid, Ahead
  <1>15. ProcInv' /\ NoIdleDescriptors' /\ NoLostCompletion'
    BY <1>1, <1>2 DEF IInv, ProcInv, NoIdleDescriptors, NoLostCompletion, Finished
  <1> QED
    BY <1>9, <1>11, <1>12, <1>13, <1>14, <1>15, NextTypes DEF IInv

LEMMA EntryInv ==
    ASSUME IInv, intr_entry
    PROVE  IInv'
  <1> DEFINE x == used[used_idx % NUM]
             b == info[x].b
  <1>0. Types
    BY InvTypes
  <1>1. UNCHANGED <<disk, buf, free, desc, ops, info, avail, avail_idx, used_hw, intr, isr, seen, inflight, late,
                    pc, idx, arg>>
    BY DEF intr_entry
  <1>2. Waiting' = Waiting
    BY <1>1 DEF Waiting
  <1>3. A \in Nat /\ U \in Nat /\ U <= NUM /\ Cardinality(inflight) \in Nat
    BY Room
  <1>4. /\ used' \in [Slots -> Slots] /\ used_idx' \in 0..IDX - 1
        /\ U > 0 /\ U' = U - 1
        /\ \A k \in 0..U - 2 : used'[(used_idx' + k) % NUM] = used[(used_idx + (k + 1)) % NUM]
    <2>1. used_idx # used_hw /\ used' = [used EXCEPT ![used_idx % NUM] = 0] /\ used_idx' = (used_idx + 1) % IDX
      BY DEF intr_entry
    <2>2. used \in [Slots -> Slots] /\ used_idx \in 0..IDX - 1 /\ used_hw \in 0..IDX - 1 /\ Ahead(used_hw, used_idx) <= NUM
      BY <1>0, <1>3 DEF Types, U
    <2> QED
      BY <1>1, <2>1, <2>2, RingPop DEF U
  <1>5. x = used[(used_idx + 0) % NUM] /\ 0 \in 0..U - 1 /\ b = info[x].b
    BY <1>0, <1>3, <1>4 DEF Types
  <1>6. info[x].status = 0 /\ b \in Waiting /\ bdisk[b] = 1 /\ idx[b][1] = x /\ b \in Procs
    BY <1>5 DEF IInv, UsedEntriesValid, U, Waiting
  <1>7. /\ bdisk' \in [Procs -> {0, 1}] /\ bdisk'[b] = 0 /\ \A q \in Procs \ {b} : bdisk'[q] = bdisk[q]
        /\ chan' \in [Procs -> {"none", "free", "b"}] /\ chan'[b] # "b"
        /\ \A q \in Procs : chan'[q] = chan[q] \/ (q = b /\ chan[q] = "b" /\ chan'[q] = "none")
    <2>1. bdisk' = [bdisk EXCEPT ![b] = 0] /\ chan' = [chan EXCEPT ![b] = IF @ = "b" THEN "none" ELSE @]
      BY DEF intr_entry
    <2> HIDE DEF x, b
    <2> QED
      BY <1>0, <1>6, <2>1 DEF Types
  <1> HIDE DEF x, b
  <1>8. ASSUME NEW k \in 0..U' - 1
        PROVE  k + 1 \in 0..U - 1 /\ k + 1 # 0 /\ used'[(used_idx' + k) % NUM] = used[(used_idx + (k + 1)) % NUM]
    BY <1>3, <1>4, <1>8
  <1>9. Types'
    BY <1>0, <1>1, <1>4, <1>7 DEF Types
  <1>10. ASSUME NEW i, Pending(i) PROVE Pending(i)'
    <2>1. info[i].b \in Procs \ {b}
      BY <1>6, <1>10 DEF Pending, Waiting
    <2> QED
      BY <1>1, <1>2, <1>7, <1>10, <2>1 DEF Pending
  <1>11. RingInv'
    <2>1. ASSUME NEW k \in 0..A' - 1
          PROVE  Pending(avail[(seen + k) % NUM])' /\ avail'[(seen' + k) % NUM] \notin inflight'
      <3>1. k \in 0..A - 1
        BY <1>1 DEF A, Ahead
      <3>2. Pending(avail[(seen + k) % NUM]) /\ avail[(seen + k) % NUM] \notin inflight
        BY <3>1 DEF IInv, RingInv, A
      <3>3. info[avail[(seen + k) % NUM]].b \in Procs \ {b}
        BY <1>6, <3>2 DEF Pending, Waiting
      <3>4. avail'[(seen' + k) % NUM] = avail[(seen + k) % NUM] /\ inflight' = inflight
        BY <1>1
      <3>5. bdisk'[info[avail[(seen + k) % NUM]].b] = bdisk[info[avail[(seen + k) % NUM]].b]
        BY <1>7, <3>3
      <3>6. Pending(avail[(seen + k) % NUM])'
        <4> DEFINE y == avail'[(seen' + k) % NUM]
        <4>1. Pending(y) /\ bdisk'[info[y].b] = bdisk[info[y].b]
          BY <3>2, <3>4, <3>5
        <4>2. info'[y].status = 255 /\ info'[y].b \in Waiting' /\ bdisk'[info'[y].b] = 1 /\ idx'[info'[y].b][1] = y
          <5> HIDE DEF y
          <5> QED
            BY <1>1, <1>2, <4>1 DEF Pending
        <4> QED
          BY <4>2, Zenon DEF Pending
      <3> QED
        BY <3>2, <3>4, <3>6
    <2>2. \A j, k \in 0..A' - 1 : avail'[(seen' + j) % NUM] = avail'[(seen' + k) % NUM] => j = k
      BY <1>1 DEF IInv, RingInv, A, Ahead
    <2>3. ASSUME NEW i \in inflight' PROVE Pending(i)'
      BY <1>1, <1>10 DEF IInv, RingInv
    <2>4. ASSUME NEW j \in 0..U' - 1, NEW k \in 0..U' - 1, used'[(used_idx' + j) % NUM] = used'[(used_idx' + k) % NUM]
          PROVE  j = k
      <3>1. j + 1 = k + 1
        BY <1>8, <2>4 DEF IInv, RingInv, U
      <3> QED
        BY <3>1
    <2> QED
      BY <2>1, <2>2, <2>3, <2>4 DEF RingInv, A, U
  <1>12. UsedEntriesValid'
    <2>1. ASSUME NEW k \in 0..U' - 1
          PROVE  LET i == used'[(used_idx' + k) % NUM] IN
                 /\ info'[i].status = 0
                 /\ info'[i].b \in Waiting' /\ bdisk'[info'[i].b] = 1 /\ idx'[info'[i].b][1] = i
      <3> DEFINE i == used[(used_idx + (k + 1)) % NUM]
      <3>1. info[i].status = 0 /\ info[i].b \in Waiting /\ bdisk[info[i].b] = 1 /\ idx[info[i].b][1] = i
        BY <1>8 DEF IInv, UsedEntriesValid, U
      <3>2. i # x
        BY <1>5, <1>8 DEF IInv, RingInv, U
      <3>3. i = used'[(used_idx' + k) % NUM]
        BY <1>8
      <3> HIDE DEF i
      <3>4. info[i].b \in Procs \ {b}
        BY <1>6, <3>1, <3>2 DEF Waiting
      <3>5. info'[i].status = 0 /\ info'[i].b \in Waiting' /\ bdisk'[info'[i].b] = 1 /\ idx'[info'[i].b][1] = i
        BY <1>1, <1>2, <1>7, <3>1, <3>4
      <3> QED
        BY <3>3, <3>5, Zenon
    <2> QED
      BY <2>1 DEF UsedEntriesValid, U
  <1>13. CountInv'
    <2>1. Busy' = Busy \ {b} /\ b \in Busy /\ Busy \in SUBSET Procs
      BY <1>2, <1>6, <1>7 DEF Busy, Finished, Waiting
    <2>2. Cardinality(Busy') = Cardinality(Busy) - 1
      BY <2>1, ProcsFinite, FS_RemoveElement
    <2>3. A' = A /\ inflight' = inflight
      BY <1>1 DEF A, Ahead
    <2>4. A' + U' + Cardinality(inflight') = Cardinality(Busy')
      BY <1>3, <1>4, <2>2, <2>3, Room
    <2> QED
      BY <1>1, <1>2, <2>4 DEF IInv, CountInv, A, U, Busy
  <1>14. ChainInv' /\ DescriptorsOwned'
    BY <1>1, <1>2 DEF IInv, ChainInv, DescriptorsOwned, Chain
  <1>15. ProcInv'
    BY <1>1, <1>6, <1>7 DEF IInv, ProcInv, Waiting
  <1>16. NoIdleDescriptors'
    BY <1>1, <1>7 DEF IInv, NoIdleDescriptors
  <1>17. NoLostCompletion'
    <2>1. ASSUME NEW q \in Waiting, bdisk'[q] = 0 PROVE chan'[q] # "b"
      BY <1>7, <2>1 DEF IInv, NoLostCompletion, Finished, Waiting
    <2>2. intr' # "idle"
      BY <1>1 DEF intr_entry
    <2> QED
      BY <1>2, <2>1, <2>2 DEF NoLostCompletion, Finished
  <1> QED
    BY <1>9, <1>11, <1>12, <1>13, <1>14, <1>15, <1>16, <1>17, NextTypes DEF IInv

(* What the device finds when it follows the chain of a pending request.   *)
LEMMA PendingChain ==
    ASSUME IInv, NEW i \in Slots, Pending(i)
    PROVE  LET p == info[i].b
               data == desc[desc[i].next]
           IN  /\ p \in Procs /\ pc[p] = "wait" /\ bdisk[p] = 1 /\ idx[p][1] = i
               /\ ops[i] = arg[p] /\ arg[p] \in Requests
               /\ Target(data.addr) = {p}
               /\ desc[data.next].addr[2] = i
               /\ arg[p].kind = "read" => "WRITE" \in data.flags
  <1> DEFINE p == info[i].b
             data == desc[desc[i].next]
  <1>1. p \in Waiting /\ p \in Procs /\ pc[p] = "wait" /\ bdisk[p] = 1 /\ idx[p][1] = i
    BY DEF Pending, Waiting
  <1> HIDE DEF p
  <1>2. /\ desc[i].next = idx[p][2] /\ desc[idx[p][2]].next = idx[p][3]
        /\ desc[idx[p][2]].addr = <<"buf", p>> /\ desc[idx[p][3]].addr = <<"status", i>>
        /\ arg[p].kind = "read" => "WRITE" \in desc[idx[p][2]].flags
        /\ ops[i] = arg[p]
    BY <1>1 DEF IInv, ChainInv
  <1>3. arg[p] \in Requests
    BY <1>1, InvTypes DEF IInv, ProcInv, Types
  <1>4. Target(data.addr) = {p}
    BY <1>1, <1>2 DEF Target
  <1>5. desc[data.next].addr[2] = i /\ (arg[p].kind = "read" => "WRITE" \in data.flags)
    BY <1>2
  <1>6. ops[i] = arg[p]
    BY <1>2
  <1> HIDE DEF data
  <1> QED
    BY <1>1, <1>3, <1>4, <1>5, <1>6 DEF p, data

LEMMA CompleteInv ==
    ASSUME IInv, NEW i \in Slots, complete(i)
    PROVE  IInv'
  <1>0. Types /\ i \in inflight /\ inflight' = inflight \ {i} /\ late'
    BY InvTypes DEF complete
  <1>1. Pending(i)
    BY <1>0 DEF IInv, RingInv
  <1>2. PICK p \in Procs : p = info[i].b /\ pc[p] = "wait" /\ bdisk[p] = 1 /\ idx[p][1] = i /\ ops[i] = arg[p]
                           /\ arg[p] \in Requests
    BY <1>1, PendingChain
  <1>3. UNCHANGED <<bdisk, free, desc, ops, avail, avail_idx, used_idx, intr, isr, seen, pc, chan, idx, arg>>
    BY DEF complete
  <1>4. Waiting' = Waiting /\ p \in Waiting
    BY <1>2, <1>3 DEF Waiting
  <1>5. info' = [info EXCEPT ![i].status = 0]
    BY <1>1, PendingChain DEF complete
  <1>6. /\ info' \in [Slots -> [b : Procs \cup {NoBuf}, status : {0, 255}]]
        /\ info'[i].status = 0 /\ info'[i].b = p
        /\ \A s \in Slots \ {i} : info'[s] = info[s]
    <2> DEFINE R == [b : Procs \cup {NoBuf}, status : {0, 255}]
               new == [info[i] EXCEPT !.status = 0]
    <2>1. info \in [Slots -> R] /\ info[i] \in R
      BY <1>0 DEF Types
    <2>2. new \in R /\ new.status = 0 /\ new.b = p
      BY <1>2, <2>1
    <2>3. info' = [info EXCEPT ![i] = new]
      BY <1>5, <2>1
    <2> HIDE DEF R, new
    <2>4. info' \in [Slots -> R] /\ info'[i] = new /\ \A s \in Slots \ {i} : info'[s] = info[s]
      BY <2>1, <2>2, <2>3
    <2> QED
      BY <2>2, <2>4 DEF R
  <1>7. IF arg[p].kind = "write" THEN disk' = [disk EXCEPT ![arg[p].sector] = buf[p]] /\ buf' = buf
                                 ELSE disk' = disk /\ buf' = [buf EXCEPT ![p] = disk[arg[p].sector]]
    <2>1. PICK q \in Target(desc[desc[i].next].addr) :
             IF ops[i].kind = "write" THEN disk' = [disk EXCEPT ![ops[i].sector] = buf[q]] /\ buf' = buf
                                      ELSE buf' = [buf EXCEPT ![q] = disk[ops[i].sector]] /\ disk' = disk
      BY DEF complete
    <2>2. Target(desc[desc[i].next].addr) = {p}
      BY <1>1, <1>2, PendingChain
    <2>3. q = p
      BY <2>2
    <2> QED
      BY <1>2, <2>1, <2>3
  <1>8. A \in Nat /\ U \in Nat /\ U + 1 < NUM /\ Cardinality(inflight) \in Nat /\ A + U + Cardinality(inflight) = Cardinality(Busy)
    <2>1. Cardinality(inflight) # 0
      BY <1>0, SlotsFinite, FS_EmptySet DEF Types
    <2> QED
      BY <2>1, Room
  <1>9. /\ used' \in [Slots -> Slots] /\ used_hw' \in 0..IDX - 1
        /\ U' = U + 1
        /\ used'[(used_idx + U) % NUM] = i
        /\ \A k \in 0..U - 1 : used'[(used_idx + k) % NUM] = used[(used_idx + k) % NUM]
    <2>1. used' = [used EXCEPT ![used_hw % NUM] = i] /\ used_hw' = (used_hw + 1) % IDX /\ used_idx' = used_idx
      BY DEF complete
    <2>2. used \in [Slots -> Slots] /\ used_idx \in 0..IDX - 1 /\ used_hw \in 0..IDX - 1
      BY <1>0 DEF Types
    <2>3. Ahead(used_hw, used_idx) + 1 < NUM
      BY <1>8 DEF U
    <2> QED
      BY <2>1, <2>2, <2>3, RingPush DEF U
  <1>10. Types'
    <2>1. disk' \in [Blocks -> Vals] /\ buf' \in [Procs -> Vals \cup {NoData}]
      <3>1. arg[p].sector \in Blocks /\ (arg[p].kind = "write" => buf[p] \in Vals)
        BY <1>2 DEF IInv, ProcInv, Requests
      <3>2. disk \in [Blocks -> Vals] /\ buf \in [Procs -> Vals \cup {NoData}]
        BY <1>0 DEF Types
      <3>3. CASE arg[p].kind = "write"
        BY <1>7, <3>1, <3>2, <3>3
      <3>4. CASE arg[p].kind # "write"
        BY <1>7, <3>1, <3>2, <3>4
      <3> QED
        BY <3>3, <3>4
    <2> QED
      BY <1>0, <1>3, <1>6, <1>9, <2>1 DEF Types
  <1>11. ASSUME NEW j \in Slots, Pending(j), j # i PROVE Pending(j)'
    BY <1>3, <1>4, <1>6, <1>11 DEF Pending
  <1>12. \A s \in Slots : info'[s].b = info[s].b /\ (info[s].status = 0 => info'[s].status = 0)
    BY <1>2, <1>6
  <1>13. ASSUME NEW k \in 0..U - 1
         PROVE  /\ used[(used_idx + k) % NUM] \in Slots
                /\ info[used[(used_idx + k) % NUM]].status = 0
                /\ used[(used_idx + k) % NUM] # i
    <2>1. (used_idx + k) % NUM \in Slots
      <3>1. used_idx + k \in Int
        BY <1>0, <1>8 DEF Types
      <3> QED
        BY <3>1, Place
    <2>2. info[used[(used_idx + k) % NUM]].status = 0
      BY DEF IInv, UsedEntriesValid, U
    <2> QED
      BY <1>0, <1>1, <2>1, <2>2 DEF Types, Pending
  <1>14. RingInv'
    <2>1. ASSUME NEW k \in 0..A' - 1
          PROVE  Pending(avail[(seen + k) % NUM])' /\ avail'[(seen' + k) % NUM] \notin inflight'
      <3> DEFINE j == avail[(seen + k) % NUM]
      <3>1. k \in 0..A - 1 /\ (seen + k) % NUM \in Slots
        <4>1. A' = A
          BY <1>3 DEF A, Ahead
        <4> QED
          <5>1. seen + k \in Int
            BY <1>0, <1>8, <4>1 DEF Types
          <5> QED
            BY <4>1, <5>1, Place
      <3>2. Pending(j) /\ j \notin inflight
        BY <3>1 DEF IInv, RingInv, A
      <3>3. j \in Slots /\ j # i
        BY <1>0, <3>1, <3>2 DEF Types
      <3>4. j = avail'[(seen' + k) % NUM]
        BY <1>3
      <3> HIDE DEF j
      <3>5. info'[j].status = 255 /\ info'[j].b \in Waiting' /\ bdisk'[info'[j].b] = 1 /\ idx'[info'[j].b][1] = j
        BY <1>3, <1>4, <1>6, <3>2, <3>3 DEF Pending
      <3> QED
        BY <1>0, <3>2, <3>4, <3>5, Zenon DEF Pending
    <2>2. \A j, k \in 0..A' - 1 : avail'[(seen' + j) % NUM] = avail'[(seen' + k) % NUM] => j = k
      BY <1>3 DEF IInv, RingInv, A, Ahead
    <2>3. ASSUME NEW j \in inflight' PROVE Pending(j)'
      BY <1>0, <1>11, <2>3 DEF IInv, RingInv, Types
    <2>4. ASSUME NEW j \in 0..U' - 1, NEW k \in 0..U' - 1, used'[(used_idx' + j) % NUM] = used'[(used_idx' + k) % NUM]
          PROVE  j = k
      <3>1. (j \in 0..U - 1 \/ j = U) /\ (k \in 0..U - 1 \/ k = U)
        BY <1>8, <1>9, <2>4
      <3> QED
        BY <1>3, <1>9, <1>13, <2>4, <3>1 DEF IInv, RingInv, U
    <2> QED
      BY <2>1, <2>2, <2>3, <2>4 DEF RingInv, A, U
  <1>15. UsedEntriesValid'
    <2>1. ASSUME NEW k \in 0..U' - 1
          PROVE  LET j == used'[(used_idx' + k) % NUM] IN
                 /\ info'[j].status = 0
                 /\ info'[j].b \in Waiting' /\ bdisk'[info'[j].b] = 1 /\ idx'[info'[j].b][1] = j
      <3> DEFINE j == used'[(used_idx' + k) % NUM]
      <3>1. CASE k = U
        <4>1. j = i
          BY <1>3, <1>9, <3>1
        <4> HIDE DEF j
        <4>2. info'[j].status = 0 /\ info'[j].b \in Waiting' /\ bdisk'[info'[j].b] = 1 /\ idx'[info'[j].b][1] = j
          BY <1>2, <1>3, <1>4, <1>6, <4>1
        <4> QED
          BY <4>2 DEF j
      <3>2. CASE k \in 0..U - 1
        <4>1. j = used[(used_idx + k) % NUM]
          BY <1>3, <1>9, <3>2
        <4>2. j \in Slots /\ j # i
          BY <1>13, <3>2, <4>1
        <4>3. info[j].status = 0 /\ info[j].b \in Waiting /\ bdisk[info[j].b] = 1 /\ idx[info[j].b][1] = j
          BY <3>2, <4>1 DEF IInv, UsedEntriesValid, U
        <4> HIDE DEF j
        <4>4. info'[j].status = 0 /\ info'[j].b \in Waiting' /\ bdisk'[info'[j].b] = 1 /\ idx'[info'[j].b][1] = j
          BY <1>3, <1>4, <1>6, <4>2, <4>3
        <4> QED
          BY <4>4 DEF j
      <3> QED
        BY <1>8, <1>9, <3>1, <3>2, SMTT(30)
    <2> QED
      BY <2>1 DEF UsedEntriesValid, U
  <1>16. CountInv'
    <2>1. Cardinality(inflight') = Cardinality(inflight) - 1
      BY <1>0, SlotsFinite, FS_RemoveElement DEF Types
    <2>2. Busy' = Busy /\ A' = A
      BY <1>3, <1>4 DEF Busy, Finished, A, Ahead
    <2>3. A' + U' + Cardinality(inflight') = Cardinality(Busy')
      BY <1>8, <1>9, <2>1, <2>2
    <2> QED
      BY <1>3, <1>4, <2>3 DEF IInv, CountInv, A, U, Busy
  <1>17. DescriptorsOwned' /\ NoIdleDescriptors'
    BY <1>3, <1>4 DEF IInv, DescriptorsOwned, Chain, NoIdleDescriptors
  <1>18. ASSUME NEW q \in Procs PROVE idx[q][1] \in Slots
    BY <1>0 DEF Types
  <1>19. ChainInv'
    BY <1>3, <1>4, <1>12, <1>18 DEF IInv, ChainInv, Waiting
  <1>20. ProcInv'
    <2>1. ASSUME NEW q \in Procs, arg[q].kind = "write" PROVE buf'[q] \in Vals
      BY <1>0, <1>7, <2>1 DEF IInv, ProcInv, Types
    <2>2. ASSUME NEW q \in Procs, pc[q] = "wait", bdisk[q] = 0 PROVE info'[idx[q][1]].status = 0
      BY <1>12, <1>18, <2>2 DEF IInv, ProcInv
    <2> QED
      BY <1>3, <2>1, <2>2 DEF IInv, ProcInv
  <1>21. NoLostCompletion'
    BY <1>0, <1>3, <1>4 DEF IInv, NoLostCompletion, Finished
  <1> QED
    BY <1>10, <1>14, <1>15, <1>16, <1>17, <1>19, <1>20, <1>21, NextTypes DEF IInv

-----------------------------------------------------------------------------
(* A request begins and ends                                               *)

LEMMA SubmitInv ==
    ASSUME IInv, NEW p \in Procs, submit(p)
    PROVE  IInv'
  <1>0. Types
    BY InvTypes
  <1>1. PICK a \in Slots, b \in Slots, c \in Slots :
            /\ alloc3_desc = <<a, b, c>>
            /\ a \in free /\ b \in free /\ c \in free /\ a # b /\ a # c /\ b # c
    <2>1. free \subseteq Slots /\ Cardinality(free) >= 3
      BY <1>0 DEF Types, submit
    <2>2. alloc3_desc \in Slots \X Slots \X Slots
      BY <2>1, Alloc3
    <2>3. alloc3_desc = <<alloc3_desc[1], alloc3_desc[2], alloc3_desc[3]>>
      BY <2>2
    <2> QED
      BY <2>1, <2>2, <2>3, Alloc3
  <1>2. /\ pc[p] = "alloc" /\ Cardinality(free) >= 3
        /\ idx' = [idx EXCEPT ![p] = <<a, b, c>>] /\ free' = free \ {a, b, c}
        /\ ops' = [ops EXCEPT ![a] = arg[p]]
        /\ desc' = [desc EXCEPT
              ![a] = [addr |-> <<"op", a>>, next |-> b, flags |-> {"NEXT"}],
              ![b] = [addr |-> <<"buf", p>>, next |-> c,
                      flags |-> IF arg[p].kind = "write" THEN {"NEXT"} ELSE {"NEXT", "WRITE"}],
              ![c] = [addr |-> <<"status", a>>, next |-> 0, flags |-> {"WRITE"}]]
        /\ info' = [info EXCEPT ![a] = [b |-> p, status |-> 255]]
        /\ bdisk' = [bdisk EXCEPT ![p] = 1]
        /\ avail' = [avail EXCEPT ![avail_idx % NUM] = a] /\ avail_idx' = (avail_idx + 1) % IDX
        /\ pc' = [pc EXCEPT ![p] = "wait"] /\ chan' = [chan EXCEPT ![p] = "b"]
    BY <1>1 DEF submit
  <1>3. UNCHANGED <<disk, buf, used, used_hw, used_idx, intr, isr, seen, inflight, late, arg>>
    BY DEF submit
  <1>4. /\ DOMAIN desc' = Slots
        /\ desc'[a].next = b /\ "NEXT" \in desc'[a].flags
        /\ desc'[b].next = c /\ "NEXT" \in desc'[b].flags /\ desc'[b].addr = <<"buf", p>>
        /\ arg[p].kind = "read" => "WRITE" \in desc'[b].flags
        /\ desc'[c].next = 0 /\ desc'[c].addr = <<"status", a>> /\ "NEXT" \notin desc'[c].flags
        /\ \A s \in Slots \ {a, b, c} : desc'[s] = desc[s]
    <2>1. DOMAIN desc = Slots
      BY <1>0 DEF Types
    <2>2. desc'[a] = [addr |-> <<"op", a>>, next |-> b, flags |-> {"NEXT"}]
      BY <1>1, <1>2, <2>1
    <2>3. desc'[b] = [addr |-> <<"buf", p>>, next |-> c,
                      flags |-> IF arg[p].kind = "write" THEN {"NEXT"} ELSE {"NEXT", "WRITE"}]
      BY <1>1, <1>2, <2>1
    <2>4. desc'[c] = [addr |-> <<"status", a>>, next |-> 0, flags |-> {"WRITE"}]
      BY <1>1, <1>2, <2>1
    <2>5. DOMAIN desc' = Slots /\ \A s \in Slots \ {a, b, c} : desc'[s] = desc[s]
      BY <1>1, <1>2, <2>1
    <2> QED
      BY <2>2, <2>3, <2>4, <2>5
  <1>5. /\ pc' \in [Procs -> {"user", "alloc", "wait"}] /\ pc'[p] = "wait"
        /\ chan' \in [Procs -> {"none", "free", "b"}] /\ chan'[p] = "b"
        /\ bdisk' \in [Procs -> {0, 1}] /\ bdisk'[p] = 1
        /\ idx' \in [Procs -> Slots \X Slots \X Slots]
        /\ idx'[p][1] = a /\ idx'[p][2] = b /\ idx'[p][3] = c
        /\ \A q \in Procs \ {p} : pc'[q] = pc[q] /\ chan'[q] = chan[q] /\ bdisk'[q] = bdisk[q] /\ idx'[q] = idx[q]
    BY <1>0, <1>1, <1>2 DEF Types
  <1>6. /\ ops' \in [Slots -> Requests \cup {NoReq}] /\ ops'[a] = arg[p]
        /\ info' \in [Slots -> [b : Procs \cup {NoBuf}, status : {0, 255}]]
        /\ info'[a].b = p /\ info'[a].status = 255
        /\ \A s \in Slots \ {a} : info'[s] = info[s] /\ ops'[s] = ops[s]
    BY <1>0, <1>2 DEF Types
  <1>7. Waiting' = Waiting \cup {p} /\ p \notin Waiting /\ Waiting \in SUBSET Procs /\ \A q \in Waiting : q \in Procs \ {p}
    BY <1>2, <1>5 DEF Waiting
  <1>8. ASSUME NEW q \in Waiting
        PROVE  /\ idx[q][1] \in Slots \ {a, b, c} /\ idx[q][2] \in Slots \ {a, b, c} /\ idx[q][3] \in Slots \ {a, b, c}
               /\ idx'[q] = idx[q] /\ bdisk'[q] = bdisk[q] /\ q \in Waiting'
    <2>1. a \notin Chain(q) /\ b \notin Chain(q) /\ c \notin Chain(q)
      BY <1>1 DEF IInv, DescriptorsOwned
    <2> QED
      BY <1>0, <1>5, <1>7, <2>1 DEF Types, Chain
  <1>9. /\ A \in Nat /\ A + 1 < NUM /\ U \in Nat /\ Cardinality(inflight) \in Nat
        /\ Cardinality(free) \in Nat /\ Cardinality(Waiting) \in Nat /\ Cardinality(Busy) \in Nat
        /\ A + U + Cardinality(inflight) = Cardinality(Busy)
        /\ Cardinality(free) + 3 * Cardinality(Waiting) = NUM
    BY <1>2, Room
  <1>10. /\ avail' \in [Slots -> Slots] /\ avail_idx' \in 0..IDX - 1
         /\ A' = A + 1
         /\ avail'[(seen + A) % NUM] = a
         /\ \A k \in 0..A - 1 : avail'[(seen + k) % NUM] = avail[(seen + k) % NUM]
    <2>1. avail \in [Slots -> Slots] /\ avail_idx \in 0..IDX - 1 /\ seen \in 0..IDX - 1
      BY <1>0 DEF Types
    <2>2. Ahead(avail_idx, seen) + 1 < NUM
      BY <1>9 DEF A
    <2>3. avail' = [avail EXCEPT ![avail_idx % NUM] = a] /\ avail_idx' = (avail_idx + 1) % IDX /\ seen' = seen
      BY <1>2, <1>3
    <2> QED
      BY <2>1, <2>2, <2>3, RingPush DEF A
  <1>11. Types'
    <2>1. \A s \in Slots : desc'[s].next \in Slots
      <3>1. 0 \in Slots
        BY DEF Slots
      <3> QED
        BY <1>0, <1>4, <3>1, ZenonT(60) DEF Types
    <2>2. free' \subseteq Slots
      BY <1>0, <1>2 DEF Types
    <2> QED
      BY <1>0, <1>3, <1>4, <1>5, <1>6, <1>10, <2>1, <2>2 DEF Types
  <1>12. ASSUME NEW j \in Slots, Pending(j)
         PROVE  /\ j # a
                /\ info'[j].status = 255
                /\ info'[j].b \in Waiting' /\ bdisk'[info'[j].b] = 1 /\ idx'[info'[j].b][1] = j
    <2>1. info[j].b \in Waiting /\ idx[info[j].b][1] = j /\ bdisk[info[j].b] = 1 /\ info[j].status = 255
      BY <1>12 DEF Pending
    <2>2. j # a
      BY <1>8, <2>1
    <2> QED
      BY <1>6, <1>8, <2>1, <2>2
  <1>13. ASSUME NEW k \in 0..A - 1
         PROVE  avail[(seen + k) % NUM] \in Slots /\ Pending(avail[(seen + k) % NUM])
                /\ avail[(seen + k) % NUM] \notin inflight
    <2>1. seen + k \in Int
      BY <1>0, <1>9 DEF Types
    <2>2. (seen + k) % NUM \in Slots
      BY <2>1, Place
    <2>3. Pending(avail[(seen + k) % NUM]) /\ avail[(seen + k) % NUM] \notin inflight
      BY DEF IInv, RingInv, A
    <2> QED
      BY <1>0, <2>2, <2>3 DEF Types
  <1>14. RingInv'
    <2>1. ASSUME NEW k \in 0..A' - 1
          PROVE  Pending(avail[(seen + k) % NUM])' /\ avail'[(seen' + k) % NUM] \notin inflight'
      <3> DEFINE j == avail'[(seen' + k) % NUM]
      <3>1. /\ info'[j].status = 255 /\ info'[j].b \in Waiting' /\ bdisk'[info'[j].b] = 1 /\ idx'[info'[j].b][1] = j
            /\ j \notin inflight'
        <4>1. CASE k = A
          <5>1. j = a
            BY <1>3, <1>10, <4>1
          <5>2. a \notin inflight
            BY <1>12 DEF IInv, RingInv
          <5> HIDE DEF j
          <5> QED
            BY <1>3, <1>5, <1>6, <1>7, <5>1, <5>2
        <4>2. CASE k \in 0..A - 1
          <5>1. j = avail[(seen + k) % NUM]
            BY <1>3, <1>10, <4>2
          <5>2. j \in Slots /\ Pending(j) /\ j \notin inflight
            BY <1>13, <4>2, <5>1
          <5> HIDE DEF j
          <5> QED
            BY <1>3, <1>12, <5>2
        <4> QED
          BY <1>9, <1>10, <4>1, <4>2
      <3> QED
        BY <3>1, Zenon DEF Pending, j
    <2>2. ASSUME NEW j \in 0..A' - 1, NEW k \in 0..A' - 1, avail'[(seen' + j) % NUM] = avail'[(seen' + k) % NUM]
          PROVE  j = k
      <3>1. (j \in 0..A - 1 \/ j = A) /\ (k \in 0..A - 1 \/ k = A)
        BY <1>9, <1>10, <2>2
      <3>2. \A m \in 0..A - 1 : avail[(seen + m) % NUM] # a
        BY <1>12, <1>13
      <3> QED
        BY <1>3, <1>10, <2>2, <3>1, <3>2 DEF IInv, RingInv, A
    <2>3. ASSUME NEW j \in inflight' PROVE Pending(j)'
      <3>1. j \in Slots /\ Pending(j)
        BY <1>0, <1>3, <2>3 DEF Types, IInv, RingInv
      <3> QED
        BY <1>12, <3>1 DEF Pending
    <2>4. \A j, k \in 0..U' - 1 : used'[(used_idx' + j) % NUM] = used'[(used_idx' + k) % NUM] => j = k
      BY <1>3 DEF IInv, RingInv, U, Ahead
    <2> QED
      BY <2>1, <2>2, <2>3, <2>4 DEF RingInv, A, U
  <1>15. UsedEntriesValid'
    <2>1. ASSUME NEW k \in 0..U' - 1
          PROVE  LET j == used'[(used_idx' + k) % NUM] IN
                 /\ info'[j].status = 0
                 /\ info'[j].b \in Waiting' /\ bdisk'[info'[j].b] = 1 /\ idx'[info'[j].b][1] = j
      <3> DEFINE j == used'[(used_idx' + k) % NUM]
      <3>1. k \in 0..U - 1 /\ j = used[(used_idx + k) % NUM]
        BY <1>3 DEF U, Ahead
      <3>2. info[j].status = 0 /\ info[j].b \in Waiting /\ bdisk[info[j].b] = 1 /\ idx[info[j].b][1] = j
        BY <3>1 DEF IInv, UsedEntriesValid, U
      <3> HIDE DEF j
      <3>3. j \in Slots /\ j # a
        BY <1>8, <3>2
      <3>4. info'[j].status = 0 /\ info'[j].b \in Waiting' /\ bdisk'[info'[j].b] = 1 /\ idx'[info'[j].b][1] = j
        BY <1>6, <1>8, <3>2, <3>3
      <3> QED
        BY <3>4 DEF j
    <2> QED
      BY <2>1 DEF UsedEntriesValid, U
  <1>16. Cardinality(free') = Cardinality(free) - 3
    <2>1. free \in SUBSET Slots /\ free' = free \ {a, b, c}
      BY <1>0, <1>2 DEF Types
    <2> QED
      BY <1>1, <2>1, RemoveThree
  <1>17. CountInv'
    <2>1. Busy' = Busy \cup {p} /\ p \notin Busy
      BY <1>5, <1>7, <1>8 DEF Busy, Finished
    <2>2. Cardinality(Busy') = Cardinality(Busy) + 1
      BY <1>7, <2>1, ProcsFinite, FS_AddElement DEF Busy
    <2>3. Cardinality(Waiting') = Cardinality(Waiting) + 1
      BY <1>7, ProcsFinite, FS_AddElement
    <2>4. U' = U /\ inflight' = inflight
      BY <1>3 DEF U, Ahead
    <2>5. A' + U' + Cardinality(inflight') = Cardinality(Busy')
      BY <1>9, <1>10, <2>2, <2>4
    <2>6. Cardinality(free') + 3 * Cardinality(Waiting') = NUM
      BY <1>9, <1>16, <2>3
    <2> QED
      BY <2>5, <2>6 DEF CountInv, A, U, Busy
  <1>18. ASSUME NEW q \in Waiting' PROVE q = p \/ q \in Waiting
    BY <1>7, <1>18
  <1>19. DescriptorsOwned'
    <2>1. Chain(p)' = {a, b, c}
      BY <1>5 DEF Chain
    <2>2. ASSUME NEW q \in Waiting PROVE Chain(q)' = Chain(q) /\ Chain(q) \cap {a, b, c} = {}
      BY <1>8 DEF Chain
    <2>3. free' = (Slots \ UNION {Chain(q) : q \in Waiting})'
      <3>1. ASSUME NEW s \in Slots
            PROVE  (s \in free') <=> ~ \E q \in Waiting' : s \in Chain(q)'
        <4>1. (s \in free) <=> ~ \E q \in Waiting : s \in Chain(q)
          BY DEF IInv, DescriptorsOwned
        <4> QED
          BY <1>2, <1>7, <2>1, <2>2, <4>1
      <3>2. free' \subseteq Slots
        BY <1>11 DEF Types
      <3> QED
        BY <3>1, <3>2
    <2>4. ASSUME NEW q \in Waiting', NEW r \in Waiting', Chain(q)' \cap Chain(r)' # {} PROVE q = r
      BY <1>18, <2>1, <2>2, <2>4 DEF IInv, DescriptorsOwned
    <2>5. ASSUME NEW q \in Waiting' PROVE Cardinality(Chain(q)') = 3
      <3>1. Cardinality({a, b, c}) = 3
        <4>1. {a, b, c} \in SUBSET Slots /\ {a, b, c} \ {a, b, c} = {}
          OBVIOUS
        <4>2. Cardinality({a, b, c} \ {a, b, c}) = Cardinality({a, b, c}) - 3
          BY <1>1, <4>1, RemoveThree
        <4>3. Cardinality({a, b, c}) \in Nat
          BY <4>1, SlotsFinite
        <4> QED
          BY <4>1, <4>2, <4>3, FS_EmptySet
      <3> QED
        BY <1>18, <2>1, <2>2, <3>1 DEF IInv, DescriptorsOwned
    <2> QED
      BY <2>3, <2>4, <2>5 DEF DescriptorsOwned
  <1>20. ChainInv'
    <2>1. ASSUME NEW q \in Waiting'
          PROVE  /\ desc'[idx'[q][1]].next = idx'[q][2] /\ "NEXT" \in desc'[idx'[q][1]].flags
                 /\ desc'[idx'[q][2]].next = idx'[q][3] /\ "NEXT" \in desc'[idx'[q][2]].flags
                 /\ desc'[idx'[q][2]].addr = <<"buf", q>>
                 /\ arg'[q].kind = "read" => "WRITE" \in desc'[idx'[q][2]].flags
                 /\ desc'[idx'[q][3]].addr = <<"status", idx'[q][1]>> /\ "NEXT" \notin desc'[idx'[q][3]].flags
                 /\ ops'[idx'[q][1]] = arg'[q] /\ info'[idx'[q][1]].b = q
      <3>1. CASE q = p
        BY <1>3, <1>4, <1>5, <1>6, <3>1
      <3>2. CASE q \in Waiting
        <4>1. /\ desc[idx[q][1]].next = idx[q][2] /\ "NEXT" \in desc[idx[q][1]].flags
              /\ desc[idx[q][2]].next = idx[q][3] /\ "NEXT" \in desc[idx[q][2]].flags
              /\ desc[idx[q][2]].addr = <<"buf", q>>
              /\ arg[q].kind = "read" => "WRITE" \in desc[idx[q][2]].flags
              /\ desc[idx[q][3]].addr = <<"status", idx[q][1]>> /\ "NEXT" \notin desc[idx[q][3]].flags
              /\ ops[idx[q][1]] = arg[q] /\ info[idx[q][1]].b = q
          BY <3>2 DEF IInv, ChainInv
        <4>2. /\ desc'[idx[q][1]] = desc[idx[q][1]] /\ desc'[idx[q][2]] = desc[idx[q][2]]
              /\ desc'[idx[q][3]] = desc[idx[q][3]] /\ ops'[idx[q][1]] = ops[idx[q][1]]
              /\ info'[idx[q][1]] = info[idx[q][1]] /\ idx'[q] = idx[q] /\ arg' = arg
          BY <1>3, <1>4, <1>6, <1>8, <3>2
        <4> QED
          BY <4>1, <4>2, Zenon
      <3> QED
        BY <1>18, <3>1, <3>2
    <2> QED
      BY <2>1 DEF ChainInv
  <1>21. ProcInv'
    <2>1. arg[p] # NoReq
      BY <1>2 DEF IInv, ProcInv
    <2>2. ASSUME NEW q \in Procs, pc'[q] = "wait", bdisk'[q] = 0 PROVE info'[idx'[q][1]].status = 0
      <3>1. q \in Waiting
        BY <1>5, <2>2 DEF Waiting
      <3>2. q # p /\ pc[q] = "wait" /\ bdisk[q] = 0
        BY <1>5, <2>2, <3>1 DEF Waiting
      <3>3. info[idx[q][1]].status = 0
        BY <3>2 DEF IInv, ProcInv
      <3>4. info'[idx[q][1]] = info[idx[q][1]] /\ idx'[q] = idx[q]
        BY <1>6, <1>8, <3>1, <3>2
      <3> QED
        BY <3>3, <3>4
    <2>3. ASSUME NEW q \in Procs
          PROVE  /\ pc'[q] = "user" => chan'[q] = "none"
                 /\ pc'[q] = "alloc" => chan'[q] # "b"
                 /\ pc'[q] = "wait" => chan'[q] # "free"
                 /\ pc'[q] = "user" <=> arg'[q] = NoReq
                 /\ pc'[q] # "wait" => bdisk'[q] = 0
                 /\ arg'[q].kind = "write" => buf'[q] \in Vals
      <3>1. CASE q = p
        BY <1>3, <1>5, <2>1, <3>1 DEF IInv, ProcInv
      <3>2. CASE q # p
        BY <1>3, <1>5, <3>2 DEF IInv, ProcInv
      <3> QED
        BY <3>1, <3>2
    <2> QED
      BY <2>2, <2>3 DEF ProcInv
  <1>22. NoIdleDescriptors'
    BY <1>2, <1>5, <1>9, <1>16 DEF IInv, NoIdleDescriptors
  <1>23. NoLostCompletion'
    <2>1. ASSUME NEW q \in Waiting', bdisk'[q] = 0 PROVE chan'[q] # "b"
      BY <1>5, <1>7, <1>18, <2>1 DEF IInv, NoLostCompletion, Finished
    <2> QED
      BY <1>3, <2>1 DEF IInv, NoLostCompletion, Finished
  <1> QED
    BY <1>11, <1>14, <1>15, <1>17, <1>19, <1>20, <1>21, <1>22, <1>23, NextTypes DEF IInv

LEMMA FinishInv ==
    ASSUME IInv, NEW p \in Procs, finish(p)
    PROVE  IInv'
  <1>0. Types /\ pc[p] = "wait" /\ bdisk[p] = 0
    BY InvTypes DEF finish, Finished
  <1>1. p \in Waiting
    BY <1>0 DEF Waiting
  <1>2. PICK a \in Slots, b \in Slots, c \in Slots :
            idx[p][1] = a /\ idx[p][2] = b /\ idx[p][3] = c /\ a # b /\ a # c /\ b # c
    <2>1. idx[p][1] \in Slots /\ idx[p][2] \in Slots /\ idx[p][3] \in Slots
      BY <1>0 DEF Types
    <2>2. ASSUME NEW s \in Slots, NEW t \in Slots PROVE Cardinality({s, t}) <= 2 /\ Cardinality({s, t}) \in Nat
      <3>1. IsFiniteSet({s}) /\ Cardinality({s}) = 1
        BY FS_Singleton
      <3>2. Cardinality({s} \cup {t}) = IF t \in {s} THEN Cardinality({s}) ELSE Cardinality({s}) + 1
        BY <3>1, FS_AddElement
      <3>3. {s} \cup {t} = {s, t}
        OBVIOUS
      <3> QED
        BY <3>1, <3>2, <3>3
    <2>3. Cardinality(Chain(p)) = 3
      BY <1>1 DEF IInv, DescriptorsOwned
    <2>4. Chain(p) = {idx[p][1], idx[p][2], idx[p][3]}
      BY DEF Chain
    <2>5. \A s, t \in Slots : Chain(p) # {s, t}
      BY <2>2, <2>3
    <2>6. idx[p][1] # idx[p][2] /\ idx[p][1] # idx[p][3] /\ idx[p][2] # idx[p][3]
      BY <2>1, <2>4, <2>5
    <2> QED
      BY <2>1, <2>6
  <1>3. free_chain(idx[p][1]) = {a, b, c} /\ Chain(p) = {a, b, c}
    <2>1. /\ desc[a].next = b /\ "NEXT" \in desc[a].flags
          /\ desc[b].next = c /\ "NEXT" \in desc[b].flags
      BY <1>1, <1>2 DEF IInv, ChainInv
    <2>2. {t \in {a} : "NEXT" \in desc[t].flags} = {a}
      BY <2>1
    <2>3. {desc[s].next : s \in {a}} = {b}
      BY <2>1
    <2>4. {t \in {b} : "NEXT" \in desc[t].flags} = {b}
      BY <2>1
    <2>5. {desc[s].next : s \in {b}} = {c}
      BY <2>1
    <2>6. free_chain(a) = {a} \cup {b} \cup {c}
      BY <2>2, <2>3, <2>4, <2>5 DEF free_chain
    <2> QED
      BY <1>2, <2>6 DEF Chain
  <1>4. /\ info' = [info EXCEPT ![a].b = NoBuf]
        /\ free' = free \cup {a, b, c}
        /\ desc' = [s \in Slots |-> IF s \in {a, b, c} THEN NoDesc ELSE desc[s]]
        /\ ops' = [ops EXCEPT ![a] = NoReq]
        /\ chan' = WakeFree(chan)
        /\ pc' = [pc EXCEPT ![p] = "user"] /\ idx' = [idx EXCEPT ![p] = <<0, 0, 0>>]
        /\ arg' = [arg EXCEPT ![p] = NoReq] /\ buf' = [buf EXCEPT ![p] = NoData]
        /\ chan[p] = "none"
    BY <1>2, <1>3 DEF finish
  <1>5. UNCHANGED <<disk, bdisk, avail, avail_idx, used, used_hw, used_idx, intr, isr, seen, inflight, late>>
    BY DEF finish
  <1>6. /\ pc' \in [Procs -> {"user", "alloc", "wait"}] /\ pc'[p] = "user"
        /\ arg' \in [Procs -> Requests \cup {NoReq}] /\ arg'[p] = NoReq
        /\ buf' \in [Procs -> Vals \cup {NoData}]
        /\ \A q \in Procs \ {p} : pc'[q] = pc[q] /\ arg'[q] = arg[q] /\ buf'[q] = buf[q] /\ idx'[q] = idx[q]
    BY <1>0, <1>4 DEF Types
  <1>7. /\ chan' \in [Procs -> {"none", "free", "b"}] /\ chan'[p] = "none"
        /\ \A q \in Procs : chan'[q] # "free" /\ (chan'[q] = "none" \/ chan'[q] = chan[q])
    BY <1>0, <1>4 DEF Types, WakeFree
  <1>8. idx' \in [Procs -> Slots \X Slots \X Slots]
    <2>1. 0 \in Slots
      BY DEF Slots
    <2> QED
      BY <1>0, <1>4, <2>1 DEF Types
  <1>9. /\ ops' \in [Slots -> Requests \cup {NoReq}]
        /\ info' \in [Slots -> [b : Procs \cup {NoBuf}, status : {0, 255}]]
        /\ \A s \in Slots \ {a} : info'[s] = info[s] /\ ops'[s] = ops[s]
    <2>1. info \in [Slots -> [b : Procs \cup {NoBuf}, status : {0, 255}]] /\ ops \in [Slots -> Requests \cup {NoReq}]
      BY <1>0 DEF Types
    <2>2. info' \in [Slots -> [b : Procs \cup {NoBuf}, status : {0, 255}]] /\ \A s \in Slots \ {a} : info'[s] = info[s]
      BY <1>4, <2>1
    <2>3. ops' \in [Slots -> Requests \cup {NoReq}] /\ \A s \in Slots \ {a} : ops'[s] = ops[s]
      BY <1>4, <2>1
    <2> QED
      BY <2>2, <2>3
  <1>10. DOMAIN desc' = Slots /\ \A s \in Slots \ {a, b, c} : desc'[s] = desc[s]
    BY <1>4
  <1>11. Waiting' = Waiting \ {p} /\ \A q \in Waiting' : q \in Waiting /\ q # p /\ q \in Procs
    BY <1>6 DEF Waiting
  <1>12. ASSUME NEW q \in Waiting, q # p
         PROVE  /\ idx[q][1] \in Slots \ {a, b, c} /\ idx[q][2] \in Slots \ {a, b, c} /\ idx[q][3] \in Slots \ {a, b, c}
                /\ idx'[q] = idx[q] /\ q \in Waiting' /\ q \in Procs
    <2>1. Chain(q) \cap {a, b, c} = {}
      BY <1>1, <1>3, <1>12 DEF IInv, DescriptorsOwned
    <2> QED
      BY <1>0, <1>6, <1>11, <1>12, <2>1 DEF Types, Chain, Waiting
  <1>13. Types'
    <2>1. \A s \in Slots : desc'[s].next \in Slots
      <3>1. NoDesc.next \in Slots
        BY DEF Slots, NoDesc
      <3> QED
        BY <1>0, <1>4, <3>1 DEF Types
    <2>2. free' \subseteq Slots
      BY <1>0, <1>4 DEF Types
    <2> QED
      BY <1>0, <1>5, <1>6, <1>7, <1>8, <1>9, <1>10, <2>1, <2>2 DEF Types
  <1>14. ASSUME NEW j, info[j].b \in Waiting, bdisk[info[j].b] = 1, idx[info[j].b][1] = j
         PROVE  /\ info'[j] = info[j]
                /\ info'[j].b \in Waiting' /\ bdisk'[info'[j].b] = 1 /\ idx'[info'[j].b][1] = j
    <2>1. info[j].b # p
      BY <1>0, <1>14
    <2>2. j \in Slots \ {a}
      BY <1>12, <1>14, <2>1
    <2>3. info'[j] = info[j]
      BY <1>9, <2>2
    <2> QED
      BY <1>5, <1>12, <1>14, <2>1, <2>3
  <1>15. RingInv'
    <2>1. ASSUME NEW k \in 0..A' - 1
          PROVE  Pending(avail[(seen + k) % NUM])' /\ avail'[(seen' + k) % NUM] \notin inflight'
      <3> DEFINE j == avail'[(seen' + k) % NUM]
      <3>1. k \in 0..A - 1 /\ j = avail[(seen + k) % NUM]
        BY <1>5 DEF A, Ahead
      <3>2. Pending(j) /\ j \notin inflight
        BY <3>1 DEF IInv, RingInv, A
      <3> HIDE DEF j
      <3>3. /\ info'[j].status = 255 /\ info'[j].b \in Waiting' /\ bdisk'[info'[j].b] = 1 /\ idx'[info'[j].b][1] = j
            /\ j \notin inflight'
        BY <1>5, <1>14, <3>2 DEF Pending
      <3> QED
        BY <3>3, Zenon DEF Pending, j
    <2>2. \A j, k \in 0..A' - 1 : avail'[(seen' + j) % NUM] = avail'[(seen' + k) % NUM] => j = k
      BY <1>5 DEF IInv, RingInv, A, Ahead
    <2>3. ASSUME NEW j \in inflight' PROVE Pending(j)'
      <3>1. Pending(j)
        BY <1>5, <2>3 DEF IInv, RingInv
      <3> QED
        BY <1>14, <3>1 DEF Pending
    <2>4. \A j, k \in 0..U' - 1 : used'[(used_idx' + j) % NUM] = used'[(used_idx' + k) % NUM] => j = k
      BY <1>5 DEF IInv, RingInv, U, Ahead
    <2> QED
      BY <2>1, <2>2, <2>3, <2>4 DEF RingInv, A, U
  <1>16. UsedEntriesValid'
    <2>1. ASSUME NEW k \in 0..U' - 1
          PROVE  LET j == used'[(used_idx' + k) % NUM] IN
                 /\ info'[j].status = 0
                 /\ info'[j].b \in Waiting' /\ bdisk'[info'[j].b] = 1 /\ idx'[info'[j].b][1] = j
      <3> DEFINE j == used'[(used_idx' + k) % NUM]
      <3>1. k \in 0..U - 1 /\ j = used[(used_idx + k) % NUM]
        BY <1>5 DEF U, Ahead
      <3>2. info[j].status = 0 /\ info[j].b \in Waiting /\ bdisk[info[j].b] = 1 /\ idx[info[j].b][1] = j
        BY <3>1 DEF IInv, UsedEntriesValid, U
      <3> HIDE DEF j
      <3>3. info'[j].status = 0 /\ info'[j].b \in Waiting' /\ bdisk'[info'[j].b] = 1 /\ idx'[info'[j].b][1] = j
        BY <1>14, <3>2
      <3> QED
        BY <3>3 DEF j
    <2> QED
      BY <2>1 DEF UsedEntriesValid, U
  <1>17. CountInv'
    <2>1. Busy' = Busy
      BY <1>0, <1>5, <1>11 DEF Busy, Finished
    <2>2. A' + U' + Cardinality(inflight') = Cardinality(Busy')
      BY <1>5, <2>1 DEF IInv, CountInv, A, U, Busy, Ahead
    <2>3. Cardinality(Waiting') = Cardinality(Waiting) - 1 /\ Cardinality(Waiting) \in Nat
      <3>1. Waiting \in SUBSET Procs /\ p \in Waiting /\ Waiting' = Waiting \ {p}
        BY <1>1, <1>11 DEF Waiting
      <3> QED
        BY <3>1, ProcsFinite, FS_RemoveElement
    <2>4. Cardinality(free') = Cardinality(free) + 3 /\ Cardinality(free) \in Nat
      <3>1. a \notin free /\ b \notin free /\ c \notin free
        BY <1>1, <1>3 DEF IInv, DescriptorsOwned
      <3>2. free \in SUBSET Slots /\ free' = free \cup {a, b, c}
        BY <1>0, <1>4 DEF Types
      <3>3. Cardinality(free \cup {a, b, c}) = Cardinality(free) + 3
        BY <1>2, <3>1, <3>2, AddThree
      <3> QED
        BY <3>2, <3>3, SlotsFinite
    <2>5. Cardinality(free') + 3 * Cardinality(Waiting') = NUM
      BY <2>3, <2>4, Room
    <2> QED
      BY <2>2, <2>5 DEF CountInv, A, U, Busy
  <1>18. DescriptorsOwned'
    <2>1. ASSUME NEW q \in Waiting, q # p PROVE Chain(q)' = Chain(q) /\ Chain(q) \cap {a, b, c} = {}
      BY <1>12, <2>1 DEF Chain
    <2>2. free' = (Slots \ UNION {Chain(q) : q \in Waiting})'
      <3>1. ASSUME NEW s \in Slots
            PROVE  (s \in free') <=> ~ \E q \in Waiting' : s \in Chain(q)'
        <4>1. (s \in free) <=> ~ \E q \in Waiting : s \in Chain(q)
          BY DEF IInv, DescriptorsOwned
        <4> QED
          BY <1>3, <1>4, <1>11, <2>1, <4>1
      <3>2. free' \subseteq Slots
        BY <1>13 DEF Types
      <3> QED
        BY <3>1, <3>2
    <2>3. ASSUME NEW q \in Waiting', NEW r \in Waiting', Chain(q)' \cap Chain(r)' # {} PROVE q = r
      BY <1>11, <2>1, <2>3 DEF IInv, DescriptorsOwned
    <2>4. ASSUME NEW q \in Waiting' PROVE Cardinality(Chain(q)') = 3
      BY <1>11, <2>1 DEF IInv, DescriptorsOwned
    <2> QED
      BY <2>2, <2>3, <2>4 DEF DescriptorsOwned
  <1>19. ChainInv'
    <2>1. ASSUME NEW q \in Waiting'
          PROVE  /\ desc'[idx'[q][1]].next = idx'[q][2] /\ "NEXT" \in desc'[idx'[q][1]].flags
                 /\ desc'[idx'[q][2]].next = idx'[q][3] /\ "NEXT" \in desc'[idx'[q][2]].flags
                 /\ desc'[idx'[q][2]].addr = <<"buf", q>>
                 /\ arg'[q].kind = "read" => "WRITE" \in desc'[idx'[q][2]].flags
                 /\ desc'[idx'[q][3]].addr = <<"status", idx'[q][1]>> /\ "NEXT" \notin desc'[idx'[q][3]].flags
                 /\ ops'[idx'[q][1]] = arg'[q] /\ info'[idx'[q][1]].b = q
      <3>0. q \in Waiting /\ q # p
        BY <1>11
      <3>1. /\ desc[idx[q][1]].next = idx[q][2] /\ "NEXT" \in desc[idx[q][1]].flags
            /\ desc[idx[q][2]].next = idx[q][3] /\ "NEXT" \in desc[idx[q][2]].flags
            /\ desc[idx[q][2]].addr = <<"buf", q>>
            /\ arg[q].kind = "read" => "WRITE" \in desc[idx[q][2]].flags
            /\ desc[idx[q][3]].addr = <<"status", idx[q][1]>> /\ "NEXT" \notin desc[idx[q][3]].flags
            /\ ops[idx[q][1]] = arg[q] /\ info[idx[q][1]].b = q
        BY <3>0 DEF IInv, ChainInv
      <3>2. /\ desc'[idx[q][1]] = desc[idx[q][1]] /\ desc'[idx[q][2]] = desc[idx[q][2]]
            /\ desc'[idx[q][3]] = desc[idx[q][3]] /\ ops'[idx[q][1]] = ops[idx[q][1]]
            /\ info'[idx[q][1]] = info[idx[q][1]] /\ idx'[q] = idx[q] /\ arg'[q] = arg[q]
        BY <1>6, <1>9, <1>10, <1>12, <3>0
      <3> QED
        BY <3>1, <3>2, Zenon
    <2> QED
      BY <2>1 DEF ChainInv
  <1>20. ProcInv'
    <2>1. ASSUME NEW q \in Procs, pc'[q] = "wait", bdisk'[q] = 0 PROVE info'[idx'[q][1]].status = 0
      <3>1. q # p /\ q \in Waiting /\ bdisk[q] = 0
        BY <1>5, <1>6, <2>1 DEF Waiting
      <3>2. info[idx[q][1]].status = 0
        BY <3>1 DEF IInv, ProcInv, Waiting
      <3> QED
        BY <1>9, <1>12, <3>1, <3>2
    <2>2. ASSUME NEW q \in Procs
          PROVE  /\ pc'[q] = "user" => chan'[q] = "none"
                 /\ pc'[q] = "alloc" => chan'[q] # "b"
                 /\ pc'[q] = "wait" => chan'[q] # "free"
                 /\ pc'[q] = "user" <=> arg'[q] = NoReq
                 /\ pc'[q] # "wait" => bdisk'[q] = 0
                 /\ arg'[q].kind = "write" => buf'[q] \in Vals
      <3>1. CASE q = p
        BY <1>0, <1>5, <1>6, <1>7, <3>1 DEF NoReq
      <3>2. CASE q # p
        BY <1>5, <1>6, <1>7, <3>2 DEF IInv, ProcInv
      <3> QED
        BY <3>1, <3>2
    <2> QED
      BY <2>1, <2>2 DEF ProcInv
  <1>21. NoIdleDescriptors'
    BY <1>7 DEF NoIdleDescriptors
  <1>22. NoLostCompletion'
    <2>1. ASSUME NEW q \in Waiting', bdisk'[q] = 0 PROVE chan'[q] # "b"
      BY <1>5, <1>7, <1>11, <2>1 DEF IInv, NoLostCompletion, Finished
    <2> QED
      BY <1>5, <2>1 DEF IInv, NoLostCompletion, Finished
  <1> QED
    BY <1>13, <1>15, <1>16, <1>17, <1>18, <1>19, <1>20, <1>21, <1>22, NextTypes DEF IInv

LEMMA NextInv == IInv /\ [Next]_vars => IInv'
  <1> SUFFICES ASSUME IInv, [Next]_vars PROVE IInv'
    OBVIOUS
  <1>1. CASE UNCHANGED vars
    <2>1. Types' /\ Waiting' = Waiting
      BY <1>1, InvTypes DEF Types, Waiting
    <2>2. ChainInv' /\ RingInv' /\ CountInv' /\ DescriptorsOwned' /\ UsedEntriesValid'
      BY <1>1, <2>1, SameRequests
    <2>3. ProcInv' /\ NoIdleDescriptors' /\ NoLostCompletion'
      BY <1>1, <2>1 DEF IInv, ProcInv, NoIdleDescriptors, NoLostCompletion, Finished
    <2> QED
      BY <2>1, <2>2, <2>3, NextTypes DEF IInv
  <1>2. CASE Next
    BY <1>2, CallInv, SleepInv, SubmitInv, FinishInv, FetchInv, CompleteInv, FlagInv, EntryInv
       DEF Next, Device, Handler
  <1> QED
    BY <1>1, <1>2

-----------------------------------------------------------------------------
(* The inductive invariant: what each process waits for, how its chain is  *)
(* formatted, which ring its request is in, and how many there are.        *)
THEOREM Invariance == Spec => []IInv
  BY InitInv, NextInv, PTL DEF Spec

(* The driver's state is well typed; in particular the requests in the two *)
(* rings and in the device never exceed NUM / 3, so that no ring index     *)
(* overtakes the other one, wrap-around of the uint16 indices included.    *)
THEOREM TypeCorrect == Spec => []TypeOK
  <1>1. IInv => TypeOK
    BY DEF IInv
  <1> QED
    BY <1>1, Invariance, PTL

(* alloc3_desc() and free_chain() neither leak a descriptor nor give it to *)
(* two requests, nor free one twice.                                       *)
THEOREM ChainsOwned == Spec => []DescriptorsOwned
  <1>1. IInv => DescriptorsOwned
    BY DEF IInv
  <1> QED
    BY <1>1, Invariance, PTL

(* virtio_disk_intr() finds in the used ring only requests whose process   *)
(* still waits and whose status is 0.                                      *)
THEOREM EntriesValid == Spec => []UsedEntriesValid
  <1>1. IInv => UsedEntriesValid
    BY DEF IInv
  <1> QED
    BY <1>1, Invariance, PTL

(* free_desc() wakes those who sleep for descriptors before three of them  *)
(* are free.                                                               *)
THEOREM DescriptorSleepersWoken == Spec => []NoIdleDescriptors
  <1>1. IInv => NoIdleDescriptors
    BY DEF IInv
  <1> QED
    BY <1>1, Invariance, PTL

(* The handler acknowledges before it reads used->idx, so that a           *)
(* completion it does not see raises another interrupt; and it wakes the   *)
(* process whose buffer is done.                                           *)
THEOREM CompletionsNoticed == Spec => []NoLostCompletion
  <1>1. IInv => NoLostCompletion
    BY DEF IInv
  <1> QED
    BY <1>1, Invariance, PTL

-----------------------------------------------------------------------------
(* Refinement of BlockDevice                                               *)

CallOf(p) == IF pc[p] = "user" THEN "none"
             ELSE IF pc[p] = "wait" /\ info[idx[p][1]].status = 0 THEN "done"
             ELSE arg[p].kind

LEMMA CallShape ==
    /\ Call = [p \in Procs |-> CallOf(p)] /\ Call' = [p \in Procs |-> CallOf(p)']
  BY DEF Call, CallOf

(* A step that the caller of virtio_disk_rw() does not see.                *)
LEMMA Unseen ==
    ASSUME UNCHANGED <<disk, buf, arg>>, \A p \in Procs : CallOf(p)' = CallOf(p)
    PROVE  UNCHANGED BD!vars
  <1>1. Call' = Call
    BY CallShape
  <1> QED
    BY <1>1 DEF BD!vars

LEMMA DeviceCall ==
    ASSUME IInv, NEW p \in Procs, NEW r \in Requests, NEW v \in Vals, virtio_disk_rw(p, r, v)
    PROVE  BD!Next
  <1> DEFINE blk == [q \in Procs |-> arg[q].sector]
  <1>0. Types
    BY InvTypes
  <1>1. r.kind \in {"read", "write"} /\ r.sector \in Blocks
    BY DEF Requests
  <1>2. Call[p] = "none" /\ \A q \in Procs : blk[q] # r.sector
    BY DEF virtio_disk_rw, Call
  <1>3. CallOf(p)' = r.kind /\ \A q \in Procs \ {p} : CallOf(q)' = CallOf(q)
    BY <1>0 DEF virtio_disk_rw, CallOf, Types
  <1>4. Call' = [Call EXCEPT ![p] = r.kind]
    BY <1>3, CallShape
  <1>5. blk' = [blk EXCEPT ![p] = r.sector]
    BY <1>0 DEF virtio_disk_rw, Types
  <1>6. disk' = disk /\ buf' = IF r.kind = "write" THEN [buf EXCEPT ![p] = v] ELSE buf
    BY DEF virtio_disk_rw
  <1>7. BD!Call(p, r.kind, r.sector, v)
    BY <1>2, <1>4, <1>5, <1>6 DEF BD!Call
  <1> QED
    BY <1>1, <1>7 DEF BD!Next

LEMMA DeviceTransfer ==
    ASSUME IInv, NEW i \in Slots, complete(i)
    PROVE  BD!Next
  <1> DEFINE blk == [q \in Procs |-> arg[q].sector]
  <1>0. Types /\ Pending(i)
    BY InvTypes DEF complete, IInv, RingInv
  <1>1. PICK p \in Procs : p = info[i].b /\ pc[p] = "wait" /\ idx[p][1] = i /\ ops[i] = arg[p] /\ arg[p] \in Requests
                           /\ Target(desc[desc[i].next].addr) = {p}
    BY <1>0, PendingChain
  <1>2. UNCHANGED <<pc, idx, arg>> /\ info' = [info EXCEPT ![i].status = 0]
    BY <1>0, PendingChain DEF complete
  <1>3. info'[i].status = 0 /\ info[i].status = 255 /\ \A s \in Slots \ {i} : info'[s] = info[s]
    BY <1>0, <1>2 DEF Types, Pending
  <1>4. CallOf(p) = arg[p].kind /\ CallOf(p)' = "done"
    BY <1>1, <1>2, <1>3 DEF CallOf
  <1>5. ASSUME NEW q \in Procs \ {p} PROVE CallOf(q)' = CallOf(q)
    <2>1. CASE pc[q] = "wait"
      <3>1. info[idx[q][1]].b = q /\ idx[q][1] \in Slots
        BY <1>0, <2>1 DEF IInv, ChainInv, Waiting, Types
      <3> QED
        BY <1>1, <1>2, <1>3, <3>1 DEF CallOf
    <2>2. CASE pc[q] # "wait"
      BY <1>2, <2>2 DEF CallOf
    <2> QED
      BY <2>1, <2>2
  <1>6. Call' = [Call EXCEPT ![p] = "done"] /\ Call[p] = arg[p].kind
    BY <1>4, <1>5, CallShape
  <1>7. blk[p] = arg[p].sector /\ blk' = blk
    BY <1>2
  <1>8. IF arg[p].kind = "write" THEN disk' = [disk EXCEPT ![arg[p].sector] = buf[p]] /\ buf' = buf
                                 ELSE disk' = disk /\ buf' = [buf EXCEPT ![p] = disk[arg[p].sector]]
    <2>1. PICK q \in Target(desc[desc[i].next].addr) :
             IF ops[i].kind = "write" THEN disk' = [disk EXCEPT ![ops[i].sector] = buf[q]] /\ buf' = buf
                                      ELSE buf' = [buf EXCEPT ![q] = disk[ops[i].sector]] /\ disk' = disk
      BY DEF complete
    <2>2. q = p
      BY <1>1
    <2> QED
      BY <1>1, <2>1, <2>2
  <1>9. arg[p].kind \in {"read", "write"}
    BY <1>1 DEF Requests
  <1>10. BD!Transfer(p)
    <2>1. CASE arg[p].kind = "write"
      BY <1>6, <1>7, <1>8, <2>1 DEF BD!Transfer
    <2>2. CASE arg[p].kind = "read"
      BY <1>6, <1>7, <1>8, <2>2 DEF BD!Transfer
    <2> QED
      BY <1>9, <2>1, <2>2
  <1> QED
    BY <1>10 DEF BD!Next

LEMMA DeviceReturn ==
    ASSUME IInv, NEW p \in Procs, finish(p)
    PROVE  BD!Next
  <1> DEFINE blk == [q \in Procs |-> arg[q].sector]
             a == idx[p][1]
  <1>0. Types
    BY InvTypes
  <1>1. pc[p] = "wait" /\ bdisk[p] = 0 /\ p \in Waiting
    BY DEF finish, Finished, Waiting
  <1>2. /\ info' = [info EXCEPT ![a].b = NoBuf] /\ pc' = [pc EXCEPT ![p] = "user"]
        /\ idx' = [idx EXCEPT ![p] = <<0, 0, 0>>] /\ arg' = [arg EXCEPT ![p] = NoReq]
        /\ buf' = [buf EXCEPT ![p] = NoData] /\ disk' = disk
    BY DEF finish
  <1>3. CallOf(p) = "done" /\ CallOf(p)' = "none"
    BY <1>0, <1>1, <1>2 DEF CallOf, IInv, ProcInv, Types
  <1>4. \A s \in Slots \ {a} : info'[s] = info[s]
    BY <1>0, <1>2 DEF Types
  <1>5. ASSUME NEW q \in Procs \ {p} PROVE CallOf(q)' = CallOf(q)
    <2>1. pc'[q] = pc[q] /\ idx'[q] = idx[q] /\ arg'[q] = arg[q]
      BY <1>0, <1>2 DEF Types
    <2>2. CASE pc[q] = "wait"
      <3>1. q \in Waiting
        BY <2>2 DEF Waiting
      <3>2. info[idx[q][1]].b = q /\ idx[q][1] \in Slots /\ info[a].b = p
        BY <1>0, <1>1, <3>1 DEF IInv, ChainInv, Waiting, Types
      <3>3. idx[q][1] # a
        BY <3>2
      <3>4. info'[idx[q][1]] = info[idx[q][1]]
        BY <1>4, <3>2, <3>3
      <3> QED
        BY <2>1, <3>4 DEF CallOf
    <2>3. CASE pc[q] # "wait"
      BY <2>1, <2>3 DEF CallOf
    <2> QED
      BY <2>2, <2>3
  <1>6. Call' = [Call EXCEPT ![p] = "none"] /\ Call[p] = "done"
    BY <1>3, <1>5, CallShape
  <1>7. blk' = [blk EXCEPT ![p] = NoBlock]
    BY <1>0, <1>2 DEF Types, NoReq
  <1>8. BD!Return(p)
    BY <1>2, <1>6, <1>7 DEF BD!Return
  <1> QED
    BY <1>8 DEF BD!Next

LEMMA DeviceSubmit ==
    ASSUME IInv, NEW p \in Procs, submit(p)
    PROVE  UNCHANGED BD!vars
  <1>0. Types
    BY InvTypes
  <1>1. PICK a \in Slots : a = alloc3_desc[1] /\ a \in free
    <2>1. free \subseteq Slots /\ Cardinality(free) >= 3
      BY <1>0 DEF Types, submit
    <2> QED
      BY <2>1, Alloc3
  <1>2. /\ UNCHANGED <<disk, buf, arg>> /\ pc[p] = "alloc" /\ pc' = [pc EXCEPT ![p] = "wait"]
        /\ idx' = [idx EXCEPT ![p] = alloc3_desc] /\ info' = [info EXCEPT ![a] = [b |-> p, status |-> 255]]
    BY <1>1 DEF submit
  <1>3. idx'[p][1] = a /\ pc'[p] = "wait" /\ \A q \in Procs \ {p} : pc'[q] = pc[q] /\ idx'[q] = idx[q]
    BY <1>0, <1>1, <1>2 DEF Types
  <1>4. info'[a].status = 255 /\ \A s \in Slots \ {a} : info'[s] = info[s]
    BY <1>0, <1>2 DEF Types
  <1>5. CallOf(p)' = CallOf(p)
    BY <1>2, <1>3, <1>4 DEF CallOf
  <1>6. ASSUME NEW q \in Procs \ {p} PROVE CallOf(q)' = CallOf(q)
    <2>1. CASE pc[q] = "wait"
      <3>1. q \in Waiting
        BY <2>1 DEF Waiting
      <3>2. idx[q][1] \in Slots \ {a}
        BY <1>0, <1>1, <3>1 DEF IInv, DescriptorsOwned, Chain, Types
      <3> QED
        BY <1>2, <1>3, <1>4, <3>2 DEF CallOf
    <2>2. CASE pc[q] # "wait"
      BY <1>2, <1>3, <2>2 DEF CallOf
    <2> QED
      BY <2>1, <2>2
  <1> QED
    BY <1>2, <1>5, <1>6, Unseen

LEMMA DeviceStep == IInv /\ [Next]_vars => [BD!Next]_BD!vars
  <1> SUFFICES ASSUME IInv, [Next]_vars PROVE BD!Next \/ UNCHANGED BD!vars
    OBVIOUS
  <1>1. ASSUME UNCHANGED <<disk, buf, arg, pc, idx, info>> PROVE UNCHANGED BD!vars
    <2>1. \A q \in Procs : CallOf(q)' = CallOf(q)
      BY <1>1 DEF CallOf
    <2> QED
      BY <1>1, <2>1, Unseen
  <1>2. ASSUME NEW p \in Procs, alloc_fails(p) \/ wait_again(p) \/ kill(p) PROVE UNCHANGED BD!vars
    BY <1>1, <1>2 DEF alloc_fails, wait_again, kill
  <1>3. CASE fetch \/ raise \/ Handler
    BY <1>1, <1>3 DEF fetch, raise, Handler, intr_enter, intr_ack, intr_entry, intr_exit
  <1>4. CASE UNCHANGED vars
    BY <1>1, <1>4
  <1>5. CASE Next
    BY <1>2, <1>3, <1>5, DeviceCall, DeviceSubmit, DeviceReturn, DeviceTransfer DEF Next, Device
  <1> QED
    BY <1>4, <1>5

LEMMA DeviceInit == Init => BD!Init
  <1> SUFFICES ASSUME Init PROVE BD!Init
    OBVIOUS
  <1>1. Call = [p \in Procs |-> "none"]
    BY DEF Init, Call
  <1>2. [p \in Procs |-> arg[p].sector] = [p \in Procs |-> NoBlock]
    BY DEF Init, NoReq
  <1> QED
    BY <1>1, <1>2 DEF Init, BD!Init

(* virtio_disk_rw() transfers its block exactly once, in the direction     *)
(* asked for, between its call and its return.                             *)
THEOREM DriverIsDevice == Spec => ImplementsBlockDevice
  BY DeviceInit, DeviceStep, Invariance, PTL DEF Spec, ImplementsBlockDevice, BD!Spec
=============================================================================
