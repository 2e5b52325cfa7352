---------------------------- MODULE ConsoleProof ----------------------------
(***************************************************************************)
(* Proofs about the console, for any number of processes, any sizes of the *)
(* two rings and any widths of their indices that the sizes divide, and    *)
(* any load.                                                               *)
(***************************************************************************)
EXTENDS Console, SequenceTheorems, WellFoundedInduction, TLAPS

-----------------------------------------------------------------------------
(* Arithmetic of unsigned counters that run freely and wrap around at U,   *)
(* and of a ring of N places indexed by a counter modulo N, where N        *)
(* divides U.                                                              *)

(* The remainder is determined by any representation.                      *)
LEMMA ModUnique ==
    ASSUME NEW U \in Nat \ {0}, NEW a \in Int, NEW q \in Int, NEW d \in 0..U - 1,
           a = U * q + d
    PROVE  a % U = d
  OBVIOUS

LEMMA DivMod ==
    ASSUME NEW U \in Nat \ {0}, NEW a \in Int
    PROVE  a \div U \in Int /\ a % U \in 0..U - 1 /\ a = U * (a \div U) + (a % U)
  OBVIOUS

(* The distance between two counters.                                      *)
LEMMA Distance ==
    ASSUME NEW U \in Nat \ {0}, NEW a \in 0..U - 1, NEW b \in 0..U - 1
    PROVE  (a - b) % U = IF a >= b THEN a - b ELSE a - b + U
  OBVIOUS

LEMMA Advance ==
    ASSUME NEW U \in Nat \ {0}, NEW a \in 0..U - 1, NEW k \in 0..U - 1
    PROVE  (a + k) % U = IF a + k < U THEN a + k ELSE a + k - U
  OBVIOUS

LEMMA Retreat ==
    ASSUME NEW U \in Nat \ {0}, NEW a \in 0..U - 1, NEW k \in 0..U - 1
    PROVE  (a - k) % U = IF a >= k THEN a - k ELSE a - k + U
  BY Distance

(* A counter that has wrapped still points to the right place.             *)
LEMMA WrapMod ==
    ASSUME NEW N \in Nat \ {0}, NEW U \in Nat \ {0}, U % N = 0, NEW a \in Int
    PROVE  (a % U) % N = a % N
  <1> DEFINE m == U \div N
             q == a \div U
             d == a % U
             s == d \div N
             t == d % N
  <1>1. m \in Int /\ U = N * m
    BY DivMod
  <1>2. q \in Int /\ d \in 0..U - 1 /\ a = U * q + d
    BY DivMod
  <1>3. s \in Int /\ t \in 0..N - 1 /\ d = N * s + t
    BY <1>2, DivMod
  <1> HIDE DEF m, q, d, s, t
  <1>4. m * q + s \in Int /\ a = N * (m * q + s) + t
    <2>1. m * q \in Int
      BY <1>1, <1>2
    <2>2. U * q = N * (m * q)
      BY <1>1, <1>2
    <2>3. N * (m * q + s) = N * (m * q) + N * s
      BY <1>3, <2>1
    <2> QED
      BY <1>1, <1>2, <1>3, <2>1, <2>2, <2>3
  <1>5. a % N = t
    BY <1>3, <1>4, ModUnique
  <1> QED
    BY <1>5 DEF t, d

(* A whole turn of the counter changes no place.                           *)
LEMMA TurnMod ==
    ASSUME NEW N \in Nat \ {0}, NEW U \in Nat \ {0}, U % N = 0, NEW a \in Int
    PROVE  (a + U) % N = a % N
  <1> DEFINE q == a \div U
             d == a % U
  <1>1. q \in Int /\ d \in 0..U - 1 /\ a = U * q + d
    BY DivMod
  <1> HIDE DEF q, d
  <1>2. a + U = U * (q + 1) + d /\ a + U \in Int /\ q + 1 \in Int
    BY <1>1
  <1>3. (a + U) % U = d
    BY <1>1, <1>2, ModUnique
  <1>4. a % U = d
    BY <1>1, ModUnique
  <1>5. ((a + U) % U) % N = (a + U) % N
    BY <1>2, WrapMod
  <1>6. (a % U) % N = a % N
    BY WrapMod
  <1> QED
    BY <1>3, <1>4, <1>5, <1>6

(* The place of the counter b, seen from the counter a.                    *)
LEMMA BackOf ==
    ASSUME NEW N \in Nat \ {0}, NEW U \in Nat \ {0}, U % N = 0, NEW a \in 0..U - 1, NEW b \in 0..U - 1
    PROVE  (a + ((b - a) % U)) % N = b % N
  <1>1. (b - a) % U = IF b >= a THEN b - a ELSE b - a + U
    BY Distance
  <1>2. a + ((b - a) % U) = b \/ a + ((b - a) % U) = b + U
    BY <1>1
  <1>3. (b + U) % N = b % N
    <2>1. b \in Int
      OBVIOUS
    <2> QED
      BY <2>1, TurnMod
  <1> QED
    BY <1>2, <1>3

(* The places in front of a counter that has been incremented.             *)
LEMMA NextOf ==
    ASSUME NEW N \in Nat \ {0}, NEW U \in Nat \ {0}, U > 1, U % N = 0, NEW a \in 0..U - 1, NEW k \in Int
    PROVE  (((a + 1) % U) + k) % N = (a + 1 + k) % N
  <1>1. 1 \in 0..U - 1
    OBVIOUS
  <1>2. (a + 1) % U = a + 1 \/ (a + 1) % U = a + 1 - U
    BY <1>1, Advance
  <1>3. CASE (a + 1) % U = a + 1
    BY <1>3
  <1>4. CASE (a + 1) % U = a + 1 - U
    <2>1. (a + 1 - U) + k \in Int /\ ((a + 1 - U) + k) + U = a + 1 + k
      OBVIOUS
    <2>2. (((a + 1 - U) + k) + U) % N = ((a + 1 - U) + k) % N
      BY <2>1, TurnMod
    <2> QED
      BY <1>4, <2>1, <2>2
  <1> QED
    BY <1>2, <1>3, <1>4

-----------------------------------------------------------------------------
(* Least and greatest elements of sets of numbers.                         *)

(* The order of the numbers.                                               *)
Less == {ss \in Nat \X Nat : ss[1] < ss[2]}

LEMMA LeastElement ==
    ASSUME NEW S \in SUBSET Nat, S # {}
    PROVE  \E m \in S : \A k \in S : m <= k
  <1>1. IsWellFoundedOn(Less, Nat)
    BY NatLessThanWellFounded DEF OpToRel, Less
  <1>2. PICK x \in S : \A y \in S : ~(<<y, x>> \in Less)
    BY <1>1, WFMin
  <1>3. ASSUME NEW k \in S PROVE x <= k
    <2>1. k \in Nat /\ x \in Nat
      OBVIOUS
    <2>2. k < x => <<k, x>> \in Less
      BY <2>1 DEF Less
    <2> QED
      BY <1>2, <2>1, <2>2
  <1> QED
    BY <1>3

LEMMA GreatestElement ==
    ASSUME NEW N \in Nat, NEW S \in SUBSET (0..N), S # {}
    PROVE  \E m \in S : \A k \in S : k <= m
  <1> DEFINE D == {d \in Nat : N - d \in S}
  <1>1. ASSUME NEW k \in S PROVE N - k \in D
    <2>1. k \in 0..N
      OBVIOUS
    <2>2. N - k \in Nat /\ N - (N - k) = k
      BY <2>1
    <2> QED
      BY <2>2
  <1>2. D \in SUBSET Nat /\ D # {}
    BY <1>1
  <1>3. PICK d \in D : \A k \in D : d <= k
    BY <1>2, LeastElement
  <1>4. ASSUME NEW k \in S PROVE k <= N - d
    <2>1. N - k \in Nat /\ d \in Nat /\ d <= N - k /\ k \in 0..N
      BY <1>1, <1>3
    <2> QED
      BY <2>1
  <1> QED
    BY <1>3, <1>4

-----------------------------------------------------------------------------
(* What the places of a ring hold, as sequences (RingOf).                  *)

LEMMA ModAdd ==
    ASSUME NEW U \in Nat \ {0}, NEW a \in Int, NEW k \in 0..U - 1
    PROVE  (a + k) % U = IF (a % U) + k < U THEN (a % U) + k ELSE (a % U) + k - U
  <1> DEFINE q == a \div U
             d == a % U
  <1>1. q \in Int /\ d \in 0..U - 1 /\ a = U * q + d
    BY DivMod
  <1> HIDE DEF q, d
  <1>2. CASE d + k < U
    <2>1. a + k = U * q + (d + k) /\ d + k \in 0..U - 1 /\ a + k \in Int
      BY <1>1, <1>2
    <2>2. (a + k) % U = d + k
      BY <1>1, <2>1, ModUnique
    <2> QED
      BY <1>2, <2>2 DEF d
  <1>3. CASE d + k >= U
    <2>1. U * (q + 1) = U * q + U
      BY <1>1
    <2>2. a + k = U * (q + 1) + (d + k - U) /\ d + k - U \in 0..U - 1 /\ a + k \in Int /\ q + 1 \in Int
      BY <1>1, <1>3, <2>1
    <2>3. (a + k) % U = d + k - U
      BY <2>2, ModUnique
    <2> QED
      BY <1>1, <1>3, <2>3 DEF d
  <1> QED
    BY <1>1, <1>2, <1>3

(* Places less than N apart are different.                                 *)
LEMMA DistinctPlaces ==
    ASSUME NEW N \in Nat \ {0}, NEW a \in Int, NEW j \in 0..N - 1, NEW k \in 0..N - 1,
           (a + j) % N = (a + k) % N
    PROVE  j = k
  <1>1. a % N \in 0..N - 1
    BY DivMod
  <1>2. /\ (a + j) % N = IF (a % N) + j < N THEN (a % N) + j ELSE (a % N) + j - N
        /\ (a + k) % N = IF (a % N) + k < N THEN (a % N) + k ELSE (a % N) + k - N
    BY ModAdd
  <1> QED
    BY <1>1, <1>2

(* A ring is kept in N places for elements of S.                           *)
Store(S, N, f) == N \in Nat \ {0} /\ f \in [0..N - 1 -> S]
IsRing(s, S, N, f, a, m) ==
    /\ s \in Seq(S) /\ Len(s) = m
    /\ \A k \in 1..m : (a + k - 1) % N \in 0..N - 1 /\ s[k] = f[(a + k - 1) % N]

LEMMA RingSeq ==
    ASSUME NEW S, NEW N, NEW f, Store(S, N, f), NEW a \in Int, NEW m \in Nat
    PROVE  IsRing(RingOf(f, N, a, m), S, N, f, a, m)
  <1> USE DEF Store
  <1>1. ASSUME NEW k \in 1..m PROVE (a + k - 1) % N \in 0..N - 1
    <2>1. a + k - 1 \in Int
      OBVIOUS
    <2> QED
      BY <2>1, DivMod
  <1>2. RingOf(f, N, a, m) = [k \in 1..m |-> f[(a + k - 1) % N]]
    BY DEF RingOf
  <1>3. \A k \in 1..m : f[(a + k - 1) % N] \in S
    BY <1>1
  <1>4. RingOf(f, N, a, m) \in Seq(S) /\ Len(RingOf(f, N, a, m)) = m
    BY <1>2, <1>3
  <1> QED
    BY <1>1, <1>2, <1>4 DEF IsRing

(* A whole turn earlier it is the same ring.                               *)
SameRing(f, N, b, a, m) == RingOf(f, N, b, m) = RingOf(f, N, a, m)

LEMMA RingTurn ==
    ASSUME NEW N \in Nat \ {0}, NEW U \in Nat \ {0}, U % N = 0, NEW f,
           NEW a \in Int, NEW b \in Int, b = a \/ b + U = a, NEW m \in Nat
    PROVE  SameRing(f, N, b, a, m)
  <1>1. ASSUME NEW k \in 1..m PROVE (b + k - 1) % N = (a + k - 1) % N
    <2>1. b + k - 1 \in Int /\ (a + k - 1 = b + k - 1 \/ a + k - 1 = (b + k - 1) + U)
      OBVIOUS
    <2>2. ((b + k - 1) + U) % N = (b + k - 1) % N
      BY <2>1, TurnMod
    <2> QED
      BY <2>1, <2>2
  <1> QED
    BY <1>1 DEF RingOf, SameRing

(* Two rings one after the other are one ring.                             *)
Joined(f, N, a, m, l) == RingOf(f, N, a, m) \o RingOf(f, N, a + m, l) = RingOf(f, N, a, m + l)

LEMMA RingConcat ==
    ASSUME NEW S, NEW N, NEW f, Store(S, N, f), NEW a \in Int, NEW m \in Nat, NEW l \in Nat
    PROVE  Joined(f, N, a, m, l)
  <1> DEFINE s == RingOf(f, N, a, m)
             t == RingOf(f, N, a + m, l)
             z == RingOf(f, N, a, m + l)
  <1>1. IsRing(s, S, N, f, a, m)
    BY RingSeq, Zenon
  <1>2. IsRing(t, S, N, f, a + m, l)
    <2>1. a + m \in Int
      OBVIOUS
    <2> QED
      BY <2>1, RingSeq, Zenon
  <1>3. IsRing(z, S, N, f, a, m + l)
    <2>1. m + l \in Nat
      OBVIOUS
    <2> QED
      BY <2>1, RingSeq, Zenon
  <1> HIDE DEF s, t, z
  <1> USE DEF IsRing
  <1>4. /\ s \o t \in Seq(S) /\ Len(s \o t) = m + l
        /\ \A k \in 1..m + l : (s \o t)[k] = IF k <= m THEN s[k] ELSE t[k - m]
    <2>1. /\ s \o t \in Seq(S) /\ Len(s \o t) = Len(s) + Len(t)
          /\ \A k \in 1..Len(s) + Len(t) : (s \o t)[k] = IF k <= Len(s) THEN s[k] ELSE t[k - Len(s)]
      BY <1>1, <1>2, ConcatProperties, ZenonT(60)
    <2>2. Len(s) = m /\ Len(t) = l
      BY <1>1, <1>2
    <2> QED
      BY <2>1, <2>2
  <1>5. ASSUME NEW k \in 1..m + l PROVE (s \o t)[k] = z[k]
    <2>1. CASE k <= m
      <3>1. k \in 1..m
        BY <2>1
      <3> QED
        BY <1>1, <1>3, <1>4, <2>1, <3>1
    <2>2. CASE ~(k <= m)
      <3>1. k - m \in 1..l /\ a + m + (k - m) - 1 = a + k - 1
        BY <2>2
      <3>2. t[k - m] = f[(a + k - 1) % N]
        BY <1>2, <3>1
      <3> QED
        BY <1>3, <1>4, <2>2, <3>2
    <2> QED
      BY <2>1, <2>2
  <1>6. s \o t = z
    BY <1>3, <1>4, <1>5, SeqEqual
  <1> QED
    BY <1>6 DEF s, t, z, Joined

(* The first place, and the ring without it.                               *)
First(S, f, N, a, m) ==
    f[a % N] \in S /\ RingOf(f, N, a, m) = <<f[a % N]>> \o RingOf(f, N, a + 1, m - 1)

LEMMA RingFirst ==
    ASSUME NEW S, NEW N, NEW f, Store(S, N, f), NEW a \in Int, NEW m \in Nat \ {0}
    PROVE  First(S, f, N, a, m)
  <1>1. a % N \in 0..N - 1 /\ f[a % N] \in S
    BY DivMod DEF Store
  <1>2. RingOf(f, N, a, 1) = <<f[a % N]>>
    <2>1. \A k \in Nat : IsRing(RingOf(f, N, a, k), S, N, f, a, k)
      BY RingSeq, Zenon
    <2>2. IsRing(RingOf(f, N, a, 1), S, N, f, a, 1)
      BY <2>1
    <2>3. RingOf(f, N, a, 1)[1] = f[a % N]
      <3>1. a + 1 - 1 = a /\ 1 \in 1..1
        OBVIOUS
      <3> QED
        BY <2>2, <3>1 DEF IsRing
    <2> QED
      BY <1>1, <2>2, <2>3 DEF IsRing
  <1>3. RingOf(f, N, a, 1) \o RingOf(f, N, a + 1, m - 1) = RingOf(f, N, a, m)
    <2>1. m - 1 \in Nat /\ 1 + (m - 1) = m /\ 1 \in Nat
      OBVIOUS
    <2>2. Joined(f, N, a, 1, m - 1)
      BY <2>1, RingConcat, Zenon
    <2> QED
      BY <2>1, <2>2 DEF Joined
  <1> QED
    BY <1>1, <1>2, <1>3 DEF First

LEMMA ConsSeq ==
    ASSUME NEW S, NEW x \in S, NEW s \in Seq(S)
    PROVE  <<x>> \o s # <<>> /\ Tail(<<x>> \o s) = s
  <1>1. <<x>> \in Seq(S) /\ Len(<<x>>) = 1
    OBVIOUS
  <1>2. /\ <<x>> \o s \in Seq(S) /\ Len(<<x>> \o s) = 1 + Len(s)
        /\ \A i \in 1..1 + Len(s) : (<<x>> \o s)[i] = IF i <= 1 THEN <<x>>[i] ELSE s[i - 1]
    <2>1. /\ <<x>> \o s \in Seq(S) /\ Len(<<x>> \o s) = Len(<<x>>) + Len(s)
          /\ \A i \in 1..Len(<<x>>) + Len(s) : (<<x>> \o s)[i] = IF i <= Len(<<x>>) THEN <<x>>[i] ELSE s[i - Len(<<x>>)]
      BY <1>1, ConcatProperties, Zenon
    <2> QED
      BY <1>1, <2>1
  <1>3. Len(s) \in Nat
    OBVIOUS
  <1>4. <<x>> \o s # <<>>
    BY <1>2, <1>3
  <1>5. /\ Tail(<<x>> \o s) \in Seq(S) /\ Len(Tail(<<x>> \o s)) = Len(s)
        /\ \A i \in 1..Len(s) : Tail(<<x>> \o s)[i] = (<<x>> \o s)[i + 1]
    BY <1>2, <1>3, <1>4, HeadTailProperties
  <1>6. ASSUME NEW i \in 1..Len(s) PROVE Tail(<<x>> \o s)[i] = s[i]
    <2>1. i + 1 \in 1..1 + Len(s) /\ ~(i + 1 <= 1) /\ (i + 1) - 1 = i
      BY <1>3
    <2>2. (<<x>> \o s)[i + 1] = s[i]
      BY <1>2, <2>1
    <2> QED
      BY <1>5, <2>2
  <1> QED
    BY <1>4, <1>5, <1>6, SeqEqual

(* The ring without its last place.                                        *)
Shorter(f, N, a, m) == SubSeq(RingOf(f, N, a, m), 1, m - 1) = RingOf(f, N, a, m - 1)

LEMMA RingShorter ==
    ASSUME NEW S, NEW N, NEW f, Store(S, N, f), NEW a \in Int, NEW m \in Nat \ {0}
    PROVE  Shorter(f, N, a, m)
  <1> DEFINE s == RingOf(f, N, a, m)
             t == RingOf(f, N, a, m - 1)
  <1>1. IsRing(s, S, N, f, a, m)
    <2>1. m \in Nat
      OBVIOUS
    <2> QED
      BY <2>1, RingSeq, Zenon
  <1>2. IsRing(t, S, N, f, a, m - 1)
    <2>1. m - 1 \in Nat
      OBVIOUS
    <2> QED
      BY <2>1, RingSeq, Zenon
  <1> HIDE DEF s, t
  <1> USE DEF IsRing
  <1>3. ASSUME NEW k \in 1..m - 1 PROVE s[k] \in S /\ s[k] = t[k]
    <2>1. k \in 1..m
      OBVIOUS
    <2>2. s[k] = t[k]
      BY <1>1, <1>2, <2>1
    <2>3. s[k] \in S
      BY <1>1, <2>1, ElementOfSeq
    <2> QED
      BY <2>2, <2>3
  <1>4. /\ SubSeq(s, 1, m - 1) \in Seq(S) /\ Len(SubSeq(s, 1, m - 1)) = m - 1
        /\ \A k \in 1..m - 1 : SubSeq(s, 1, m - 1)[k] = s[k]
    <2>1. 1 \in Int /\ m - 1 \in Int /\ (IF 1 <= m - 1 THEN m - 1 - 1 + 1 ELSE 0) = m - 1 /\ m - 1 - 1 + 1 = m - 1
      OBVIOUS
    <2>2. /\ SubSeq(s, 1, m - 1) \in Seq(S) /\ Len(SubSeq(s, 1, m - 1)) = m - 1
          /\ \A k \in 1..m - 1 : SubSeq(s, 1, m - 1)[k] = s[1 + k - 1]
      BY <1>3, <2>1, SubSeqProperties
    <2> QED
      BY <2>2
  <1>5. SubSeq(s, 1, m - 1) = t
    BY <1>2, <1>3, <1>4, SeqEqual
  <1> QED
    BY <1>5 DEF s, t, Shorter

(* A character that is stored behind the ring does not disturb it ...      *)
Apart(f, N, a, j, m, x) == RingOf([f EXCEPT ![(a + j) % N] = x], N, a, m) = RingOf(f, N, a, m)

LEMMA RingApart ==
    ASSUME NEW S, NEW N, NEW f, Store(S, N, f), NEW a \in Int,
           NEW j \in 0..N - 1, NEW m \in 0..j, NEW x \in S
    PROVE  Apart(f, N, a, j, m, x)
  <1> USE DEF Store
  <1> DEFINE g == [f EXCEPT ![(a + j) % N] = x]
  <1>1. ASSUME NEW k \in 1..m PROVE g[(a + k - 1) % N] = f[(a + k - 1) % N]
    <2>1. k - 1 \in 0..N - 1 /\ k - 1 # j /\ a + k - 1 = a + (k - 1) /\ a + k - 1 \in Int
      OBVIOUS
    <2>2. (a + k - 1) % N # (a + j) % N
      BY <2>1, DistinctPlaces
    <2>3. (a + k - 1) % N \in 0..N - 1
      BY <2>1, DivMod
    <2> QED
      BY <2>2, <2>3
  <1> HIDE DEF g
  <1>2. RingOf(g, N, a, m) = RingOf(f, N, a, m)
    BY <1>1 DEF RingOf
  <1> QED
    BY <1>2 DEF g, Apart

(* ... and one that is stored right behind it is appended to it.           *)
Extended(f, N, a, m, x) ==
    RingOf([f EXCEPT ![(a + m) % N] = x], N, a, m + 1) = Append(RingOf(f, N, a, m), x)

LEMMA RingAppend ==
    ASSUME NEW S, NEW N, NEW f, Store(S, N, f), NEW a \in Int, NEW m \in 0..N - 1, NEW x \in S
    PROVE  Extended(f, N, a, m, x)
  <1> DEFINE g == [f EXCEPT ![(a + m) % N] = x]
             s == RingOf(f, N, a, m)
             t == RingOf(g, N, a, m + 1)
             p == (a + m) % N
  <1>0. N \in Nat \ {0} /\ m \in Nat /\ m + 1 \in Nat /\ f \in [0..N - 1 -> S]
    BY DEF Store
  <1>1. p \in 0..N - 1
    <2>1. a + m \in Int
      BY <1>0
    <2> QED
      BY <1>0, <2>1, DivMod
  <1> HIDE DEF p
  <1>2. g = [f EXCEPT ![p] = x] /\ g \in [0..N - 1 -> S] /\ Store(S, N, g)
    BY <1>0, <1>1 DEF p, Store
  <1>3. IsRing(s, S, N, f, a, m)
    BY <1>0, RingSeq, Zenon
  <1> HIDE DEF g
  <1>4. IsRing(t, S, N, g, a, m + 1)
    BY <1>0, <1>2, RingSeq, Zenon
  <1> HIDE DEF s, t
  <1>5. /\ Append(s, x) \in Seq(S) /\ Len(Append(s, x)) = m + 1
        /\ \A k \in 1..m : Append(s, x)[k] = s[k]
        /\ Append(s, x)[m + 1] = x
    BY <1>0, <1>3, AppendProperties DEF IsRing
  <1>6. ASSUME NEW k \in 1..m + 1 PROVE t[k] = Append(s, x)[k]
    <2>1. t[k] = g[(a + k - 1) % N] /\ (a + k - 1) % N \in 0..N - 1
      BY <1>4 DEF IsRing
    <2>2. CASE k = m + 1
      <3>1. a + k - 1 = a + m
        BY <1>0, <2>2
      <3>2. t[k] = x
        BY <1>0, <1>1, <1>2, <2>1, <3>1 DEF p
      <3> QED
        BY <1>5, <2>2, <3>2
    <2>3. CASE k \in 1..m
      <3>1. (a + k - 1) % N # p
        <4>1. a + k - 1 = a + (k - 1) /\ k - 1 \in 0..N - 1 /\ k - 1 # m
          BY <1>0, <2>3
        <4> QED
          BY <1>0, <4>1, DistinctPlaces DEF p
      <3>2. g[(a + k - 1) % N] = f[(a + k - 1) % N]
        BY <1>0, <1>2, <2>1, <3>1
      <3>3. s[k] = f[(a + k - 1) % N]
        BY <1>3, <2>3 DEF IsRing
      <3> QED
        BY <1>5, <2>1, <2>3, <3>2, <3>3
    <2>4. k = m + 1 \/ k \in 1..m
      BY <1>0
    <2> QED
      BY <2>2, <2>3, <2>4
  <1>7. t = Append(s, x)
    <2>1. t \in Seq(S) /\ Len(t) = m + 1
      BY <1>4 DEF IsRing
    <2> QED
      BY <1>5, <1>6, <2>1, SeqEqual
  <1> QED
    BY <1>7 DEF g, s, t, Extended

-----------------------------------------------------------------------------
USE ConsoleAssumption DEF vars, consVars, txVars, uartVars, userVars, env, Threads

-----------------------------------------------------------------------------
(* The parts of TypeOK.                                                    *)

ConsHeld == {"rloop", "rsleep", "echo", "sync"}
TxHeld == {"start", "thr"}
Points == {"user"} \cup InRead \cup InWrite \cup InIntr

InOK ==
    /\ buf \in [0..INPUT_BUF - 1 -> Stored] /\ r \in 0..UINT - 1 /\ w \in 0..UINT - 1 /\ e \in 0..UINT - 1
    /\ (w - r) % UINT <= (e - r) % UINT /\ (e - r) % UINT <= INPUT_BUF
TxOK ==
    /\ uart_tx_buf \in [0..UART_TX_BUF_SIZE - 1 -> Bytes \cup {"none"}]
    /\ uart_tx_w \in 0..UINT64 - 1 /\ uart_tx_r \in 0..UINT64 - 1
    /\ (uart_tx_w - uart_tx_r) % UINT64 <= UART_TX_BUF_SIZE
UartOK == fifo \in Seq(Bytes \cup {"echo"}) /\ rhr \in Seq(Keys) /\ irq \in BOOLEAN
UserOK == n \in [Procs -> Nat] /\ more \in [Procs -> BOOLEAN] /\ killed \in [Procs -> BOOLEAN]
HandOK == c \in [Threads -> Bytes \cup Keys \cup {"none"}] /\ echo \in Nat
EnvOK == load \in Loads /\ keys \in 0..load.max
LockOK ==
    /\ pc \in [Threads -> Points]
    /\ \A t \in Threads : cons_lock = t <=> pc[t] \in ConsHeld
    /\ \A t \in Threads : uart_tx_lock = t <=> pc[t] \in TxHeld

LEMMA TypeParts == TypeOK <=> InOK /\ TxOK /\ UartOK /\ UserOK /\ HandOK /\ EnvOK /\ LockOK
  BY DEF TypeOK, InOK, TxOK, UartOK, UserOK, HandOK, EnvOK, LockOK, Points, ConsHeld, TxHeld

(* One step at a time: each part with the variables it is about.           *)
LEMMA InFrame == ASSUME InOK, NeverWedged, UNCHANGED consVars PROVE InOK' /\ NeverWedged'
  BY DEF InOK, NeverWedged
LEMMA TxFrame == ASSUME TxOK, UNCHANGED txVars PROVE TxOK'
  BY DEF TxOK
LEMMA UartFrame == ASSUME UartOK, UNCHANGED uartVars PROVE UartOK'
  BY DEF UartOK
LEMMA UserFrame == ASSUME UserOK, UNCHANGED <<userVars, killed>> PROVE UserOK'
  BY DEF UserOK
LEMMA HandFrame == ASSUME HandOK, UNCHANGED <<c, echo>> PROVE HandOK'
  BY DEF HandOK
LEMMA EnvFrame == ASSUME EnvOK, UNCHANGED env PROVE EnvOK'
  BY DEF EnvOK

(* What a load allows.                                                     *)
LEMMA LoadFacts ==
    ASSUME load \in Loads
    PROVE  /\ load.readers \subseteq Procs /\ load.writers \subseteq Procs /\ load.killable \subseteq Procs
           /\ load.sizes \subseteq Nat /\ load.max \in Nat
  <1>1. load \in [readers : SUBSET Procs, writers : SUBSET Procs, killable : SUBSET Procs,
                  sizes : SUBSET Nat, keys : SUBSET Keys, max : Nat]
    OBVIOUS
  <1> QED
    BY <1>1

-----------------------------------------------------------------------------
(* The three indices of the input ring.                                    *)

Ready == (w - r) % UINT
Buffered == (e - r) % UINT

LEMMA InFacts ==
    ASSUME InOK
    PROVE  /\ Ready \in 0..Buffered /\ Buffered \in 0..INPUT_BUF
           /\ (e - w) % UINT = Buffered - Ready
           /\ r = w <=> Ready = 0
           /\ e = w <=> Ready = Buffered
           /\ (e + 1) % UINT = (r + INPUT_BUF) % UINT <=> Buffered + 1 = INPUT_BUF
  <1>1. /\ r \in 0..UINT - 1 /\ w \in 0..UINT - 1 /\ e \in 0..UINT - 1 /\ UINT \in Nat \ {0}
        /\ INPUT_BUF \in 0..UINT - 1 /\ 1 \in 0..UINT - 1 /\ INPUT_BUF > 0
    BY DEF InOK
  <1>2. /\ Ready = IF w >= r THEN w - r ELSE w - r + UINT
        /\ Buffered = IF e >= r THEN e - r ELSE e - r + UINT
        /\ (e - w) % UINT = IF e >= w THEN e - w ELSE e - w + UINT
    BY <1>1, Distance DEF Ready, Buffered
  <1>3. Ready <= Buffered /\ Buffered <= INPUT_BUF
    BY DEF InOK, Ready, Buffered
  <1>4. /\ (e + 1) % UINT = IF e + 1 < UINT THEN e + 1 ELSE e + 1 - UINT
        /\ (r + INPUT_BUF) % UINT = IF r + INPUT_BUF < UINT THEN r + INPUT_BUF ELSE r + INPUT_BUF - UINT
    BY <1>1, Advance
  <1>5. Ready \in 0..Buffered /\ Buffered \in 0..INPUT_BUF
    BY <1>1, <1>2, <1>3
  <1>6. (e - w) % UINT = Buffered - Ready
    BY <1>1, <1>2, <1>3
  <1>7. (r = w <=> Ready = 0) /\ (e = w <=> Ready = Buffered)
    BY <1>1, <1>2, <1>3
  <1>8. (e + 1) % UINT = (r + INPUT_BUF) % UINT <=> Buffered + 1 = INPUT_BUF
    BY <1>1, <1>2, <1>3, <1>4
  <1> QED
    BY <1>5, <1>6, <1>7, <1>8

(* Backspace and ^U stay within the line.                                  *)
LEMMA ErasedFacts ==
    ASSUME InOK, NEW k
    PROVE  Erased(k) \in 0..Buffered - Ready
  <1>1. Buffered - Ready \in Nat /\ (e - w) % UINT = Buffered - Ready
    BY InFacts
  <1>2. CASE k = "kill"
    <2>1. Line \in SUBSET (0..Buffered - Ready)
      BY <1>1 DEF Line
    <2>2. 0 \in Line
      BY <1>1 DEF Line
    <2>3. \E j \in Line : \A i \in Line : i <= j
      BY <1>1, <2>1, <2>2, GreatestElement
    <2>4. (CHOOSE j \in Line : \A i \in Line : i <= j) \in Line
      BY <2>3
    <2>5. Erased(k) = CHOOSE j \in Line : \A i \in Line : i <= j
      BY <1>2 DEF Erased
    <2> QED
      BY <2>1, <2>4, <2>5
  <1>3. CASE k = "erase"
    <2>1. Erased(k) = IF e # w THEN 1 ELSE 0
      BY <1>3 DEF Erased
    <2>2. e # w => Buffered - Ready >= 1
      <3>1. Ready \in 0..Buffered /\ Buffered \in Nat /\ (Ready = Buffered => e = w)
        BY InFacts
      <3> QED
        BY <3>1
    <2> HIDE DEF Buffered, Ready
    <2>3. CASE e # w
      BY <1>1, <2>1, <2>2, <2>3
    <2>4. CASE e = w
      BY <1>1, <2>1, <2>4
    <2> QED
      BY <2>3, <2>4
  <1>4. CASE k \notin {"kill", "erase"}
    <2>1. Erased(k) = 0
      BY <1>4 DEF Erased
    <2> QED
      BY <1>1, <2>1
  <1> QED
    BY <1>2, <1>3, <1>4

LEMMA EraseStep ==
    ASSUME InOK, NeverWedged, NEW j \in 0..Buffered - Ready, e' = (e - j) % UINT, UNCHANGED <<buf, r, w>>
    PROVE  InOK' /\ NeverWedged' /\ Buffered' = Buffered - j /\ Ready' = Ready
  <1>1. /\ r \in 0..UINT - 1 /\ w \in 0..UINT - 1 /\ e \in 0..UINT - 1 /\ UINT \in Nat \ {0}
        /\ INPUT_BUF \in 0..UINT - 1
    BY DEF InOK
  <1>2. Ready \in 0..Buffered /\ Buffered \in 0..INPUT_BUF
    BY InFacts
  <1>3. j \in 0..UINT - 1
    BY <1>1, <1>2
  <1>4. e' = IF e >= j THEN e - j ELSE e - j + UINT
    BY <1>1, <1>3, Retreat
  <1>5. e' \in 0..UINT - 1
    BY <1>1, <1>3, <1>4
  <1>6. /\ Buffered = IF e >= r THEN e - r ELSE e - r + UINT
        /\ Buffered' = IF e' >= r THEN e' - r ELSE e' - r + UINT
    BY <1>1, <1>5, Distance DEF Buffered
  <1>7. Buffered' = Buffered - j
    BY <1>1, <1>2, <1>4, <1>6
  <1>8. Ready' = Ready
    BY DEF Ready
  <1>9. InOK'
    <2>1. Ready' <= Buffered' /\ Buffered' <= INPUT_BUF
      BY <1>1, <1>2, <1>7, <1>8
    <2> QED
      BY <1>5, <2>1 DEF InOK, Ready, Buffered
  <1>10. NeverWedged'
    <2>1. Buffered' = INPUT_BUF => Buffered = INPUT_BUF
      BY <1>1, <1>2, <1>7
    <2> QED
      BY <2>1 DEF NeverWedged, Buffered
  <1> QED
    BY <1>7, <1>8, <1>9, <1>10

(* A full buffer is handed over with the character that filled it.         *)
LEMMA TypeStep ==
    ASSUME InOK, NeverWedged, Buffered < INPUT_BUF, NEW x \in Stored,
           buf' = [buf EXCEPT ![Slot] = x], r' = r, e' = (e + 1) % UINT,
           w' = IF Completes(x) THEN (e + 1) % UINT ELSE w
    PROVE  InOK' /\ NeverWedged' /\ Buffered' = Buffered + 1
  <1>1. /\ r \in 0..UINT - 1 /\ w \in 0..UINT - 1 /\ e \in 0..UINT - 1 /\ UINT \in Nat \ {0}
        /\ INPUT_BUF \in 0..UINT - 1 /\ 1 \in 0..UINT - 1
    BY DEF InOK
  <1>2. Ready \in 0..Buffered /\ Buffered \in 0..INPUT_BUF - 1
    BY InFacts
  <1>3. e' = IF e + 1 < UINT THEN e + 1 ELSE e + 1 - UINT
    BY <1>1, Advance
  <1>4. e' \in 0..UINT - 1
    BY <1>1, <1>3
  <1>5. /\ Buffered = IF e >= r THEN e - r ELSE e - r + UINT
        /\ Buffered' = IF e' >= r THEN e' - r ELSE e' - r + UINT
    BY <1>1, <1>4, Distance DEF Buffered
  <1>6. Buffered' = Buffered + 1
    BY <1>1, <1>2, <1>3, <1>5
  <1>7. w' = e' \/ (w' = w /\ Buffered + 1 # INPUT_BUF)
    BY InFacts DEF Completes
  <1>8. w' \in 0..UINT - 1 /\ (Ready' = Buffered' \/ Ready' = Ready)
    BY <1>1, <1>4, <1>7 DEF Ready, Buffered
  <1>9. buf' \in [0..INPUT_BUF - 1 -> Stored]
    BY DEF InOK
  <1>10. InOK'
    <2>1. Ready' <= Buffered' /\ Buffered' <= INPUT_BUF
      BY <1>1, <1>2, <1>6, <1>8
    <2> QED
      BY <1>1, <1>4, <1>8, <1>9, <2>1 DEF InOK, Ready, Buffered
  <1>11. NeverWedged'
    <2>1. ASSUME Buffered' = INPUT_BUF PROVE w' # r'
      <3>1. w' = e'
        BY <1>1, <1>2, <1>6, <1>7, <2>1
      <3>2. e' # r
        BY <1>1, <1>2, <1>5, <2>1
      <3> QED
        BY <3>1, <3>2
    <2> QED
      BY <2>1 DEF NeverWedged, Buffered
  <1> QED
    BY <1>6, <1>10, <1>11

LEMMA ReadStep ==
    ASSUME InOK, NeverWedged, r # w, r' = (r + 1) % UINT, UNCHANGED <<buf, w, e>>
    PROVE  InOK' /\ NeverWedged' /\ Ready' = Ready - 1 /\ Buffered' = Buffered - 1
  <1>1. /\ r \in 0..UINT - 1 /\ w \in 0..UINT - 1 /\ e \in 0..UINT - 1 /\ UINT \in Nat \ {0}
        /\ INPUT_BUF \in 0..UINT - 1 /\ 1 \in 0..UINT - 1
    BY DEF InOK
  <1>2. Ready \in 1..Buffered /\ Buffered \in 1..INPUT_BUF
    BY InFacts
  <1>3. r' = IF r + 1 < UINT THEN r + 1 ELSE r + 1 - UINT
    BY <1>1, Advance
  <1>4. r' \in 0..UINT - 1
    BY <1>1, <1>3
  <1>5. /\ Buffered = IF e >= r THEN e - r ELSE e - r + UINT
        /\ Buffered' = IF e >= r' THEN e - r' ELSE e - r' + UINT
        /\ Ready = IF w >= r THEN w - r ELSE w - r + UINT
        /\ Ready' = IF w >= r' THEN w - r' ELSE w - r' + UINT
    BY <1>1, <1>4, Distance DEF Buffered, Ready
  <1>6. Buffered' = Buffered - 1 /\ Ready' = Ready - 1
    BY <1>1, <1>2, <1>3, <1>5
  <1>7. InOK'
    <2>1. Ready' <= Buffered' /\ Buffered' <= INPUT_BUF
      BY <1>1, <1>2, <1>6
    <2> QED
      BY <1>4, <2>1 DEF InOK, Ready, Buffered
  <1>8. NeverWedged'
    <2>1. Buffered' # INPUT_BUF
      BY <1>1, <1>2, <1>6
    <2> QED
      BY <2>1 DEF NeverWedged, Buffered
  <1> QED
    BY <1>6, <1>7, <1>8

-----------------------------------------------------------------------------
(* The transmit ring.                                                      *)

TxUsed == (uart_tx_w - uart_tx_r) % UINT64
TxFilled == \A k \in 1..TxUsed : uart_tx_buf[(uart_tx_r + k - 1) % UART_TX_BUF_SIZE] \in Bytes

LEMMA TxConstants ==
    /\ UINT64 \in Nat \ {0} /\ UINT64 > 1 /\ UINT64 % UART_TX_BUF_SIZE = 0
    /\ UART_TX_BUF_SIZE \in Nat \ {0} /\ UART_TX_BUF_SIZE \in 0..UINT64 - 1 /\ 1 \in 0..UINT64 - 1
  OBVIOUS

LEMMA TxFacts ==
    ASSUME TxOK
    PROVE  /\ TxUsed \in 0..UART_TX_BUF_SIZE
           /\ uart_tx_w = uart_tx_r <=> TxUsed = 0
           /\ TxFull <=> TxUsed = UART_TX_BUF_SIZE
  <1>1. uart_tx_r \in 0..UINT64 - 1 /\ uart_tx_w \in 0..UINT64 - 1
    BY DEF TxOK
  <1>2. TxUsed = IF uart_tx_w >= uart_tx_r THEN uart_tx_w - uart_tx_r ELSE uart_tx_w - uart_tx_r + UINT64
    BY <1>1, TxConstants, Distance DEF TxUsed
  <1>3. (uart_tx_r + UART_TX_BUF_SIZE) % UINT64 =
            IF uart_tx_r + UART_TX_BUF_SIZE < UINT64 THEN uart_tx_r + UART_TX_BUF_SIZE ELSE uart_tx_r + UART_TX_BUF_SIZE - UINT64
    BY <1>1, TxConstants, Advance
  <1>4. TxUsed <= UART_TX_BUF_SIZE
    BY DEF TxOK, TxUsed
  <1>5. TxUsed \in 0..UART_TX_BUF_SIZE /\ (uart_tx_w = uart_tx_r <=> TxUsed = 0)
    BY <1>1, <1>2, <1>4
  <1>6. TxFull <=> TxUsed = UART_TX_BUF_SIZE
    BY <1>1, <1>2, <1>3, <1>4 DEF TxFull
  <1> QED
    BY <1>5, <1>6

LEMMA TxBack ==
    ASSUME TxOK
    PROVE  (uart_tx_r + TxUsed) % UART_TX_BUF_SIZE = uart_tx_w % UART_TX_BUF_SIZE
  <1>1. uart_tx_r \in 0..UINT64 - 1 /\ uart_tx_w \in 0..UINT64 - 1
    BY DEF TxOK
  <1>2. (uart_tx_r + ((uart_tx_w - uart_tx_r) % UINT64)) % UART_TX_BUF_SIZE = uart_tx_w % UART_TX_BUF_SIZE
    BY <1>1, TxConstants, BackOf, Zenon
  <1> QED
    BY <1>2 DEF TxUsed

LEMMA TxPut ==
    ASSUME TxOK, TxFilled, ~TxFull, NEW x \in Bytes, uart_tx_r' = uart_tx_r,
           uart_tx_buf' = [uart_tx_buf EXCEPT ![uart_tx_w % UART_TX_BUF_SIZE] = x],
           uart_tx_w' = (uart_tx_w + 1) % UINT64
    PROVE  TxOK' /\ TxFilled' /\ TxUsed' = TxUsed + 1
  <1>1. uart_tx_r \in 0..UINT64 - 1 /\ uart_tx_w \in 0..UINT64 - 1
    BY DEF TxOK
  <1>2. TxUsed \in 0..UART_TX_BUF_SIZE - 1
    BY TxFacts, TxConstants
  <1>3. uart_tx_w' = IF uart_tx_w + 1 < UINT64 THEN uart_tx_w + 1 ELSE uart_tx_w + 1 - UINT64
    BY <1>1, TxConstants, Advance
  <1>4. uart_tx_w' \in 0..UINT64 - 1
    BY <1>1, <1>3
  <1>5. /\ TxUsed = IF uart_tx_w >= uart_tx_r THEN uart_tx_w - uart_tx_r ELSE uart_tx_w - uart_tx_r + UINT64
        /\ TxUsed' = IF uart_tx_w' >= uart_tx_r THEN uart_tx_w' - uart_tx_r ELSE uart_tx_w' - uart_tx_r + UINT64
    BY <1>1, <1>4, TxConstants, Distance DEF TxUsed
  <1>6. TxUsed' = TxUsed + 1
    BY <1>1, <1>2, <1>3, <1>5, TxConstants
  <1>7. uart_tx_buf' \in [0..UART_TX_BUF_SIZE - 1 -> Bytes \cup {"none"}]
    BY DEF TxOK
  <1>8. TxOK'
    <2>1. TxUsed' <= UART_TX_BUF_SIZE
      BY <1>2, <1>6, TxConstants
    <2> QED
      BY <1>1, <1>4, <1>7, <2>1 DEF TxOK, TxUsed
  <1> DEFINE u == TxUsed
  <1>9. u \in Nat /\ (uart_tx_r + u) % UART_TX_BUF_SIZE = uart_tx_w % UART_TX_BUF_SIZE
    <2>1. u \in Nat
      BY <1>2, TxConstants
    <2> QED
      BY <2>1, TxBack
  <1> HIDE DEF u
  <1>10. ASSUME NEW k \in 1..u + 1 PROVE uart_tx_buf'[(uart_tx_r + k - 1) % UART_TX_BUF_SIZE] \in Bytes
    <2> DEFINE place == (uart_tx_r + k - 1) % UART_TX_BUF_SIZE
    <2>1. place \in 0..UART_TX_BUF_SIZE - 1
      <3>1. uart_tx_r + k - 1 \in Int
        BY <1>1, <1>9
      <3> QED
        BY <3>1, TxConstants, DivMod
    <2>2. place = uart_tx_w % UART_TX_BUF_SIZE \/ uart_tx_buf[place] \in Bytes
      <3>1. CASE k = u + 1
        <4>1. uart_tx_r + k - 1 = uart_tx_r + u
          BY <1>1, <1>9, <3>1
        <4> QED
          BY <1>9, <4>1
      <3>2. CASE k \in 1..u
        BY <3>2 DEF TxFilled, u
      <3>3. k = u + 1 \/ k \in 1..u
        BY <1>9
      <3> QED
        BY <3>1, <3>2, <3>3
    <2> HIDE DEF place
    <2>3. uart_tx_buf'[place] \in Bytes
      BY <2>1, <2>2 DEF TxOK
    <2> QED
      BY <2>3 DEF place
  <1>11. TxFilled'
    BY <1>6, <1>10 DEF TxFilled, u
  <1> QED
    BY <1>6, <1>8, <1>11

LEMMA TxTake ==
    ASSUME TxOK, TxFilled, uart_tx_w # uart_tx_r, uart_tx_r' = (uart_tx_r + 1) % UINT64, UNCHANGED <<uart_tx_buf, uart_tx_w>>
    PROVE  /\ TxOK' /\ TxFilled' /\ TxUsed' = TxUsed - 1
           /\ uart_tx_buf[uart_tx_r % UART_TX_BUF_SIZE] \in Bytes
  <1>1. uart_tx_r \in 0..UINT64 - 1 /\ uart_tx_w \in 0..UINT64 - 1
    BY DEF TxOK
  <1>2. TxUsed \in 1..UART_TX_BUF_SIZE
    BY TxFacts, TxConstants
  <1>3. uart_tx_r' = IF uart_tx_r + 1 < UINT64 THEN uart_tx_r + 1 ELSE uart_tx_r + 1 - UINT64
    BY <1>1, TxConstants, Advance
  <1>4. uart_tx_r' \in 0..UINT64 - 1
    BY <1>1, <1>3
  <1>5. /\ TxUsed = IF uart_tx_w >= uart_tx_r THEN uart_tx_w - uart_tx_r ELSE uart_tx_w - uart_tx_r + UINT64
        /\ TxUsed' = IF uart_tx_w >= uart_tx_r' THEN uart_tx_w - uart_tx_r' ELSE uart_tx_w - uart_tx_r' + UINT64
    BY <1>1, <1>4, TxConstants, Distance DEF TxUsed
  <1>6. TxUsed' = TxUsed - 1
    BY <1>1, <1>2, <1>3, <1>5, TxConstants
  <1>7. TxOK'
    <2>1. TxUsed' <= UART_TX_BUF_SIZE
      BY <1>2, <1>6, TxConstants
    <2> QED
      BY <1>1, <1>4, <2>1 DEF TxOK, TxUsed
  <1> DEFINE u == TxUsed
  <1>8. u \in 1..UART_TX_BUF_SIZE /\ TxUsed' = u - 1
    BY <1>2, <1>6
  <1>9. \A k \in 1..u : uart_tx_buf[(uart_tx_r + k - 1) % UART_TX_BUF_SIZE] \in Bytes
    BY DEF TxFilled
  <1> HIDE DEF u
  <1>10. ASSUME NEW k \in 1..u - 1 PROVE uart_tx_buf'[(uart_tx_r' + k - 1) % UART_TX_BUF_SIZE] \in Bytes
    <2>1. k + 1 \in 1..u /\ uart_tx_r + (k + 1) - 1 = uart_tx_r + 1 + (k - 1) /\ k - 1 \in Int
          /\ uart_tx_r' + k - 1 = uart_tx_r' + (k - 1)
      BY <1>1, <1>4, <1>8, TxConstants
    <2>2. (uart_tx_r' + (k - 1)) % UART_TX_BUF_SIZE = (uart_tx_r + 1 + (k - 1)) % UART_TX_BUF_SIZE
      BY <1>1, <2>1, TxConstants, NextOf, ZenonT(60)
    <2> QED
      BY <1>9, <2>1, <2>2
  <1>11. TxFilled'
    BY <1>8, <1>10 DEF TxFilled
  <1>12. uart_tx_buf[uart_tx_r % UART_TX_BUF_SIZE] \in Bytes
    <2>1. 1 \in 1..u /\ uart_tx_r + 1 - 1 = uart_tx_r
      BY <1>1, <1>8, TxConstants
    <2> QED
      BY <1>9, <2>1
  <1> QED
    BY <1>6, <1>7, <1>11, <1>12

-----------------------------------------------------------------------------
(* The invariant in parts.                                                 *)

Inv ==
    /\ InOK /\ TxOK /\ UartOK /\ UserOK /\ HandOK /\ EnvOK /\ LockOK
    /\ PlaceInv /\ TxFilled /\ (\A t \in Threads : pc[t] = "thr" => c[t] \in Bytes)
    /\ FifoInv /\ SeenInv /\ NeverWedged /\ NoStuckSleeper

LEMMA InvParts == IInv <=> Inv /\ SentInv /\ LineInv
  BY TypeParts DEF IInv, Inv, TxInv, TxFilled, TxUsed

LEMMA InitInv == Init => Inv
  <1> SUFFICES ASSUME Init PROVE Inv
    OBVIOUS
  <1>1. InOK /\ NeverWedged
    <2>1. r \in 0..UINT - 1 /\ w = r /\ e = r /\ UINT \in Nat \ {0}
      <3>1. UINT \in Nat \ {0} /\ Typed \in Int
        OBVIOUS
      <3>2. Typed % UINT \in 0..UINT - 1
        BY <3>1, DivMod
      <3> QED
        BY <3>1, <3>2 DEF Init
    <2>2. (w - r) % UINT = 0 /\ (e - r) % UINT = 0
      BY <2>1, Distance
    <2>3. buf \in [0..INPUT_BUF - 1 -> Stored]
      BY DEF Init, Stored
    <2> QED
      BY <2>1, <2>2, <2>3 DEF InOK, NeverWedged
  <1>2. TxOK /\ TxFilled
    <2>1. (uart_tx_w - uart_tx_r) % UINT64 = 0
      BY TxConstants, Distance DEF Init
    <2> QED
      BY <2>1, TxConstants DEF Init, TxOK, TxFilled, TxUsed
  <1>3. UartOK
    <2>1. fifo = <<>> /\ rhr = <<>> /\ irq = FALSE
      BY DEF Init
    <2>2. fifo \in Seq(Bytes \cup {"echo"}) /\ rhr \in Seq(Keys)
      BY <2>1
    <2> QED
      BY <2>1, <2>2 DEF UartOK
  <1>4. UserOK
    BY DEF Init, UserOK
  <1>5. HandOK
    BY DEF Init, HandOK
  <1>6. EnvOK
    <2>1. load \in Loads /\ keys = 0
      BY DEF Init
    <2>2. load.max \in Nat
      BY <2>1, LoadFacts
    <2> QED
      BY <2>1, <2>2 DEF EnvOK
  <1>7. LockOK
    BY DEF Init, LockOK, Points, ConsHeld, TxHeld
  <1>8. PlaceInv /\ FifoInv /\ SeenInv /\ NoStuckSleeper /\ (\A t \in Threads : pc[t] = "thr" => c[t] \in Bytes)
    BY DEF Init, PlaceInv, FifoInv, SeenInv, NoStuckSleeper
  <1> QED
    BY <1>1, <1>2, <1>3, <1>4, <1>5, <1>6, <1>7, <1>8 DEF Inv

(* The UART and the user work beside the threads.                          *)
LEMMA EnvInv ==
    ASSUME Inv, transmit \/ \E k \in Keys : strike(k)
    PROVE  Inv'
  <1> USE DEF Inv, transmit, strike
  <1>1. InOK' /\ NeverWedged'
    BY InFrame
  <1>2. TxOK' /\ TxFilled'
    BY DEF TxOK, TxFilled, TxUsed
  <1>3. UserOK' /\ HandOK'
    BY DEF UserOK, HandOK
  <1>4. UartOK' /\ (fifo' = fifo \/ (fifo # <<>> /\ fifo' = Tail(fifo)))
    <2>1. CASE transmit
      <3>1. fifo' \in Seq(Bytes \cup {"echo"}) /\ rhr' = rhr
        BY <2>1 DEF UartOK
      <3>2. irq' \in BOOLEAN
        BY <2>1 DEF UartOK
      <3> QED
        BY <2>1, <3>1, <3>2 DEF UartOK
    <2>2. ASSUME NEW k \in Keys, strike(k) PROVE UartOK' /\ fifo' = fifo
      BY <2>2 DEF UartOK
    <2> QED
      BY <2>1, <2>2
  <1>5. EnvOK'
    <2>1. load.max \in Nat
      BY LoadFacts DEF EnvOK
    <2> QED
      BY <2>1 DEF EnvOK
  <1>6. LockOK' /\ PlaceInv' /\ SeenInv'
    BY DEF LockOK, PlaceInv, SeenInv
  <1>7. FifoInv'
    <2>1. Len(fifo') <= Len(fifo) /\ Len(fifo) \in Nat /\ Len(fifo') \in Nat /\ (fifo = <<>> => fifo' = <<>>)
      BY <1>4 DEF UartOK
    <2> QED
      BY <2>1 DEF FifoInv
  <1>8. NoStuckSleeper' /\ \A t \in Threads : pc'[t] = "thr" => c'[t] \in Bytes
    BY DEF NoStuckSleeper, TxFull
  <1> QED
    BY <1>1, <1>2, <1>3, <1>4, <1>5, <1>6, <1>7, <1>8

TxSame == \A t \in Threads : pc'[t] = "thr" => c'[t] \in Bytes

(* write() and read() start, and consolewrite() goes round its loop.       *)
LEMMA CallInv ==
    ASSUME Inv, NEW p \in Procs, NEW k \in Nat, write(p, k) \/ read(p, k) \/ consolewrite(p) \/ write_end(p)
    PROVE  Inv'
  <1> USE DEF Inv, write, read, consolewrite, write_end, MaySyscall, Return, Goto
  <1>1. /\ pc[p] \in {"user", "consolewrite"} /\ pc'[p] \in {"user", "consoleread", "consolewrite", "uartputc"}
        /\ \A t \in Threads \ {p} : pc'[t] = pc[t]
    BY DEF LockOK
  <1>2. InOK' /\ NeverWedged'
    BY InFrame
  <1>3. TxOK' /\ TxFilled'
    BY DEF TxOK, TxFilled, TxUsed
  <1>4. UartOK' /\ EnvOK'
    BY DEF UartOK, EnvOK
  <1>5. UserOK'
    <2>1. n' \in [Procs -> Nat]
      BY DEF UserOK
    <2>2. more' \in [Procs -> BOOLEAN]
      BY DEF UserOK
    <2> QED
      BY <2>1, <2>2 DEF UserOK
  <1>6. HandOK'
    BY DEF HandOK, Holding, Bytes
  <1>7. LockOK'
    <2>1. pc' \in [Threads -> Points]
      BY DEF LockOK, Points, InRead, InWrite, InIntr
    <2> QED
      BY <1>1, <2>1 DEF LockOK, ConsHeld, TxHeld
  <1>8. PlaceInv'
    <2>1. ASSUME pc'[p] = "uartputc" PROVE c'[p] = p /\ n'[p] > 0
      <3>1. consolewrite(p)
        BY <2>1 DEF LockOK
      <3> QED
        BY <3>1 DEF Holding, HandOK
    <2>2. \A q \in Procs \ {p} : c'[q] = c[q] /\ n'[q] = n[q]
      BY DEF Holding, HandOK, UserOK
    <2>3. p # Intr
      OBVIOUS
    <2> QED
      BY <1>1, <2>1, <2>2, <2>3 DEF PlaceInv, InRead, InWrite
  <1>9. FifoInv' /\ SeenInv'
    BY <1>1 DEF FifoInv, SeenInv
  <1>10. NoStuckSleeper'
    BY <1>1 DEF NoStuckSleeper, TxFull
  <1>11. TxSame
    BY <1>1 DEF HandOK, Holding, TxSame
  <1> QED
    BY <1>2, <1>3, <1>4, <1>5, <1>6, <1>7, <1>8, <1>9, <1>10, <1>11 DEF TxSame

LEMMA PutSleepInv ==
    ASSUME Inv, NEW p \in Procs, uartputc_sleep(p)
    PROVE  Inv'
  <1> USE DEF Inv, uartputc_sleep, Goto
  <1>1. pc'[p] = "wslept" /\ \A t \in Threads \ {p} : pc'[t] = pc[t]
    BY DEF LockOK
  <1>2. InOK' /\ NeverWedged'
    BY InFrame
  <1>3. TxOK' /\ TxFilled' /\ TxFull'
    BY DEF TxOK, TxFilled, TxUsed, TxFull
  <1>4. UartOK' /\ EnvOK' /\ UserOK' /\ HandOK'
    BY DEF UartOK, EnvOK, UserOK, HandOK
  <1>5. LockOK'
    <2>1. pc' \in [Threads -> Points]
      BY DEF LockOK, Points, InRead, InWrite, InIntr
    <2> QED
      BY <1>1, <2>1 DEF LockOK, ConsHeld, TxHeld
  <1>6. PlaceInv'
    BY <1>1 DEF PlaceInv, InRead, InWrite
  <1>7. FifoInv' /\ SeenInv' /\ NoStuckSleeper'
    BY <1>1, <1>3 DEF FifoInv, SeenInv, NoStuckSleeper
  <1>8. TxSame
    BY <1>1 DEF TxSame
  <1> QED
    BY <1>2, <1>3, <1>4, <1>5, <1>6, <1>7, <1>8 DEF TxSame

(* While there is room nobody waits for room.                              *)
LEMMA PutInv ==
    ASSUME Inv, NEW p \in Procs, uartputc(p)
    PROVE  Inv'
  <1> USE DEF Inv, uartputc, Goto
  <1>1. pc'[p] = "start" /\ \A t \in Threads \ {p} : pc'[t] = pc[t]
    BY DEF LockOK
  <1>2. InOK' /\ NeverWedged'
    BY InFrame
  <1>3. c[p] \in Bytes /\ n[p] > 0
    BY DEF PlaceInv, Bytes
  <1>4. TxOK' /\ TxFilled'
    BY <1>3, TxPut
  <1>5. UartOK' /\ EnvOK'
    BY DEF UartOK, EnvOK
  <1>6. UserOK'
    <2>1. n' \in [Procs -> Nat]
      BY <1>3 DEF UserOK
    <2> QED
      BY <2>1 DEF UserOK
  <1>7. HandOK'
    BY DEF HandOK, Holding
  <1>8. LockOK'
    <2>1. pc' \in [Threads -> Points]
      BY DEF LockOK, Points, InRead, InWrite, InIntr
    <2>2. \A t \in Threads : pc[t] \notin TxHeld
      BY DEF LockOK
    <2> QED
      BY <1>1, <2>1, <2>2 DEF LockOK, ConsHeld, TxHeld
  <1>9. \A q \in Threads \ {p} : c'[q] = c[q] /\ (q \in Procs => n'[q] = n[q])
    BY DEF Holding, HandOK, UserOK
  <1>10. PlaceInv'
    BY <1>1, <1>9 DEF PlaceInv, InRead, InWrite
  <1>11. FifoInv' /\ SeenInv'
    BY <1>1 DEF FifoInv, SeenInv
  <1>12. NoStuckSleeper'
    BY <1>1 DEF NoStuckSleeper
  <1>13. TxSame
    BY <1>1, <1>9 DEF TxSame
  <1> QED
    BY <1>2, <1>4, <1>5, <1>6, <1>7, <1>8, <1>10, <1>11, <1>12, <1>13 DEF TxSame

LEMMA StartReturnInv ==
    ASSUME Inv, NEW t \in Threads, start_return(t)
    PROVE  Inv'
  <1> USE DEF Inv, start_return, Goto
  <1>1. /\ pc'[t] = IF t = Intr THEN "user" ELSE "consolewrite"
        /\ \A s \in Threads \ {t} : pc'[s] = pc[s]
    BY DEF LockOK
  <1>2. InOK' /\ NeverWedged'
    BY InFrame
  <1>3. TxOK' /\ TxFilled'
    BY DEF TxOK, TxFilled, TxUsed
  <1>4. UartOK' /\ EnvOK' /\ UserOK' /\ HandOK'
    BY DEF UartOK, EnvOK, UserOK, HandOK
  <1>5. LockOK'
    <2>1. pc' \in [Threads -> Points]
      BY DEF LockOK, Points, InRead, InWrite, InIntr
    <2>2. \A s \in Threads : pc[s] \in TxHeld => s = t
      BY DEF LockOK, TxHeld
    <2> QED
      BY <1>1, <2>1, <2>2 DEF LockOK, ConsHeld, TxHeld
  <1>6. PlaceInv'
    BY <1>1 DEF PlaceInv, InRead, InWrite
  <1>7. FifoInv' /\ SeenInv'
    BY <1>1 DEF FifoInv, SeenInv
  <1>8. NoStuckSleeper'
    BY <1>1 DEF NoStuckSleeper, TxFull
  <1>9. TxSame
    BY <1>1 DEF TxSame
  <1> QED
    BY <1>2, <1>3, <1>4, <1>5, <1>6, <1>7, <1>8, <1>9 DEF TxSame

(* uartstart() wakes every writer: there is room now.                      *)
LEMMA StartTakeInv ==
    ASSUME Inv, NEW t \in Threads, uartstart(t)
    PROVE  Inv'
  <1> USE DEF Inv, uartstart
  <1>1. /\ pc'[t] = "thr"
        /\ \A s \in Threads \ {t} : pc'[s] = IF pc[s] = "wslept" THEN "uartputc" ELSE pc[s]
    BY DEF LockOK, WakeWriters, Wakeup
  <1>2. InOK' /\ NeverWedged'
    BY InFrame
  <1>3. TxOK' /\ TxFilled' /\ c' = Holding(t, uart_tx_buf[uart_tx_r % UART_TX_BUF_SIZE])
        /\ uart_tx_buf[uart_tx_r % UART_TX_BUF_SIZE] \in Bytes
    BY TxTake
  <1>4. UartOK' /\ EnvOK' /\ UserOK'
    BY DEF UartOK, EnvOK, UserOK
  <1>5. HandOK' /\ c'[t] \in Bytes /\ \A s \in Threads \ {t} : c'[s] = c[s]
    BY <1>3 DEF HandOK, Holding
  <1>6. LockOK'
    <2>1. pc' \in [Threads -> Points]
      BY DEF LockOK, Points, InRead, InWrite, InIntr, WakeWriters, Wakeup
    <2>2. \A s \in Threads : pc[s] \in TxHeld => s = t
      BY DEF LockOK, TxHeld
    <2> QED
      BY <1>1, <2>1, <2>2 DEF LockOK, ConsHeld, TxHeld
  <1>7. PlaceInv'
    BY <1>1, <1>5 DEF PlaceInv, InRead, InWrite, InIntr
  <1>8. FifoInv'
    <2>1. fifo' = <<>> /\ Len(fifo') = 0
      BY DEF TxIdle
    <2> QED
      BY <2>1 DEF FifoInv
  <1>9. SeenInv'
    BY <1>1 DEF SeenInv
  <1>10. NoStuckSleeper'
    BY <1>1 DEF NoStuckSleeper
  <1>11. TxSame
    BY <1>1, <1>5 DEF TxSame
  <1> QED
    BY <1>2, <1>3, <1>4, <1>5, <1>6, <1>7, <1>8, <1>9, <1>10, <1>11 DEF TxSame

(* The one character that uartstart() or uartputc_sync() adds.             *)
LEMMA WriteTHRFacts ==
    ASSUME UartOK, NEW x \in Bytes \cup {"echo"}, WriteTHR(x), Len(fifo) <= 1
    PROVE  fifo' \in Seq(Bytes \cup {"echo"}) /\ Len(fifo') = Len(fifo) + 1
  <1>1. Len(fifo) \in Nat /\ Len(fifo) < Capacity
    BY DEF UartOK, Capacity
  <1> QED
    BY <1>1 DEF WriteTHR, UartOK

LEMMA StartThrInv ==
    ASSUME Inv, NEW t \in Threads, start_thr(t)
    PROVE  Inv'
  <1> USE DEF Inv, start_thr, Goto
  <1>1. pc'[t] = "start" /\ \A s \in Threads \ {t} : pc'[s] = pc[s]
    BY DEF LockOK
  <1>2. InOK' /\ NeverWedged'
    BY InFrame
  <1>3. TxOK' /\ TxFilled'
    BY DEF TxOK, TxFilled, TxUsed
  <1>4. c[t] \in Bytes /\ Len(fifo) <= 1
    BY DEF FifoInv
  <1>5. fifo' \in Seq(Bytes \cup {"echo"}) /\ Len(fifo') = Len(fifo) + 1
    BY <1>4, WriteTHRFacts
  <1>6. UartOK' /\ EnvOK' /\ UserOK'
    BY <1>5 DEF UartOK, EnvOK, UserOK
  <1>7. HandOK' /\ \A s \in Threads \ {t} : c'[s] = c[s]
    BY DEF HandOK, Holding
  <1>8. \A s \in Threads : pc[s] \in TxHeld => s = t
    BY DEF LockOK, TxHeld
  <1>9. LockOK'
    <2>1. pc' \in [Threads -> Points]
      BY DEF LockOK, Points, InRead, InWrite, InIntr
    <2> QED
      BY <1>1, <2>1 DEF LockOK, ConsHeld, TxHeld
  <1>10. PlaceInv'
    BY <1>1, <1>7 DEF PlaceInv, InRead, InWrite, InIntr
  <1>11. FifoInv'
    <2>1. \A s \in Threads : pc'[s] # "thr"
      BY <1>1, <1>8 DEF TxHeld
    <2>2. ASSUME NEW s \in Threads, pc'[s] = "sync" PROVE Len(fifo') <= 1
      <3>1. s = Intr /\ pc[Intr] = "sync"
        BY <1>1, <2>2 DEF PlaceInv, InRead, InWrite
      <3>2. fifo = <<>> /\ Len(fifo) = 0
        BY <3>1 DEF FifoInv
      <3> QED
        BY <1>5, <3>2
    <2> QED
      BY <2>1, <2>2 DEF FifoInv
  <1>12. SeenInv'
    BY <1>1 DEF SeenInv
  <1>13. NoStuckSleeper'
    BY <1>1 DEF NoStuckSleeper, TxFull
  <1>14. TxSame
    BY <1>1, <1>8 DEF TxSame, TxHeld
  <1> QED
    BY <1>2, <1>3, <1>6, <1>7, <1>9, <1>10, <1>11, <1>12, <1>13, <1>14 DEF TxSame

-----------------------------------------------------------------------------
(* The interrupt handler.                                                  *)

LEMMA HandlerInv ==
    ASSUME Inv, uartintr \/ uartgetc \/ getc_none \/ intr_start
    PROVE  Inv'
  <1> USE DEF Inv, uartintr, uartgetc, getc_none, intr_start, Goto
  <1>1. /\ pc[Intr] \in {"user", "uartintr", "txintr"}
        /\ pc'[Intr] \in {"uartintr", "consoleintr", "txintr", "start"}
        /\ \A t \in Procs : pc'[t] = pc[t]
    BY DEF LockOK
  <1>2. InOK' /\ NeverWedged'
    BY InFrame
  <1>3. TxOK' /\ TxFilled'
    BY DEF TxOK, TxFilled, TxUsed
  <1>4. UartOK'
    <2>1. rhr' \in Seq(Keys)
      <3>1. rhr' = rhr \/ (rhr # <<>> /\ rhr' = Tail(rhr))
        OBVIOUS
      <3>2. rhr \in Seq(Keys)
        BY DEF UartOK
      <3> QED
        BY <3>1, <3>2
    <2>2. irq' \in BOOLEAN
      BY DEF UartOK
    <2> QED
      BY <2>1, <2>2 DEF UartOK
  <1>5. EnvOK' /\ UserOK'
    BY DEF EnvOK, UserOK
  <1>6. HandOK' /\ \A t \in Procs : c'[t] = c[t]
    <2>1. rhr # <<>> => Head(rhr) \in Keys
      BY DEF UartOK
    <2>2. c' = c \/ (rhr # <<>> /\ c' = [c EXCEPT ![Intr] = Head(rhr)])
      BY DEF Holding
    <2>3. c' \in [Threads -> Bytes \cup Keys \cup {"none"}] /\ \A t \in Procs : c'[t] = c[t]
      BY <2>1, <2>2 DEF HandOK
    <2> QED
      BY <2>3 DEF HandOK
  <1>7. LockOK'
    <2>1. pc' \in [Threads -> Points]
      BY DEF LockOK, Points, InRead, InWrite, InIntr
    <2>2. ASSUME intr_start PROVE LockOK'
      <3>1. pc'[Intr] = "start" /\ \A t \in Threads : pc[t] \notin TxHeld
        BY <2>2 DEF LockOK
      <3> QED
        BY <1>1, <2>1, <2>2, <3>1 DEF LockOK, ConsHeld, TxHeld
    <2>3. ASSUME ~intr_start PROVE LockOK'
      <3>1. pc'[Intr] \in {"uartintr", "consoleintr", "txintr"} /\ UNCHANGED <<cons_lock, uart_tx_lock>>
        BY <2>3 DEF LockOK
      <3> QED
        BY <1>1, <2>1, <3>1 DEF LockOK, ConsHeld, TxHeld
    <2> QED
      BY <2>2, <2>3
  <1>8. PlaceInv'
    BY <1>1, <1>6 DEF PlaceInv, InIntr
  <1>9. FifoInv' /\ SeenInv'
    BY <1>1 DEF FifoInv, SeenInv
  <1>10. NoStuckSleeper'
    BY <1>1 DEF NoStuckSleeper, TxFull
  <1>11. TxSame
    BY <1>1, <1>6 DEF TxSame
  <1> QED
    BY <1>2, <1>3, <1>4, <1>5, <1>6, <1>7, <1>8, <1>9, <1>10, <1>11 DEF TxSame

LEMMA ConsoleintrInv ==
    ASSUME Inv, consoleintr
    PROVE  Inv'
  <1> USE DEF Inv, consoleintr, Goto
  <1>1. pc'[Intr] = "echo" /\ \A t \in Procs : pc'[t] = pc[t]
    BY DEF LockOK
  <1>2. Erased(c[Intr]) \in 0..Buffered - Ready /\ Erased(c[Intr]) \in Nat
    BY ErasedFacts, InFacts
  <1>3. InOK' /\ NeverWedged'
    BY <1>2, EraseStep
  <1>4. TxOK' /\ TxFilled'
    BY DEF TxOK, TxFilled, TxUsed
  <1>5. UartOK' /\ EnvOK' /\ UserOK'
    BY DEF UartOK, EnvOK, UserOK
  <1>6. HandOK'
    <2>1. Echoes(c[Intr]) \in Nat
      BY <1>2 DEF Echoes
    <2> QED
      BY <2>1 DEF HandOK
  <1>7. LockOK'
    <2>1. pc' \in [Threads -> Points]
      BY DEF LockOK, Points, InRead, InWrite, InIntr
    <2>2. \A t \in Threads : pc[t] \notin ConsHeld
      BY DEF LockOK
    <2> QED
      BY <1>1, <2>1, <2>2 DEF LockOK, ConsHeld, TxHeld
  <1>8. PlaceInv'
    BY <1>1 DEF PlaceInv, InIntr
  <1>9. FifoInv' /\ SeenInv'
    BY <1>1 DEF FifoInv, SeenInv
  <1>10. NoStuckSleeper'
    BY <1>1 DEF NoStuckSleeper, TxFull
  <1>11. TxSame
    BY <1>1 DEF TxSame
  <1> QED
    BY <1>3, <1>4, <1>5, <1>6, <1>7, <1>8, <1>9, <1>10, <1>11 DEF TxSame

LEMMA SyncPollInv ==
    ASSUME Inv, sync_poll
    PROVE  Inv'
  <1> USE DEF Inv, sync_poll, Goto
  <1>1. pc'[Intr] = "sync" /\ \A t \in Procs : pc'[t] = pc[t]
    BY DEF LockOK
  <1>2. InOK' /\ NeverWedged'
    BY InFrame
  <1>3. TxOK' /\ TxFilled'
    BY DEF TxOK, TxFilled, TxUsed
  <1>4. UartOK' /\ EnvOK' /\ UserOK' /\ HandOK'
    BY DEF UartOK, EnvOK, UserOK, HandOK
  <1>5. LockOK'
    <2>1. pc' \in [Threads -> Points]
      BY DEF LockOK, Points, InRead, InWrite, InIntr
    <2> QED
      BY <1>1, <2>1 DEF LockOK, ConsHeld, TxHeld
  <1>6. PlaceInv'
    BY <1>1 DEF PlaceInv, InIntr
  <1>7. FifoInv'
    <2>1. fifo' = <<>> /\ Len(fifo') = 0
      BY DEF TxIdle
    <2> QED
      BY <2>1 DEF FifoInv
  <1>8. SeenInv' /\ NoStuckSleeper'
    BY <1>1 DEF SeenInv, NoStuckSleeper, TxFull
  <1>9. TxSame
    BY <1>1 DEF TxSame
  <1> QED
    BY <1>2, <1>3, <1>4, <1>5, <1>6, <1>7, <1>8, <1>9 DEF TxSame

LEMMA SyncInv ==
    ASSUME Inv, uartputc_sync
    PROVE  Inv'
  <1> USE DEF Inv, uartputc_sync, Goto
  <1>1. pc'[Intr] = "echo" /\ \A t \in Procs : pc'[t] = pc[t]
    BY DEF LockOK
  <1>2. InOK' /\ NeverWedged'
    BY InFrame
  <1>3. TxOK' /\ TxFilled'
    BY DEF TxOK, TxFilled, TxUsed
  <1>4. Len(fifo) <= 1
    BY DEF FifoInv
  <1>5. fifo' \in Seq(Bytes \cup {"echo"}) /\ Len(fifo') = Len(fifo) + 1
    BY <1>4, WriteTHRFacts
  <1>6. UartOK' /\ EnvOK' /\ UserOK'
    BY <1>5 DEF UartOK, EnvOK, UserOK
  <1>7. HandOK'
    <2>1. echo > 0 /\ echo \in Nat
      BY DEF PlaceInv, HandOK
    <2> QED
      BY <2>1 DEF HandOK
  <1>8. LockOK'
    <2>1. pc' \in [Threads -> Points]
      BY DEF LockOK, Points, InRead, InWrite, InIntr
    <2> QED
      BY <1>1, <2>1 DEF LockOK, ConsHeld, TxHeld
  <1>9. PlaceInv'
    BY <1>1 DEF PlaceInv, InIntr
  <1>10. FifoInv'
    <2>1. \A t \in Threads : pc'[t] # "sync"
      BY <1>1 DEF PlaceInv, InRead, InWrite
    <2>2. ASSUME NEW t \in Threads, pc'[t] = "thr" PROVE Len(fifo') <= 1
      <3>1. fifo = <<>> /\ Len(fifo) = 0
        BY <1>1, <2>2 DEF FifoInv
      <3> QED
        BY <1>5, <3>1
    <2> QED
      BY <2>1, <2>2 DEF FifoInv
  <1>11. SeenInv' /\ NoStuckSleeper'
    BY <1>1 DEF SeenInv, NoStuckSleeper, TxFull
  <1>12. TxSame
    BY <1>1 DEF TxSame
  <1> QED
    BY <1>2, <1>3, <1>6, <1>7, <1>8, <1>9, <1>10, <1>11, <1>12 DEF TxSame

(* The readers are woken when there is something to read.                  *)
LEMMA ConsoleintrEndInv ==
    ASSUME Inv, consoleintr_end
    PROVE  Inv'
  <1> USE DEF Inv, consoleintr_end
  <1> DEFINE x == IF c[Intr] = "cr" THEN "nl" ELSE c[Intr]
  <1>1. /\ pc'[Intr] = "uartintr"
        /\ \A t \in Procs : pc'[t] = pc[t] \/ (pc[t] = "rslept" /\ pc'[t] = "consoleread")
    BY DEF LockOK, WakeReaders, Wakeup, Goto
  <1>2. InOK' /\ NeverWedged'
    <2>1. CASE Accepted(c[Intr])
      <3>1. x \in Stored /\ Buffered < INPUT_BUF
        BY <2>1 DEF Accepted, Stored, Enders, Buffered
      <3>2. /\ buf' = [buf EXCEPT ![Slot] = x] /\ r' = r /\ e' = (e + 1) % UINT
            /\ w' = IF Completes(x) THEN (e + 1) % UINT ELSE w
        BY <2>1
      <3> HIDE DEF x
      <3> QED
        BY <3>1, <3>2, TypeStep
    <2>2. CASE ~Accepted(c[Intr])
      BY <2>2, InFrame
    <2> QED
      BY <2>1, <2>2
  <1>3. TxOK' /\ TxFilled'
    BY DEF TxOK, TxFilled, TxUsed
  <1>4. UartOK' /\ EnvOK' /\ UserOK'
    BY DEF UartOK, EnvOK, UserOK
  <1>5. HandOK' /\ \A t \in Procs : c'[t] = c[t]
    BY DEF HandOK, Holding
  <1>6. \A t \in Procs : pc[t] \notin ConsHeld
    BY DEF LockOK, ConsHeld
  <1>7. LockOK'
    <2>1. pc' \in [Threads -> Points]
      BY DEF LockOK, Points, InRead, InWrite, InIntr, WakeReaders, Wakeup, Goto
    <2> QED
      BY <1>1, <1>6, <2>1 DEF LockOK, ConsHeld, TxHeld
  <1>8. PlaceInv'
    BY <1>1, <1>5 DEF PlaceInv, InIntr, InRead, InWrite
  <1>9. FifoInv'
    BY <1>1 DEF FifoInv
  <1>10. SeenInv'
    BY <1>1, <1>6 DEF SeenInv, ConsHeld
  <1>11. NoStuckSleeper'
    <2>1. w' # w => \A t \in Procs : pc'[t] # "rslept"
      BY DEF LockOK, WakeReaders, Wakeup, Goto
    <2> QED
      BY <1>1, <2>1 DEF NoStuckSleeper, TxFull
  <1>12. TxSame
    BY <1>1, <1>5 DEF TxSame
  <1> QED
    BY <1>2, <1>3, <1>4, <1>5, <1>7, <1>8, <1>9, <1>10, <1>11, <1>12 DEF TxSame

-----------------------------------------------------------------------------
(* consoleread()                                                           *)

LEMMA ReadMoveInv ==
    ASSUME Inv, NEW p \in Procs, consoleread(p) \/ read_test(p) \/ read_sleep(p) \/ read_end(p)
    PROVE  Inv'
  <1> USE DEF Inv, consoleread, read_test, read_sleep, read_end, ReturnLocked, Return, Goto
  <1>1. /\ pc[p] \in {"consoleread", "rloop", "rsleep"}
        /\ pc'[p] \in {"rloop", "rsleep", "rslept", "user"}
        /\ \A t \in Threads \ {p} : pc'[t] = pc[t]
    BY DEF LockOK
  <1>2. InOK' /\ NeverWedged'
    BY InFrame
  <1>3. TxOK' /\ TxFilled'
    BY DEF TxOK, TxFilled, TxUsed
  <1>4. UartOK' /\ EnvOK' /\ HandOK'
    BY DEF UartOK, EnvOK, HandOK
  <1>5. UserOK'
    <2>1. n' \in [Procs -> Nat]
      BY DEF UserOK
    <2>2. more' \in [Procs -> BOOLEAN]
      BY DEF UserOK
    <2> QED
      BY <2>1, <2>2 DEF UserOK
  <1>6. LockOK'
    <2>1. pc' \in [Threads -> Points]
      BY DEF LockOK, Points, InRead, InWrite, InIntr
    <2>2. \A t \in Threads : pc[t] \in ConsHeld => t = p
      BY <1>1 DEF LockOK, ConsHeld
    <2>3. cons_lock' = IF pc'[p] \in ConsHeld THEN p ELSE Nobody
      BY <1>1 DEF LockOK, ConsHeld
    <2> QED
      BY <1>1, <2>1, <2>2, <2>3 DEF LockOK, ConsHeld, TxHeld
  <1>7. PlaceInv'
    <2>1. \A q \in Procs \ {p} : n'[q] = n[q]
      BY DEF UserOK
    <2>2. p # Intr
      OBVIOUS
    <2> QED
      BY <1>1, <2>1, <2>2 DEF PlaceInv, InRead, InWrite
  <1>8. FifoInv'
    BY <1>1 DEF FifoInv
  <1>9. SeenInv' /\ NoStuckSleeper'
    <2>1. pc'[p] \in {"rsleep", "rslept"} => r = w
      BY <1>1 DEF SeenInv, LockOK
    <2> QED
      BY <1>1, <2>1 DEF SeenInv, NoStuckSleeper, TxFull
  <1>10. TxSame
    BY <1>1 DEF TxSame
  <1> QED
    BY <1>2, <1>3, <1>4, <1>5, <1>6, <1>7, <1>8, <1>9, <1>10 DEF TxSame

(* Nobody sleeps for input while there is some.                            *)
LEMMA ReadTakeInv ==
    ASSUME Inv, NEW p \in Procs, read_eof(p) \/ read_char(p) \/ read_copyout_fails(p)
    PROVE  Inv'
  <1> USE DEF Inv, read_eof, read_char, read_copyout_fails, Readable, ReturnLocked, Return, Goto
  <1>1. /\ pc[p] = "rloop" /\ r # w /\ n[p] > 0
        /\ (pc'[p] = "rloop" /\ cons_lock' = cons_lock) \/ (pc'[p] = "user" /\ cons_lock' = Nobody)
        /\ \A t \in Threads \ {p} : pc'[t] = pc[t]
    BY DEF LockOK
  <1>2. InOK' /\ NeverWedged'
    BY <1>1, InFrame, ReadStep
  <1>3. TxOK' /\ TxFilled'
    BY DEF TxOK, TxFilled, TxUsed
  <1>4. UartOK' /\ EnvOK' /\ HandOK'
    BY DEF UartOK, EnvOK, HandOK
  <1>5. UserOK'
    <2>1. n' = [n EXCEPT ![p] = 0] \/ n' = [n EXCEPT ![p] = @ - 1]
      OBVIOUS
    <2>2. n' \in [Procs -> Nat]
      BY <1>1, <2>1 DEF UserOK
    <2>3. more' \in [Procs -> BOOLEAN]
      BY DEF UserOK
    <2> QED
      BY <2>2, <2>3 DEF UserOK
  <1>6. \A t \in Threads : pc[t] \in ConsHeld => t = p
    BY <1>1 DEF LockOK, ConsHeld
  <1>7. LockOK'
    <2>1. pc' \in [Threads -> Points]
      BY DEF LockOK, Points, InRead, InWrite, InIntr
    <2> QED
      BY <1>1, <1>6, <2>1 DEF LockOK, ConsHeld, TxHeld
  <1>8. PlaceInv'
    <2>1. \A q \in Procs \ {p} : n'[q] = n[q]
      BY DEF UserOK
    <2>2. p # Intr
      OBVIOUS
    <2> QED
      BY <1>1, <2>1, <2>2 DEF PlaceInv, InRead, InWrite
  <1>9. FifoInv'
    BY <1>1 DEF FifoInv
  <1>10. SeenInv' /\ NoStuckSleeper'
    BY <1>1, <1>6 DEF SeenInv, NoStuckSleeper, TxFull, ConsHeld
  <1>11. TxSame
    BY <1>1 DEF TxSame
  <1> QED
    BY <1>2, <1>3, <1>4, <1>5, <1>7, <1>8, <1>9, <1>10, <1>11 DEF TxSame

-----------------------------------------------------------------------------
LEMMA KillInv ==
    ASSUME Inv, NEW p \in Procs, kill(p)
    PROVE  Inv'
  <1> USE DEF Inv, kill, Goto
  <1>1. /\ \/ pc'[p] = pc[p]
           \/ pc[p] = "rslept" /\ pc'[p] = "consoleread"
           \/ pc[p] = "wslept" /\ pc'[p] = "uartputc"
        /\ \A t \in Threads \ {p} : pc'[t] = pc[t]
    BY DEF LockOK
  <1>2. InOK' /\ NeverWedged'
    BY InFrame
  <1>3. TxOK' /\ TxFilled'
    BY DEF TxOK, TxFilled, TxUsed
  <1>4. UartOK' /\ EnvOK' /\ HandOK'
    BY DEF UartOK, EnvOK, HandOK
  <1>5. UserOK'
    BY DEF UserOK
  <1>6. LockOK'
    <2>1. pc'[p] \in Points
      BY <1>1 DEF LockOK, Points, InRead, InWrite, InIntr
    <2>2. pc' \in [Threads -> Points]
      BY <2>1 DEF LockOK
    <2> QED
      BY <1>1, <2>2 DEF LockOK, ConsHeld, TxHeld
  <1>7. PlaceInv'
    <2>1. p # Intr
      OBVIOUS
    <2> QED
      BY <1>1, <2>1 DEF PlaceInv, InRead, InWrite
  <1>8. FifoInv' /\ SeenInv'
    BY <1>1 DEF FifoInv, SeenInv
  <1>9. NoStuckSleeper'
    BY <1>1 DEF NoStuckSleeper, TxFull
  <1>10. TxSame
    BY <1>1 DEF TxSame
  <1> QED
    BY <1>2, <1>3, <1>4, <1>5, <1>6, <1>7, <1>8, <1>9, <1>10 DEF TxSame

LEMMA StutterInv ==
    ASSUME Inv, UNCHANGED vars
    PROVE  Inv'
  <1>1. InOK' /\ NeverWedged' /\ TxOK' /\ TxFilled' /\ UartOK' /\ UserOK' /\ HandOK' /\ EnvOK' /\ LockOK'
    BY DEF Inv, InOK, NeverWedged, TxOK, TxFilled, TxUsed, UartOK, UserOK, HandOK, EnvOK, LockOK
  <1>2. PlaceInv' /\ FifoInv' /\ SeenInv' /\ NoStuckSleeper' /\ TxSame
    BY DEF Inv, PlaceInv, FifoInv, SeenInv, NoStuckSleeper, TxFull, TxSame
  <1> QED
    BY <1>1, <1>2 DEF Inv, TxSame

LEMMA NextInv ==
    ASSUME Inv, [Next]_vars
    PROVE  Inv'
  <1>1. /\ load.readers \subseteq Procs /\ load.writers \subseteq Procs /\ load.killable \subseteq Procs
        /\ load.sizes \subseteq Nat
    BY LoadFacts DEF Inv, EnvOK
  <1>2. ASSUME NEW t \in Threads, Starting(t) PROVE Inv'
    BY <1>2, StartReturnInv, StartTakeInv, StartThrInv DEF Starting
  <1>3. ASSUME Interrupt PROVE Inv'
    BY <1>2, <1>3, HandlerInv, ConsoleintrInv, SyncPollInv, SyncInv, ConsoleintrEndInv DEF Interrupt
  <1>4. ASSUME NEW p \in Procs, Reading(p) PROVE Inv'
    BY <1>4, ReadMoveInv, ReadTakeInv DEF Reading
  <1>5. ASSUME NEW p \in Procs, Writing(p) PROVE Inv'
    <2>1. 0 \in Nat
      OBVIOUS
    <2> QED
      BY <1>2, <1>5, <2>1, CallInv, PutSleepInv, PutInv DEF Writing
  <1>6. ASSUME NEW p \in load.readers, NEW k \in load.sizes, read(p, k) PROVE Inv'
    BY <1>1, <1>6, CallInv
  <1>7. ASSUME NEW p \in load.writers, NEW k \in load.sizes, write(p, k) PROVE Inv'
    BY <1>1, <1>7, CallInv
  <1>8. ASSUME NEW p \in load.killable, kill(p) PROVE Inv'
    BY <1>1, <1>8, KillInv
  <1> QED
    BY <1>3, <1>4, <1>5, <1>6, <1>7, <1>8, EnvInv, StutterInv DEF Next

-----------------------------------------------------------------------------
(* Programs' characters on their way out.                                  *)

Sent == OneOf(fifo, InUart)
Hand == OneOf(c, InHand)
Chars == Bytes \cup Keys \cup {"none", "echo"}

LEMMA OneOfNone == ASSUME NEW f PROVE OneOf(f, {}) = <<>>
  BY DEF OneOf
LEMMA OneOfOne == ASSUME NEW f, NEW x PROVE OneOf(f, {x}) = <<f[x]>>
  BY DEF OneOf

LEMMA OneOfSeq ==
    ASSUME NEW S, NEW f, NEW P, \A x \in P : f[x] \in S
    PROVE  OneOf(f, P) \in Seq(S) /\ Len(OneOf(f, P)) \in 0..1
  <1>1. CASE P = {}
    BY <1>1 DEF OneOf
  <1>2. CASE P # {}
    <2>1. PICK x : x = CHOOSE y \in P : TRUE
      OBVIOUS
    <2>2. x \in P
      BY <1>2, <2>1
    <2>3. OneOf(f, P) = <<f[x]>> /\ f[x] \in S
      BY <1>2, <2>1, <2>2 DEF OneOf
    <2> QED
      BY <2>3
  <1> QED
    BY <1>1, <1>2

(* What is chosen does not depend on the rest of the function.             *)
LEMMA OneOfSame ==
    ASSUME NEW f, NEW g, NEW P, \A x \in P : f[x] = g[x]
    PROVE  OneOf(f, P) = OneOf(g, P)
  <1>1. CASE P = {}
    BY <1>1 DEF OneOf
  <1>2. CASE P # {}
    <2>1. PICK x : x = CHOOSE y \in P : TRUE
      OBVIOUS
    <2>2. x \in P
      BY <1>2, <2>1
    <2> QED
      BY <1>2, <2>1, <2>2 DEF OneOf
  <1> QED
    BY <1>1, <1>2

OutOK ==
    /\ Sent \in Seq(Chars) /\ Len(Sent) \in 0..1
    /\ Hand \in Seq(Chars) /\ Len(Hand) \in 0..1
    /\ InRing \in Seq(Chars) /\ Len(InRing) = TxUsed
    /\ InUart = {k \in 1..Len(fifo) : fifo[k] # "echo"}
    /\ Store(Chars, UART_TX_BUF_SIZE, uart_tx_buf)

LEMMA OutFacts == Inv => OutOK
  <1> SUFFICES ASSUME Inv PROVE OutOK
    OBVIOUS
  <1>1. DOMAIN fifo = 1..Len(fifo) /\ \A k \in DOMAIN fifo : fifo[k] \in Bytes \cup {"echo"}
    BY DEF Inv, UartOK
  <1>2. InUart = {k \in 1..Len(fifo) : fifo[k] # "echo"} /\ \A k \in InUart : fifo[k] \in Chars
    BY <1>1 DEF InUart, Chars
  <1>3. Sent \in Seq(Chars) /\ Len(Sent) \in 0..1
    BY <1>2, OneOfSeq DEF Sent
  <1>4. Hand \in Seq(Chars) /\ Len(Hand) \in 0..1
    <2>1. \A t \in InHand : c[t] \in Chars
      BY DEF Inv, HandOK, InHand, Chars
    <2> QED
      BY <2>1, OneOfSeq DEF Hand
  <1>5. Store(Chars, UART_TX_BUF_SIZE, uart_tx_buf)
    BY TxConstants DEF Inv, TxOK, Store, Chars
  <1>6. InRing \in Seq(Chars) /\ Len(InRing) = TxUsed
    <2>1. TxUsed \in Nat /\ uart_tx_r \in Int
      BY TxFacts, TxConstants DEF Inv, TxOK
    <2>2. IsRing(RingOf(uart_tx_buf, UART_TX_BUF_SIZE, uart_tx_r, TxUsed), Chars, UART_TX_BUF_SIZE, uart_tx_buf, uart_tx_r, TxUsed)
      BY <1>5, <2>1, RingSeq, Zenon
    <2> QED
      BY <2>2 DEF IsRing, InRing, TxUsed
  <1> QED
    BY <1>2, <1>3, <1>4, <1>5, <1>6 DEF OutOK

LEMMA OutFactsNext == ASSUME Inv' PROVE OutOK'
  <1>1. Inv' => OutOK'
    BY OutFacts, PTL
  <1> QED
    BY <1>1

(* Steps that have nothing to do with it.                                  *)
Quiet == UNCHANGED <<fifo, txVars, InHand>> /\ \A t \in InHand : c'[t] = c[t]

LEMMA QuietOut ==
    ASSUME Quiet
    PROVE  Output' = Output /\ (SentInv => SentInv')
  <1>1. InUart' = InUart /\ Sent' = Sent
    BY DEF Quiet, InUart, Sent
  <1>2. InRing' = InRing
    BY DEF Quiet, InRing
  <1>3. Hand' = Hand
    <2>1. OneOf(c', InHand) = OneOf(c, InHand)
      BY OneOfSame DEF Quiet
    <2> QED
      BY <2>1 DEF Hand, Quiet
  <1> QED
    BY <1>1, <1>2, <1>3 DEF Output, Sent, Hand, SentInv, Quiet

LEMMA QuietCalls ==
    ASSUME Inv, NEW p \in Procs, NEW k, read(p, k) \/ write(p, k) \/ kill(p) \/ Reading(p)
              \/ consolewrite(p) \/ write_end(p) \/ uartputc_sleep(p)
    PROVE  Quiet
  <1> USE DEF Inv, LockOK, HandOK, Quiet, InHand, Goto, Return, ReturnLocked, Holding
  <1>1. CASE read(p, k) \/ write(p, k)
    BY <1>1 DEF read, write, MaySyscall
  <1>2. CASE kill(p)
    BY <1>2 DEF kill
  <1>3. CASE consoleread(p) \/ read_end(p) \/ read_test(p) \/ read_sleep(p)
    BY <1>3 DEF consoleread, read_end, read_test, read_sleep
  <1>4. CASE read_eof(p) \/ read_char(p) \/ read_copyout_fails(p)
    BY <1>4 DEF read_eof, read_char, read_copyout_fails, Readable
  <1>5. CASE consolewrite(p) \/ write_end(p) \/ uartputc_sleep(p)
    BY <1>5 DEF consolewrite, write_end, uartputc_sleep
  <1> QED
    BY <1>1, <1>2, <1>3, <1>4, <1>5 DEF Reading

LEMMA QuietHandler ==
    ASSUME Inv, uartintr \/ uartgetc \/ getc_none \/ intr_start \/ consoleintr \/ sync_poll \/ consoleintr_end
    PROVE  Quiet
  <1> USE DEF Inv, LockOK, HandOK, Quiet, InHand, Goto, Holding
  <1>1. CASE uartintr \/ uartgetc \/ getc_none \/ intr_start
    BY <1>1 DEF uartintr, uartgetc, getc_none, intr_start
  <1>2. CASE consoleintr \/ sync_poll
    BY <1>2 DEF consoleintr, sync_poll
  <1>3. CASE consoleintr_end
    BY <1>3 DEF consoleintr_end, WakeReaders, Wakeup
  <1> QED
    BY <1>1, <1>2, <1>3

LEMMA QuietOthers ==
    ASSUME Inv, (\E t \in Threads : start_return(t)) \/ (\E k \in Keys : strike(k)) \/ UNCHANGED vars
    PROVE  Quiet
  BY DEF Inv, LockOK, HandOK, Quiet, InHand, Goto, start_return, strike

(* transmit(): an echo goes first, or the program's character.             *)
LEMMA ShowStep ==
    ASSUME Inv, Inv', SentInv, transmit
    PROVE  SentInv' /\ (Output' = Output \/ (Output # <<>> /\ Output' = Tail(Output)))
  <1> USE DEF transmit
  <1>1. OutOK /\ OutOK'
    BY OutFacts, OutFactsNext
  <1>2. /\ Len(fifo) \in Nat \ {0} /\ Len(fifo') = Len(fifo) - 1
        /\ \A k \in 1..Len(fifo') : fifo'[k] = fifo[k + 1]
    BY DEF Inv, UartOK
  <1>3. \A k \in InUart' : k \in Nat /\ k + 1 \in InUart /\ fifo'[k] = fifo[k + 1]
    BY <1>1, <1>2 DEF OutOK
  <1>4. \A k \in InUart : k # 1 => k - 1 \in InUart'
    <2> SUFFICES ASSUME NEW k \in InUart, k # 1 PROVE k - 1 \in InUart'
      OBVIOUS
    <2>1. k \in 1..Len(fifo) /\ fifo[k] # "echo"
      BY <1>1 DEF OutOK
    <2>2. k - 1 \in 1..Len(fifo') /\ (k - 1) + 1 = k
      BY <1>2, <2>1
    <2>3. fifo'[k - 1] # "echo"
      BY <1>2, <2>1, <2>2
    <2> QED
      BY <1>1, <2>2, <2>3 DEF OutOK
  <1>5. InHand' = InHand /\ Hand' = Hand /\ InRing' = InRing
    BY DEF InHand, Hand, InRing
  <1>6. SentInv'
    <2>1. \A j, k \in InUart' : j = k
      <3> SUFFICES ASSUME NEW j \in InUart', NEW k \in InUart' PROVE j = k
        OBVIOUS
      <3>1. j + 1 = k + 1
        BY <1>3 DEF SentInv
      <3> QED
        BY <1>3, <3>1
    <2>2. InHand' # {} => InUart' = {}
      BY <1>3, <1>5 DEF SentInv
    <2> QED
      BY <2>1, <2>2 DEF SentInv
  <1>7. CASE 1 \in InUart
    <2>1. InUart = {1} /\ InUart' = {}
      <3>1. \A k \in InUart : k = 1
        BY <1>7 DEF SentInv
      <3>2. \A k \in InUart' : k \in 1..Len(fifo') /\ k + 1 = 1
        BY <1>1, <1>3, <3>1 DEF OutOK
      <3> QED
        BY <1>2, <1>7, <3>1, <3>2
    <2>2. Sent = <<fifo[1]>> /\ Sent' = <<>> /\ fifo[1] \in Chars
      <3>1. Sent' = OneOf(fifo', {})
        BY <2>1 DEF Sent
      <3>2. Sent = OneOf(fifo, {1})
        BY <2>1 DEF Sent
      <3>3. fifo[1] \in Bytes \cup {"echo"}
        BY <1>2 DEF Inv, UartOK
      <3> QED
        BY <3>1, <3>2, <3>3, OneOfNone, OneOfOne DEF Chars
    <2>3. Output = <<fifo[1]>> \o (Hand \o InRing)
      <3>1. <<fifo[1]>> \in Seq(Chars)
        BY <2>2
      <3>2. Output = (<<fifo[1]>> \o Hand) \o InRing
        BY <2>2 DEF Output, Sent, Hand
      <3>3. Hand \in Seq(Chars) /\ InRing \in Seq(Chars)
        BY <1>1 DEF OutOK
      <3> QED
        BY <3>1, <3>2, <3>3, ConcatAssociative
    <2>4. Output' = Hand \o InRing
      <3>1. Output' = (Sent' \o Hand') \o InRing'
        BY DEF Output, Sent, Hand
      <3> QED
        BY <1>1, <1>5, <2>2, <3>1, ConcatEmptySeq DEF OutOK
    <2>5. Hand \o InRing \in Seq(Chars)
      BY <1>1, ConcatProperties DEF OutOK
    <2>6. Output # <<>> /\ Tail(Output) = Hand \o InRing
      BY <2>2, <2>3, <2>5, ConsSeq
    <2> QED
      BY <1>6, <2>4, <2>6
  <1>8. CASE 1 \notin InUart
    <2>1. Sent' = Sent
      <3>1. CASE InUart = {}
        <4>1. InUart' = {}
          BY <1>3, <3>1
        <4> QED
          BY <3>1, <4>1 DEF Sent, OneOf
      <3>2. CASE InUart # {}
        <4>1. PICK k \in InUart : TRUE
          BY <3>2
        <4>2. k # 1 /\ InUart = {k} /\ k \in Nat
          <5>1. InUart = {k}
            BY DEF SentInv
          <5>2. k \in Nat
            BY <1>1 DEF OutOK
          <5> QED
            BY <1>8, <5>1, <5>2
        <4>3. InUart' = {k - 1} /\ fifo'[k - 1] = fifo[k]
          <5>1. k - 1 \in InUart' /\ (k - 1) + 1 = k
            BY <1>4, <4>2
          <5>2. \A j \in InUart' : j = k - 1
            BY <1>3, <4>2
          <5> QED
            BY <1>3, <5>1, <5>2
        <4>4. Sent = <<fifo[k]>>
          BY <4>2, OneOfOne DEF Sent
        <4>5. Sent' = <<fifo'[k - 1]>>
          <5>1. Sent' = OneOf(fifo', {k - 1})
            BY <4>3 DEF Sent
          <5> QED
            BY <5>1, OneOfOne
        <4> QED
          BY <4>3, <4>4, <4>5
      <3> QED
        BY <3>1, <3>2
    <2>2. Output' = Output
      BY <1>5, <2>1 DEF Output, Sent, Hand
    <2> QED
      BY <1>6, <2>2
  <1> QED
    BY <1>7, <1>8

(* uartputc(): the character goes behind all others.                       *)
LEMMA PutStep ==
    ASSUME Inv, Inv', SentInv, NEW p \in Procs, uartputc(p)
    PROVE  /\ SentInv' /\ Len(Output) < UART_TX_BUF_SIZE + FIFO
           /\ p \in Bytes /\ Output' = Append(Output, p)
  <1>1. OutOK /\ OutOK'
    BY OutFacts, OutFactsNext
  <1>2. InHand = {} /\ InHand' = {}
    <2>1. \A t \in Threads : pc[t] # "thr" /\ pc'[t] # "thr"
      BY DEF Inv, LockOK, TxHeld, uartputc, Goto
    <2> QED
      BY <2>1 DEF InHand
  <1>3. InUart' = InUart /\ Sent' = Sent
    BY DEF uartputc, InUart, Sent
  <1>4. Hand = <<>> /\ Hand' = <<>>
    BY <1>2, OneOfNone DEF Hand, OneOf
  <1>5. SentInv'
    BY <1>2, <1>3 DEF SentInv
  <1>6. p \in Bytes /\ p \in Chars /\ c[p] = p
    BY DEF Inv, PlaceInv, uartputc, Bytes, Chars
  <1>7. TxUsed \in 0..UART_TX_BUF_SIZE - 1 /\ TxUsed' = TxUsed + 1
    <2>1. TxUsed \in 0..UART_TX_BUF_SIZE /\ TxUsed # UART_TX_BUF_SIZE
      BY TxFacts DEF Inv, uartputc
    <2>2. TxUsed' = TxUsed + 1
      BY <1>6, TxPut DEF Inv, uartputc
    <2> QED
      BY <2>1, <2>2, TxConstants
  <1>8. InRing' = Append(InRing, p)
    <2>1. uart_tx_r \in Int /\ uart_tx_w % UART_TX_BUF_SIZE = (uart_tx_r + TxUsed) % UART_TX_BUF_SIZE
      <3>1. uart_tx_r \in 0..UINT64 - 1
        BY DEF Inv, TxOK
      <3> QED
        BY <3>1, TxBack DEF Inv
    <2>2. Extended(uart_tx_buf, UART_TX_BUF_SIZE, uart_tx_r, TxUsed, p)
      BY <1>1, <1>6, <1>7, <2>1, RingAppend, Zenon DEF OutOK
    <2>3. uart_tx_buf' = [uart_tx_buf EXCEPT ![(uart_tx_r + TxUsed) % UART_TX_BUF_SIZE] = p] /\ uart_tx_r' = uart_tx_r
      BY <1>6, <2>1 DEF uartputc
    <2>4. InRing = RingOf(uart_tx_buf, UART_TX_BUF_SIZE, uart_tx_r, TxUsed)
          /\ InRing' = RingOf(uart_tx_buf', UART_TX_BUF_SIZE, uart_tx_r', TxUsed')
      BY DEF InRing, TxUsed
    <2> QED
      BY <1>7, <2>2, <2>3, <2>4 DEF Extended
  <1>9. Output = (Sent \o Hand) \o InRing /\ Output' = (Sent' \o Hand') \o InRing'
    BY DEF Output, Sent, Hand
  <1>10. Sent \in Seq(Chars) /\ Len(Sent) \in 0..1 /\ InRing \in Seq(Chars) /\ Len(InRing) = TxUsed
    BY <1>1 DEF OutOK
  <1> HIDE DEF TxUsed
  <1>11. Output = Sent \o InRing /\ Output' = Sent \o Append(InRing, p)
    BY <1>3, <1>4, <1>8, <1>9, <1>10, ConcatEmptySeq
  <1>12. Output' = Append(Output, p)
    <2>1. <<p>> \in Seq(Chars)
      BY <1>6
    <2>2. Append(InRing, p) = InRing \o <<p>>
      BY <1>6, <1>10, AppendIsConcat
    <2>3. Sent \o (InRing \o <<p>>) = (Sent \o InRing) \o <<p>>
      BY <1>10, <2>1, ConcatAssociative
    <2>4. Output \in Seq(Chars)
      BY <1>10, <1>11, ConcatProperties
    <2>5. Append(Output, p) = Output \o <<p>>
      BY <1>6, <2>4, AppendIsConcat
    <2> QED
      BY <1>11, <2>2, <2>3, <2>5
  <1>13. Len(Output) < UART_TX_BUF_SIZE + FIFO
    <2>1. Len(Output) = Len(Sent) + TxUsed
      BY <1>10, <1>11, ConcatProperties
    <2> DEFINE sent == Len(Sent)  all == Len(Output)
    <2>2. sent \in 0..1 /\ TxUsed \in 0..UART_TX_BUF_SIZE - 1 /\ all = sent + TxUsed
      BY <1>7, <1>10, <2>1
    <2>3. UART_TX_BUF_SIZE \in Int /\ FIFO \in Int /\ FIFO > 1
      OBVIOUS
    <2> HIDE DEF sent, all
    <2>4. all < UART_TX_BUF_SIZE + FIFO
      BY <2>2, <2>3
    <2> QED
      BY <2>4 DEF all
  <1> QED
    BY <1>5, <1>6, <1>12, <1>13

(* uartstart(): from the ring into its hands.                              *)
LEMMA StartStep ==
    ASSUME Inv, Inv', SentInv, NEW t \in Threads, uartstart(t)
    PROVE  SentInv' /\ Output' = Output
  <1>1. OutOK /\ OutOK'
    BY OutFacts, OutFactsNext
  <1>2. fifo = <<>> /\ fifo' = <<>> /\ InUart = {} /\ InUart' = {}
    BY DEF uartstart, TxIdle, InUart
  <1>3. InHand = {} /\ InHand' = {t}
    <2>1. \A s \in Threads : pc[s] # "thr" /\ (pc'[s] = "thr" <=> s = t)
      BY DEF Inv, LockOK, TxHeld, uartstart, WakeWriters, Wakeup
    <2> QED
      BY <2>1 DEF InHand
  <1>4. SentInv'
    BY <1>2 DEF SentInv
  <1> DEFINE x == uart_tx_buf[uart_tx_r % UART_TX_BUF_SIZE]
  <1>5. Sent = <<>> /\ Sent' = <<>> /\ Hand = <<>> /\ Hand' = <<x>>
    <2>1. Sent = OneOf(fifo, {}) /\ Sent' = OneOf(fifo', {}) /\ Hand = OneOf(c, {}) /\ Hand' = OneOf(c', {t})
      BY <1>2, <1>3 DEF Sent, Hand
    <2>2. c'[t] = x
      BY DEF uartstart, Holding, Inv, HandOK
    <2> QED
      BY <2>1, <2>2, OneOfNone, OneOfOne
  <1>6. InRing = <<x>> \o InRing' /\ x \in Chars
    <2>1. uart_tx_r \in 0..UINT64 - 1 /\ uart_tx_w \in 0..UINT64 - 1 /\ uart_tx_r' \in 0..UINT64 - 1 /\ uart_tx_r \in Int
      BY DEF Inv, TxOK
    <2>2. TxUsed' = TxUsed - 1 /\ TxUsed \in Nat \ {0} /\ TxUsed - 1 \in Nat
      <3>1. TxUsed' = TxUsed - 1
        BY TxTake DEF Inv, uartstart
      <3>2. TxUsed \in 0..UART_TX_BUF_SIZE /\ TxUsed # 0
        BY TxFacts DEF Inv, uartstart
      <3> QED
        BY <3>1, <3>2, TxConstants
    <2>3. First(Chars, uart_tx_buf, UART_TX_BUF_SIZE, uart_tx_r, TxUsed)
      BY <1>1, <2>1, <2>2, RingFirst, Zenon DEF OutOK
    <2>4. InRing = RingOf(uart_tx_buf, UART_TX_BUF_SIZE, uart_tx_r, TxUsed)
          /\ InRing' = RingOf(uart_tx_buf, UART_TX_BUF_SIZE, uart_tx_r', TxUsed')
      BY DEF InRing, TxUsed, uartstart
    <2>5. RingOf(uart_tx_buf, UART_TX_BUF_SIZE, uart_tx_r', TxUsed - 1)
            = RingOf(uart_tx_buf, UART_TX_BUF_SIZE, uart_tx_r + 1, TxUsed - 1)
      <3>1. uart_tx_r' = uart_tx_r + 1 \/ uart_tx_r' + UINT64 = uart_tx_r + 1
        <4>1. uart_tx_r' = (uart_tx_r + 1) % UINT64
          BY DEF uartstart
        <4>2. (uart_tx_r + 1) % UINT64 = IF uart_tx_r + 1 < UINT64 THEN uart_tx_r + 1 ELSE uart_tx_r + 1 - UINT64
          BY <2>1, TxConstants, Advance
        <4> QED
          BY <2>1, <4>1, <4>2, TxConstants
      <3>2. uart_tx_r + 1 \in Int /\ uart_tx_r' \in Int
        BY <2>1
      <3>3. SameRing(uart_tx_buf, UART_TX_BUF_SIZE, uart_tx_r', uart_tx_r + 1, TxUsed - 1)
        BY <2>2, <3>1, <3>2, TxConstants, RingTurn, Zenon
      <3> QED
        BY <3>3 DEF SameRing
    <2> HIDE DEF TxUsed
    <2> QED
      BY <2>2, <2>3, <2>4, <2>5 DEF First
  <1> HIDE DEF x
  <1>7. Output = (Sent \o Hand) \o InRing /\ Output' = (Sent' \o Hand') \o InRing'
    BY DEF Output, Sent, Hand
  <1>8. <<x>> \in Seq(Chars) /\ InRing \in Seq(Chars)
    BY <1>1, <1>6 DEF OutOK
  <1>9. Output = InRing /\ Output' = <<x>> \o InRing'
    BY <1>5, <1>7, <1>8, ConcatEmptySeq
  <1> QED
    BY <1>4, <1>6, <1>9

(* uartstart(): from its hands into the UART, behind an echo at most.      *)
LEMMA ThrStep ==
    ASSUME Inv, Inv', SentInv, NEW t \in Threads, start_thr(t)
    PROVE  SentInv' /\ Output' = Output
  <1>1. OutOK /\ OutOK'
    BY OutFacts, OutFactsNext
  <1>2. InHand = {t} /\ InHand' = {}
    <2>1. \A s \in Threads : (pc[s] = "thr" <=> s = t) /\ pc'[s] # "thr"
      BY DEF Inv, LockOK, TxHeld, start_thr, Goto
    <2> QED
      BY <2>1 DEF InHand
  <1>3. InUart = {} /\ c[t] \in Bytes /\ c[t] \in Chars /\ c[t] # "echo"
    BY <1>2 DEF SentInv, Inv, Chars, start_thr
  <1>4. fifo' = Append(fifo, c[t]) /\ Len(fifo) \in Nat
    <2>1. Len(fifo) <= 1 /\ Len(fifo) \in Nat
      BY DEF Inv, FifoInv, UartOK, start_thr
    <2> QED
      BY <2>1 DEF start_thr, WriteTHR, Capacity
  <1>5. /\ Len(fifo') = Len(fifo) + 1 /\ fifo'[Len(fifo) + 1] = c[t]
        /\ \A k \in 1..Len(fifo) : fifo'[k] = fifo[k]
    BY <1>3, <1>4 DEF Inv, UartOK
  <1>6. InUart' = {Len(fifo) + 1}
    <2>1. InUart' = {k \in 1..Len(fifo) + 1 : fifo'[k] # "echo"}
      BY <1>1, <1>5 DEF OutOK
    <2>2. \A k \in 1..Len(fifo) : fifo[k] = "echo"
      BY <1>1, <1>3 DEF OutOK
    <2>3. \A k \in 1..Len(fifo) + 1 : k \in 1..Len(fifo) \/ k = Len(fifo) + 1
      BY <1>4
    <2>4. Len(fifo) + 1 \in 1..Len(fifo) + 1 /\ fifo'[Len(fifo) + 1] # "echo"
      BY <1>3, <1>4, <1>5
    <2>5. \A k \in 1..Len(fifo) : fifo'[k] = "echo"
      BY <1>5, <2>2
    <2> QED
      BY <2>1, <2>3, <2>4, <2>5
  <1>7. SentInv'
    BY <1>2, <1>6 DEF SentInv
  <1>8. Sent = <<>> /\ Sent' = <<c[t]>> /\ Hand = <<c[t]>> /\ Hand' = <<>>
    <2>1. Sent = OneOf(fifo, {}) /\ Sent' = OneOf(fifo', {Len(fifo) + 1}) /\ Hand = OneOf(c, {t}) /\ Hand' = OneOf(c', {})
      BY <1>2, <1>3, <1>6 DEF Sent, Hand
    <2> QED
      BY <1>5, <2>1, OneOfNone, OneOfOne
  <1>9. InRing' = InRing
    BY DEF InRing, start_thr
  <1>10. Output = (Sent \o Hand) \o InRing /\ Output' = (Sent' \o Hand') \o InRing'
    BY DEF Output, Sent, Hand
  <1>11. <<c[t]>> \in Seq(Chars)
    BY <1>3
  <1> QED
    BY <1>7, <1>8, <1>9, <1>10, <1>11, ConcatEmptySeq

(* uartputc_sync(): an echo overtakes what is in the ring, but nothing that *)
(* is in the UART.                                                         *)
LEMMA EchoStep ==
    ASSUME Inv, Inv', SentInv, uartputc_sync
    PROVE  SentInv' /\ Output' = Output
  <1>1. OutOK /\ OutOK'
    BY OutFacts, OutFactsNext
  <1>2. fifo' = Append(fifo, "echo") /\ Len(fifo) \in Nat
    <2>1. Len(fifo) <= 1 /\ Len(fifo) \in Nat
      BY DEF Inv, FifoInv, UartOK, uartputc_sync
    <2> QED
      BY <2>1 DEF uartputc_sync, WriteTHR, Capacity
  <1>3. /\ Len(fifo') = Len(fifo) + 1 /\ fifo'[Len(fifo) + 1] = "echo"
        /\ \A k \in 1..Len(fifo) : fifo'[k] = fifo[k]
    BY <1>2 DEF Inv, UartOK
  <1>4. InUart' = InUart /\ \A k \in InUart : fifo'[k] = fifo[k]
    BY <1>1, <1>2, <1>3 DEF OutOK
  <1>5. InHand' = InHand
    BY DEF uartputc_sync, Goto, InHand, Inv, LockOK
  <1>6. Sent' = Sent
    <2>1. OneOf(fifo', InUart) = OneOf(fifo, InUart)
      BY <1>4, OneOfSame
    <2> QED
      BY <1>4, <2>1 DEF Sent
  <1>7. Hand' = Hand /\ InRing' = InRing
    BY <1>5 DEF uartputc_sync, Hand, InRing
  <1> QED
    BY <1>4, <1>5, <1>6, <1>7 DEF SentInv, Output, Sent, Hand

-----------------------------------------------------------------------------
(* Typed characters on their way in.                                       *)

Edited == Ring(w, e)
Handed == Ring(r, w)
Length == Buffered - Ready

LEMMA InBack ==
    ASSUME NEW a \in 0..UINT - 1, NEW b \in 0..UINT - 1
    PROVE  (a + ((b - a) % UINT)) % INPUT_BUF = b % INPUT_BUF
  <1>1. UINT \in Nat \ {0} /\ INPUT_BUF \in Nat \ {0} /\ UINT % INPUT_BUF = 0
    OBVIOUS
  <1> QED
    BY <1>1, BackOf, Zenon

InSeqs ==
    /\ Store(Stored, INPUT_BUF, buf)
    /\ Ready \in 0..Buffered /\ Buffered \in 0..INPUT_BUF /\ Length \in Nat
    /\ Edited = RingOf(buf, INPUT_BUF, w, Length) /\ IsRing(Edited, Stored, INPUT_BUF, buf, w, Length)
    /\ Handed = RingOf(buf, INPUT_BUF, r, Ready) /\ IsRing(Handed, Stored, INPUT_BUF, buf, r, Ready)

LEMMA InSeqFacts == InOK => InSeqs
  <1> SUFFICES ASSUME InOK PROVE InSeqs
    OBVIOUS
  <1>1. Store(Stored, INPUT_BUF, buf)
    BY DEF InOK, Store
  <1>2. Ready \in 0..Buffered /\ Buffered \in 0..INPUT_BUF /\ (e - w) % UINT = Length
    BY InFacts DEF Length
  <1>3. Length \in Nat /\ Ready \in Nat
    BY <1>2 DEF Length
  <1>4. w \in Int /\ r \in Int
    BY DEF InOK
  <1>5. Edited = RingOf(buf, INPUT_BUF, w, Length) /\ Handed = RingOf(buf, INPUT_BUF, r, Ready)
    BY <1>2 DEF Edited, Handed, Ring, Ready
  <1>6. IsRing(RingOf(buf, INPUT_BUF, w, Length), Stored, INPUT_BUF, buf, w, Length)
    BY <1>1, <1>3, <1>4, RingSeq, Zenon
  <1>7. IsRing(RingOf(buf, INPUT_BUF, r, Ready), Stored, INPUT_BUF, buf, r, Ready)
    BY <1>1, <1>3, <1>4, RingSeq, Zenon
  <1> QED
    BY <1>1, <1>2, <1>3, <1>5, <1>6, <1>7 DEF InSeqs

LEMMA InSeqFactsNext == ASSUME InOK' PROVE InSeqs'
  <1>1. InOK' => InSeqs'
    BY InSeqFacts, PTL
  <1> QED
    BY <1>1

LEMMA LineFacts ==
    ASSUME InOK
    PROVE  LineInv <=> \A k \in 1..Length : Edited[k] = "a"
  <1>1. DOMAIN Edited = 1..Length
    BY InSeqFacts DEF InSeqs, RingOf
  <1> QED
    BY <1>1 DEF LineInv, Edited

LEMMA LineFactsNext ==
    ASSUME InOK'
    PROVE  LineInv' <=> \A k \in 1..Length' : Edited'[k] = "a"
  <1>1. DOMAIN Edited' = 1..Length'
    BY InSeqFactsNext DEF InSeqs, RingOf
  <1> QED
    BY <1>1 DEF LineInv, Edited

LEMMA QuietIn ==
    ASSUME UNCHANGED consVars
    PROVE  Edited' = Edited /\ Handed' = Handed /\ (LineInv => LineInv')
  BY DEF Edited, Handed, Ring, RingOf, LineInv

(* ^U finds no newline within the line: it erases all of it.               *)
LEMMA KillErases ==
    ASSUME InOK, LineInv
    PROVE  Erased("kill") = Length
  <1>1. InSeqs
    BY InSeqFacts
  <1>2. Length \in Nat /\ (e - w) % UINT = Length
    BY <1>1, InFacts DEF InSeqs, Length
  <1> HIDE DEF Length
  <1>3. ASSUME NEW j \in 1..Length PROVE buf[(e - j) % INPUT_BUF] = "a"
    <2>1. w \in 0..UINT - 1 /\ e \in 0..UINT - 1 /\ w \in Int /\ e \in Int
      BY DEF InOK
    <2>2. Length - j + 1 \in 1..Length
      BY <1>2
    <2>3. Edited[Length - j + 1] = "a"
      BY <2>2, LineFacts
    <2>4. Edited[Length - j + 1] = buf[(w + (Length - j + 1) - 1) % INPUT_BUF]
      BY <1>1, <2>2 DEF InSeqs, IsRing
    <2>5. w + Length = e \/ w + Length = e + UINT
      <3>1. (e - w) % UINT = IF e >= w THEN e - w ELSE e - w + UINT
        BY <2>1, Distance
      <3> QED
        BY <1>2, <2>1, <3>1
    <2>6. e - j \in Int /\ (w + (Length - j + 1) - 1 = e - j \/ w + (Length - j + 1) - 1 = (e - j) + UINT)
      BY <1>2, <2>1, <2>5
    <2>7. ((e - j) + UINT) % INPUT_BUF = (e - j) % INPUT_BUF
      BY <2>6, TurnMod
    <2> QED
      BY <2>3, <2>4, <2>6, <2>7
  <1>4. Line = 0..Length
    BY <1>2, <1>3 DEF Line
  <1>5. \A j \in Line : (\A i \in Line : i <= j) => j = Length
    BY <1>2, <1>4
  <1>6. \E j \in Line : \A i \in Line : i <= j
    BY <1>2, <1>4
  <1>7. Erased("kill") = CHOOSE j \in Line : \A i \in Line : i <= j
    BY DEF Erased
  <1> QED
    BY <1>5, <1>6, <1>7

LEMMA EraseRing ==
    ASSUME Inv, Inv', LineInv, consoleintr
    PROVE  /\ LineInv' /\ Handed' = Handed
           /\ \/ Edited' = Edited
              \/ Edited # <<>> /\ Edited' \in {SubSeq(Edited, 1, Len(Edited) - 1), <<>>}
  <1> DEFINE j == Erased(c[Intr])
  <1>1. InOK /\ InOK' /\ NeverWedged
    BY DEF Inv
  <1>2. InSeqs /\ InSeqs'
    BY <1>1, InSeqFacts, InSeqFactsNext
  <1>3. j \in 0..Length /\ buf' = buf /\ r' = r /\ w' = w /\ e' = (e - j) % UINT
    BY <1>1, ErasedFacts DEF consoleintr, Length
  <1>4. Length' = Length - j /\ Ready' = Ready
    <2>1. Buffered' = Buffered - j /\ Ready' = Ready
      BY <1>1, <1>3, EraseStep DEF Length
    <2>2. Buffered \in Int /\ Ready \in Int
      BY <1>2 DEF InSeqs
    <2> QED
      BY <1>3, <2>1, <2>2 DEF Length
  <1>5. j = 0 \/ j = 1 \/ j = Length
    <2>1. CASE c[Intr] = "kill"
      BY <1>1, <2>1, KillErases
    <2>2. CASE c[Intr] = "erase"
      BY <2>2 DEF Erased
    <2>3. CASE c[Intr] \notin {"kill", "erase"}
      BY <2>3 DEF Erased
    <2> QED
      BY <2>1, <2>2, <2>3
  <1>6. Length \in Nat /\ w \in Int /\ Store(Stored, INPUT_BUF, buf)
    BY <1>1, <1>2 DEF InSeqs, InOK
  <1>7. /\ Edited = RingOf(buf, INPUT_BUF, w, Length) /\ Edited' = RingOf(buf, INPUT_BUF, w, Length - j)
        /\ IsRing(Edited, Stored, INPUT_BUF, buf, w, Length)
        /\ IsRing(Edited', Stored, INPUT_BUF, buf, w, Length - j)
    BY <1>2, <1>3, <1>4 DEF InSeqs
  <1>8. Handed' = Handed
    BY <1>2, <1>3, <1>4 DEF InSeqs
  <1> HIDE DEF j, Length
  <1>9. LineInv'
    <2>1. ASSUME NEW k \in 1..Length - j PROVE Edited'[k] = Edited[k]
      <3>1. k \in 1..Length
        BY <1>3, <1>6
      <3> QED
        BY <1>7, <3>1 DEF IsRing
    <2>2. \A k \in 1..Length : Edited[k] = "a"
      BY <1>1, LineFacts
    <2>3. \A k \in 1..Length' : Edited'[k] = "a"
      BY <1>3, <1>4, <1>6, <2>1, <2>2
    <2>4. LineInv' <=> \A k \in 1..Length' : Edited'[k] = "a"
      BY <1>1, LineFactsNext
    <2> QED
      BY <2>3, <2>4
  <1>10. CASE j = 0
    BY <1>6, <1>7, <1>8, <1>9, <1>10
  <1>11. CASE j # 0
    <2>1. Length \in Nat \ {0} /\ Len(Edited) = Length /\ Edited # <<>>
      BY <1>3, <1>6, <1>7, <1>11 DEF IsRing
    <2>2. CASE j = 1
      <3>1. Shorter(buf, INPUT_BUF, w, Length)
        BY <1>6, <2>1, RingShorter, Zenon
      <3>2. Edited' = SubSeq(Edited, 1, Len(Edited) - 1)
        BY <1>7, <2>1, <2>2, <3>1 DEF Shorter
      <3> QED
        BY <1>8, <1>9, <2>1, <3>2
    <2>3. CASE j = Length
      <3>1. Edited' = <<>>
        BY <1>6, <1>7, <2>3 DEF IsRing
      <3> QED
        BY <1>8, <1>9, <2>1, <3>1
    <2> QED
      BY <1>5, <1>11, <2>2, <2>3
  <1> QED
    BY <1>10, <1>11

(* consoleintr(): the key joins the line, and with it the line may be      *)
(* complete.                                                               *)
Joins(x) ==
    /\ Len(Handed) + Len(Edited) < INPUT_BUF
    /\ IF x \in Enders \/ Len(Handed) + Len(Edited) + 1 = INPUT_BUF
       THEN Edited' = <<>> /\ Handed' = Handed \o Append(Edited, x)
       ELSE Edited' = Append(Edited, x) /\ Handed' = Handed

LEMMA KeyStep ==
    ASSUME Inv, Inv', LineInv, consoleintr_end, Accepted(c[Intr])
    PROVE  LineInv' /\ \E x \in {"a"} \cup Enders : Joins(x)
  <1> DEFINE x == IF c[Intr] = "cr" THEN "nl" ELSE c[Intr]
  <1>1. InOK /\ InOK' /\ NeverWedged
    BY DEF Inv
  <1>2. InSeqs /\ InSeqs'
    BY <1>1, InSeqFacts, InSeqFactsNext
  <1>3. x \in {"a"} \cup Enders /\ x \in Stored /\ Buffered < INPUT_BUF
    BY DEF Accepted, Stored, Enders, Buffered
  <1>4. /\ buf' = [buf EXCEPT ![Slot] = x] /\ r' = r /\ e' = (e + 1) % UINT
        /\ w' = IF Completes(x) THEN (e + 1) % UINT ELSE w
    BY DEF consoleintr_end
  <1> HIDE DEF x
  <1>5. Completes(x) <=> x \in Enders \/ Buffered + 1 = INPUT_BUF
    BY <1>1, InFacts DEF Completes
  <1>6. Buffered' = Buffered + 1
    BY <1>1, <1>3, <1>4, TypeStep
  <1>7. /\ r \in 0..UINT - 1 /\ w \in 0..UINT - 1 /\ e \in 0..UINT - 1 /\ r \in Int /\ w \in Int
        /\ INPUT_BUF \in Nat \ {0} /\ UINT \in Nat \ {0} /\ UINT % INPUT_BUF = 0
    BY <1>1 DEF InOK
  <1>8. /\ Ready \in Nat /\ Buffered \in 0..INPUT_BUF - 1 /\ Ready \in 0..Buffered
        /\ Length \in 0..INPUT_BUF - 1 /\ Ready + Length = Buffered
    <2>1. Ready \in 0..Buffered /\ Buffered \in 0..INPUT_BUF
      BY <1>2 DEF InSeqs
    <2> QED
      BY <1>3, <1>7, <2>1 DEF Length
  <1>9. /\ Store(Stored, INPUT_BUF, buf)
        /\ Edited = RingOf(buf, INPUT_BUF, w, Length) /\ Edited' = RingOf(buf', INPUT_BUF, w', Length')
        /\ Handed = RingOf(buf, INPUT_BUF, r, Ready) /\ Handed' = RingOf(buf', INPUT_BUF, r, Ready')
        /\ Edited \in Seq(Stored) /\ Len(Edited) = Length /\ Handed \in Seq(Stored) /\ Len(Handed) = Ready
    BY <1>2, <1>4 DEF InSeqs, IsRing
  <1>10. Slot = (r + Buffered) % INPUT_BUF /\ Slot = (w + Length) % INPUT_BUF
    <2>1. (r + ((e - r) % UINT)) % INPUT_BUF = e % INPUT_BUF
      BY <1>7, InBack, Zenon
    <2>2. (w + ((e - w) % UINT)) % INPUT_BUF = e % INPUT_BUF
      BY <1>7, InBack, Zenon
    <2>3. (e - w) % UINT = Length
      BY <1>1, InFacts DEF Length
    <2> QED
      BY <2>1, <2>2, <2>3 DEF Slot, Buffered
  <1>11. Len(Handed) + Len(Edited) = Buffered
    BY <1>8, <1>9
  <1>12. LineInv' <=> \A k \in 1..Length' : Edited'[k] = "a"
    BY <1>1, LineFactsNext
  <1>13. \A k \in 1..Length : Edited[k] = "a"
    BY <1>1, LineFacts
  <1>14. CASE Completes(x)
    <2>1. w' = e' /\ e' \in 0..UINT - 1
      BY <1>1, <1>4, <1>14 DEF InOK
    <2>2. Ready' = Buffered + 1 /\ Length' = 0
      <3>1. Ready' = Buffered'
        BY <2>1 DEF Ready, Buffered
      <3> QED
        BY <1>6, <1>8, <3>1 DEF Length
    <2>3. Edited' = <<>>
      BY <1>2, <2>2 DEF InSeqs, IsRing
    <2>4. Extended(buf, INPUT_BUF, r, Buffered, x)
      BY <1>3, <1>7, <1>8, <1>9, RingAppend, Zenon
    <2>5. Handed' = Append(RingOf(buf, INPUT_BUF, r, Buffered), x)
      BY <1>4, <1>9, <1>10, <2>2, <2>4 DEF Extended
    <2>6. RingOf(buf, INPUT_BUF, r, Buffered) = Handed \o Edited
      <3>1. Length \in Nat
        BY <1>8
      <3>2. Joined(buf, INPUT_BUF, r, Ready, Length)
        BY <1>7, <1>8, <1>9, <3>1, RingConcat, Zenon
      <3>3. w = r + Ready \/ w + UINT = r + Ready
        <4>1. Ready = IF w >= r THEN w - r ELSE w - r + UINT
          BY <1>7, Distance DEF Ready
        <4> QED
          BY <1>7, <4>1
      <3>4. r + Ready \in Int
        BY <1>7, <1>8
      <3>5. SameRing(buf, INPUT_BUF, w, r + Ready, Length)
        BY <1>7, <3>1, <3>3, <3>4, RingTurn, Zenon
      <3> QED
        BY <1>8, <1>9, <3>2, <3>5 DEF Joined, SameRing
    <2>7. Append(Handed \o Edited, x) = Handed \o Append(Edited, x)
      <3>1. Handed \o Edited \in Seq(Stored) /\ <<x>> \in Seq(Stored)
        BY <1>3, <1>9, ConcatProperties
      <3>2. Append(Handed \o Edited, x) = (Handed \o Edited) \o <<x>>
        BY <1>3, <3>1, AppendIsConcat
      <3>3. Append(Edited, x) = Edited \o <<x>>
        BY <1>3, <1>9, AppendIsConcat
      <3>4. (Handed \o Edited) \o <<x>> = Handed \o (Edited \o <<x>>)
        BY <1>9, <3>1, ConcatAssociative
      <3> QED
        BY <3>2, <3>3, <3>4
    <2>8. LineInv'
      BY <1>12, <2>2
    <2>9. Joins(x)
      BY <1>3, <1>5, <1>11, <1>14, <2>3, <2>5, <2>6, <2>7 DEF Joins
    <2> QED
      BY <1>3, <2>8, <2>9
  <1>15. CASE ~Completes(x)
    <2>1. w' = w /\ x = "a"
      BY <1>3, <1>4, <1>5, <1>15
    <2>2. Ready' = Ready /\ Length' = Length + 1
      <3>1. Ready' = Ready
        BY <1>4, <2>1 DEF Ready
      <3> QED
        BY <1>6, <1>8, <3>1 DEF Length
    <2>3. Extended(buf, INPUT_BUF, w, Length, x)
      BY <1>3, <1>7, <1>8, <1>9, RingAppend, Zenon
    <2>4. Edited' = Append(Edited, x)
      BY <1>4, <1>9, <1>10, <2>1, <2>2, <2>3 DEF Extended
    <2>5. Apart(buf, INPUT_BUF, r, Buffered, Ready, x)
      BY <1>3, <1>7, <1>8, <1>9, RingApart, Zenon
    <2>6. Handed' = Handed
      BY <1>4, <1>9, <1>10, <2>2, <2>5 DEF Apart
    <2>7. LineInv'
      <3>1. ASSUME NEW k \in 1..Length + 1 PROVE Append(Edited, x)[k] = "a"
        <4>1. k \in 1..Length \/ k = Length + 1
          BY <1>8
        <4>2. /\ \A i \in 1..Length : Append(Edited, x)[i] = Edited[i]
              /\ Append(Edited, x)[Length + 1] = x
          BY <1>3, <1>9, AppendProperties
        <4> QED
          BY <1>13, <2>1, <4>1, <4>2
      <3> QED
        BY <1>12, <2>2, <2>4, <3>1
    <2>8. Joins(x)
      BY <1>3, <1>5, <1>11, <1>15, <2>4, <2>6 DEF Joins
    <2> QED
      BY <1>3, <2>7, <2>8
  <1> QED
    BY <1>14, <1>15

(* consoleread() takes the first character that has been handed over.      *)
LEMMA TakeStep ==
    ASSUME Inv, Inv', LineInv, NEW p \in Procs, read_eof(p) \/ read_char(p) \/ read_copyout_fails(p)
    PROVE  /\ LineInv' /\ Edited' = Edited
           /\ Handed' = Handed \/ (Handed # <<>> /\ Handed' = Tail(Handed))
  <1> USE DEF read_eof, read_char, read_copyout_fails, Readable
  <1>1. InOK /\ InOK' /\ NeverWedged
    BY DEF Inv
  <1>2. UNCHANGED <<buf, w, e>> /\ r # w /\ (r' = r \/ r' = (r + 1) % UINT)
    OBVIOUS
  <1>3. LineInv' /\ Edited' = Edited
    BY <1>2 DEF LineInv, Edited, Ring, RingOf
  <1>4. CASE r' = r
    BY <1>2, <1>3, <1>4 DEF Handed, Ring, RingOf
  <1>5. CASE r' = (r + 1) % UINT
    <2>1. InSeqs /\ InSeqs'
      BY <1>1, InSeqFacts, InSeqFactsNext
    <2>2. Ready' = Ready - 1 /\ Ready \in Nat \ {0} /\ Ready - 1 \in Nat
      <3>1. Ready' = Ready - 1
        BY <1>1, <1>2, <1>5, ReadStep
      <3>2. Ready # 0 /\ Ready \in 0..Buffered /\ Buffered \in 0..INPUT_BUF
        BY <1>1, <1>2, InFacts
      <3> QED
        BY <3>1, <3>2
    <2>3. /\ Store(Stored, INPUT_BUF, buf)
          /\ Handed = RingOf(buf, INPUT_BUF, r, Ready) /\ Handed' = RingOf(buf, INPUT_BUF, r', Ready - 1)
          /\ Handed' \in Seq(Stored)
      BY <1>2, <2>1, <2>2 DEF InSeqs, IsRing
    <2>4. /\ r \in 0..UINT - 1 /\ r \in Int /\ r' \in Int /\ r + 1 \in Int /\ 1 \in 0..UINT - 1
          /\ INPUT_BUF \in Nat \ {0} /\ UINT \in Nat \ {0} /\ UINT % INPUT_BUF = 0
      <3>1. r \in 0..UINT - 1 /\ r' \in 0..UINT - 1
        BY <1>1 DEF InOK
      <3>2. INPUT_BUF \in Nat \ {0} /\ UINT \in Nat /\ UINT > INPUT_BUF /\ UINT % INPUT_BUF = 0
        OBVIOUS
      <3> QED
        BY <3>1, <3>2
    <2>5. First(Stored, buf, INPUT_BUF, r, Ready)
      BY <2>2, <2>3, <2>4, RingFirst, Zenon
    <2>6. r' = r + 1 \/ r' + UINT = r + 1
      <3>1. (r + 1) % UINT = IF r + 1 < UINT THEN r + 1 ELSE r + 1 - UINT
        BY <2>4, Advance
      <3> QED
        BY <1>5, <2>4, <3>1
    <2>7. SameRing(buf, INPUT_BUF, r', r + 1, Ready - 1)
      BY <2>2, <2>4, <2>6, RingTurn, Zenon
    <2>8. Handed = <<buf[r % INPUT_BUF]>> \o Handed' /\ buf[r % INPUT_BUF] \in Stored
      BY <2>3, <2>5, <2>7 DEF First, SameRing
    <2>9. Handed # <<>> /\ Tail(Handed) = Handed'
      BY <2>3, <2>8, ConsSeq
    <2> QED
      BY <1>3, <2>9
  <1> QED
    BY <1>2, <1>4, <1>5

-----------------------------------------------------------------------------
(* Both queues together.                                                   *)

LEMMA SentLineInit == Init => SentInv /\ LineInv
  <1> SUFFICES ASSUME Init PROVE SentInv /\ LineInv
    OBVIOUS
  <1>1. SentInv
    BY DEF Init, SentInv, InUart
  <1>2. InOK
    BY InitInv DEF Inv
  <1>3. Length = 0
    <2>1. (e - w) % UINT = Length
      BY <1>2, InFacts DEF Length
    <2>2. w \in 0..UINT - 1 /\ e = w /\ UINT \in Nat \ {0}
      BY <1>2 DEF InOK, Init
    <2> QED
      BY <2>1, <2>2, Distance
  <1>4. LineInv
    BY <1>2, <1>3, LineFacts
  <1> QED
    BY <1>1, <1>4

LEMMA RefineInit == Init => T!Init
  <1> SUFFICES ASSUME Init PROVE T!Init
    OBVIOUS
  <1>1. Inv
    BY InitInv
  <1>2. InSeqs /\ OutOK
    BY <1>1, InSeqFacts, OutFacts DEF Inv
  <1>3. Length = 0 /\ Ready = 0
    <2>1. w \in 0..UINT - 1 /\ e = w /\ r = w /\ UINT \in Nat \ {0}
      BY <1>1 DEF Inv, InOK, Init
    <2>2. Ready = 0 /\ Buffered = 0
      BY <2>1, Distance DEF Ready, Buffered
    <2> QED
      BY <2>2 DEF Length
  <1>4. Edited = <<>> /\ Handed = <<>>
    BY <1>2, <1>3 DEF InSeqs, IsRing
  <1>5. Sent = <<>> /\ Hand = <<>>
    <2>1. InUart = {} /\ InHand = {}
      BY DEF Init, InUart, InHand
    <2> QED
      BY <2>1, OneOfNone DEF Sent, Hand
  <1>6. InRing = <<>>
    <2>1. TxUsed = 0
      BY <1>1, TxFacts DEF Inv, Init
    <2> QED
      BY <1>2, <2>1 DEF OutOK
  <1>7. Output = (Sent \o Hand) \o InRing
    BY DEF Output, Sent, Hand
  <1>8. Output = <<>>
    BY <1>5, <1>6, <1>7
  <1> QED
    BY <1>4, <1>8 DEF T!Init, Edited, Handed

(* What a step does to both queues.                                        *)
StepOK == SentInv' /\ LineInv' /\ [T!Next]_T!vars

LEMMA OutStepOK ==
    ASSUME LineInv, SentInv', UNCHANGED consVars,
           \/ Output' = Output
           \/ Output # <<>> /\ Output' = Tail(Output)
           \/ Len(Output) < UART_TX_BUF_SIZE + FIFO /\ \E b \in Bytes : Output' = Append(Output, b)
    PROVE  StepOK
  <1>1. LineInv' /\ UNCHANGED <<Ring(w, e), Ring(r, w)>>
    BY QuietIn DEF Edited, Handed
  <1>2. CASE Output' = Output
    BY <1>1, <1>2 DEF StepOK, T!vars
  <1>3. CASE Output # <<>> /\ Output' = Tail(Output)
    <2>1. T!Show
      BY <1>1, <1>3 DEF T!Show
    <2> QED
      BY <1>1, <2>1 DEF StepOK, T!Next
  <1>4. ASSUME Len(Output) < UART_TX_BUF_SIZE + FIFO, NEW b \in Bytes, Output' = Append(Output, b)
        PROVE  StepOK
    <2>1. T!Put(b)
      BY <1>1, <1>4 DEF T!Put
    <2> QED
      BY <1>1, <2>1 DEF StepOK, T!Next
  <1> QED
    BY <1>2, <1>3, <1>4

LEMMA InStepOK ==
    ASSUME SentInv, LineInv', Quiet,
           \/ Edited' = Edited /\ Handed' = Handed
           \/ Edited # <<>> /\ Edited' \in {SubSeq(Edited, 1, Len(Edited) - 1), <<>>} /\ Handed' = Handed
           \/ Handed # <<>> /\ Handed' = Tail(Handed) /\ Edited' = Edited
           \/ \E x \in {"a"} \cup Enders : Joins(x)
    PROVE  StepOK
  <1>1. SentInv' /\ Output' = Output
    BY QuietOut
  <1> USE DEF Edited, Handed
  <1>2. CASE Edited' = Edited /\ Handed' = Handed
    BY <1>1, <1>2 DEF StepOK, T!vars
  <1>3. CASE Edited # <<>> /\ Edited' \in {SubSeq(Edited, 1, Len(Edited) - 1), <<>>} /\ Handed' = Handed
    <2>1. T!Erase
      BY <1>1, <1>3 DEF T!Erase
    <2> QED
      BY <1>1, <2>1 DEF StepOK, T!Next
  <1>4. CASE Handed # <<>> /\ Handed' = Tail(Handed) /\ Edited' = Edited
    <2>1. T!Take
      BY <1>1, <1>4 DEF T!Take
    <2> QED
      BY <1>1, <2>1 DEF StepOK, T!Next
  <1>5. ASSUME NEW x \in {"a"} \cup Enders, Joins(x) PROVE StepOK
    <2>1. T!Key(x)
      BY <1>1, <1>5 DEF T!Key, Joins
    <2> QED
      BY <1>1, <2>1 DEF StepOK, T!Next
  <1> QED
    BY <1>2, <1>3, <1>4, <1>5

LEMMA QuietStepOK == ASSUME SentInv, LineInv, Quiet, UNCHANGED consVars PROVE StepOK
  <1>1. Edited' = Edited /\ Handed' = Handed /\ LineInv'
    BY QuietIn
  <1> QED
    BY <1>1, InStepOK

LEMMA StartingOK ==
    ASSUME Inv, Inv', SentInv, LineInv, NEW t \in Threads, Starting(t)
    PROVE  StepOK
  <1>1. CASE start_return(t)
    <2>1. Quiet
      BY <1>1, QuietOthers
    <2> QED
      BY <1>1, <2>1, QuietStepOK DEF start_return
  <1>2. CASE uartstart(t)
    <2>1. SentInv' /\ Output' = Output
      BY <1>2, StartStep
    <2> QED
      BY <1>2, <2>1, OutStepOK DEF uartstart
  <1>3. CASE start_thr(t)
    <2>1. SentInv' /\ Output' = Output
      BY <1>3, ThrStep
    <2> QED
      BY <1>3, <2>1, OutStepOK DEF start_thr
  <1> QED
    BY <1>1, <1>2, <1>3 DEF Starting

LEMMA InterruptOK ==
    ASSUME Inv, Inv', SentInv, LineInv, Interrupt
    PROVE  StepOK
  <1>1. CASE Starting(Intr)
    BY <1>1, StartingOK
  <1>2. CASE uartintr \/ uartgetc \/ getc_none \/ intr_start \/ sync_poll
    <2>1. Quiet
      BY <1>2, QuietHandler
    <2>2. UNCHANGED consVars
      BY <1>2 DEF uartintr, uartgetc, getc_none, intr_start, sync_poll
    <2> QED
      BY <2>1, <2>2, QuietStepOK
  <1>3. CASE uartputc_sync
    <2>1. SentInv' /\ Output' = Output
      BY <1>3, EchoStep
    <2>2. UNCHANGED consVars
      BY <1>3 DEF uartputc_sync
    <2> QED
      BY <2>1, <2>2, OutStepOK
  <1>4. CASE consoleintr
    <2>1. Quiet
      BY <1>4, QuietHandler
    <2> QED
      BY <1>4, <2>1, EraseRing, InStepOK
  <1>5. CASE consoleintr_end
    <2>1. Quiet
      BY <1>5, QuietHandler
    <2>2. CASE Accepted(c[Intr])
      BY <1>5, <2>1, <2>2, KeyStep, InStepOK
    <2>3. CASE ~Accepted(c[Intr])
      <3>1. UNCHANGED consVars
        BY <1>5, <2>3 DEF consoleintr_end
      <3> QED
        BY <2>1, <3>1, QuietStepOK
    <2> QED
      BY <2>2, <2>3
  <1> QED
    BY <1>1, <1>2, <1>3, <1>4, <1>5 DEF Interrupt

LEMMA ReadingOK ==
    ASSUME Inv, Inv', SentInv, LineInv, NEW p \in Procs, Reading(p)
    PROVE  StepOK
  <1>1. Quiet
    BY QuietCalls
  <1>2. CASE read_eof(p) \/ read_char(p) \/ read_copyout_fails(p)
    BY <1>1, <1>2, TakeStep, InStepOK
  <1>3. CASE consoleread(p) \/ read_end(p) \/ read_test(p) \/ read_sleep(p)
    <2>1. UNCHANGED consVars
      BY <1>3 DEF consoleread, read_end, read_test, read_sleep
    <2> QED
      BY <1>1, <2>1, QuietStepOK
  <1> QED
    BY <1>2, <1>3 DEF Reading

LEMMA WritingOK ==
    ASSUME Inv, Inv', SentInv, LineInv, NEW p \in Procs, Writing(p)
    PROVE  StepOK
  <1>1. CASE Starting(p)
    BY <1>1, StartingOK
  <1>2. CASE consolewrite(p) \/ write_end(p) \/ uartputc_sleep(p)
    <2>1. Quiet
      BY <1>2, QuietCalls
    <2>2. UNCHANGED consVars
      BY <1>2 DEF consolewrite, write_end, uartputc_sleep
    <2> QED
      BY <2>1, <2>2, QuietStepOK
  <1>3. CASE uartputc(p)
    <2>1. SentInv' /\ Len(Output) < UART_TX_BUF_SIZE + FIFO /\ p \in Bytes /\ Output' = Append(Output, p)
      BY <1>3, PutStep
    <2>2. UNCHANGED consVars
      BY <1>3 DEF uartputc
    <2> QED
      BY <2>1, <2>2, OutStepOK
  <1> QED
    BY <1>1, <1>2, <1>3 DEF Writing

LEMMA NextStepOK ==
    ASSUME Inv, Inv', SentInv, LineInv, [Next]_vars
    PROVE  StepOK
  <1>1. /\ load.readers \subseteq Procs /\ load.writers \subseteq Procs /\ load.killable \subseteq Procs
    BY LoadFacts DEF Inv, EnvOK
  <1>2. CASE transmit
    <2>1. SentInv' /\ (Output' = Output \/ (Output # <<>> /\ Output' = Tail(Output)))
      BY <1>2, ShowStep
    <2>2. UNCHANGED consVars
      BY <1>2 DEF transmit
    <2> QED
      BY <2>1, <2>2, OutStepOK
  <1>3. CASE (\E k \in Keys : strike(k)) \/ UNCHANGED vars
    <2>1. Quiet
      BY <1>3, QuietOthers
    <2>2. UNCHANGED consVars
      BY <1>3 DEF strike
    <2> QED
      BY <2>1, <2>2, QuietStepOK
  <1>4. ASSUME NEW p \in Procs, NEW k, read(p, k) \/ write(p, k) \/ kill(p) PROVE StepOK
    <2>1. Quiet
      BY <1>4, QuietCalls
    <2>2. UNCHANGED consVars
      BY <1>4 DEF read, write, kill
    <2> QED
      BY <2>1, <2>2, QuietStepOK
  <1>5. ASSUME NEW p \in Procs, Reading(p) \/ Writing(p) PROVE StepOK
    BY <1>5, ReadingOK, WritingOK
  <1>6. CASE Interrupt
    BY <1>6, InterruptOK
  <1> QED
    BY <1>1, <1>2, <1>3, <1>4, <1>5, <1>6 DEF Next

-----------------------------------------------------------------------------
(* The invariants of the console.                                          *)

(* All parts of the invariant hold in every reachable state.               *)
THEOREM Invariance == Spec => []IInv
  <1>1. Init => IInv
    BY InitInv, SentLineInit, InvParts
  <1>2. IInv /\ [Next]_vars => IInv'
    <2>1. (Inv /\ SentInv /\ LineInv)' => IInv'
      BY InvParts, PTL
    <2>2. ASSUME IInv, [Next]_vars PROVE (Inv /\ SentInv /\ LineInv)'
      <3>1. Inv /\ SentInv /\ LineInv
        BY <2>2, InvParts
      <3>2. Inv'
        BY <2>2, <3>1, NextInv
      <3>3. SentInv' /\ LineInv'
        BY <2>2, <3>1, <3>2, NextStepOK DEF StepOK
      <3> QED
        BY <3>2, <3>3
    <2> QED
      BY <2>1, <2>2
  <1> QED
    BY <1>1, <1>2, PTL DEF Spec

(* The indices of both rings stay within the sizes of the buffers, and the *)
(* locks are held exactly in the critical sections.                        *)
THEOREM TypeCorrect == Spec => []TypeOK
  <1>1. IInv => TypeOK
    BY DEF IInv
  <1> QED
    BY <1>1, Invariance, PTL

(* A full input buffer always has something for read() to take.            *)
THEOREM InputNeverWedged == Spec => []NeverWedged
  <1>1. IInv => NeverWedged
    BY DEF IInv
  <1> QED
    BY <1>1, Invariance, PTL

(* A FIFO of two places is enough for the writer with uart_tx_lock and the *)
(* echo without it.                                                        *)
THEOREM FifoNeverOverrun == Spec => []NoOverrun
  <1>1. ASSUME IInv PROVE NoOverrun
    <2>1. \A t \in Threads : pc[t] \in {"thr", "sync"} => Len(fifo) <= 1
      BY <1>1 DEF IInv, FifoInv
    <2>2. Len(fifo) \in Nat
      BY <1>1 DEF IInv, TypeOK
    <2> QED
      BY <2>1, <2>2 DEF NoOverrun, Capacity
  <1> QED
    BY <1>1, Invariance, PTL

(* Nobody sleeps for input or for room when there is some.                 *)
THEOREM SleepersWoken == Spec => []NoStuckSleeper
  <1>1. IInv => NoStuckSleeper
    BY DEF IInv
  <1> QED
    BY <1>1, Invariance, PTL

(* Programs' characters reach the screen in the order in which they were   *)
(* written, each once, whatever is echoed between them; what is typed      *)
(* reaches the readers in order and once, and only when its line is        *)
(* complete.                                                               *)
THEOREM ConsoleIsTerminal == Spec => ImplementsTerminal
  <1>1. Init => T!Init
    BY RefineInit
  <1>2. IInv /\ IInv' /\ [Next]_vars => [T!Next]_T!vars
    <2>1. IInv' => Inv'
      BY InvParts, PTL
    <2>2. ASSUME IInv, IInv', [Next]_vars PROVE [T!Next]_T!vars
      BY <2>1, <2>2, InvParts, NextStepOK DEF StepOK
    <2> QED
      BY <2>2
  <1> QED
    BY <1>1, <1>2, Invariance, PTL DEF Spec, ImplementsTerminal, T!Spec
=============================================================================
