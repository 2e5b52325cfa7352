----------------------------- MODULE InodeProof ------------------------------
(***************************************************************************)
(* Proofs about inodes, directories and path names.                        *)
(***************************************************************************)
EXTENDS Inode, FiniteSetTheorems, TLAPS

USE DEF diskVars

LEMMA Constants ==
  /\ IsFiniteSet(Inums) /\ IsFiniteSet(Names) /\ IsFiniteSet(Procs)
  /\ None \notin Inums /\ ROOTINO \in Inums /\ Nobody \notin Procs
  /\ Names \cap {".", ".."} = {}
  BY InodeAssumption

LEMMA CallsOk ==
  ASSUME NEW p \in Procs, NEW c \in Calls[p]
  PROVE  /\ c.op \in Ops /\ c.path \in Paths /\ c.new \in Paths /\ c.arg \in Args
         /\ c.op = "mknod" => c.arg \in Devices
  BY InodeAssumption

-----------------------------------------------------------------------------
(* Counting pointers.                                                      *)

One(b) == IF b THEN 1 ELSE 0

(* The pointers of p, field by field, and those of the other processes.    *)
LEMMA Adding ==
  ASSUME NEW S, NEW x, NEW b \in BOOLEAN, IsFiniteSet(S), x \notin S
  PROVE  LET T == IF b THEN S \cup {x} ELSE S
         IN  IsFiniteSet(T) /\ Cardinality(T) = Cardinality(S) + One(b)
  <1>1. Cardinality(S) \in Nat
    BY FS_CardinalityType
  <1> QED
    BY <1>1, FS_AddElement DEF One

LEMMA TwoMore == ASSUME NEW S, NEW x, NEW y, IsFiniteSet(S) PROVE IsFiniteSet(S \cup {x, y})
  <1>1. IsFiniteSet(S \cup {x})
    BY FS_AddElement
  <1>2. IsFiniteSet((S \cup {x}) \cup {y})
    BY <1>1, FS_AddElement
  <1>3. S \cup {x, y} = (S \cup {x}) \cup {y}
    OBVIOUS
  <1> QED
    BY <1>2, <1>3

At6(g, p, i) ==
    One(g[<<p, "cwd">>] = i) + One(g[<<p, "ofile">>] = i) + One(g[<<p, "np">>] = i)
      + One(g[<<p, "ip">>] = i) + One(g[<<p, "dp">>] = i) + One(g[<<p, "putting">>] = i)

SlotsOf(g, i) == {x \in Procs \X Fields : g[x] = i}
SlotsElsewhere(g, p, i) == {x \in Procs \X Fields : g[x] = i /\ x[1] # p}

LEMMA Counting ==
  ASSUME NEW g, NEW p \in Procs, NEW i
  PROVE  /\ IsFiniteSet(SlotsOf(g, i)) /\ Cardinality(SlotsOf(g, i)) \in Nat
         /\ Cardinality(SlotsElsewhere(g, p, i)) \in Nat
         /\ Cardinality(SlotsOf(g, i)) = Cardinality(SlotsElsewhere(g, p, i)) + At6(g, p, i)
  <1> USE DEF SlotsOf, SlotsElsewhere
  <1> DEFINE H == SlotsOf(g, i)
             R == SlotsElsewhere(g, p, i)
             in(f) == g[<<p, f>>] = i
             S1 == IF in("cwd") THEN R \cup {<<p, "cwd">>} ELSE R
             S2 == IF in("ofile") THEN S1 \cup {<<p, "ofile">>} ELSE S1
             S3 == IF in("np") THEN S2 \cup {<<p, "np">>} ELSE S2
             S4 == IF in("ip") THEN S3 \cup {<<p, "ip">>} ELSE S3
             S5 == IF in("dp") THEN S4 \cup {<<p, "dp">>} ELSE S4
             S6 == IF in("putting") THEN S5 \cup {<<p, "putting">>} ELSE S5
  <1>1. IsFiniteSet(Procs \X Fields)
    <2>1. IsFiniteSet(Fields)
      <3>1. Fields = ({} \cup {"cwd", "ofile"}) \cup {"np", "ip"} \cup {"dp", "putting"}
        BY DEF Fields
      <3>2. IsFiniteSet({} \cup {"cwd", "ofile"})
        BY TwoMore, FS_EmptySet
      <3> QED
        BY <3>1, <3>2, TwoMore
    <2> QED
      BY <2>1, FS_Product, Constants
  <1>2. IsFiniteSet(R) /\ IsFiniteSet(H)
    BY <1>1, FS_Subset
  <1>3. IsFiniteSet(S1) /\ Cardinality(S1) = Cardinality(R) + One(in("cwd"))
    BY <1>2, Adding
  <1>4. IsFiniteSet(S2) /\ Cardinality(S2) = Cardinality(S1) + One(in("ofile"))
    <2>1. <<p, "ofile">> \notin S1
      OBVIOUS
    <2> QED
      BY <2>1, <1>3, Adding
  <1>5. IsFiniteSet(S3) /\ Cardinality(S3) = Cardinality(S2) + One(in("np"))
    <2>1. <<p, "np">> \notin S2
      OBVIOUS
    <2> HIDE DEF S2
    <2> QED
      BY <2>1, <1>4, Adding
  <1>6. IsFiniteSet(S4) /\ Cardinality(S4) = Cardinality(S3) + One(in("ip"))
    <2>1. <<p, "ip">> \notin S3
      OBVIOUS
    <2> HIDE DEF S3
    <2> QED
      BY <2>1, <1>5, Adding
  <1>7. IsFiniteSet(S5) /\ Cardinality(S5) = Cardinality(S4) + One(in("dp"))
    <2>1. <<p, "dp">> \notin S4
      OBVIOUS
    <2> HIDE DEF S4
    <2> QED
      BY <2>1, <1>6, Adding
  <1>8. IsFiniteSet(S6) /\ Cardinality(S6) = Cardinality(S5) + One(in("putting"))
    <2>1. <<p, "putting">> \notin S5
      OBVIOUS
    <2> HIDE DEF S5
    <2> QED
      BY <2>1, <1>7, Adding
  <1>9. H = S6
    <2>1. \A x \in H : x \in S6
      BY DEF Fields
    <2>2. \A x \in S6 : x \in H
      BY DEF Fields
    <2> HIDE DEF S6
    <2> QED
      BY <2>1, <2>2
  <1>10. Cardinality(H) \in Nat /\ Cardinality(R) \in Nat
    BY <1>2, FS_CardinalityType
  <1> HIDE DEF S1, S2, S3, S4, S5, S6
  <1> QED
    BY <1>2, <1>3, <1>4, <1>5, <1>6, <1>7, <1>8, <1>9, <1>10 DEF At6, One

Ptr == [x \in Procs \X Fields |-> Pointer(x[1], x[2])]
Own(p, i) ==
    One((IF Leaving(p) THEN None ELSE cwd[p]) = i) + One(ofile[p] = i) + One(th[p].np = i)
      + One(th[p].ip = i) + One(th[p].dp = i) + One(th[p].putting = i)

LEMMA PtrAt ==
  ASSUME NEW p \in Procs
  PROVE  /\ \A f \in Fields : Ptr[<<p, f>>] = Pointer(p, f)
         /\ Pointer(p, "cwd") = (IF Leaving(p) THEN None ELSE cwd[p])
         /\ Pointer(p, "ofile") = ofile[p] /\ Pointer(p, "np") = th[p].np
         /\ Pointer(p, "ip") = th[p].ip /\ Pointer(p, "dp") = th[p].dp
         /\ Pointer(p, "putting") = th[p].putting
  BY DEF Ptr, Pointer, Fields

LEMMA PtrAtNext ==
  ASSUME NEW p \in Procs
  PROVE  /\ \A f \in Fields : Ptr'[<<p, f>>] = Pointer(p, f)'
         /\ Pointer(p, "cwd")' = (IF Leaving(p)' THEN None ELSE cwd'[p])
         /\ Pointer(p, "ofile")' = ofile'[p] /\ Pointer(p, "np")' = th'[p].np
         /\ Pointer(p, "ip")' = th'[p].ip /\ Pointer(p, "dp")' = th'[p].dp
         /\ Pointer(p, "putting")' = th'[p].putting
  BY DEF Ptr, Pointer, Fields

LEMMA HoldersPtr == ASSUME NEW i PROVE Holders(i) = SlotsOf(Ptr, i)
  BY DEF Holders, Ptr, SlotsOf

LEMMA HoldersPtrNext == ASSUME NEW i PROVE Holders(i)' = SlotsOf(Ptr', i)
  BY DEF Holders, Ptr, SlotsOf

(* The thread of q stays as it is, and so do its pointers.                 *)
Still(q) == th'[q] = th[q] /\ cwd'[q] = cwd[q] /\ ofile'[q] = ofile[q]

(* A step of p changes ref of an inode as it changes the pointers of p.    *)
LEMMA RefStep ==
  ASSUME NEW p \in Procs, RefExact, ref' \in [Inums -> Int], \A q \in Procs \ {p} : Still(q),
         \A i \in Inums : ref'[i] - ref[i] = Own(p, i)' - Own(p, i)
  PROVE  RefExact' /\ ref' \in [Inums -> Nat]
  <1> SUFFICES ASSUME NEW i \in Inums PROVE ref'[i] = Cardinality(Holders(i)') /\ ref'[i] \in Nat
    BY DEF RefExact
  <1> DEFINE R == SlotsElsewhere(Ptr, p, i)
             S == SlotsElsewhere(Ptr', p, i)
  <1>1. ref[i] = Cardinality(Holders(i))
    BY DEF RefExact
  <1>2. Cardinality(Holders(i)) = Cardinality(R) + Own(p, i) /\ Cardinality(R) \in Nat
    <2>1. At6(Ptr, p, i) = Own(p, i)
      BY SMTT(60), PtrAt DEF At6, Own, Fields
    <2>2. /\ Cardinality(SlotsOf(Ptr, i)) = Cardinality(R) + At6(Ptr, p, i)
          /\ Cardinality(R) \in Nat
      BY Counting
    <2>3. Holders(i) = SlotsOf(Ptr, i)
      BY HoldersPtr
    <2> QED
      BY <2>1, <2>2, <2>3
  <1>3. /\ Cardinality(Holders(i)') = Cardinality(S) + Own(p, i)'
        /\ Cardinality(Holders(i)') \in Nat /\ Cardinality(S) \in Nat
    <2>1. At6(Ptr', p, i) = Own(p, i)'
      BY SMTT(60), PtrAtNext DEF At6, Own, Fields
    <2>2. /\ Cardinality(SlotsOf(Ptr', i)) = Cardinality(S) + At6(Ptr', p, i)
          /\ Cardinality(S) \in Nat /\ Cardinality(SlotsOf(Ptr', i)) \in Nat
      BY Counting
    <2>3. Holders(i)' = SlotsOf(Ptr', i)
      BY HoldersPtrNext
    <2> QED
      BY <2>1, <2>2, <2>3
  <1>4. R = S
    <2>1. \A q \in Procs \ {p}, f \in Fields : Pointer(q, f)' = Pointer(q, f)
      BY DEF Pointer, Fields, Still, Leaving
    <2>2. \A x \in Procs \X Fields : x[1] # p => Ptr'[x] = Ptr[x]
      BY <2>1 DEF Ptr
    <2> QED
      BY <2>2 DEF SlotsElsewhere
  <1>5. Own(p, i) \in Int /\ Own(p, i)' \in Int
    BY DEF Own, One
  <1>6. ref'[i] \in Int /\ ref'[i] - ref[i] = Own(p, i)' - Own(p, i)
    OBVIOUS
  <1> HIDE DEF R, S
  <1> QED
    BY <1>1, <1>2, <1>3, <1>4, <1>5, <1>6

(* Who holds the only reference to an inode holds the only pointer to it.  *)
LEMMA HoldersFinite ==
  ASSUME NEW i
  PROVE  IsFiniteSet(Holders(i)) /\ Cardinality(Holders(i)) \in Nat
  <1>1. CASE Procs = {}
    BY <1>1, FS_EmptySet DEF Holders
  <1>2. CASE Procs # {}
    <2>1. PICK p \in Procs : TRUE
      BY <1>2
    <2>2. IsFiniteSet(SlotsOf(Ptr, i)) /\ Cardinality(SlotsOf(Ptr, i)) \in Nat
      BY Counting
    <2> QED
      BY <2>2, HoldersPtr
  <1> QED
    BY <1>1, <1>2

LEMMA SoleHolder ==
  ASSUME RefExact, NEW i \in Inums, ref[i] = 1, NEW x \in Holders(i), NEW y \in Holders(i)
  PROVE  x = y
  <1> SUFFICES ASSUME x # y PROVE FALSE
    OBVIOUS
  <1>1. IsFiniteSet({x}) /\ Cardinality({x}) = 1
    BY FS_Singleton
  <1>2. IsFiniteSet({x} \cup {y}) /\ Cardinality({x} \cup {y}) = 2
    BY <1>1, FS_AddElement
  <1>3. {x} \cup {y} \in SUBSET Holders(i)
    OBVIOUS
  <1>4. Cardinality({x} \cup {y}) <= Cardinality(Holders(i))
    BY <1>3, HoldersFinite, FS_Subset
  <1> QED
    BY <1>2, <1>4 DEF RefExact

(* Whoever has a pointer has a reference.                                  *)
LEMMA HolderCounts ==
  ASSUME RefExact, NEW i \in Inums, NEW x \in Holders(i)
  PROVE  ref[i] \in Nat /\ ref[i] >= 1
  <1>1. Cardinality(Holders(i)) # 0
    BY HoldersFinite, FS_EmptySet
  <1> QED
    BY <1>1, HoldersFinite DEF RefExact

-----------------------------------------------------------------------------
(* Steps of one process.                                                   *)

OthersStay(p) == \A q \in Procs \ {p} : th'[q] = th[q]

LEMMA ThreadStep ==
  ASSUME NEW p \in Procs, ThreadInv, OthersStay(p), ThreadOk(p)'
  PROVE  ThreadInv'
  <1>1. ASSUME NEW q \in Procs \ {p} PROVE ThreadOk(q)'
    <2>1. ThreadOk(q) /\ th'[q] = th[q]
      BY DEF ThreadInv, OthersStay
    <2> QED
      BY <2>1 DEF ThreadOk, Where
  <1> QED
    BY <1>1 DEF ThreadInv

(* p takes the locks it holds after the step, releases those it does not.  *)
LEMMA LockStep ==
  ASSUME NEW p \in Procs, LockInv, lock \in [Inums -> Procs \cup {Nobody}], OthersStay(p),
         lock' \in [Inums -> Procs \cup {Nobody}],
         \A i \in Inums :
            IF i \in LocksHeld(p)' THEN lock'[i] = p /\ lock[i] \in {p, Nobody}
            ELSE lock'[i] = IF lock[i] = p THEN Nobody ELSE lock[i],
         th'[p].pc \in {"itrunc", "invalidate"} =>
            /\ ~(Where(p)' \in DpLocked /\ th'[p].putting = th'[p].dp)
            /\ ~(Where(p)' \in IpLocked /\ th'[p].putting = th'[p].ip)
  PROVE  LockInv'
  <1>0. Nobody \notin Procs
    BY Constants
  <1>1. ASSUME NEW q \in Procs \ {p}, NEW i \in Inums PROVE (lock'[i] = q <=> i \in LocksHeld(q)')
    <2>1. th'[q] = th[q]
      BY DEF OthersStay
    <2>2. LocksHeld(q)' = LocksHeld(q)
      BY SMTT(60), <2>1 DEF LocksHeld, Where
    <2>3. lock[i] = q <=> i \in LocksHeld(q)
      BY DEF LockInv
    <2> QED
      BY <1>0, <2>2, <2>3
  <1>2. ASSUME NEW i \in Inums PROVE (lock'[i] = p <=> i \in LocksHeld(p)')
    BY <1>0
  <1>3. ASSUME NEW q \in Procs \ {p}, th'[q].pc \in {"itrunc", "invalidate"}
        PROVE  /\ ~(Where(q)' \in DpLocked /\ th'[q].putting = th'[q].dp)
               /\ ~(Where(q)' \in IpLocked /\ th'[q].putting = th'[q].ip)
    <2>1. th'[q] = th[q]
      BY DEF OthersStay
    <2> QED
      BY <1>3, <2>1 DEF LockInv, Where
  <1> QED
    BY <1>1, <1>2, <1>3 DEF LockInv

-----------------------------------------------------------------------------
(* What each action makes of the thread of its process.                    *)

Become(u, pc, op, np, ip, dp, putting, cont) ==
    /\ u \in Threads
    /\ u.pc = pc /\ u.op = op /\ u.np = np /\ u.ip = ip /\ u.dp = dp
    /\ u.putting = putting /\ u.cont = cont
Keeps(u, t) == u.arg = t.arg /\ u.rest = t.rest

(* The calls that can be at each point, one by one.                       *)
LEMMA OpsTable ==
  /\ OpsAt("namei") = {"open", "link", "chdir"} /\ OpsAt("inode") = {"open", "link", "chdir"}
  /\ OpsAt("nameiparent") = Creating \cup {"unlink", "link2"}
  /\ OpsAt("parent") = Creating \cup {"unlink", "link2"}
  /\ OpsAt("existing") = Creating /\ OpsAt("create_new") = Creating
  /\ OpsAt("created") = Creating /\ OpsAt("panic") = Creating
  /\ OpsAt("unlink_ip") = {"unlink"} /\ OpsAt("unlink_bad") = {"unlink"}
  /\ OpsAt("unlink_nlink") = {"unlink2"}
  /\ OpsAt("link_bad") = {"link2"} /\ OpsAt("undo") = {"link2"}
  /\ OpsAt("link_end") = {"link"} /\ OpsAt("chdir_end") = {"chdir"}
  /\ OpsAt("user") = Ops \cup {"none"}
  BY DEF OpsAt

LEMMA PcRecord ==
  ASSUME NEW t \in Threads, NEW k \in Points
  PROVE  /\ Become([t EXCEPT !.pc = k], k, t.op, t.np, t.ip, t.dp, t.putting, t.cont)
         /\ Keeps([t EXCEPT !.pc = k], t)
  BY DEF Become, Keeps, Threads, Points

LEMMA NpRecord ==
  ASSUME NEW t \in Threads, NEW j \in Pointers
  PROVE  /\ Become([t EXCEPT !.np = j], t.pc, t.op, j, t.ip, t.dp, t.putting, t.cont)
         /\ Keeps([t EXCEPT !.np = j], t)
  BY DEF Become, Keeps, Threads, Points

LEMMA IpRecord ==
  ASSUME NEW t \in Threads, NEW j \in Pointers
  PROVE  /\ Become([t EXCEPT !.ip = j], t.pc, t.op, t.np, j, t.dp, t.putting, t.cont)
         /\ Keeps([t EXCEPT !.ip = j], t)
  BY DEF Become, Keeps, Threads, Points

LEMMA DpRecord ==
  ASSUME NEW t \in Threads, NEW j \in Pointers
  PROVE  /\ Become([t EXCEPT !.dp = j], t.pc, t.op, t.np, t.ip, j, t.putting, t.cont)
         /\ Keeps([t EXCEPT !.dp = j], t)
  BY DEF Become, Keeps, Threads, Points

LEMMA DpOpRecord ==
  ASSUME NEW t \in Threads, NEW j \in Pointers, NEW o \in Ops \cup Phases
  PROVE  /\ Become([t EXCEPT !.dp = j, !.op = o], t.pc, o, t.np, t.ip, j, t.putting, t.cont)
         /\ Keeps([t EXCEPT !.dp = j, !.op = o], t)
  BY DEF Become, Keeps, Threads, Points

LEMMA IpOpRecord ==
  ASSUME NEW t \in Threads, NEW j \in Pointers, NEW o \in Ops \cup Phases
  PROVE  /\ Become([t EXCEPT !.ip = j, !.op = o], t.pc, o, t.np, j, t.dp, t.putting, t.cont)
         /\ Keeps([t EXCEPT !.ip = j, !.op = o], t)
  BY DEF Become, Keeps, Threads, Points

LEMMA IpDpRecord ==
  ASSUME NEW t \in Threads, NEW j \in Pointers, NEW l \in Pointers
  PROVE  /\ Become([t EXCEPT !.ip = j, !.dp = l], t.pc, t.op, t.np, j, l, t.putting, t.cont)
         /\ Keeps([t EXCEPT !.ip = j, !.dp = l], t)
  BY DEF Become, Keeps, Threads, Points

LEMMA NextRecord ==
  ASSUME NEW t \in Threads, NEW j \in Pointers, t.rest # <<>>
  PROVE  /\ Become([t EXCEPT !.np = j, !.rest = Tail(@)], t.pc, t.op, j, t.ip, t.dp, t.putting, t.cont)
         /\ ([t EXCEPT !.np = j, !.rest = Tail(@)]).arg = t.arg
  <1>1. t.rest \in Seq(Elems) /\ Tail(t.rest) \in Seq(Elems)
    BY DEF Threads
  <1> QED
    BY <1>1 DEF Become, Keeps, Threads, Points

LEMMA PcIpRecord ==
  ASSUME NEW t \in Threads, NEW k \in Points, NEW j \in Pointers
  PROVE  /\ Become([t EXCEPT !.pc = k, !.ip = j], k, t.op, t.np, j, t.dp, t.putting, t.cont)
         /\ Keeps([t EXCEPT !.pc = k, !.ip = j], t)
  BY DEF Become, Keeps, Threads, Points

LEMMA NpToDpRecord ==
  ASSUME NEW t \in Threads, NEW k \in Points, NEW j \in Pointers, NEW l \in Pointers
  PROVE  /\ Become([t EXCEPT !.pc = k, !.dp = j, !.np = l], k, t.op, l, t.ip, j, t.putting, t.cont)
         /\ Keeps([t EXCEPT !.pc = k, !.dp = j, !.np = l], t)
  BY DEF Become, Keeps, Threads, Points

LEMMA NpToIpRecord ==
  ASSUME NEW t \in Threads, NEW k \in Points, NEW j \in Pointers, NEW l \in Pointers
  PROVE  /\ Become([t EXCEPT !.pc = k, !.ip = j, !.np = l], k, t.op, l, j, t.dp, t.putting, t.cont)
         /\ Keeps([t EXCEPT !.pc = k, !.ip = j, !.np = l], t)
  BY DEF Become, Keeps, Threads, Points

LEMMA PutRecord ==
  ASSUME NEW t \in Threads, NEW i \in Pointers, NEW k \in Points
  PROVE  /\ Become(Iput(t, i, k), "iput", t.op, t.np, t.ip, t.dp, i, k)
         /\ Keeps(Iput(t, i, k), t)
  BY DEF Become, Keeps, Threads, Points, Iput

Called(t, k, j, o, a, r, n) == [Walking(t, k, j, r) EXCEPT !.op = o, !.arg = a, !.new = n]

LEMMA CallRecord ==
  ASSUME NEW t \in Threads, NEW k \in Points, NEW j \in Pointers, NEW o \in Ops, NEW a \in Args, NEW r \in Seq(Elems), NEW n \in Paths
  PROVE  /\ Become(Called(t, k, j, o, a, r, n), k, o, j, t.ip, t.dp, t.putting, t.cont)
         /\ (Called(t, k, j, o, a, r, n)).arg = a
  BY ZenonT(60) DEF Become, Keeps, Threads, Points, Walking, Called

LEMMA LinkRecord ==
  ASSUME NEW t \in Threads, NEW k \in Points, NEW j \in Pointers, NEW r \in Seq(Elems), NEW o \in Phases
  PROVE  /\ Become([Walking(t, k, j, r) EXCEPT !.op = o], k, o, j, t.ip, t.dp, t.putting, t.cont)
         /\ ([Walking(t, k, j, r) EXCEPT !.op = o]).arg = t.arg
  BY ZenonT(60) DEF Become, Keeps, Threads, Points, Walking

LEMMA IdleRecord == Become(Idle, "user", "none", None, None, None, None, "user")
  BY DEF Become, Idle, Threads, Points, Pointers, Args, NoPath, Paths
(* What a step finds in the variables of its process.                      *)
LEMMA ThreadAt ==
  ASSUME NEW p \in Procs, TypeInv, ThreadInv
  PROVE  LET t == th[p] IN
         /\ th \in [Procs -> Threads] /\ t \in Threads /\ ThreadOk(p)
         /\ t.pc \in Points /\ t.cont \in Points /\ t.rest \in Seq(Elems) /\ t.new \in Paths /\ t.arg \in Args
         /\ t.op \in Ops \cup Phases \cup {"none"}
         /\ {t.np, t.ip, t.dp, t.putting} \subseteq Pointers
         /\ t.np # None => t.np \in Inums
         /\ t.ip # None => t.ip \in Inums
         /\ t.dp # None => t.dp \in Inums
         /\ t.putting # None => t.putting \in Inums
         /\ cwd[p] \in Inums /\ ofile[p] \in Pointers
  <1>1. th \in [Procs -> Threads] /\ th[p] \in Threads /\ cwd[p] \in Inums /\ ofile[p] \in Pointers
    BY DEF TypeInv
  <1> QED
    BY <1>1 DEF Threads, Pointers, ThreadInv

LEMMA Changed ==
  ASSUME NEW p \in Procs, th \in [Procs -> Threads], NEW e \in Threads, th' = [th EXCEPT ![p] = e]
  PROVE  th' \in [Procs -> Threads] /\ OthersStay(p) /\ th'[p] = e
  BY DEF OthersStay

LEMMA LookupType ==
  ASSUME TypeInv, NEW d \in Inums, NEW n \in Elems
  PROVE  dirlookup(d, n) \in Pointers
  BY DEF TypeInv, dirlookup

LEMMA NonePointer == None \in Pointers /\ None \notin Inums /\ Inums \subseteq Pointers
  BY Constants DEF Pointers

LEMMA SysCallMoves ==
  ASSUME NEW p \in Procs, NEW c \in Calls[p], TypeInv, ThreadInv, syscall(p, c)
  PROVE  LET walk == IF c.op \in {"open", "link", "chdir"} THEN "namei" ELSE "nameiparent" IN
         /\ th' \in [Procs -> Threads] /\ OthersStay(p) /\ ThreadOk(p)'
         /\ th[p].pc = "user" /\ Start(p, c.path) \in Inums
         /\ c.op \in {"open", "link", "chdir", "unlink"} \cup Creating
         /\ Become(th'[p], walk, c.op, Start(p, c.path), None, None, None, "user")
         /\ th'[p].arg = c.arg
  <1> DEFINE t == th[p]
             walk == IF c.op \in {"open", "link", "chdir"} THEN "namei" ELSE "nameiparent"
             i == Start(p, c.path)
             e == Called(t, walk, i, c.op, c.arg, c.path.elems, c.new)
  <1> USE DEF syscall, At
  <1>1. th \in [Procs -> Threads] /\ t \in Threads /\ ThreadOk(p) /\ t.pc = "user"
    BY ThreadAt
  <1>2. i \in Inums
    BY ThreadAt, Constants DEF Start
  <1>3. /\ c.op \in Ops \ {"close"} /\ c.arg \in Args /\ c.new \in Paths /\ c.path.elems \in Seq(Elems)
        /\ c.op = "mknod" => c.arg \in Devices
    BY CallsOk DEF Paths
  <1>4. walk \in Points /\ i \in Pointers
    BY <1>2, NonePointer DEF Points
  <1>5. t.np = None /\ t.ip = None /\ t.dp = None /\ t.putting = None /\ t.cont = "user"
    BY <1>1 DEF ThreadOk, Where, NpUsed, IpUsed, DpUsed, IputPoints
  <1>6. th' = [th EXCEPT ![p] = e]
    BY DEF Called
  <1> HIDE DEF walk, i, syscall
  <1>7. Become(e, walk, c.op, i, t.ip, t.dp, t.putting, t.cont) /\ e.arg = c.arg
    <2> DEFINE r == c.path.elems
               o == c.op
               a == c.arg
               n == c.new
    <2>1. t \in Threads /\ walk \in Points /\ i \in Pointers /\ r \in Seq(Elems) /\ o \in Ops /\ a \in Args /\ n \in Paths
      BY <1>1, <1>3, <1>4
    <2> HIDE DEF t, r, o, a, n
    <2> QED
      BY <2>1, CallRecord DEF o, a, n, r
  <1> HIDE DEF e
  <1>8. th' \in [Procs -> Threads] /\ OthersStay(p) /\ th'[p] = e
    BY <1>1, <1>6, <1>7, Changed DEF Become
  <1>9. Become(th'[p], walk, c.op, i, None, None, None, "user") /\ th'[p].arg = c.arg
    BY <1>5, <1>7, <1>8
  <1>10. ThreadOk(p)'
    BY SMTT(60), <1>2, <1>3, <1>9, NonePointer
       DEF walk, Ops, Creating, ThreadOk, Where, OpsAt, NpUsed, IpUsed, DpUsed, IputPoints, Become
  <1> QED
    BY <1>1, <1>2, <1>3, <1>8, <1>9, <1>10 DEF walk, i, Ops, Creating

LEMMA NamexNextMoves ==
  ASSUME NEW p \in Procs, TypeInv, ThreadInv, namex_next(p)
  PROVE  /\ th' \in [Procs -> Threads] /\ OthersStay(p) /\ ThreadOk(p)'
         /\ th[p].np \in Inums
         /\ th[p].pc \in NpUsed
         /\ dirlookup(th[p].np, Head(th[p].rest)) \in Inums
         /\ Become(th'[p], "iput", th[p].op, dirlookup(th[p].np, Head(th[p].rest)), th[p].ip, th[p].dp, th[p].np, th[p].pc)
         /\ th'[p].arg = th[p].arg
  <1> DEFINE t == th[p]
             v == Iput(t, t.np, t.pc)
  <1> USE DEF namex_next, At, Walks
  <1>1. th \in [Procs -> Threads] /\ t \in Threads /\ ThreadOk(p)
    BY ThreadAt
  <1>2. th[p].np \in Inums /\ th[p].pc \in NpUsed /\ dirlookup(th[p].np, Head(th[p].rest)) \in Inums
    <2>1. th[p].np \in Inums /\ th[p].pc \in NpUsed
      BY ThreadAt, NonePointer DEF ThreadOk, Where, OpsAt, NpUsed, IpUsed, DpUsed, IputPoints, Become, Keeps, Creating, Ops
    <2>2. Head(t.rest) \in Elems
      BY ThreadAt
    <2>3. dirlookup(th[p].np, Head(th[p].rest)) \in Pointers
      BY <2>1, <2>2, LookupType
    <2> QED
      BY <2>1, <2>3 DEF Pointers
  <1>3. t.np \in Pointers /\ t.pc \in Points
    BY <1>2, ThreadAt, NonePointer DEF Points, Failed
  <1>4. Become(v, "iput", t.op, t.np, t.ip, t.dp, t.np, t.pc) /\ Keeps(v, t)
    BY <1>1, <1>3, PutRecord
  <1>5. th' = [th EXCEPT ![p] = [v EXCEPT !.np = dirlookup(th[p].np, Head(th[p].rest)), !.rest = Tail(@)]]
    BY <1>2
  <1> HIDE DEF v
  <1>6. Become([v EXCEPT !.np = dirlookup(th[p].np, Head(th[p].rest)), !.rest = Tail(@)], v.pc, v.op, dirlookup(th[p].np, Head(th[p].rest)), v.ip, v.dp, v.putting, v.cont) /\ ([v EXCEPT !.np = dirlookup(th[p].np, Head(th[p].rest)), !.rest = Tail(@)]).arg = v.arg
    <2>1. v \in Threads
      BY <1>4 DEF Become
    <2>2. v.rest # <<>>
      BY <1>4 DEF Keeps
    <2> QED
      BY <1>2, <2>1, <2>2, NonePointer, NextRecord DEF Ops, Phases, Creating
  <1>7. th' \in [Procs -> Threads] /\ OthersStay(p) /\ th'[p] = [v EXCEPT !.np = dirlookup(th[p].np, Head(th[p].rest)), !.rest = Tail(@)]
    BY <1>1, <1>5, <1>6, Changed DEF Become
  <1>8. Become(th'[p], "iput", th[p].op, dirlookup(th[p].np, Head(th[p].rest)), th[p].ip, th[p].dp, th[p].np, th[p].pc) /\ th'[p].arg = t.arg
    BY <1>4, <1>6, <1>7 DEF Become, Keeps
  <1>9. ThreadOk(p)'
    BY SMTT(60), <1>1, <1>2, <1>8, OpsTable, NonePointer DEF ThreadOk, Where, NpUsed, IpUsed, DpUsed, IputPoints, Become, Keeps, Creating, Ops, Failed
  <1> QED
    BY <1>2, <1>7, <1>8, <1>9

LEMMA NamexFailsMoves ==
  ASSUME NEW p \in Procs, TypeInv, ThreadInv, namex_fails(p)
  PROVE  /\ th' \in [Procs -> Threads] /\ OthersStay(p) /\ ThreadOk(p)'
         /\ th[p].np \in Inums
         /\ th[p].pc \in NpUsed
         /\ Become(th'[p], "iput", th[p].op, None, th[p].ip, th[p].dp, th[p].np, Failed(th[p]))
         /\ Keeps(th'[p], th[p])
  <1> DEFINE t == th[p]
             v == Iput(t, t.np, Failed(t))
  <1> USE DEF namex_fails, At, Walks
  <1>1. th \in [Procs -> Threads] /\ t \in Threads /\ ThreadOk(p)
    BY ThreadAt
  <1>2. th[p].np \in Inums /\ th[p].pc \in NpUsed
    BY ThreadAt, NonePointer DEF ThreadOk, Where, OpsAt, NpUsed, IpUsed, DpUsed, IputPoints, Become, Keeps, Creating, Ops
  <1>3. t.np \in Pointers /\ Failed(t) \in Points
    BY <1>2, ThreadAt, NonePointer DEF Points, Failed
  <1>4. Become(v, "iput", t.op, t.np, t.ip, t.dp, t.np, Failed(t)) /\ Keeps(v, t)
    BY <1>1, <1>3, PutRecord
  <1>5. th' = [th EXCEPT ![p] = [v EXCEPT !.np = None]]
    BY <1>2
  <1> HIDE DEF v
  <1>6. Become([v EXCEPT !.np = None], v.pc, v.op, None, v.ip, v.dp, v.putting, v.cont) /\ Keeps([v EXCEPT !.np = None], v)
    <2>1. v \in Threads
      BY <1>4 DEF Become
    <2> QED
      BY <1>2, <2>1, NonePointer, NpRecord DEF Ops, Phases, Creating
  <1>7. th' \in [Procs -> Threads] /\ OthersStay(p) /\ th'[p] = [v EXCEPT !.np = None]
    BY <1>1, <1>5, <1>6, Changed DEF Become
  <1>8. Become(th'[p], "iput", th[p].op, None, th[p].ip, th[p].dp, th[p].np, Failed(th[p])) /\ Keeps(th'[p], t)
    BY <1>4, <1>6, <1>7 DEF Become, Keeps
  <1>9. ThreadOk(p)'
    BY SMTT(60), <1>1, <1>2, <1>8, OpsTable, NonePointer DEF ThreadOk, Where, NpUsed, IpUsed, DpUsed, IputPoints, Become, Keeps, Creating, Ops, Failed
  <1> QED
    BY <1>2, <1>7, <1>8, <1>9

LEMMA OpenFailsMoves ==
  ASSUME NEW p \in Procs, TypeInv, ThreadInv, open_fails(p)
  PROVE  /\ th' \in [Procs -> Threads] /\ OthersStay(p) /\ ThreadOk(p)'
         /\ th[p].ip \in Inums
         /\ th[p].pc \in {"inode", "existing"}
         /\ Become(th'[p], "iput", th[p].op, th[p].np, None, th[p].dp, th[p].ip, "user")
         /\ Keeps(th'[p], th[p])
  <1> DEFINE t == th[p]
             v == Iput(t, t.ip, "user")
  <1> USE DEF open_fails, At, Opens
  <1>1. th \in [Procs -> Threads] /\ t \in Threads /\ ThreadOk(p)
    BY ThreadAt
  <1>2. th[p].ip \in Inums /\ th[p].pc \in {"inode", "existing"}
    BY ThreadAt, NonePointer DEF ThreadOk, Where, OpsAt, NpUsed, IpUsed, DpUsed, IputPoints, Become, Keeps, Creating, Ops
  <1>3. t.ip \in Pointers /\ "user" \in Points
    BY <1>2, ThreadAt, NonePointer DEF Points, Failed
  <1>4. Become(v, "iput", t.op, t.np, t.ip, t.dp, t.ip, "user") /\ Keeps(v, t)
    BY <1>1, <1>3, PutRecord
  <1>5. th' = [th EXCEPT ![p] = [v EXCEPT !.ip = None]]
    BY <1>2
  <1> HIDE DEF v
  <1>6. Become([v EXCEPT !.ip = None], v.pc, v.op, v.np, None, v.dp, v.putting, v.cont) /\ Keeps([v EXCEPT !.ip = None], v)
    <2>1. v \in Threads
      BY <1>4 DEF Become
    <2> QED
      BY <1>2, <2>1, NonePointer, IpRecord DEF Ops, Phases, Creating
  <1>7. th' \in [Procs -> Threads] /\ OthersStay(p) /\ th'[p] = [v EXCEPT !.ip = None]
    BY <1>1, <1>5, <1>6, Changed DEF Become
  <1>8. Become(th'[p], "iput", th[p].op, th[p].np, None, th[p].dp, th[p].ip, "user") /\ Keeps(th'[p], t)
    BY <1>4, <1>6, <1>7 DEF Become, Keeps
  <1>9. ThreadOk(p)'
    BY SMTT(60), <1>1, <1>2, <1>8, OpsTable, NonePointer DEF ThreadOk, Where, NpUsed, IpUsed, DpUsed, IputPoints, Become, Keeps, Creating, Ops, Failed
  <1> QED
    BY <1>2, <1>7, <1>8, <1>9

LEMMA CloseMoves ==
  ASSUME NEW p \in Procs, TypeInv, ThreadInv, sys_close(p)
  PROVE  /\ th' \in [Procs -> Threads] /\ OthersStay(p) /\ ThreadOk(p)'
         /\ ofile[p] \in Inums
         /\ th[p].pc = "user"
         /\ Become(th'[p], "iput", th[p].op, th[p].np, th[p].ip, th[p].dp, ofile[p], "user")
         /\ Keeps(th'[p], th[p])
  <1> DEFINE t == th[p]
             v == Iput(t, ofile[p], "user")
  <1> USE DEF sys_close, At
  <1>1. th \in [Procs -> Threads] /\ t \in Threads /\ ThreadOk(p)
    BY ThreadAt
  <1>2. ofile[p] \in Inums /\ th[p].pc = "user"
    BY ThreadAt, NonePointer DEF ThreadOk, Where, OpsAt, NpUsed, IpUsed, DpUsed, IputPoints, Become, Keeps, Creating, Ops, Pointers
  <1>3. ofile[p] \in Pointers /\ "user" \in Points
    BY <1>2, ThreadAt, NonePointer DEF Points, Failed
  <1>4. Become(v, "iput", t.op, t.np, t.ip, t.dp, ofile[p], "user") /\ Keeps(v, t)
    BY <1>1, <1>3, PutRecord
  <1>5. th' = [th EXCEPT ![p] = v]
    BY <1>2
  <1> HIDE DEF v
  <1>6. v \in Threads
    BY <1>4 DEF Become
  <1>7. th' \in [Procs -> Threads] /\ OthersStay(p) /\ th'[p] = v
    BY <1>1, <1>5, <1>6, Changed DEF Become
  <1>8. Become(th'[p], "iput", th[p].op, th[p].np, th[p].ip, th[p].dp, ofile[p], "user") /\ Keeps(th'[p], t)
    BY <1>4, <1>6, <1>7 DEF Become, Keeps
  <1>9. ThreadOk(p)'
    BY SMTT(60), <1>1, <1>2, <1>8, OpsTable, NonePointer DEF ThreadOk, Where, NpUsed, IpUsed, DpUsed, IputPoints, Become, Keeps, Creating, Ops, Failed
  <1> QED
    BY <1>2, <1>7, <1>8, <1>9

LEMMA CreateExistsMoves ==
  ASSUME NEW p \in Procs, TypeInv, ThreadInv, create_exists(p)
  PROVE  /\ th' \in [Procs -> Threads] /\ OthersStay(p) /\ ThreadOk(p)'
         /\ th[p].dp \in Inums
         /\ th[p].pc = "parent"
         /\ th[p].op \in Creating
         /\ dirlookup(th[p].dp, Name(p)) \in Inums
         /\ Become(th'[p], "iput", th[p].op, th[p].np, dirlookup(th[p].dp, Name(p)), None, th[p].dp, "existing")
         /\ Keeps(th'[p], th[p])
  <1> DEFINE t == th[p]
             v == Iput(t, t.dp, "existing")
  <1> USE DEF create_exists, At, Creates
  <1>1. th \in [Procs -> Threads] /\ t \in Threads /\ ThreadOk(p)
    BY ThreadAt
  <1>2. th[p].dp \in Inums /\ th[p].pc = "parent" /\ th[p].op \in Creating /\ dirlookup(th[p].dp, Name(p)) \in Inums
    <2>1. th[p].dp \in Inums /\ th[p].pc = "parent" /\ th[p].op \in Creating
      BY ThreadAt, NonePointer DEF ThreadOk, Where, OpsAt, NpUsed, IpUsed, DpUsed, IputPoints, Become, Keeps, Creating, Ops
    <2>2. Name(p) \in Elems
      BY <2>1, ThreadAt DEF ThreadOk, Where, IputPoints, Name
    <2>3. dirlookup(th[p].dp, Name(p)) \in Pointers
      BY <2>1, <2>2, LookupType
    <2> QED
      BY <2>1, <2>3 DEF Pointers
  <1>3. t.dp \in Pointers /\ "existing" \in Points
    BY <1>2, ThreadAt, NonePointer DEF Points, Failed
  <1>4. Become(v, "iput", t.op, t.np, t.ip, t.dp, t.dp, "existing") /\ Keeps(v, t)
    BY <1>1, <1>3, PutRecord
  <1>5. th' = [th EXCEPT ![p] = [v EXCEPT !.ip = dirlookup(th[p].dp, Name(p)), !.dp = None]]
    BY <1>2
  <1> HIDE DEF v
  <1>6. Become([v EXCEPT !.ip = dirlookup(th[p].dp, Name(p)), !.dp = None], v.pc, v.op, v.np, dirlookup(th[p].dp, Name(p)), None, v.putting, v.cont) /\ Keeps([v EXCEPT !.ip = dirlookup(th[p].dp, Name(p)), !.dp = None], v)
    <2>1. v \in Threads
      BY <1>4 DEF Become
    <2> QED
      BY <1>2, <2>1, NonePointer, IpDpRecord DEF Ops, Phases, Creating
  <1>7. th' \in [Procs -> Threads] /\ OthersStay(p) /\ th'[p] = [v EXCEPT !.ip = dirlookup(th[p].dp, Name(p)), !.dp = None]
    BY <1>1, <1>5, <1>6, Changed DEF Become
  <1>8. Become(th'[p], "iput", th[p].op, th[p].np, dirlookup(th[p].dp, Name(p)), None, th[p].dp, "existing") /\ Keeps(th'[p], t)
    BY <1>4, <1>6, <1>7 DEF Become, Keeps
  <1>9. ThreadOk(p)'
    BY SMTT(60), <1>1, <1>2, <1>8, OpsTable, NonePointer DEF ThreadOk, Where, NpUsed, IpUsed, DpUsed, IputPoints, Become, Keeps, Creating, Ops, Failed
  <1> QED
    BY <1>2, <1>7, <1>8, <1>9

LEMMA CreateNewMoves ==
  ASSUME NEW p \in Procs, TypeInv, ThreadInv, create_new(p)
  PROVE  /\ th' \in [Procs -> Threads] /\ OthersStay(p) /\ ThreadOk(p)'
         /\ th[p].dp \in Inums
         /\ th[p].ip \in Inums
         /\ th[p].pc = "create_new"
         /\ Become(th'[p], "iput", th[p].op, th[p].np, th[p].ip, None, th[p].dp, "created")
         /\ Keeps(th'[p], th[p])
  <1> DEFINE t == th[p]
             v == Iput(t, t.dp, "created")
  <1> USE DEF create_new, At
  <1>1. th \in [Procs -> Threads] /\ t \in Threads /\ ThreadOk(p)
    BY ThreadAt
  <1>2. th[p].dp \in Inums /\ th[p].ip \in Inums /\ th[p].pc = "create_new"
    BY ThreadAt, NonePointer DEF ThreadOk, Where, OpsAt, NpUsed, IpUsed, DpUsed, IputPoints, Become, Keeps, Creating, Ops
  <1>3. t.dp \in Pointers /\ "created" \in Points
    BY <1>2, ThreadAt, NonePointer DEF Points, Failed
  <1>4. Become(v, "iput", t.op, t.np, t.ip, t.dp, t.dp, "created") /\ Keeps(v, t)
    BY <1>1, <1>3, PutRecord
  <1>5. th' = [th EXCEPT ![p] = [v EXCEPT !.dp = None]]
    BY <1>2
  <1> HIDE DEF v
  <1>6. Become([v EXCEPT !.dp = None], v.pc, v.op, v.np, v.ip, None, v.putting, v.cont) /\ Keeps([v EXCEPT !.dp = None], v)
    <2>1. v \in Threads
      BY <1>4 DEF Become
    <2> QED
      BY <1>2, <2>1, NonePointer, DpRecord DEF Ops, Phases, Creating
  <1>7. th' \in [Procs -> Threads] /\ OthersStay(p) /\ th'[p] = [v EXCEPT !.dp = None]
    BY <1>1, <1>5, <1>6, Changed DEF Become
  <1>8. Become(th'[p], "iput", th[p].op, th[p].np, th[p].ip, None, th[p].dp, "created") /\ Keeps(th'[p], t)
    BY <1>4, <1>6, <1>7 DEF Become, Keeps
  <1>9. ThreadOk(p)'
    BY SMTT(60), <1>1, <1>2, <1>8, OpsTable, NonePointer DEF ThreadOk, Where, NpUsed, IpUsed, DpUsed, IputPoints, Become, Keeps, Creating, Ops, Failed
  <1> QED
    BY <1>2, <1>7, <1>8, <1>9

LEMMA UnlinkFailsMoves ==
  ASSUME NEW p \in Procs, TypeInv, ThreadInv, unlink_fails(p)
  PROVE  /\ th' \in [Procs -> Threads] /\ OthersStay(p) /\ ThreadOk(p)'
         /\ th[p].dp \in Inums
         /\ th[p].pc = "parent"
         /\ th[p].op = "unlink"
         /\ Become(th'[p], "iput", th[p].op, th[p].np, th[p].ip, None, th[p].dp, "user")
         /\ Keeps(th'[p], th[p])
  <1> DEFINE t == th[p]
             v == Iput(t, t.dp, "user")
  <1> USE DEF unlink_fails, At, Unlinks
  <1>1. th \in [Procs -> Threads] /\ t \in Threads /\ ThreadOk(p)
    BY ThreadAt
  <1>2. th[p].dp \in Inums /\ th[p].pc = "parent" /\ th[p].op = "unlink"
    BY ThreadAt, NonePointer DEF ThreadOk, Where, OpsAt, NpUsed, IpUsed, DpUsed, IputPoints, Become, Keeps, Creating, Ops
  <1>3. t.dp \in Pointers /\ "user" \in Points
    BY <1>2, ThreadAt, NonePointer DEF Points, Failed
  <1>4. Become(v, "iput", t.op, t.np, t.ip, t.dp, t.dp, "user") /\ Keeps(v, t)
    BY <1>1, <1>3, PutRecord
  <1>5. th' = [th EXCEPT ![p] = [v EXCEPT !.dp = None]]
    BY <1>2
  <1> HIDE DEF v
  <1>6. Become([v EXCEPT !.dp = None], v.pc, v.op, v.np, v.ip, None, v.putting, v.cont) /\ Keeps([v EXCEPT !.dp = None], v)
    <2>1. v \in Threads
      BY <1>4 DEF Become
    <2> QED
      BY <1>2, <2>1, NonePointer, DpRecord DEF Ops, Phases, Creating
  <1>7. th' \in [Procs -> Threads] /\ OthersStay(p) /\ th'[p] = [v EXCEPT !.dp = None]
    BY <1>1, <1>5, <1>6, Changed DEF Become
  <1>8. Become(th'[p], "iput", th[p].op, th[p].np, th[p].ip, None, th[p].dp, "user") /\ Keeps(th'[p], t)
    BY <1>4, <1>6, <1>7 DEF Become, Keeps
  <1>9. ThreadOk(p)'
    BY SMTT(60), <1>1, <1>2, <1>8, OpsTable, NonePointer DEF ThreadOk, Where, NpUsed, IpUsed, DpUsed, IputPoints, Become, Keeps, Creating, Ops, Failed
  <1> QED
    BY <1>2, <1>7, <1>8, <1>9

LEMMA UnlinkIpMoves ==
  ASSUME NEW p \in Procs, TypeInv, ThreadInv, unlink_ip(p)
  PROVE  /\ th' \in [Procs -> Threads] /\ OthersStay(p) /\ ThreadOk(p)'
         /\ th[p].dp \in Inums
         /\ th[p].ip \in Inums
         /\ th[p].pc = "unlink_ip"
         /\ Become(th'[p], "iput", "unlink2", th[p].np, th[p].ip, None, th[p].dp, "unlink_nlink")
         /\ Keeps(th'[p], th[p])
  <1> DEFINE t == th[p]
             v == Iput(t, t.dp, "unlink_nlink")
  <1> USE DEF unlink_ip, At
  <1>1. th \in [Procs -> Threads] /\ t \in Threads /\ ThreadOk(p)
    BY ThreadAt
  <1>2. th[p].dp \in Inums /\ th[p].ip \in Inums /\ th[p].pc = "unlink_ip"
    BY ThreadAt, NonePointer DEF ThreadOk, Where, OpsAt, NpUsed, IpUsed, DpUsed, IputPoints, Become, Keeps, Creating, Ops
  <1>3. t.dp \in Pointers /\ "unlink_nlink" \in Points
    BY <1>2, ThreadAt, NonePointer DEF Points, Failed
  <1>4. Become(v, "iput", t.op, t.np, t.ip, t.dp, t.dp, "unlink_nlink") /\ Keeps(v, t)
    BY <1>1, <1>3, PutRecord
  <1>5. th' = [th EXCEPT ![p] = [v EXCEPT !.dp = None, !.op = "unlink2"]]
    BY <1>2
  <1> HIDE DEF v
  <1>6. Become([v EXCEPT !.dp = None, !.op = "unlink2"], v.pc, "unlink2", v.np, v.ip, None, v.putting, v.cont) /\ Keeps([v EXCEPT !.dp = None, !.op = "unlink2"], v)
    <2>1. v \in Threads
      BY <1>4 DEF Become
    <2> QED
      BY <1>2, <2>1, NonePointer, DpOpRecord DEF Ops, Phases, Creating
  <1>7. th' \in [Procs -> Threads] /\ OthersStay(p) /\ th'[p] = [v EXCEPT !.dp = None, !.op = "unlink2"]
    BY <1>1, <1>5, <1>6, Changed DEF Become
  <1>8. Become(th'[p], "iput", "unlink2", th[p].np, th[p].ip, None, th[p].dp, "unlink_nlink") /\ Keeps(th'[p], t)
    BY <1>4, <1>6, <1>7 DEF Become, Keeps
  <1>9. ThreadOk(p)'
    BY SMTT(60), <1>1, <1>2, <1>8, OpsTable, NonePointer DEF ThreadOk, Where, NpUsed, IpUsed, DpUsed, IputPoints, Become, Keeps, Creating, Ops, Failed
  <1> QED
    BY <1>2, <1>7, <1>8, <1>9

LEMMA UnlinkNlinkMoves ==
  ASSUME NEW p \in Procs, TypeInv, ThreadInv, unlink_nlink(p)
  PROVE  /\ th' \in [Procs -> Threads] /\ OthersStay(p) /\ ThreadOk(p)'
         /\ th[p].ip \in Inums
         /\ th[p].pc = "unlink_nlink"
         /\ Become(th'[p], "iput", "unlink", th[p].np, None, th[p].dp, th[p].ip, "user")
         /\ Keeps(th'[p], th[p])
  <1> DEFINE t == th[p]
             v == Iput(t, t.ip, "user")
  <1> USE DEF unlink_nlink, At
  <1>1. th \in [Procs -> Threads] /\ t \in Threads /\ ThreadOk(p)
    BY ThreadAt
  <1>2. th[p].ip \in Inums /\ th[p].pc = "unlink_nlink"
    BY ThreadAt, NonePointer DEF ThreadOk, Where, OpsAt, NpUsed, IpUsed, DpUsed, IputPoints, Become, Keeps, Creating, Ops
  <1>3. t.ip \in Pointers /\ "user" \in Points
    BY <1>2, ThreadAt, NonePointer DEF Points, Failed
  <1>4. Become(v, "iput", t.op, t.np, t.ip, t.dp, t.ip, "user") /\ Keeps(v, t)
    BY <1>1, <1>3, PutRecord
  <1>5. th' = [th EXCEPT ![p] = [v EXCEPT !.ip = None, !.op = "unlink"]]
    BY <1>2
  <1> HIDE DEF v
  <1>6. Become([v EXCEPT !.ip = None, !.op = "unlink"], v.pc, "unlink", v.np, None, v.dp, v.putting, v.cont) /\ Keeps([v EXCEPT !.ip = None, !.op = "unlink"], v)
    <2>1. v \in Threads
      BY <1>4 DEF Become
    <2> QED
      BY <1>2, <2>1, NonePointer, IpOpRecord DEF Ops, Phases, Creating
  <1>7. th' \in [Procs -> Threads] /\ OthersStay(p) /\ th'[p] = [v EXCEPT !.ip = None, !.op = "unlink"]
    BY <1>1, <1>5, <1>6, Changed DEF Become
  <1>8. Become(th'[p], "iput", "unlink", th[p].np, None, th[p].dp, th[p].ip, "user") /\ Keeps(th'[p], t)
    BY <1>4, <1>6, <1>7 DEF Become, Keeps
  <1>9. ThreadOk(p)'
    BY SMTT(60), <1>1, <1>2, <1>8, OpsTable, NonePointer DEF ThreadOk, Where, NpUsed, IpUsed, DpUsed, IputPoints, Become, Keeps, Creating, Ops, Failed
  <1> QED
    BY <1>2, <1>7, <1>8, <1>9

LEMMA UnlinkNotEmptyMoves ==
  ASSUME NEW p \in Procs, TypeInv, ThreadInv, unlink_notempty(p)
  PROVE  /\ th' \in [Procs -> Threads] /\ OthersStay(p) /\ ThreadOk(p)'
         /\ th[p].ip \in Inums
         /\ th[p].dp \in Inums
         /\ th[p].pc = "unlink_ip"
         /\ Become(th'[p], "iput", th[p].op, th[p].np, None, th[p].dp, th[p].ip, "unlink_bad")
         /\ Keeps(th'[p], th[p])
  <1> DEFINE t == th[p]
             v == Iput(t, t.ip, "unlink_bad")
  <1> USE DEF unlink_notempty, At
  <1>1. th \in [Procs -> Threads] /\ t \in Threads /\ ThreadOk(p)
    BY ThreadAt
  <1>2. th[p].ip \in Inums /\ th[p].dp \in Inums /\ th[p].pc = "unlink_ip"
    BY ThreadAt, NonePointer DEF ThreadOk, Where, OpsAt, NpUsed, IpUsed, DpUsed, IputPoints, Become, Keeps, Creating, Ops
  <1>3. t.ip \in Pointers /\ "unlink_bad" \in Points
    BY <1>2, ThreadAt, NonePointer DEF Points, Failed
  <1>4. Become(v, "iput", t.op, t.np, t.ip, t.dp, t.ip, "unlink_bad") /\ Keeps(v, t)
    BY <1>1, <1>3, PutRecord
  <1>5. th' = [th EXCEPT ![p] = [v EXCEPT !.ip = None]]
    BY <1>2
  <1> HIDE DEF v
  <1>6. Become([v EXCEPT !.ip = None], v.pc, v.op, v.np, None, v.dp, v.putting, v.cont) /\ Keeps([v EXCEPT !.ip = None], v)
    <2>1. v \in Threads
      BY <1>4 DEF Become
    <2> QED
      BY <1>2, <2>1, NonePointer, IpRecord DEF Ops, Phases, Creating
  <1>7. th' \in [Procs -> Threads] /\ OthersStay(p) /\ th'[p] = [v EXCEPT !.ip = None]
    BY <1>1, <1>5, <1>6, Changed DEF Become
  <1>8. Become(th'[p], "iput", th[p].op, th[p].np, None, th[p].dp, th[p].ip, "unlink_bad") /\ Keeps(th'[p], t)
    BY <1>4, <1>6, <1>7 DEF Become, Keeps
  <1>9. ThreadOk(p)'
    BY SMTT(60), <1>1, <1>2, <1>8, OpsTable, NonePointer DEF ThreadOk, Where, NpUsed, IpUsed, DpUsed, IputPoints, Become, Keeps, Creating, Ops, Failed
  <1> QED
    BY <1>2, <1>7, <1>8, <1>9

LEMMA BadMoves ==
  ASSUME NEW p \in Procs, TypeInv, ThreadInv, bad(p)
  PROVE  /\ th' \in [Procs -> Threads] /\ OthersStay(p) /\ ThreadOk(p)'
         /\ th[p].dp \in Inums
         /\ th[p].pc \in {"unlink_bad", "link_bad"}
         /\ Become(th'[p], "iput", th[p].op, th[p].np, th[p].ip, None, th[p].dp, Failed(th[p]))
         /\ Keeps(th'[p], th[p])
  <1> DEFINE t == th[p]
             v == Iput(t, t.dp, Failed(t))
  <1> USE DEF bad, At
  <1>1. th \in [Procs -> Threads] /\ t \in Threads /\ ThreadOk(p)
    BY ThreadAt
  <1>2. th[p].dp \in Inums /\ th[p].pc \in {"unlink_bad", "link_bad"}
    BY ThreadAt, NonePointer DEF ThreadOk, Where, OpsAt, NpUsed, IpUsed, DpUsed, IputPoints, Become, Keeps, Creating, Ops
  <1>3. t.dp \in Pointers /\ Failed(t) \in Points
    BY <1>2, ThreadAt, NonePointer DEF Points, Failed
  <1>4. Become(v, "iput", t.op, t.np, t.ip, t.dp, t.dp, Failed(t)) /\ Keeps(v, t)
    BY <1>1, <1>3, PutRecord
  <1>5. th' = [th EXCEPT ![p] = [v EXCEPT !.dp = None]]
    BY <1>2
  <1> HIDE DEF v
  <1>6. Become([v EXCEPT !.dp = None], v.pc, v.op, v.np, v.ip, None, v.putting, v.cont) /\ Keeps([v EXCEPT !.dp = None], v)
    <2>1. v \in Threads
      BY <1>4 DEF Become
    <2> QED
      BY <1>2, <2>1, NonePointer, DpRecord DEF Ops, Phases, Creating
  <1>7. th' \in [Procs -> Threads] /\ OthersStay(p) /\ th'[p] = [v EXCEPT !.dp = None]
    BY <1>1, <1>5, <1>6, Changed DEF Become
  <1>8. Become(th'[p], "iput", th[p].op, th[p].np, th[p].ip, None, th[p].dp, Failed(th[p])) /\ Keeps(th'[p], t)
    BY <1>4, <1>6, <1>7 DEF Become, Keeps
  <1>9. ThreadOk(p)'
    BY SMTT(60), <1>1, <1>2, <1>8, OpsTable, NonePointer DEF ThreadOk, Where, NpUsed, IpUsed, DpUsed, IputPoints, Become, Keeps, Creating, Ops, Failed
  <1> QED
    BY <1>2, <1>7, <1>8, <1>9

LEMMA LinkDirMoves ==
  ASSUME NEW p \in Procs, TypeInv, ThreadInv, link_dir(p)
  PROVE  /\ th' \in [Procs -> Threads] /\ OthersStay(p) /\ ThreadOk(p)'
         /\ th[p].ip \in Inums
         /\ th[p].pc = "inode"
         /\ Become(th'[p], "iput", th[p].op, th[p].np, None, th[p].dp, th[p].ip, "user")
         /\ Keeps(th'[p], th[p])
  <1> DEFINE t == th[p]
             v == Iput(t, t.ip, "user")
  <1> USE DEF link_dir, At
  <1>1. th \in [Procs -> Threads] /\ t \in Threads /\ ThreadOk(p)
    BY ThreadAt
  <1>2. th[p].ip \in Inums /\ th[p].pc = "inode"
    BY ThreadAt, NonePointer DEF ThreadOk, Where, OpsAt, NpUsed, IpUsed, DpUsed, IputPoints, Become, Keeps, Creating, Ops
  <1>3. t.ip \in Pointers /\ "user" \in Points
    BY <1>2, ThreadAt, NonePointer DEF Points, Failed
  <1>4. Become(v, "iput", t.op, t.np, t.ip, t.dp, t.ip, "user") /\ Keeps(v, t)
    BY <1>1, <1>3, PutRecord
  <1>5. th' = [th EXCEPT ![p] = [v EXCEPT !.ip = None]]
    BY <1>2
  <1> HIDE DEF v
  <1>6. Become([v EXCEPT !.ip = None], v.pc, v.op, v.np, None, v.dp, v.putting, v.cont) /\ Keeps([v EXCEPT !.ip = None], v)
    <2>1. v \in Threads
      BY <1>4 DEF Become
    <2> QED
      BY <1>2, <2>1, NonePointer, IpRecord DEF Ops, Phases, Creating
  <1>7. th' \in [Procs -> Threads] /\ OthersStay(p) /\ th'[p] = [v EXCEPT !.ip = None]
    BY <1>1, <1>5, <1>6, Changed DEF Become
  <1>8. Become(th'[p], "iput", th[p].op, th[p].np, None, th[p].dp, th[p].ip, "user") /\ Keeps(th'[p], t)
    BY <1>4, <1>6, <1>7 DEF Become, Keeps
  <1>9. ThreadOk(p)'
    BY SMTT(60), <1>1, <1>2, <1>8, OpsTable, NonePointer DEF ThreadOk, Where, NpUsed, IpUsed, DpUsed, IputPoints, Become, Keeps, Creating, Ops, Failed
  <1> QED
    BY <1>2, <1>7, <1>8, <1>9

LEMMA DirlinkMoves ==
  ASSUME NEW p \in Procs, TypeInv, ThreadInv, dirlink(p)
  PROVE  /\ th' \in [Procs -> Threads] /\ OthersStay(p) /\ ThreadOk(p)'
         /\ th[p].dp \in Inums
         /\ th[p].ip \in Inums
         /\ th[p].pc = "parent"
         /\ th[p].op = "link2"
         /\ Become(th'[p], "iput", "link", th[p].np, th[p].ip, None, th[p].dp, "link_end")
         /\ Keeps(th'[p], th[p])
  <1> DEFINE t == th[p]
             v == Iput(t, t.dp, "link_end")
  <1> USE DEF dirlink, At, Links
  <1>1. th \in [Procs -> Threads] /\ t \in Threads /\ ThreadOk(p)
    BY ThreadAt
  <1>2. th[p].dp \in Inums /\ th[p].ip \in Inums /\ th[p].pc = "parent" /\ th[p].op = "link2"
    BY ThreadAt, NonePointer DEF ThreadOk, Where, OpsAt, NpUsed, IpUsed, DpUsed, IputPoints, Become, Keeps, Creating, Ops
  <1>3. t.dp \in Pointers /\ "link_end" \in Points
    BY <1>2, ThreadAt, NonePointer DEF Points, Failed
  <1>4. Become(v, "iput", t.op, t.np, t.ip, t.dp, t.dp, "link_end") /\ Keeps(v, t)
    BY <1>1, <1>3, PutRecord
  <1>5. th' = [th EXCEPT ![p] = [v EXCEPT !.dp = None, !.op = "link"]]
    BY <1>2
  <1> HIDE DEF v
  <1>6. Become([v EXCEPT !.dp = None, !.op = "link"], v.pc, "link", v.np, v.ip, None, v.putting, v.cont) /\ Keeps([v EXCEPT !.dp = None, !.op = "link"], v)
    <2>1. v \in Threads
      BY <1>4 DEF Become
    <2> QED
      BY <1>2, <2>1, NonePointer, DpOpRecord DEF Ops, Phases, Creating
  <1>7. th' \in [Procs -> Threads] /\ OthersStay(p) /\ th'[p] = [v EXCEPT !.dp = None, !.op = "link"]
    BY <1>1, <1>5, <1>6, Changed DEF Become
  <1>8. Become(th'[p], "iput", "link", th[p].np, th[p].ip, None, th[p].dp, "link_end") /\ Keeps(th'[p], t)
    BY <1>4, <1>6, <1>7 DEF Become, Keeps
  <1>9. ThreadOk(p)'
    BY SMTT(60), <1>1, <1>2, <1>8, OpsTable, NonePointer DEF ThreadOk, Where, NpUsed, IpUsed, DpUsed, IputPoints, Become, Keeps, Creating, Ops, Failed
  <1> QED
    BY <1>2, <1>7, <1>8, <1>9

LEMMA LinkEndMoves ==
  ASSUME NEW p \in Procs, TypeInv, ThreadInv, link_end(p)
  PROVE  /\ th' \in [Procs -> Threads] /\ OthersStay(p) /\ ThreadOk(p)'
         /\ th[p].ip \in Inums
         /\ th[p].pc = "link_end"
         /\ Become(th'[p], "iput", th[p].op, th[p].np, None, th[p].dp, th[p].ip, "user")
         /\ Keeps(th'[p], th[p])
  <1> DEFINE t == th[p]
             v == Iput(t, t.ip, "user")
  <1> USE DEF link_end, At
  <1>1. th \in [Procs -> Threads] /\ t \in Threads /\ ThreadOk(p)
    BY ThreadAt
  <1>2. th[p].ip \in Inums /\ th[p].pc = "link_end"
    BY ThreadAt, NonePointer DEF ThreadOk, Where, OpsAt, NpUsed, IpUsed, DpUsed, IputPoints, Become, Keeps, Creating, Ops
  <1>3. t.ip \in Pointers /\ "user" \in Points
    BY <1>2, ThreadAt, NonePointer DEF Points, Failed
  <1>4. Become(v, "iput", t.op, t.np, t.ip, t.dp, t.ip, "user") /\ Keeps(v, t)
    BY <1>1, <1>3, PutRecord
  <1>5. th' = [th EXCEPT ![p] = [v EXCEPT !.ip = None]]
    BY <1>2
  <1> HIDE DEF v
  <1>6. Become([v EXCEPT !.ip = None], v.pc, v.op, v.np, None, v.dp, v.putting, v.cont) /\ Keeps([v EXCEPT !.ip = None], v)
    <2>1. v \in Threads
      BY <1>4 DEF Become
    <2> QED
      BY <1>2, <2>1, NonePointer, IpRecord DEF Ops, Phases, Creating
  <1>7. th' \in [Procs -> Threads] /\ OthersStay(p) /\ th'[p] = [v EXCEPT !.ip = None]
    BY <1>1, <1>5, <1>6, Changed DEF Become
  <1>8. Become(th'[p], "iput", th[p].op, th[p].np, None, th[p].dp, th[p].ip, "user") /\ Keeps(th'[p], t)
    BY <1>4, <1>6, <1>7 DEF Become, Keeps
  <1>9. ThreadOk(p)'
    BY SMTT(60), <1>1, <1>2, <1>8, OpsTable, NonePointer DEF ThreadOk, Where, NpUsed, IpUsed, DpUsed, IputPoints, Become, Keeps, Creating, Ops, Failed
  <1> QED
    BY <1>2, <1>7, <1>8, <1>9

LEMMA DirlinkFailsMoves ==
  ASSUME NEW p \in Procs, TypeInv, ThreadInv, dirlink_fails(p)
  PROVE  /\ th' \in [Procs -> Threads] /\ OthersStay(p) /\ ThreadOk(p)'
         /\ th[p].dp \in Inums
         /\ th[p].ip \in Inums
         /\ th[p].pc = "parent"
         /\ th[p].op = "link2"
         /\ dirlookup(th[p].dp, Name(p)) \in Inums
         /\ Become(th'[p], "iput", th[p].op, th[p].np, th[p].ip, th[p].dp, dirlookup(th[p].dp, Name(p)), "link_bad")
         /\ Keeps(th'[p], th[p])
  <1> DEFINE t == th[p]
             v == Iput(t, dirlookup(th[p].dp, Name(p)), "link_bad")
  <1> USE DEF dirlink_fails, At, Links
  <1>1. th \in [Procs -> Threads] /\ t \in Threads /\ ThreadOk(p)
    BY ThreadAt
  <1>2. th[p].dp \in Inums /\ th[p].ip \in Inums /\ th[p].pc = "parent" /\ th[p].op = "link2" /\ dirlookup(th[p].dp, Name(p)) \in Inums
    <2>1. th[p].dp \in Inums /\ th[p].ip \in Inums /\ th[p].pc = "parent" /\ th[p].op = "link2"
      BY ThreadAt, NonePointer DEF ThreadOk, Where, OpsAt, NpUsed, IpUsed, DpUsed, IputPoints, Become, Keeps, Creating, Ops
    <2>2. Name(p) \in Elems
      BY <2>1, ThreadAt DEF ThreadOk, Where, IputPoints, Name
    <2>3. dirlookup(th[p].dp, Name(p)) \in Pointers
      BY <2>1, <2>2, LookupType
    <2> QED
      BY <2>1, <2>3 DEF Pointers
  <1>3. dirlookup(th[p].dp, Name(p)) \in Pointers /\ "link_bad" \in Points
    BY <1>2, ThreadAt, NonePointer DEF Points, Failed
  <1>4. Become(v, "iput", t.op, t.np, t.ip, t.dp, dirlookup(th[p].dp, Name(p)), "link_bad") /\ Keeps(v, t)
    BY <1>1, <1>3, PutRecord
  <1>5. th' = [th EXCEPT ![p] = v]
    BY <1>2
  <1> HIDE DEF v
  <1>6. v \in Threads
    BY <1>4 DEF Become
  <1>7. th' \in [Procs -> Threads] /\ OthersStay(p) /\ th'[p] = v
    BY <1>1, <1>5, <1>6, Changed DEF Become
  <1>8. Become(th'[p], "iput", th[p].op, th[p].np, th[p].ip, th[p].dp, dirlookup(th[p].dp, Name(p)), "link_bad") /\ Keeps(th'[p], t)
    BY <1>4, <1>6, <1>7 DEF Become, Keeps
  <1>9. ThreadOk(p)'
    BY SMTT(60), <1>1, <1>2, <1>8, OpsTable, NonePointer DEF ThreadOk, Where, NpUsed, IpUsed, DpUsed, IputPoints, Become, Keeps, Creating, Ops, Failed
  <1> QED
    BY <1>2, <1>7, <1>8, <1>9

LEMMA UndoMoves ==
  ASSUME NEW p \in Procs, TypeInv, ThreadInv, undo(p)
  PROVE  /\ th' \in [Procs -> Threads] /\ OthersStay(p) /\ ThreadOk(p)'
         /\ th[p].ip \in Inums
         /\ th[p].pc = "undo"
         /\ Become(th'[p], "iput", "link", th[p].np, None, th[p].dp, th[p].ip, "user")
         /\ Keeps(th'[p], th[p])
  <1> DEFINE t == th[p]
             v == Iput(t, t.ip, "user")
  <1> USE DEF undo, At
  <1>1. th \in [Procs -> Threads] /\ t \in Threads /\ ThreadOk(p)
    BY ThreadAt
  <1>2. th[p].ip \in Inums /\ th[p].pc = "undo"
    BY ThreadAt, NonePointer DEF ThreadOk, Where, OpsAt, NpUsed, IpUsed, DpUsed, IputPoints, Become, Keeps, Creating, Ops
  <1>3. t.ip \in Pointers /\ "user" \in Points
    BY <1>2, ThreadAt, NonePointer DEF Points, Failed
  <1>4. Become(v, "iput", t.op, t.np, t.ip, t.dp, t.ip, "user") /\ Keeps(v, t)
    BY <1>1, <1>3, PutRecord
  <1>5. th' = [th EXCEPT ![p] = [v EXCEPT !.ip = None, !.op = "link"]]
    BY <1>2
  <1> HIDE DEF v
  <1>6. Become([v EXCEPT !.ip = None, !.op = "link"], v.pc, "link", v.np, None, v.dp, v.putting, v.cont) /\ Keeps([v EXCEPT !.ip = None, !.op = "link"], v)
    <2>1. v \in Threads
      BY <1>4 DEF Become
    <2> QED
      BY <1>2, <2>1, NonePointer, IpOpRecord DEF Ops, Phases, Creating
  <1>7. th' \in [Procs -> Threads] /\ OthersStay(p) /\ th'[p] = [v EXCEPT !.ip = None, !.op = "link"]
    BY <1>1, <1>5, <1>6, Changed DEF Become
  <1>8. Become(th'[p], "iput", "link", th[p].np, None, th[p].dp, th[p].ip, "user") /\ Keeps(th'[p], t)
    BY <1>4, <1>6, <1>7 DEF Become, Keeps
  <1>9. ThreadOk(p)'
    BY SMTT(60), <1>1, <1>2, <1>8, OpsTable, NonePointer DEF ThreadOk, Where, NpUsed, IpUsed, DpUsed, IputPoints, Become, Keeps, Creating, Ops, Failed
  <1> QED
    BY <1>2, <1>7, <1>8, <1>9

LEMMA NamexParentMoves ==
  ASSUME NEW p \in Procs, TypeInv, ThreadInv, namex_parent(p)
  PROVE  /\ th' \in [Procs -> Threads] /\ OthersStay(p) /\ ThreadOk(p)'
         /\ th[p].np \in Inums
         /\ th[p].pc = "nameiparent"
         /\ Len(th[p].rest) = 1
         /\ Become(th'[p], "parent", th[p].op, None, th[p].ip, th[p].np, th[p].putting, th[p].cont)
         /\ Keeps(th'[p], th[p])
  <1> DEFINE t == th[p]
  <1> USE DEF namex_parent, At, Walks, LastElem
  <1>1. th \in [Procs -> Threads] /\ t \in Threads /\ ThreadOk(p)
    BY ThreadAt
  <1>2. th[p].np \in Inums /\ th[p].pc = "nameiparent" /\ Len(th[p].rest) = 1
    BY ThreadAt, NonePointer DEF ThreadOk, Where, OpsAt, NpUsed, IpUsed, DpUsed, IputPoints, Become, Keeps, Creating, Ops
  <1>3. "parent" \in Points /\ t.np \in Pointers
    BY <1>2, ThreadAt, NonePointer DEF Points
  <1>4. th' = [th EXCEPT ![p] = [t EXCEPT !.pc = "parent", !.dp = t.np, !.np = None]]
    BY <1>2
  <1>5. Become([t EXCEPT !.pc = "parent", !.dp = t.np, !.np = None], "parent", t.op, None, t.ip, th[p].np, t.putting, t.cont) /\ Keeps([t EXCEPT !.pc = "parent", !.dp = t.np, !.np = None], t)
    BY <1>1, <1>2, <1>3, NonePointer, NpToDpRecord
  <1>6. th' \in [Procs -> Threads] /\ OthersStay(p) /\ th'[p] = [t EXCEPT !.pc = "parent", !.dp = t.np, !.np = None]
    BY <1>1, <1>4, <1>5, Changed DEF Become
  <1>7. Become(th'[p], "parent", th[p].op, None, th[p].ip, th[p].np, th[p].putting, th[p].cont) /\ Keeps(th'[p], th[p])
    BY <1>5, <1>6
  <1>8. ThreadOk(p)'
    BY SMTT(60), <1>1, <1>2, <1>7, OpsTable, NonePointer DEF ThreadOk, Where, NpUsed, IpUsed, DpUsed, IputPoints, Become, Keeps, Creating, Ops
  <1> QED
    BY <1>2, <1>6, <1>7, <1>8

LEMMA SysOpenMoves ==
  ASSUME NEW p \in Procs, TypeInv, ThreadInv, sys_open(p)
  PROVE  /\ th' \in [Procs -> Threads] /\ OthersStay(p) /\ ThreadOk(p)'
         /\ th[p].ip \in Inums
         /\ th[p].pc \in {"inode", "existing"}
         /\ ofile[p] = None
         /\ Become(th'[p], "user", "none", None, None, None, None, "user")
  <1> DEFINE t == th[p]
  <1> USE DEF sys_open, At, Opens
  <1>1. th \in [Procs -> Threads] /\ t \in Threads /\ ThreadOk(p)
    BY ThreadAt
  <1>2. th[p].ip \in Inums /\ th[p].pc \in {"inode", "existing"} /\ ofile[p] = None
    BY ThreadAt, NonePointer DEF ThreadOk, Where, OpsAt, NpUsed, IpUsed, DpUsed, IputPoints, Become, Keeps, Creating, Ops
  <1>3. TRUE
    BY <1>2, ThreadAt, NonePointer DEF Points
  <1>4. th' = [th EXCEPT ![p] = Idle]
    BY <1>2
  <1>5. Become(Idle, "user", "none", None, None, None, None, "user")
    BY <1>1, <1>2, <1>3, IdleRecord
  <1>6. th' \in [Procs -> Threads] /\ OthersStay(p) /\ th'[p] = Idle
    BY <1>1, <1>4, <1>5, Changed DEF Become
  <1>7. Become(th'[p], "user", "none", None, None, None, None, "user")
    BY <1>5, <1>6
  <1>8. ThreadOk(p)'
    BY SMTT(60), <1>1, <1>2, <1>7, OpsTable, NonePointer DEF ThreadOk, Where, NpUsed, IpUsed, DpUsed, IputPoints, Become, Keeps, Creating, Ops
  <1> QED
    BY <1>2, <1>6, <1>7, <1>8

LEMMA ChdirEndMoves ==
  ASSUME NEW p \in Procs, TypeInv, ThreadInv, chdir_end(p)
  PROVE  /\ th' \in [Procs -> Threads] /\ OthersStay(p) /\ ThreadOk(p)'
         /\ th[p].ip \in Inums
         /\ th[p].pc = "chdir_end"
         /\ Become(th'[p], "user", "none", None, None, None, None, "user")
  <1> DEFINE t == th[p]
  <1> USE DEF chdir_end, At
  <1>1. th \in [Procs -> Threads] /\ t \in Threads /\ ThreadOk(p)
    BY ThreadAt
  <1>2. th[p].ip \in Inums /\ th[p].pc = "chdir_end"
    BY ThreadAt, NonePointer DEF ThreadOk, Where, OpsAt, NpUsed, IpUsed, DpUsed, IputPoints, Become, Keeps, Creating, Ops
  <1>3. TRUE
    BY <1>2, ThreadAt, NonePointer DEF Points
  <1>4. th' = [th EXCEPT ![p] = Idle]
    BY <1>2
  <1>5. Become(Idle, "user", "none", None, None, None, None, "user")
    BY <1>1, <1>2, <1>3, IdleRecord
  <1>6. th' \in [Procs -> Threads] /\ OthersStay(p) /\ th'[p] = Idle
    BY <1>1, <1>4, <1>5, Changed DEF Become
  <1>7. Become(th'[p], "user", "none", None, None, None, None, "user")
    BY <1>5, <1>6
  <1>8. ThreadOk(p)'
    BY SMTT(60), <1>1, <1>2, <1>7, OpsTable, NonePointer DEF ThreadOk, Where, NpUsed, IpUsed, DpUsed, IputPoints, Become, Keeps, Creating, Ops
  <1> QED
    BY <1>2, <1>6, <1>7, <1>8

LEMMA IputLastMoves ==
  ASSUME NEW p \in Procs, TypeInv, ThreadInv, iput_last(p)
  PROVE  /\ th' \in [Procs -> Threads] /\ OthersStay(p) /\ ThreadOk(p)'
         /\ th[p].putting \in Inums
         /\ th[p].pc = "iput"
         /\ Become(th'[p], "itrunc", th[p].op, th[p].np, th[p].ip, th[p].dp, th[p].putting, th[p].cont)
         /\ Keeps(th'[p], th[p])
  <1> DEFINE t == th[p]
  <1> USE DEF iput_last, At
  <1>1. th \in [Procs -> Threads] /\ t \in Threads /\ ThreadOk(p)
    BY ThreadAt
  <1>2. th[p].putting \in Inums /\ th[p].pc = "iput"
    BY ThreadAt, NonePointer DEF ThreadOk, Where, OpsAt, NpUsed, IpUsed, DpUsed, IputPoints, Become, Keeps, Creating, Ops
  <1>3. "itrunc" \in Points
    BY <1>2, ThreadAt, NonePointer DEF Points
  <1>4. th' = [th EXCEPT ![p] = [t EXCEPT !.pc = "itrunc"]]
    BY <1>2
  <1>5. Become([t EXCEPT !.pc = "itrunc"], "itrunc", t.op, t.np, t.ip, t.dp, t.putting, t.cont) /\ Keeps([t EXCEPT !.pc = "itrunc"], t)
    BY <1>1, <1>2, <1>3, PcRecord
  <1>6. th' \in [Procs -> Threads] /\ OthersStay(p) /\ th'[p] = [t EXCEPT !.pc = "itrunc"]
    BY <1>1, <1>4, <1>5, Changed DEF Become
  <1>7. Become(th'[p], "itrunc", th[p].op, th[p].np, th[p].ip, th[p].dp, th[p].putting, th[p].cont) /\ Keeps(th'[p], th[p])
    BY <1>5, <1>6
  <1>8. ThreadOk(p)'
    BY SMTT(60), <1>1, <1>2, <1>7, OpsTable, NonePointer DEF ThreadOk, Where, NpUsed, IpUsed, DpUsed, IputPoints, Become, Keeps, Creating, Ops
  <1> QED
    BY <1>2, <1>6, <1>7, <1>8

LEMMA ItruncMoves ==
  ASSUME NEW p \in Procs, TypeInv, ThreadInv, itrunc(p)
  PROVE  /\ th' \in [Procs -> Threads] /\ OthersStay(p) /\ ThreadOk(p)'
         /\ th[p].putting \in Inums
         /\ th[p].pc = "itrunc"
         /\ Become(th'[p], "invalidate", th[p].op, th[p].np, th[p].ip, th[p].dp, th[p].putting, th[p].cont)
         /\ Keeps(th'[p], th[p])
  <1> DEFINE t == th[p]
  <1> USE DEF itrunc, At
  <1>1. th \in [Procs -> Threads] /\ t \in Threads /\ ThreadOk(p)
    BY ThreadAt
  <1>2. th[p].putting \in Inums /\ th[p].pc = "itrunc"
    BY ThreadAt, NonePointer DEF ThreadOk, Where, OpsAt, NpUsed, IpUsed, DpUsed, IputPoints, Become, Keeps, Creating, Ops
  <1>3. "invalidate" \in Points
    BY <1>2, ThreadAt, NonePointer DEF Points
  <1>4. th' = [th EXCEPT ![p] = [t EXCEPT !.pc = "invalidate"]]
    BY <1>2
  <1>5. Become([t EXCEPT !.pc = "invalidate"], "invalidate", t.op, t.np, t.ip, t.dp, t.putting, t.cont) /\ Keeps([t EXCEPT !.pc = "invalidate"], t)
    BY <1>1, <1>2, <1>3, PcRecord
  <1>6. th' \in [Procs -> Threads] /\ OthersStay(p) /\ th'[p] = [t EXCEPT !.pc = "invalidate"]
    BY <1>1, <1>4, <1>5, Changed DEF Become
  <1>7. Become(th'[p], "invalidate", th[p].op, th[p].np, th[p].ip, th[p].dp, th[p].putting, th[p].cont) /\ Keeps(th'[p], th[p])
    BY <1>5, <1>6
  <1>8. ThreadOk(p)'
    BY SMTT(60), <1>1, <1>2, <1>7, OpsTable, NonePointer DEF ThreadOk, Where, NpUsed, IpUsed, DpUsed, IputPoints, Become, Keeps, Creating, Ops
  <1> QED
    BY <1>2, <1>6, <1>7, <1>8

LEMMA InvalidateMoves ==
  ASSUME NEW p \in Procs, TypeInv, ThreadInv, invalidate(p)
  PROVE  /\ th' \in [Procs -> Threads] /\ OthersStay(p) /\ ThreadOk(p)'
         /\ th[p].putting \in Inums
         /\ th[p].pc = "invalidate"
         /\ Become(th'[p], "ref", th[p].op, th[p].np, th[p].ip, th[p].dp, th[p].putting, th[p].cont)
         /\ Keeps(th'[p], th[p])
  <1> DEFINE t == th[p]
  <1> USE DEF invalidate, At
  <1>1. th \in [Procs -> Threads] /\ t \in Threads /\ ThreadOk(p)
    BY ThreadAt
  <1>2. th[p].putting \in Inums /\ th[p].pc = "invalidate"
    BY ThreadAt, NonePointer DEF ThreadOk, Where, OpsAt, NpUsed, IpUsed, DpUsed, IputPoints, Become, Keeps, Creating, Ops
  <1>3. "ref" \in Points
    BY <1>2, ThreadAt, NonePointer DEF Points
  <1>4. th' = [th EXCEPT ![p] = [t EXCEPT !.pc = "ref"]]
    BY <1>2
  <1>5. Become([t EXCEPT !.pc = "ref"], "ref", t.op, t.np, t.ip, t.dp, t.putting, t.cont) /\ Keeps([t EXCEPT !.pc = "ref"], t)
    BY <1>1, <1>2, <1>3, PcRecord
  <1>6. th' \in [Procs -> Threads] /\ OthersStay(p) /\ th'[p] = [t EXCEPT !.pc = "ref"]
    BY <1>1, <1>4, <1>5, Changed DEF Become
  <1>7. Become(th'[p], "ref", th[p].op, th[p].np, th[p].ip, th[p].dp, th[p].putting, th[p].cont) /\ Keeps(th'[p], th[p])
    BY <1>5, <1>6
  <1>8. ThreadOk(p)'
    BY SMTT(60), <1>1, <1>2, <1>7, OpsTable, NonePointer DEF ThreadOk, Where, NpUsed, IpUsed, DpUsed, IputPoints, Become, Keeps, Creating, Ops
  <1> QED
    BY <1>2, <1>6, <1>7, <1>8

LEMMA IallocMoves ==
  ASSUME NEW p \in Procs, NEW i \in Inums, TypeInv, ThreadInv, ialloc(p, i)
  PROVE  /\ th' \in [Procs -> Threads] /\ OthersStay(p) /\ ThreadOk(p)'
         /\ th[p].dp \in Inums
         /\ th[p].pc = "parent"
         /\ th[p].op \in Creating
         /\ Become(th'[p], "create_new", th[p].op, th[p].np, i, th[p].dp, th[p].putting, th[p].cont)
         /\ Keeps(th'[p], th[p])
  <1> DEFINE t == th[p]
  <1> USE DEF ialloc, At, Creates
  <1>1. th \in [Procs -> Threads] /\ t \in Threads /\ ThreadOk(p)
    BY ThreadAt
  <1>2. th[p].dp \in Inums /\ th[p].pc = "parent" /\ th[p].op \in Creating
    BY ThreadAt, NonePointer DEF ThreadOk, Where, OpsAt, NpUsed, IpUsed, DpUsed, IputPoints, Become, Keeps, Creating, Ops
  <1>3. "create_new" \in Points /\ i \in Pointers
    BY <1>2, ThreadAt, NonePointer DEF Points
  <1>4. th' = [th EXCEPT ![p] = [t EXCEPT !.pc = "create_new", !.ip = i]]
    BY <1>2
  <1>5. Become([t EXCEPT !.pc = "create_new", !.ip = i], "create_new", t.op, t.np, i, t.dp, t.putting, t.cont) /\ Keeps([t EXCEPT !.pc = "create_new", !.ip = i], t)
    BY <1>1, <1>2, <1>3, PcIpRecord
  <1>6. th' \in [Procs -> Threads] /\ OthersStay(p) /\ th'[p] = [t EXCEPT !.pc = "create_new", !.ip = i]
    BY <1>1, <1>4, <1>5, Changed DEF Become
  <1>7. Become(th'[p], "create_new", th[p].op, th[p].np, i, th[p].dp, th[p].putting, th[p].cont) /\ Keeps(th'[p], th[p])
    BY <1>5, <1>6
  <1>8. ThreadOk(p)'
    BY SMTT(60), <1>1, <1>2, <1>7, OpsTable, NonePointer DEF ThreadOk, Where, NpUsed, IpUsed, DpUsed, IputPoints, Become, Keeps, Creating, Ops
  <1> QED
    BY <1>2, <1>6, <1>7, <1>8

LEMMA IallocPanicMoves ==
  ASSUME NEW p \in Procs, TypeInv, ThreadInv, ialloc_panic(p)
  PROVE  /\ th' \in [Procs -> Threads] /\ OthersStay(p) /\ ThreadOk(p)'
         /\ th[p].dp \in Inums
         /\ th[p].pc = "parent"
         /\ th[p].op \in Creating
         /\ Become(th'[p], "panic", th[p].op, th[p].np, th[p].ip, th[p].dp, th[p].putting, th[p].cont)
         /\ Keeps(th'[p], th[p])
  <1> DEFINE t == th[p]
  <1> USE DEF ialloc_panic, At, Creates
  <1>1. th \in [Procs -> Threads] /\ t \in Threads /\ ThreadOk(p)
    BY ThreadAt
  <1>2. th[p].dp \in Inums /\ th[p].pc = "parent" /\ th[p].op \in Creating
    BY ThreadAt, NonePointer DEF ThreadOk, Where, OpsAt, NpUsed, IpUsed, DpUsed, IputPoints, Become, Keeps, Creating, Ops
  <1>3. "panic" \in Points
    BY <1>2, ThreadAt, NonePointer DEF Points
  <1>4. th' = [th EXCEPT ![p] = [t EXCEPT !.pc = "panic"]]
    BY <1>2
  <1>5. Become([t EXCEPT !.pc = "panic"], "panic", t.op, t.np, t.ip, t.dp, t.putting, t.cont) /\ Keeps([t EXCEPT !.pc = "panic"], t)
    BY <1>1, <1>2, <1>3, PcRecord
  <1>6. th' \in [Procs -> Threads] /\ OthersStay(p) /\ th'[p] = [t EXCEPT !.pc = "panic"]
    BY <1>1, <1>4, <1>5, Changed DEF Become
  <1>7. Become(th'[p], "panic", th[p].op, th[p].np, th[p].ip, th[p].dp, th[p].putting, th[p].cont) /\ Keeps(th'[p], th[p])
    BY <1>5, <1>6
  <1>8. ThreadOk(p)'
    BY SMTT(60), <1>1, <1>2, <1>7, OpsTable, NonePointer DEF ThreadOk, Where, NpUsed, IpUsed, DpUsed, IputPoints, Become, Keeps, Creating, Ops
  <1> QED
    BY <1>2, <1>6, <1>7, <1>8

LEMMA UnlinkDpMoves ==
  ASSUME NEW p \in Procs, TypeInv, ThreadInv, unlink_dp(p)
  PROVE  /\ th' \in [Procs -> Threads] /\ OthersStay(p) /\ ThreadOk(p)'
         /\ th[p].dp \in Inums
         /\ th[p].pc = "parent"
         /\ th[p].op = "unlink"
         /\ dirlookup(th[p].dp, Name(p)) \in Inums
         /\ Become(th'[p], "unlink_ip", th[p].op, th[p].np, dirlookup(th[p].dp, Name(p)), th[p].dp, th[p].putting, th[p].cont)
         /\ Keeps(th'[p], th[p])
  <1> DEFINE t == th[p]
  <1> USE DEF unlink_dp, At, Unlinks, Removable
  <1>1. th \in [Procs -> Threads] /\ t \in Threads /\ ThreadOk(p)
    BY ThreadAt
  <1>2. th[p].dp \in Inums /\ th[p].pc = "parent" /\ th[p].op = "unlink" /\ dirlookup(th[p].dp, Name(p)) \in Inums
    <2>1. th[p].dp \in Inums /\ th[p].pc = "parent" /\ th[p].op = "unlink"
      BY ThreadAt, NonePointer DEF ThreadOk, Where, OpsAt, NpUsed, IpUsed, DpUsed, IputPoints, Become, Keeps, Creating, Ops
    <2>2. Name(p) \in Elems
      BY <2>1, ThreadAt DEF ThreadOk, Where, IputPoints, Name
    <2>3. dirlookup(th[p].dp, Name(p)) \in Pointers
      BY <2>1, <2>2, LookupType
    <2> QED
      BY <2>1, <2>3 DEF Pointers
  <1>3. "unlink_ip" \in Points /\ dirlookup(th[p].dp, Name(p)) \in Pointers
    BY <1>2, ThreadAt, NonePointer DEF Points
  <1>4. th' = [th EXCEPT ![p] = [t EXCEPT !.pc = "unlink_ip", !.ip = dirlookup(th[p].dp, Name(p))]]
    BY <1>2
  <1>5. Become([t EXCEPT !.pc = "unlink_ip", !.ip = dirlookup(th[p].dp, Name(p))], "unlink_ip", t.op, t.np, dirlookup(th[p].dp, Name(p)), t.dp, t.putting, t.cont) /\ Keeps([t EXCEPT !.pc = "unlink_ip", !.ip = dirlookup(th[p].dp, Name(p))], t)
    BY <1>1, <1>2, <1>3, PcIpRecord
  <1>6. th' \in [Procs -> Threads] /\ OthersStay(p) /\ th'[p] = [t EXCEPT !.pc = "unlink_ip", !.ip = dirlookup(th[p].dp, Name(p))]
    BY <1>1, <1>4, <1>5, Changed DEF Become
  <1>7. Become(th'[p], "unlink_ip", th[p].op, th[p].np, dirlookup(th[p].dp, Name(p)), th[p].dp, th[p].putting, th[p].cont) /\ Keeps(th'[p], th[p])
    BY <1>5, <1>6
  <1>8. ThreadOk(p)'
    BY SMTT(60), <1>1, <1>2, <1>7, OpsTable, NonePointer DEF ThreadOk, Where, NpUsed, IpUsed, DpUsed, IputPoints, Become, Keeps, Creating, Ops
  <1> QED
    BY <1>2, <1>6, <1>7, <1>8

LEMMA LinkNlinkMoves ==
  ASSUME NEW p \in Procs, TypeInv, ThreadInv, link_nlink(p)
  PROVE  /\ th' \in [Procs -> Threads] /\ OthersStay(p) /\ ThreadOk(p)'
         /\ th[p].pc = "inode"
         /\ th[p].op = "link"
         /\ th[p].ip \in Inums
         /\ Start(p, th[p].new) \in Inums
         /\ th[p].new.elems \in Seq(Elems)
         /\ Become(th'[p], "nameiparent", "link2", Start(p, th[p].new), th[p].ip, th[p].dp, th[p].putting, th[p].cont)
         /\ th'[p].arg = th[p].arg
  <1> DEFINE t == th[p]
  <1> USE DEF link_nlink, At
  <1>1. th \in [Procs -> Threads] /\ t \in Threads /\ ThreadOk(p)
    BY ThreadAt
  <1>2. th[p].pc = "inode" /\ th[p].op = "link" /\ th[p].ip \in Inums /\ Start(p, th[p].new) \in Inums /\ th[p].new.elems \in Seq(Elems)
    BY ThreadAt, NonePointer, Constants DEF ThreadOk, Where, OpsAt, NpUsed, IpUsed, DpUsed, IputPoints, Become, Keeps, Creating, Ops, Start, Paths
  <1>3. "nameiparent" \in Points /\ Start(p, t.new) \in Pointers /\ "link2" \in Phases
    BY <1>2, ThreadAt, NonePointer, Constants DEF Points, Ops, Phases, Creating, Paths, Start, Paths
  <1>4. th' = [th EXCEPT ![p] = [Walking(t, "nameiparent", Start(p, t.new), t.new.elems) EXCEPT !.op = "link2"]]
    BY <1>2
  <1>5. Become([Walking(t, "nameiparent", Start(p, t.new), t.new.elems) EXCEPT !.op = "link2"], "nameiparent", "link2", Start(p, th[p].new), t.ip, t.dp, t.putting, t.cont) /\ ([Walking(t, "nameiparent", Start(p, t.new), t.new.elems) EXCEPT !.op = "link2"]).arg = th[p].arg
    BY <1>1, <1>2, <1>3, NonePointer, LinkRecord
  <1>6. th' \in [Procs -> Threads] /\ OthersStay(p) /\ th'[p] = [Walking(t, "nameiparent", Start(p, t.new), t.new.elems) EXCEPT !.op = "link2"]
    BY <1>1, <1>4, <1>5, Changed DEF Become
  <1>7. Become(th'[p], "nameiparent", "link2", Start(p, th[p].new), th[p].ip, th[p].dp, th[p].putting, th[p].cont) /\ th'[p].arg = th[p].arg
    BY <1>5, <1>6
  <1> HIDE DEF link_nlink
  <1>8. ThreadOk(p)'
    BY SMTT(60), <1>1, <1>2, <1>7, OpsTable, NonePointer DEF ThreadOk, Where, NpUsed, IpUsed, DpUsed, IputPoints, Become, Keeps, Creating, Ops
  <1> QED
    BY <1>2, <1>6, <1>7, <1>8

LEMMA IputMoves ==
  ASSUME NEW p \in Procs, TypeInv, ThreadInv, iput(p)
  PROVE  /\ th' \in [Procs -> Threads] /\ OthersStay(p) /\ ThreadOk(p)'
         /\ th[p].putting \in Inums /\ th[p].pc \in {"iput", "ref"}
         /\ th[p].cont = "user" => Become(th'[p], "user", "none", None, None, None, None, "user")
         /\ th[p].cont # "user" =>
              /\ Become(th'[p], th[p].cont, th[p].op, th[p].np, th[p].ip, th[p].dp, None, "user")
              /\ Keeps(th'[p], th[p])
  <1> DEFINE t == th[p]
  <1> USE DEF iput, At
  <1>1. th \in [Procs -> Threads] /\ t \in Threads /\ ThreadOk(p) /\ t.cont \in Points
    BY ThreadAt
  <1>2. th[p].putting \in Inums /\ th[p].pc \in {"iput", "ref"}
    BY ThreadAt, NonePointer DEF ThreadOk, Where, OpsAt, NpUsed, IpUsed, DpUsed, IputPoints, Become, Keeps, Creating, Ops
  <1>3. After(t) \in Threads /\ th' = [th EXCEPT ![p] = After(t)]
    BY <1>1, NonePointer, IdleRecord DEF Become, After, Threads
  <1>4. th' \in [Procs -> Threads] /\ OthersStay(p) /\ th'[p] = After(t)
    BY <1>1, <1>3, Changed
  <1>5. CASE t.cont = "user"
    <2>1. Become(th'[p], "user", "none", None, None, None, None, "user")
      BY <1>4, <1>5, IdleRecord DEF After
    <2>2. ThreadOk(p)'
      BY SMTT(60), <2>1, OpsTable, NonePointer DEF ThreadOk, Where, NpUsed, IpUsed, DpUsed, IputPoints, Become, Keeps, Creating, Ops
    <2> QED
      BY <1>2, <1>4, <1>5, <2>1, <2>2
  <1>6. CASE t.cont # "user"
    <2>1. /\ Become(th'[p], th[p].cont, th[p].op, th[p].np, th[p].ip, th[p].dp, None, "user")
          /\ Keeps(th'[p], th[p])
      BY <1>1, <1>3, <1>4, <1>6 DEF After, Become, Keeps, Threads
    <2>2. ThreadOk(p)'
      BY SMTT(60), <1>1, <1>2, <1>6, <2>1, OpsTable, NonePointer DEF ThreadOk, Where, NpUsed, IpUsed, DpUsed, IputPoints, Become, Keeps, Creating, Ops
    <2> QED
      BY <1>2, <1>4, <1>6, <2>1, <2>2
  <1> QED
    BY <1>5, <1>6

LEMMA NamexEndMoves ==
  ASSUME NEW p \in Procs, TypeInv, ThreadInv, namex_end(p)
  PROVE  /\ th' \in [Procs -> Threads] /\ OthersStay(p) /\ ThreadOk(p)'
         /\ th[p].np \in Inums /\ th[p].pc \in NpUsed /\ Keeps(th'[p], th[p])
         /\ th[p].pc = "namei" => Become(th'[p], "inode", th[p].op, None, th[p].np, th[p].dp, th[p].putting, th[p].cont)
         /\ th[p].pc = "nameiparent" =>
              Become(th'[p], "iput", th[p].op, None, th[p].ip, th[p].dp, th[p].np, Failed(th[p]))
  <1> DEFINE t == th[p]
             v == Iput(t, t.np, Failed(t))
  <1> USE DEF namex_end, At
  <1>1. th \in [Procs -> Threads] /\ t \in Threads /\ ThreadOk(p)
    BY ThreadAt
  <1>2. th[p].np \in Inums /\ th[p].pc \in NpUsed
    BY ThreadAt, NonePointer DEF ThreadOk, Where, OpsAt, NpUsed, IpUsed, DpUsed, IputPoints, Become, Keeps, Creating, Ops
  <1>3. t.np \in Pointers /\ Failed(t) \in Points /\ "inode" \in Points
    BY <1>2, NonePointer DEF Points, Failed
  <1>4. CASE t.pc = "namei"
    <2> DEFINE e == [t EXCEPT !.pc = "inode", !.ip = t.np, !.np = None]
    <2>1. th' = [th EXCEPT ![p] = e]
      BY <1>4
    <2>2. Become(e, "inode", t.op, None, t.np, t.dp, t.putting, t.cont) /\ Keeps(e, t)
      BY <1>1, <1>3, NonePointer, NpToIpRecord
    <2>3. th' \in [Procs -> Threads] /\ OthersStay(p) /\ th'[p] = e
      BY <1>1, <2>1, <2>2, Changed DEF Become
    <2>4. Become(th'[p], "inode", t.op, None, t.np, t.dp, t.putting, t.cont) /\ Keeps(th'[p], t)
      BY <2>2, <2>3
    <2>5. ThreadOk(p)'
      BY SMTT(60), <1>1, <1>2, <1>4, <2>4, OpsTable, NonePointer DEF ThreadOk, Where, NpUsed, IpUsed, DpUsed, IputPoints, Become, Keeps, Creating, Ops
    <2> QED
      BY <1>2, <1>4, <2>3, <2>4, <2>5
  <1>5. CASE t.pc = "nameiparent"
    <2> DEFINE e == [v EXCEPT !.np = None]
    <2>1. th' = [th EXCEPT ![p] = e]
      BY <1>5
    <2>2. Become(v, "iput", t.op, t.np, t.ip, t.dp, t.np, Failed(t)) /\ Keeps(v, t)
      BY <1>1, <1>3, PutRecord
    <2> HIDE DEF v
    <2>3. Become(e, v.pc, v.op, None, v.ip, v.dp, v.putting, v.cont) /\ Keeps(e, v)
      <3>1. v \in Threads
        BY <2>2 DEF Become
      <3> QED
        BY <3>1, NonePointer, NpRecord
    <2>4. th' \in [Procs -> Threads] /\ OthersStay(p) /\ th'[p] = e
      BY <1>1, <2>1, <2>3, Changed DEF Become
    <2>5. Become(th'[p], "iput", t.op, None, t.ip, t.dp, t.np, Failed(t)) /\ Keeps(th'[p], t)
      BY <2>2, <2>3, <2>4 DEF Become, Keeps
    <2>6. ThreadOk(p)'
      BY SMTT(60), <1>1, <1>2, <1>5, <2>5, OpsTable, NonePointer DEF ThreadOk, Where, NpUsed, IpUsed, DpUsed, IputPoints, Become, Keeps, Creating, Ops, Failed
    <2> QED
      BY <1>2, <1>5, <2>4, <2>5, <2>6
  <1> QED
    BY <1>2, <1>4, <1>5 DEF NpUsed

LEMMA CreatedMoves ==
  ASSUME NEW p \in Procs, TypeInv, ThreadInv, created(p)
  PROVE  LET keep == th[p].op = "create" /\ ofile[p] = None IN
         /\ th' \in [Procs -> Threads] /\ OthersStay(p) /\ ThreadOk(p)'
         /\ th[p].ip \in Inums /\ th[p].pc = "created"
         /\ keep => Become(th'[p], "user", "none", None, None, None, None, "user")
         /\ ~keep => Become(th'[p], "iput", th[p].op, th[p].np, None, th[p].dp, th[p].ip, "user")
  <1> DEFINE t == th[p]
             keep == t.op = "create" /\ ofile[p] = None
             v == Iput(t, t.ip, "user")
  <1> USE DEF created, At
  <1>1. th \in [Procs -> Threads] /\ t \in Threads /\ ThreadOk(p)
    BY ThreadAt
  <1>2. th[p].ip \in Inums /\ th[p].pc = "created"
    BY ThreadAt, NonePointer DEF ThreadOk, Where, OpsAt, NpUsed, IpUsed, DpUsed, IputPoints, Become, Keeps, Creating, Ops
  <1>3. t.ip \in Pointers /\ "user" \in Points
    BY <1>2, NonePointer DEF Points
  <1>4. CASE keep
    <2>1. th' = [th EXCEPT ![p] = Idle]
      BY <1>4
    <2>2. th' \in [Procs -> Threads] /\ OthersStay(p) /\ th'[p] = Idle
      BY <1>1, <2>1, IdleRecord, Changed DEF Become
    <2>3. Become(th'[p], "user", "none", None, None, None, None, "user")
      BY <2>2, IdleRecord
    <2>4. ThreadOk(p)'
      BY SMTT(60), <2>3, OpsTable, NonePointer DEF ThreadOk, Where, NpUsed, IpUsed, DpUsed, IputPoints, Become, Keeps, Creating, Ops
    <2> QED
      BY <1>2, <1>4, <2>2, <2>3, <2>4
  <1>5. CASE ~keep
    <2> DEFINE e == [v EXCEPT !.ip = None]
    <2>1. th' = [th EXCEPT ![p] = e]
      BY <1>5
    <2>2. Become(v, "iput", t.op, t.np, t.ip, t.dp, t.ip, "user") /\ Keeps(v, t)
      BY <1>1, <1>3, PutRecord
    <2> HIDE DEF v
    <2>3. Become(e, v.pc, v.op, v.np, None, v.dp, v.putting, v.cont) /\ Keeps(e, v)
      <3>1. v \in Threads
        BY <2>2 DEF Become
      <3> QED
        BY <3>1, NonePointer, IpRecord
    <2>4. th' \in [Procs -> Threads] /\ OthersStay(p) /\ th'[p] = e
      BY <1>1, <2>1, <2>3, Changed DEF Become
    <2>5. Become(th'[p], "iput", t.op, t.np, None, t.dp, t.ip, "user") /\ Keeps(th'[p], t)
      BY <2>2, <2>3, <2>4 DEF Become, Keeps
    <2>6. ThreadOk(p)'
      BY SMTT(60), <1>1, <1>2, <2>5, OpsTable, NonePointer DEF ThreadOk, Where, NpUsed, IpUsed, DpUsed, IputPoints, Become, Keeps, Creating, Ops
    <2> QED
      BY <1>2, <1>5, <2>4, <2>5, <2>6
  <1> QED
    BY <1>4, <1>5

LEMMA ChdirMoves ==
  ASSUME NEW p \in Procs, TypeInv, ThreadInv, sys_chdir(p)
  PROVE  /\ th' \in [Procs -> Threads] /\ OthersStay(p) /\ ThreadOk(p)'
         /\ th[p].ip \in Inums /\ th[p].pc = "inode" /\ th[p].op = "chdir"
         /\ IsDir(th[p].ip) => Become(th'[p], "iput", th[p].op, th[p].np, th[p].ip, th[p].dp, cwd[p], "chdir_end")
         /\ ~IsDir(th[p].ip) => Become(th'[p], "iput", th[p].op, th[p].np, None, th[p].dp, th[p].ip, "user")
  <1> DEFINE t == th[p]
             v == Iput(t, t.ip, "user")
             w == Iput(t, cwd[p], "chdir_end")
  <1> USE DEF sys_chdir, At
  <1>1. th \in [Procs -> Threads] /\ t \in Threads /\ ThreadOk(p) /\ cwd[p] \in Inums
    BY ThreadAt
  <1>2. th[p].ip \in Inums /\ th[p].pc = "inode" /\ th[p].op = "chdir"
    BY ThreadAt, NonePointer DEF ThreadOk, Where, OpsAt, NpUsed, IpUsed, DpUsed, IputPoints, Become, Keeps, Creating, Ops
  <1>3. t.ip \in Pointers /\ cwd[p] \in Pointers /\ "user" \in Points /\ "chdir_end" \in Points
    BY <1>1, <1>2, NonePointer DEF Points
  <1>4. CASE IsDir(t.ip)
    <2>1. th' = [th EXCEPT ![p] = w]
      BY <1>4
    <2>2. Become(w, "iput", t.op, t.np, t.ip, t.dp, cwd[p], "chdir_end")
      BY <1>1, <1>3, PutRecord
    <2> HIDE DEF w
    <2>3. th' \in [Procs -> Threads] /\ OthersStay(p) /\ th'[p] = w
      BY <1>1, <2>1, <2>2, Changed DEF Become
    <2>4. Become(th'[p], "iput", t.op, t.np, t.ip, t.dp, cwd[p], "chdir_end")
      BY <2>2, <2>3
    <2>5. ThreadOk(p)'
      BY SMTT(60), <1>1, <1>2, <2>4, OpsTable, NonePointer DEF ThreadOk, Where, NpUsed, IpUsed, DpUsed, IputPoints, Become, Keeps, Creating, Ops
    <2> QED
      BY <1>2, <1>4, <2>3, <2>4, <2>5
  <1>5. CASE ~IsDir(t.ip)
    <2> DEFINE e == [v EXCEPT !.ip = None]
    <2>1. th' = [th EXCEPT ![p] = e]
      BY <1>5
    <2>2. Become(v, "iput", t.op, t.np, t.ip, t.dp, t.ip, "user") /\ Keeps(v, t)
      BY <1>1, <1>3, PutRecord
    <2> HIDE DEF v
    <2>3. Become(e, v.pc, v.op, v.np, None, v.dp, v.putting, v.cont) /\ Keeps(e, v)
      <3>1. v \in Threads
        BY <2>2 DEF Become
      <3> QED
        BY <3>1, NonePointer, IpRecord
    <2>4. th' \in [Procs -> Threads] /\ OthersStay(p) /\ th'[p] = e
      BY <1>1, <2>1, <2>3, Changed DEF Become
    <2>5. Become(th'[p], "iput", t.op, t.np, None, t.dp, t.ip, "user") /\ Keeps(th'[p], t)
      BY <2>2, <2>3, <2>4 DEF Become, Keeps
    <2>6. ThreadOk(p)'
      BY SMTT(60), <1>1, <1>2, <2>5, OpsTable, NonePointer DEF ThreadOk, Where, NpUsed, IpUsed, DpUsed, IputPoints, Become, Keeps, Creating, Ops
    <2> QED
      BY <1>2, <1>5, <2>4, <2>5, <2>6
  <1> QED
    BY <1>4, <1>5
-----------------------------------------------------------------------------
(* Each action preserves RefInv: reference counts, locks, local variables. *)

LEMMA ContentType == ASSUME TypeInv, NEW i \in Inums PROVE Content(i) \in Records
  BY DEF TypeInv, Content

LEMMA ReadType ==
  ASSUME TypeInv, NEW i \in Inums, Read(i)
  PROVE  inode' \in [Inums -> Records] /\ valid' \in [Inums -> BOOLEAN]
  BY ContentType DEF TypeInv, Read

LEMMA LinkedType == ASSUME TypeInv, NEW i \in Inums, NEW k \in Int PROVE Linked(i, k) \in Records
  BY ContentType DEF Linked, Records

LEMMA FreeType == FreeInode \in Records
  BY DEF FreeInode, Records

LEMMA UpdateType ==
  ASSUME TypeInv, NEW i \in Inums, NEW c \in Records, Update(i, c)
  PROVE  inode' \in [Inums -> Records] /\ dinode' \in [Inums -> Records]
  BY DEF TypeInv, Update

LEMMA RefSame == ASSUME TypeInv, UNCHANGED ref PROVE ref' \in [Inums -> Int]
  BY DEF TypeInv

LEMMA IgetType == ASSUME TypeInv, NEW i \in Inums, iget(i) PROVE ref' \in [Inums -> Int]
  BY DEF TypeInv, iget

LEMMA RefAt == ASSUME TypeInv PROVE \A j \in Inums : ref[j] \in Int
  BY DEF TypeInv

LEMMA IgetAt ==
  ASSUME TypeInv, NEW i \in Inums, iget(i)
  PROVE  \A j \in Inums : ref'[j] = ref[j] + One(j = i)
  BY DEF TypeInv, iget, One

(* A step that moves no lock.                                              *)
LEMMA LockSame ==
  ASSUME NEW p \in Procs, TypeInv, LockInv, OthersStay(p), UNCHANGED lock, LocksHeld(p)' = LocksHeld(p),
         th'[p].pc \notin {"itrunc", "invalidate"}
  PROVE  LockInv'
  <1>1. \A i \in Inums : lock[i] = p <=> i \in LocksHeld(p)
    BY DEF LockInv
  <1> QED
    BY <1>1, LockStep DEF TypeInv

(* What p does not put at itrunc or invalidate is not locked twice.        *)
Apart(p) ==
  th[p].pc \in {"itrunc", "invalidate"} =>
    /\ ~(Where(p) \in DpLocked /\ th[p].putting = th[p].dp)
    /\ ~(Where(p) \in IpLocked /\ th[p].putting = th[p].ip)

LEMMA HeldLocks ==
  ASSUME NEW p \in Procs, LockInv
  PROVE  (\A i \in Inums : lock[i] = p <=> i \in LocksHeld(p)) /\ Apart(p)
  BY DEF LockInv, Apart

(* p locks i.                                                              *)
LEMMA LockTake ==
  ASSUME NEW p \in Procs, TypeInv, LockInv, OthersStay(p), NEW i \in Inums, lock[i] = Nobody,
         lock' = [lock EXCEPT ![i] = p], LocksHeld(p)' = LocksHeld(p) \cup {i}, Apart(p)'
  PROVE  LockInv' /\ lock' \in [Inums -> Procs \cup {Nobody}]
  <1>1. \A j \in Inums : lock[j] = p <=> j \in LocksHeld(p)
    BY HeldLocks
  <1>2. lock \in [Inums -> Procs \cup {Nobody}] /\ lock' \in [Inums -> Procs \cup {Nobody}]
    BY DEF TypeInv
  <1>3. \A j \in Inums :
          IF j \in LocksHeld(p)' THEN lock'[j] = p /\ lock[j] \in {p, Nobody}
          ELSE lock'[j] = IF lock[j] = p THEN Nobody ELSE lock[j]
    BY <1>1, <1>2
  <1> QED
    BY <1>2, <1>3, LockStep DEF Apart

(* p unlocks i.                                                            *)
LEMMA LockDrop ==
  ASSUME NEW p \in Procs, TypeInv, LockInv, OthersStay(p), NEW i \in Inums, i \in LocksHeld(p),
         lock' = [lock EXCEPT ![i] = Nobody], LocksHeld(p)' = LocksHeld(p) \ {i}, Apart(p)'
  PROVE  LockInv' /\ lock' \in [Inums -> Procs \cup {Nobody}]
  <1>1. \A j \in Inums : lock[j] = p <=> j \in LocksHeld(p)
    BY HeldLocks
  <1>2. lock \in [Inums -> Procs \cup {Nobody}] /\ lock' \in [Inums -> Procs \cup {Nobody}]
    BY DEF TypeInv
  <1>3. \A j \in Inums :
          IF j \in LocksHeld(p)' THEN lock'[j] = p /\ lock[j] \in {p, Nobody}
          ELSE lock'[j] = IF lock[j] = p THEN Nobody ELSE lock[j]
    BY <1>1, <1>2
  <1> QED
    BY <1>2, <1>3, LockStep DEF Apart

(* p locks i and unlocks j, which it held.                                 *)
LEMMA LockPass ==
  ASSUME NEW p \in Procs, TypeInv, LockInv, OthersStay(p), NEW i \in Inums, lock[i] = Nobody,
         NEW j \in Inums, LocksHeld(p) = {j},
         lock' = [lock EXCEPT ![i] = p, ![j] = Nobody], LocksHeld(p)' = {i}, Apart(p)'
  PROVE  i # j /\ LockInv' /\ lock' \in [Inums -> Procs \cup {Nobody}]
  <1>1. \A k \in Inums : lock[k] = p <=> k \in LocksHeld(p)
    BY HeldLocks
  <1>2. lock \in [Inums -> Procs \cup {Nobody}] /\ lock' \in [Inums -> Procs \cup {Nobody}]
    BY DEF TypeInv
  <1>3. i # j
    BY <1>1, Constants
  <1>4. \A k \in Inums :
          IF k \in LocksHeld(p)' THEN lock'[k] = p /\ lock[k] \in {p, Nobody}
          ELSE lock'[k] = IF lock[k] = p THEN Nobody ELSE lock[k]
    BY <1>1, <1>2, <1>3
  <1> QED
    BY <1>2, <1>3, <1>4, LockStep DEF Apart

LEMMA SysCallRef == ASSUME NEW p \in Procs, NEW c \in Calls[p], RefInv, syscall(p, c) PROVE RefInv'
  <1> DEFINE t == th[p]
             u == th'[p]
  <1>1. TypeInv /\ ThreadInv /\ RefExact /\ LockInv
    BY DEF RefInv
  <1>2. th' \in [Procs -> Threads] /\ OthersStay(p) /\ ThreadOk(p)'
    BY <1>1, SysCallMoves
  <1>3. t.np = None /\ t.ip = None /\ t.dp = None /\ t.putting = None /\ t.cont = "user" /\ t.pc = "user"
    BY <1>1, SysCallMoves, ThreadAt, NonePointer DEF ThreadOk, Where, NpUsed, IpUsed, DpUsed, IputPoints, OpsAt, Creating
  <1>4. ref' \in [Inums -> Int]
    BY <1>1, <1>3, SysCallMoves, IgetType DEF syscall
  <1>5. \A i \in Inums : ref'[i] - ref[i] = Own(p, i)' - Own(p, i)
    <2>1. u.np = Start(p, c.path) /\ u.ip = None /\ u.dp = None /\ u.putting = None
      BY <1>1, SysCallMoves DEF Become
    <2>2. (Leaving(p) <=> FALSE) /\ (Leaving(p)' <=> FALSE)
      BY <1>1, <1>3, SysCallMoves DEF Leaving, Become, NpUsed, Failed
    <2>3. cwd'[p] = cwd[p] /\ ofile'[p] = ofile[p]
      BY <1>1 DEF syscall, TypeInv
    <2>4. \A i \in Inums : ref'[i] = ref[i] + One(i = Start(p, c.path)) /\ ref[i] \in Int
      <3>1. iget(Start(p, c.path)) /\ Start(p, c.path) \in Inums
        BY <1>1, SysCallMoves DEF syscall
      <3> QED
        BY <1>1, <3>1, IgetAt, RefAt
    <2> HIDE DEF t, u, syscall
    <2> QED
      BY <1>3, <2>1, <2>2, <2>3, <2>4, NonePointer DEF Own, One, t, u
  <1>6. \A q \in Procs \ {p} : Still(q)
    BY <1>1, <1>2 DEF Still, OthersStay, syscall, TypeInv
  <1>7. RefExact' /\ ref' \in [Inums -> Nat]
    BY <1>1, <1>4, <1>5, <1>6, RefStep
  <1>8. TypeInv'
    BY <1>1, <1>2, <1>3, <1>7, SysCallMoves DEF TypeInv, syscall
  <1>9. LockInv'
    <2>1. LocksHeld(p)' = LocksHeld(p)
      BY SMTT(60), <1>1, <1>3, SysCallMoves, ThreadAt, NonePointer DEF LocksHeld, Where, DpLocked, IpLocked, IputPoints, Become, Failed, NpUsed
    <2>2. th'[p].pc \notin {"itrunc", "invalidate"}
      BY <1>1, <1>3, SysCallMoves DEF Become, NpUsed, IputPoints
    <2>3. UNCHANGED lock
      BY DEF syscall
    <2> QED
      BY <1>1, <1>2, <2>1, <2>2, <2>3, LockSame
  <1> QED
    BY <1>2, <1>7, <1>8, <1>9, <1>1, ThreadStep DEF RefInv

LEMMA CloseRef == ASSUME NEW p \in Procs, RefInv, sys_close(p) PROVE RefInv'
  <1> DEFINE t == th[p]
             u == th'[p]
  <1>1. TypeInv /\ ThreadInv /\ RefExact /\ LockInv
    BY DEF RefInv
  <1>2. th' \in [Procs -> Threads] /\ OthersStay(p) /\ ThreadOk(p)'
    BY <1>1, CloseMoves
  <1>3. t.pc = "user" /\ t.putting = None /\ t.cont = "user" /\ ofile[p] \in Inums
    BY <1>1, CloseMoves, ThreadAt, NonePointer DEF ThreadOk, Where, NpUsed, IpUsed, DpUsed, IputPoints, OpsAt, Creating
  <1>4. ref' \in [Inums -> Int]
    BY <1>1, RefSame DEF sys_close
  <1>5. \A i \in Inums : ref'[i] - ref[i] = Own(p, i)' - Own(p, i)
    <2>1. u.np = t.np /\ u.ip = t.ip /\ u.dp = t.dp /\ u.putting = ofile[p]
      BY <1>1, CloseMoves DEF Become
    <2>2. (Leaving(p) <=> FALSE) /\ (Leaving(p)' <=> FALSE)
      BY <1>1, <1>3, CloseMoves DEF Leaving, Become, NpUsed, Failed
    <2>3. cwd'[p] = cwd[p] /\ ofile'[p] = None
      BY <1>1 DEF sys_close, TypeInv
    <2>4. \A i \in Inums : ref'[i] = ref[i] /\ ref[i] \in Int
      <3>1. ref' = ref
        BY DEF sys_close
      <3> QED
        BY <1>1, <3>1, RefAt
    <2> HIDE DEF t, u, sys_close
    <2> QED
      BY <1>3, <2>1, <2>2, <2>3, <2>4, NonePointer DEF Own, One, t, u
  <1>6. \A q \in Procs \ {p} : Still(q)
    BY <1>1, <1>2 DEF Still, OthersStay, sys_close, TypeInv
  <1>7. RefExact' /\ ref' \in [Inums -> Nat]
    BY <1>1, <1>4, <1>5, <1>6, RefStep
  <1>8. TypeInv'
    BY <1>1, <1>2, <1>3, <1>7, CloseMoves DEF TypeInv, sys_close, Pointers
  <1>9. LockInv'
    <2>1. LocksHeld(p)' = LocksHeld(p)
      BY SMTT(60), <1>1, <1>3, CloseMoves, ThreadAt, NonePointer DEF LocksHeld, Where, DpLocked, IpLocked, IputPoints, Become, Failed, NpUsed
    <2>2. th'[p].pc \notin {"itrunc", "invalidate"}
      BY <1>1, <1>3, CloseMoves DEF Become, NpUsed, IputPoints
    <2>3. UNCHANGED lock
      BY DEF sys_close
    <2> QED
      BY <1>1, <1>2, <2>1, <2>2, <2>3, LockSame
  <1> QED
    BY <1>2, <1>7, <1>8, <1>9, <1>1, ThreadStep DEF RefInv

LEMMA NamexNextRef == ASSUME NEW p \in Procs, RefInv, namex_next(p) PROVE RefInv'
  <1> DEFINE t == th[p]
             u == th'[p]
  <1>1. TypeInv /\ ThreadInv /\ RefExact /\ LockInv
    BY DEF RefInv
  <1>2. th' \in [Procs -> Threads] /\ OthersStay(p) /\ ThreadOk(p)'
    BY <1>1, NamexNextMoves
  <1>3. t.pc \in NpUsed /\ t.putting = None /\ t.cont = "user" /\ t.np \in Inums
    BY <1>1, NamexNextMoves, ThreadAt, NonePointer DEF ThreadOk, Where, NpUsed, IpUsed, DpUsed, IputPoints, OpsAt, Creating
  <1>4. ref' \in [Inums -> Int]
    BY <1>1, <1>3, NamexNextMoves, IgetType DEF namex_next
  <1>5. \A i \in Inums : ref'[i] - ref[i] = Own(p, i)' - Own(p, i)
    <2>1. u.np = dirlookup(t.np, Head(t.rest)) /\ u.ip = t.ip /\ u.dp = t.dp /\ u.putting = t.np
      BY <1>1, NamexNextMoves DEF Become
    <2>2. (Leaving(p) <=> FALSE) /\ (Leaving(p)' <=> FALSE)
      BY <1>1, <1>3, NamexNextMoves DEF Leaving, Become, NpUsed, Failed
    <2>3. cwd'[p] = cwd[p] /\ ofile'[p] = ofile[p]
      BY <1>1 DEF namex_next, TypeInv
    <2>4. \A i \in Inums : ref'[i] = ref[i] + One(i = dirlookup(t.np, Head(t.rest))) /\ ref[i] \in Int
      <3>1. iget(dirlookup(t.np, Head(t.rest))) /\ dirlookup(t.np, Head(t.rest)) \in Inums
        BY <1>1, NamexNextMoves DEF namex_next
      <3> QED
        BY <1>1, <3>1, IgetAt, RefAt
    <2> HIDE DEF t, u, namex_next
    <2> QED
      BY <1>3, <2>1, <2>2, <2>3, <2>4, NonePointer DEF Own, One, t, u
  <1>6. \A q \in Procs \ {p} : Still(q)
    BY <1>1, <1>2 DEF Still, OthersStay, namex_next, TypeInv
  <1>7. RefExact' /\ ref' \in [Inums -> Nat]
    BY <1>1, <1>4, <1>5, <1>6, RefStep
  <1>8. TypeInv'
    <2>1. inode' \in [Inums -> Records] /\ valid' \in [Inums -> BOOLEAN]
      BY <1>1, <1>3, NamexNextMoves, ReadType DEF namex_next
    <2> QED
      BY <1>1, <1>2, <1>3, <1>7, <2>1, NamexNextMoves DEF TypeInv, namex_next
  <1>9. LockInv'
    <2>1. LocksHeld(p)' = LocksHeld(p)
      BY SMTT(60), <1>1, <1>3, NamexNextMoves, ThreadAt, NonePointer DEF LocksHeld, Where, DpLocked, IpLocked, IputPoints, Become, Failed, NpUsed
    <2>2. th'[p].pc \notin {"itrunc", "invalidate"}
      BY <1>1, <1>3, NamexNextMoves DEF Become, NpUsed, IputPoints
    <2>3. UNCHANGED lock
      BY DEF namex_next
    <2> QED
      BY <1>1, <1>2, <2>1, <2>2, <2>3, LockSame
  <1> QED
    BY <1>2, <1>7, <1>8, <1>9, <1>1, ThreadStep DEF RefInv

LEMMA NamexFailsRef == ASSUME NEW p \in Procs, RefInv, namex_fails(p) PROVE RefInv'
  <1> DEFINE t == th[p]
             u == th'[p]
  <1>1. TypeInv /\ ThreadInv /\ RefExact /\ LockInv
    BY DEF RefInv
  <1>2. th' \in [Procs -> Threads] /\ OthersStay(p) /\ ThreadOk(p)'
    BY <1>1, NamexFailsMoves
  <1>3. t.pc \in NpUsed /\ t.putting = None /\ t.cont = "user" /\ t.np \in Inums
    BY <1>1, NamexFailsMoves, ThreadAt, NonePointer DEF ThreadOk, Where, NpUsed, IpUsed, DpUsed, IputPoints, OpsAt, Creating
  <1>4. ref' \in [Inums -> Int]
    BY <1>1, RefSame DEF namex_fails
  <1>5. \A i \in Inums : ref'[i] - ref[i] = Own(p, i)' - Own(p, i)
    <2>1. u.np = None /\ u.ip = t.ip /\ u.dp = t.dp /\ u.putting = t.np
      BY <1>1, NamexFailsMoves DEF Become
    <2>2. (Leaving(p) <=> FALSE) /\ (Leaving(p)' <=> FALSE)
      BY <1>1, <1>3, NamexFailsMoves DEF Leaving, Become, NpUsed, Failed
    <2>3. cwd'[p] = cwd[p] /\ ofile'[p] = ofile[p]
      BY <1>1 DEF namex_fails, TypeInv
    <2>4. \A i \in Inums : ref'[i] = ref[i] /\ ref[i] \in Int
      <3>1. ref' = ref
        BY DEF namex_fails
      <3> QED
        BY <1>1, <3>1, RefAt
    <2> HIDE DEF t, u, namex_fails
    <2> QED
      BY <1>3, <2>1, <2>2, <2>3, <2>4, NonePointer DEF Own, One, t, u
  <1>6. \A q \in Procs \ {p} : Still(q)
    BY <1>1, <1>2 DEF Still, OthersStay, namex_fails, TypeInv
  <1>7. RefExact' /\ ref' \in [Inums -> Nat]
    BY <1>1, <1>4, <1>5, <1>6, RefStep
  <1>8. TypeInv'
    <2>1. inode' \in [Inums -> Records] /\ valid' \in [Inums -> BOOLEAN]
      BY <1>1, <1>3, NamexFailsMoves, ReadType DEF namex_fails
    <2> QED
      BY <1>1, <1>2, <1>3, <1>7, <2>1, NamexFailsMoves DEF TypeInv, namex_fails
  <1>9. LockInv'
    <2>1. LocksHeld(p)' = LocksHeld(p)
      BY SMTT(60), <1>1, <1>3, NamexFailsMoves, ThreadAt, NonePointer DEF LocksHeld, Where, DpLocked, IpLocked, IputPoints, Become, Failed, NpUsed
    <2>2. th'[p].pc \notin {"itrunc", "invalidate"}
      BY <1>1, <1>3, NamexFailsMoves DEF Become, NpUsed, IputPoints
    <2>3. UNCHANGED lock
      BY DEF namex_fails
    <2> QED
      BY <1>1, <1>2, <2>1, <2>2, <2>3, LockSame
  <1> QED
    BY <1>2, <1>7, <1>8, <1>9, <1>1, ThreadStep DEF RefInv

LEMMA NamexParentRef == ASSUME NEW p \in Procs, RefInv, namex_parent(p) PROVE RefInv'
  <1> DEFINE t == th[p]
             u == th'[p]
  <1>1. TypeInv /\ ThreadInv /\ RefExact /\ LockInv
    BY DEF RefInv
  <1>2. th' \in [Procs -> Threads] /\ OthersStay(p) /\ ThreadOk(p)'
    BY <1>1, NamexParentMoves
  <1>3. t.pc = "nameiparent" /\ t.dp = None /\ t.putting = None /\ t.cont = "user" /\ t.np \in Inums
    BY <1>1, NamexParentMoves, ThreadAt, NonePointer DEF ThreadOk, Where, NpUsed, IpUsed, DpUsed, IputPoints, OpsAt, Creating
  <1>4. ref' \in [Inums -> Int]
    BY <1>1, RefSame DEF namex_parent
  <1>5. \A i \in Inums : ref'[i] - ref[i] = Own(p, i)' - Own(p, i)
    <2>1. u.np = None /\ u.ip = t.ip /\ u.dp = t.np /\ u.putting = t.putting
      BY <1>1, NamexParentMoves DEF Become
    <2>2. (Leaving(p) <=> FALSE) /\ (Leaving(p)' <=> FALSE)
      BY <1>1, <1>3, NamexParentMoves DEF Leaving, Become, NpUsed, Failed
    <2>3. cwd'[p] = cwd[p] /\ ofile'[p] = ofile[p]
      BY <1>1 DEF namex_parent, TypeInv
    <2>4. \A i \in Inums : ref'[i] = ref[i] /\ ref[i] \in Int
      <3>1. ref' = ref
        BY DEF namex_parent
      <3> QED
        BY <1>1, <3>1, RefAt
    <2> HIDE DEF t, u, namex_parent
    <2> QED
      BY <1>3, <2>1, <2>2, <2>3, <2>4, NonePointer DEF Own, One, t, u
  <1>6. \A q \in Procs \ {p} : Still(q)
    BY <1>1, <1>2 DEF Still, OthersStay, namex_parent, TypeInv
  <1>7. RefExact' /\ ref' \in [Inums -> Nat]
    BY <1>1, <1>4, <1>5, <1>6, RefStep
  <1>8. TypeInv'
    <2>1. inode' \in [Inums -> Records] /\ valid' \in [Inums -> BOOLEAN]
      BY <1>1, <1>3, NamexParentMoves, ReadType DEF namex_parent
    <2> QED
      BY <1>1, <1>2, <1>3, <1>7, <2>1, NamexParentMoves DEF TypeInv, namex_parent
  <1>9. LockInv'
    <2>1. LocksHeld(p)' = LocksHeld(p)
      BY SMTT(60), <1>1, <1>3, NamexParentMoves, ThreadAt, NonePointer DEF LocksHeld, Where, DpLocked, IpLocked, IputPoints, Become, Failed, NpUsed
    <2>2. th'[p].pc \notin {"itrunc", "invalidate"}
      BY <1>1, <1>3, NamexParentMoves DEF Become, NpUsed, IputPoints
    <2>3. UNCHANGED lock
      BY DEF namex_parent
    <2> QED
      BY <1>1, <1>2, <2>1, <2>2, <2>3, LockSame
  <1> QED
    BY <1>2, <1>7, <1>8, <1>9, <1>1, ThreadStep DEF RefInv

LEMMA NamexEndRef == ASSUME NEW p \in Procs, RefInv, namex_end(p) PROVE RefInv'
  <1> DEFINE t == th[p]
             u == th'[p]
  <1>1. TypeInv /\ ThreadInv /\ RefExact /\ LockInv
    BY DEF RefInv
  <1>2. th' \in [Procs -> Threads] /\ OthersStay(p) /\ ThreadOk(p)'
    BY <1>1, NamexEndMoves
  <1>3. /\ t.pc \in NpUsed /\ t.dp = None /\ t.putting = None /\ t.cont = "user" /\ t.np \in Inums
        /\ t.pc = "namei" => t.ip = None
    BY <1>1, NamexEndMoves, ThreadAt, NonePointer DEF ThreadOk, Where, NpUsed, IpUsed, DpUsed, IputPoints, OpsAt, Creating, Phases, Ops
  <1>4. ref' \in [Inums -> Int]
    BY <1>1, RefSame DEF namex_end
  <1>5. \A i \in Inums : ref'[i] - ref[i] = Own(p, i)' - Own(p, i)
    <2>0. /\ cwd'[p] = cwd[p] /\ ofile'[p] = ofile[p]
          /\ \A i \in Inums : ref'[i] = ref[i] /\ ref[i] \in Int
      BY <1>1 DEF namex_end, TypeInv
    <2>1. CASE t.pc = "namei"
      <3>1. u.np = None /\ u.ip = t.np /\ u.dp = t.dp /\ u.putting = t.putting
        BY <1>1, <2>1, NamexEndMoves DEF Become
      <3>2. ~Leaving(p) /\ ~Leaving(p)'
        BY <1>1, <1>3, <2>1, NamexEndMoves DEF Leaving, Become, NpUsed, Failed
      <3>3. t.ip = None
        BY <1>3, <2>1
      <3> HIDE DEF t, u, namex_end
      <3> QED
        BY <1>3, <2>0, <3>1, <3>2, <3>3, NonePointer DEF Own, One, t, u
    <2>2. CASE t.pc = "nameiparent"
      <3>1. u.np = None /\ u.ip = t.ip /\ u.dp = t.dp /\ u.putting = t.np
        BY <1>1, <2>2, NamexEndMoves DEF Become
      <3>2. ~Leaving(p) /\ ~Leaving(p)'
        BY <1>1, <1>3, <2>2, NamexEndMoves DEF Leaving, Become, NpUsed, Failed
      <3> HIDE DEF t, u, namex_end
      <3> QED
        BY <1>3, <2>0, <3>1, <3>2, NonePointer DEF Own, One, t, u
    <2> QED
      BY <1>3, <2>1, <2>2 DEF NpUsed
  <1>6. \A q \in Procs \ {p} : Still(q)
    BY <1>1, <1>2 DEF Still, OthersStay, namex_end, TypeInv
  <1>7. RefExact' /\ ref' \in [Inums -> Nat]
    BY <1>1, <1>4, <1>5, <1>6, RefStep
  <1>8. TypeInv'
    BY <1>1, <1>2, <1>3, <1>7, NamexEndMoves DEF TypeInv, namex_end
  <1>9. LockInv'
    <2>1. LocksHeld(p)' = LocksHeld(p)
      BY SMTT(60), <1>1, <1>3, NamexEndMoves, ThreadAt, NonePointer DEF LocksHeld, Where, DpLocked, IpLocked, IputPoints, Become, Failed, NpUsed
    <2>2. th'[p].pc \notin {"itrunc", "invalidate"}
      BY <1>1, <1>3, NamexEndMoves DEF Become, NpUsed, IputPoints
    <2>3. UNCHANGED lock
      BY DEF namex_end
    <2> QED
      BY <1>1, <1>2, <2>1, <2>2, <2>3, LockSame
  <1> QED
    BY <1>2, <1>7, <1>8, <1>9, <1>1, ThreadStep DEF RefInv

LEMMA SysOpenRef == ASSUME NEW p \in Procs, RefInv, sys_open(p) PROVE RefInv'
  <1> DEFINE t == th[p]
             u == th'[p]
  <1>1. TypeInv /\ ThreadInv /\ RefExact /\ LockInv
    BY DEF RefInv
  <1>2. th' \in [Procs -> Threads] /\ OthersStay(p) /\ ThreadOk(p)'
    BY <1>1, SysOpenMoves
  <1>3. /\ t.pc \in {"inode", "existing"} /\ t.dp = None /\ t.putting = None /\ t.cont = "user"
        /\ t.np = None /\ t.ip \in Inums /\ ofile[p] = None
    BY <1>1, SysOpenMoves, ThreadAt, NonePointer DEF ThreadOk, Where, NpUsed, IpUsed, DpUsed, IputPoints, OpsAt, Creating
  <1>4. ref' \in [Inums -> Int]
    BY <1>1, RefSame DEF sys_open
  <1>5. \A i \in Inums : ref'[i] - ref[i] = Own(p, i)' - Own(p, i)
    <2>1. u.np = None /\ u.ip = None /\ u.dp = None /\ u.putting = None
      BY <1>1, SysOpenMoves DEF Become
    <2>2. (Leaving(p) <=> FALSE) /\ (Leaving(p)' <=> FALSE)
      BY <1>1, <1>3, SysOpenMoves DEF Leaving, Become, NpUsed, Failed
    <2>3. cwd'[p] = cwd[p] /\ ofile'[p] = t.ip
      BY <1>1 DEF sys_open, TypeInv
    <2>4. \A i \in Inums : ref'[i] = ref[i] /\ ref[i] \in Int
      <3>1. ref' = ref
        BY DEF sys_open
      <3> QED
        BY <1>1, <3>1, RefAt
    <2> HIDE DEF t, u, sys_open
    <2> QED
      BY <1>3, <2>1, <2>2, <2>3, <2>4, NonePointer DEF Own, One, t, u
  <1>6. \A q \in Procs \ {p} : Still(q)
    BY <1>1, <1>2 DEF Still, OthersStay, sys_open, TypeInv
  <1>7. RefExact' /\ ref' \in [Inums -> Nat]
    BY <1>1, <1>4, <1>5, <1>6, RefStep
  <1>8. TypeInv'
    <2>1. inode' \in [Inums -> Records] /\ valid' \in [Inums -> BOOLEAN]
      BY <1>1, <1>3, SysOpenMoves, ReadType DEF sys_open
    <2> QED
      BY <1>1, <1>2, <1>3, <1>7, <2>1, SysOpenMoves DEF TypeInv, sys_open, Pointers
  <1>9. LockInv'
    <2>1. LocksHeld(p)' = LocksHeld(p)
      BY SMTT(60), <1>1, <1>3, SysOpenMoves, ThreadAt, NonePointer DEF LocksHeld, Where, DpLocked, IpLocked, IputPoints, Become, Failed, NpUsed
    <2>2. th'[p].pc \notin {"itrunc", "invalidate"}
      BY <1>1, <1>3, SysOpenMoves DEF Become, NpUsed, IputPoints
    <2>3. UNCHANGED lock
      BY DEF sys_open
    <2> QED
      BY <1>1, <1>2, <2>1, <2>2, <2>3, LockSame
  <1> QED
    BY <1>2, <1>7, <1>8, <1>9, <1>1, ThreadStep DEF RefInv

LEMMA OpenFailsRef == ASSUME NEW p \in Procs, RefInv, open_fails(p) PROVE RefInv'
  <1> DEFINE t == th[p]
             u == th'[p]
  <1>1. TypeInv /\ ThreadInv /\ RefExact /\ LockInv
    BY DEF RefInv
  <1>2. th' \in [Procs -> Threads] /\ OthersStay(p) /\ ThreadOk(p)'
    BY <1>1, OpenFailsMoves
  <1>3. t.pc \in {"inode", "existing"} /\ t.putting = None /\ t.cont = "user" /\ t.ip \in Inums
    BY <1>1, OpenFailsMoves, ThreadAt, NonePointer DEF ThreadOk, Where, NpUsed, IpUsed, DpUsed, IputPoints, OpsAt, Creating
  <1>4. ref' \in [Inums -> Int]
    BY <1>1, RefSame DEF open_fails
  <1>5. \A i \in Inums : ref'[i] - ref[i] = Own(p, i)' - Own(p, i)
    <2>1. u.np = t.np /\ u.ip = None /\ u.dp = t.dp /\ u.putting = t.ip
      BY <1>1, OpenFailsMoves DEF Become
    <2>2. (Leaving(p) <=> FALSE) /\ (Leaving(p)' <=> FALSE)
      BY <1>1, <1>3, OpenFailsMoves DEF Leaving, Become, NpUsed, Failed
    <2>3. cwd'[p] = cwd[p] /\ ofile'[p] = ofile[p]
      BY <1>1 DEF open_fails, TypeInv
    <2>4. \A i \in Inums : ref'[i] = ref[i] /\ ref[i] \in Int
      <3>1. ref' = ref
        BY DEF open_fails
      <3> QED
        BY <1>1, <3>1, RefAt
    <2> HIDE DEF t, u, open_fails
    <2> QED
      BY <1>3, <2>1, <2>2, <2>3, <2>4, NonePointer DEF Own, One, t, u
  <1>6. \A q \in Procs \ {p} : Still(q)
    BY <1>1, <1>2 DEF Still, OthersStay, open_fails, TypeInv
  <1>7. RefExact' /\ ref' \in [Inums -> Nat]
    BY <1>1, <1>4, <1>5, <1>6, RefStep
  <1>8. TypeInv'
    <2>1. inode' \in [Inums -> Records] /\ valid' \in [Inums -> BOOLEAN]
      BY <1>1, <1>3, OpenFailsMoves, ReadType DEF open_fails
    <2> QED
      BY <1>1, <1>2, <1>3, <1>7, <2>1, OpenFailsMoves DEF TypeInv, open_fails
  <1>9. LockInv'
    <2>1. LocksHeld(p)' = LocksHeld(p)
      BY SMTT(60), <1>1, <1>3, OpenFailsMoves, ThreadAt, NonePointer DEF LocksHeld, Where, DpLocked, IpLocked, IputPoints, Become, Failed, NpUsed
    <2>2. th'[p].pc \notin {"itrunc", "invalidate"}
      BY <1>1, <1>3, OpenFailsMoves DEF Become, NpUsed, IputPoints
    <2>3. UNCHANGED lock
      BY DEF open_fails
    <2> QED
      BY <1>1, <1>2, <2>1, <2>2, <2>3, LockSame
  <1> QED
    BY <1>2, <1>7, <1>8, <1>9, <1>1, ThreadStep DEF RefInv

LEMMA CreateExistsRef == ASSUME NEW p \in Procs, RefInv, create_exists(p) PROVE RefInv'
  <1> DEFINE t == th[p]
             u == th'[p]
  <1>1. TypeInv /\ ThreadInv /\ RefExact /\ LockInv
    BY DEF RefInv
  <1>2. th' \in [Procs -> Threads] /\ OthersStay(p) /\ ThreadOk(p)'
    BY <1>1, CreateExistsMoves
  <1>3. t.pc = "parent" /\ t.op \in Creating /\ t.putting = None /\ t.cont = "user" /\ t.dp \in Inums /\ t.ip = None
    BY <1>1, CreateExistsMoves, ThreadAt, NonePointer DEF ThreadOk, Where, NpUsed, IpUsed, DpUsed, IputPoints, OpsAt, Creating
  <1>4. ref' \in [Inums -> Int]
    BY <1>1, <1>3, CreateExistsMoves, IgetType DEF create_exists
  <1>5. \A i \in Inums : ref'[i] - ref[i] = Own(p, i)' - Own(p, i)
    <2>1. u.np = t.np /\ u.ip = dirlookup(t.dp, Name(p)) /\ u.dp = None /\ u.putting = t.dp
      BY <1>1, CreateExistsMoves DEF Become
    <2>2. (Leaving(p) <=> FALSE) /\ (Leaving(p)' <=> FALSE)
      BY <1>1, <1>3, CreateExistsMoves DEF Leaving, Become, NpUsed, Failed
    <2>3. cwd'[p] = cwd[p] /\ ofile'[p] = ofile[p]
      BY <1>1 DEF create_exists, TypeInv
    <2>4. \A i \in Inums : ref'[i] = ref[i] + One(i = dirlookup(t.dp, Name(p))) /\ ref[i] \in Int
      <3>1. iget(dirlookup(t.dp, Name(p))) /\ dirlookup(t.dp, Name(p)) \in Inums
        BY <1>1, CreateExistsMoves DEF create_exists
      <3> QED
        BY <1>1, <3>1, IgetAt, RefAt
    <2> HIDE DEF t, u, create_exists
    <2> QED
      BY <1>3, <2>1, <2>2, <2>3, <2>4, NonePointer DEF Own, One, t, u
  <1>6. \A q \in Procs \ {p} : Still(q)
    BY <1>1, <1>2 DEF Still, OthersStay, create_exists, TypeInv
  <1>7. RefExact' /\ ref' \in [Inums -> Nat]
    BY <1>1, <1>4, <1>5, <1>6, RefStep
  <1>8. TypeInv'
    <2>1. inode' \in [Inums -> Records] /\ valid' \in [Inums -> BOOLEAN]
      BY <1>1, <1>3, CreateExistsMoves, ReadType DEF create_exists
    <2> QED
      BY <1>1, <1>2, <1>3, <1>7, <2>1, CreateExistsMoves DEF TypeInv, create_exists
  <1>9. LockInv'
    <2>1. LocksHeld(p)' = LocksHeld(p)
      BY SMTT(60), <1>1, <1>3, CreateExistsMoves, ThreadAt, NonePointer DEF LocksHeld, Where, DpLocked, IpLocked, IputPoints, Become, Failed, NpUsed
    <2>2. th'[p].pc \notin {"itrunc", "invalidate"}
      BY <1>1, <1>3, CreateExistsMoves DEF Become, NpUsed, IputPoints
    <2>3. UNCHANGED lock
      BY DEF create_exists
    <2> QED
      BY <1>1, <1>2, <2>1, <2>2, <2>3, LockSame
  <1> QED
    BY <1>2, <1>7, <1>8, <1>9, <1>1, ThreadStep DEF RefInv

LEMMA UnlinkFailsRef == ASSUME NEW p \in Procs, RefInv, unlink_fails(p) PROVE RefInv'
  <1> DEFINE t == th[p]
             u == th'[p]
  <1>1. TypeInv /\ ThreadInv /\ RefExact /\ LockInv
    BY DEF RefInv
  <1>2. th' \in [Procs -> Threads] /\ OthersStay(p) /\ ThreadOk(p)'
    BY <1>1, UnlinkFailsMoves
  <1>3. t.pc = "parent" /\ t.putting = None /\ t.cont = "user" /\ t.dp \in Inums
    BY <1>1, UnlinkFailsMoves, ThreadAt, NonePointer DEF ThreadOk, Where, NpUsed, IpUsed, DpUsed, IputPoints, OpsAt, Creating
  <1>4. ref' \in [Inums -> Int]
    BY <1>1, RefSame DEF unlink_fails
  <1>5. \A i \in Inums : ref'[i] - ref[i] = Own(p, i)' - Own(p, i)
    <2>1. u.np = t.np /\ u.ip = t.ip /\ u.dp = None /\ u.putting = t.dp
      BY <1>1, UnlinkFailsMoves DEF Become
    <2>2. (Leaving(p) <=> FALSE) /\ (Leaving(p)' <=> FALSE)
      BY <1>1, <1>3, UnlinkFailsMoves DEF Leaving, Become, NpUsed, Failed
    <2>3. cwd'[p] = cwd[p] /\ ofile'[p] = ofile[p]
      BY <1>1 DEF unlink_fails, TypeInv
    <2>4. \A i \in Inums : ref'[i] = ref[i] /\ ref[i] \in Int
      <3>1. ref' = ref
        BY DEF unlink_fails
      <3> QED
        BY <1>1, <3>1, RefAt
    <2> HIDE DEF t, u, unlink_fails
    <2> QED
      BY <1>3, <2>1, <2>2, <2>3, <2>4, NonePointer DEF Own, One, t, u
  <1>6. \A q \in Procs \ {p} : Still(q)
    BY <1>1, <1>2 DEF Still, OthersStay, unlink_fails, TypeInv
  <1>7. RefExact' /\ ref' \in [Inums -> Nat]
    BY <1>1, <1>4, <1>5, <1>6, RefStep
  <1>8. TypeInv'
    <2>1. inode' \in [Inums -> Records] /\ valid' \in [Inums -> BOOLEAN]
      BY <1>1, <1>3, UnlinkFailsMoves, ReadType DEF unlink_fails
    <2> QED
      BY <1>1, <1>2, <1>3, <1>7, <2>1, UnlinkFailsMoves DEF TypeInv, unlink_fails
  <1>9. LockInv'
    <2>1. LocksHeld(p)' = LocksHeld(p)
      BY SMTT(60), <1>1, <1>3, UnlinkFailsMoves, ThreadAt, NonePointer DEF LocksHeld, Where, DpLocked, IpLocked, IputPoints, Become, Failed, NpUsed
    <2>2. th'[p].pc \notin {"itrunc", "invalidate"}
      BY <1>1, <1>3, UnlinkFailsMoves DEF Become, NpUsed, IputPoints
    <2>3. UNCHANGED lock
      BY DEF unlink_fails
    <2> QED
      BY <1>1, <1>2, <2>1, <2>2, <2>3, LockSame
  <1> QED
    BY <1>2, <1>7, <1>8, <1>9, <1>1, ThreadStep DEF RefInv

LEMMA LinkDirRef == ASSUME NEW p \in Procs, RefInv, link_dir(p) PROVE RefInv'
  <1> DEFINE t == th[p]
             u == th'[p]
  <1>1. TypeInv /\ ThreadInv /\ RefExact /\ LockInv
    BY DEF RefInv
  <1>2. th' \in [Procs -> Threads] /\ OthersStay(p) /\ ThreadOk(p)'
    BY <1>1, LinkDirMoves
  <1>3. t.pc = "inode" /\ t.putting = None /\ t.cont = "user" /\ t.ip \in Inums
    BY <1>1, LinkDirMoves, ThreadAt, NonePointer DEF ThreadOk, Where, NpUsed, IpUsed, DpUsed, IputPoints, OpsAt, Creating
  <1>4. ref' \in [Inums -> Int]
    BY <1>1, RefSame DEF link_dir
  <1>5. \A i \in Inums : ref'[i] - ref[i] = Own(p, i)' - Own(p, i)
    <2>1. u.np = t.np /\ u.ip = None /\ u.dp = t.dp /\ u.putting = t.ip
      BY <1>1, LinkDirMoves DEF Become
    <2>2. (Leaving(p) <=> FALSE) /\ (Leaving(p)' <=> FALSE)
      BY <1>1, <1>3, LinkDirMoves DEF Leaving, Become, NpUsed, Failed
    <2>3. cwd'[p] = cwd[p] /\ ofile'[p] = ofile[p]
      BY <1>1 DEF link_dir, TypeInv
    <2>4. \A i \in Inums : ref'[i] = ref[i] /\ ref[i] \in Int
      <3>1. ref' = ref
        BY DEF link_dir
      <3> QED
        BY <1>1, <3>1, RefAt
    <2> HIDE DEF t, u, link_dir
    <2> QED
      BY <1>3, <2>1, <2>2, <2>3, <2>4, NonePointer DEF Own, One, t, u
  <1>6. \A q \in Procs \ {p} : Still(q)
    BY <1>1, <1>2 DEF Still, OthersStay, link_dir, TypeInv
  <1>7. RefExact' /\ ref' \in [Inums -> Nat]
    BY <1>1, <1>4, <1>5, <1>6, RefStep
  <1>8. TypeInv'
    <2>1. inode' \in [Inums -> Records] /\ valid' \in [Inums -> BOOLEAN]
      BY <1>1, <1>3, LinkDirMoves, ReadType DEF link_dir
    <2> QED
      BY <1>1, <1>2, <1>3, <1>7, <2>1, LinkDirMoves DEF TypeInv, link_dir
  <1>9. LockInv'
    <2>1. LocksHeld(p)' = LocksHeld(p)
      BY SMTT(60), <1>1, <1>3, LinkDirMoves, ThreadAt, NonePointer DEF LocksHeld, Where, DpLocked, IpLocked, IputPoints, Become, Failed, NpUsed
    <2>2. th'[p].pc \notin {"itrunc", "invalidate"}
      BY <1>1, <1>3, LinkDirMoves DEF Become, NpUsed, IputPoints
    <2>3. UNCHANGED lock
      BY DEF link_dir
    <2> QED
      BY <1>1, <1>2, <2>1, <2>2, <2>3, LockSame
  <1> QED
    BY <1>2, <1>7, <1>8, <1>9, <1>1, ThreadStep DEF RefInv

LEMMA LinkEndRef == ASSUME NEW p \in Procs, RefInv, link_end(p) PROVE RefInv'
  <1> DEFINE t == th[p]
             u == th'[p]
  <1>1. TypeInv /\ ThreadInv /\ RefExact /\ LockInv
    BY DEF RefInv
  <1>2. th' \in [Procs -> Threads] /\ OthersStay(p) /\ ThreadOk(p)'
    BY <1>1, LinkEndMoves
  <1>3. t.pc = "link_end" /\ t.putting = None /\ t.cont = "user" /\ t.ip \in Inums
    BY <1>1, LinkEndMoves, ThreadAt, NonePointer DEF ThreadOk, Where, NpUsed, IpUsed, DpUsed, IputPoints, OpsAt, Creating
  <1>4. ref' \in [Inums -> Int]
    BY <1>1, RefSame DEF link_end
  <1>5. \A i \in Inums : ref'[i] - ref[i] = Own(p, i)' - Own(p, i)
    <2>1. u.np = t.np /\ u.ip = None /\ u.dp = t.dp /\ u.putting = t.ip
      BY <1>1, LinkEndMoves DEF Become
    <2>2. (Leaving(p) <=> FALSE) /\ (Leaving(p)' <=> FALSE)
      BY <1>1, <1>3, LinkEndMoves DEF Leaving, Become, NpUsed, Failed
    <2>3. cwd'[p] = cwd[p] /\ ofile'[p] = ofile[p]
      BY <1>1 DEF link_end, TypeInv
    <2>4. \A i \in Inums : ref'[i] = ref[i] /\ ref[i] \in Int
      <3>1. ref' = ref
        BY DEF link_end
      <3> QED
        BY <1>1, <3>1, RefAt
    <2> HIDE DEF t, u, link_end
    <2> QED
      BY <1>3, <2>1, <2>2, <2>3, <2>4, NonePointer DEF Own, One, t, u
  <1>6. \A q \in Procs \ {p} : Still(q)
    BY <1>1, <1>2 DEF Still, OthersStay, link_end, TypeInv
  <1>7. RefExact' /\ ref' \in [Inums -> Nat]
    BY <1>1, <1>4, <1>5, <1>6, RefStep
  <1>8. TypeInv'
    BY <1>1, <1>2, <1>3, <1>7, LinkEndMoves DEF TypeInv, link_end
  <1>9. LockInv'
    <2>1. LocksHeld(p)' = LocksHeld(p)
      BY SMTT(60), <1>1, <1>3, LinkEndMoves, ThreadAt, NonePointer DEF LocksHeld, Where, DpLocked, IpLocked, IputPoints, Become, Failed, NpUsed
    <2>2. th'[p].pc \notin {"itrunc", "invalidate"}
      BY <1>1, <1>3, LinkEndMoves DEF Become, NpUsed, IputPoints
    <2>3. UNCHANGED lock
      BY DEF link_end
    <2> QED
      BY <1>1, <1>2, <2>1, <2>2, <2>3, LockSame
  <1> QED
    BY <1>2, <1>7, <1>8, <1>9, <1>1, ThreadStep DEF RefInv

LEMMA DirlinkRef == ASSUME NEW p \in Procs, RefInv, dirlink(p) PROVE RefInv'
  <1> DEFINE t == th[p]
             u == th'[p]
  <1>1. TypeInv /\ ThreadInv /\ RefExact /\ LockInv
    BY DEF RefInv
  <1>2. th' \in [Procs -> Threads] /\ OthersStay(p) /\ ThreadOk(p)'
    BY <1>1, DirlinkMoves
  <1>3. t.pc = "parent" /\ t.putting = None /\ t.cont = "user" /\ t.ip \in Inums /\ t.dp \in Inums
    BY <1>1, DirlinkMoves, ThreadAt, NonePointer DEF ThreadOk, Where, NpUsed, IpUsed, DpUsed, IputPoints, OpsAt, Creating
  <1>4. ref' \in [Inums -> Int]
    BY <1>1, RefSame DEF dirlink
  <1>5. \A i \in Inums : ref'[i] - ref[i] = Own(p, i)' - Own(p, i)
    <2>1. u.np = t.np /\ u.ip = t.ip /\ u.dp = None /\ u.putting = t.dp
      BY <1>1, DirlinkMoves DEF Become
    <2>2. (Leaving(p) <=> FALSE) /\ (Leaving(p)' <=> FALSE)
      BY <1>1, <1>3, DirlinkMoves DEF Leaving, Become, NpUsed, Failed
    <2>3. cwd'[p] = cwd[p] /\ ofile'[p] = ofile[p]
      BY <1>1 DEF dirlink, TypeInv
    <2>4. \A i \in Inums : ref'[i] = ref[i] /\ ref[i] \in Int
      <3>1. ref' = ref
        BY DEF dirlink
      <3> QED
        BY <1>1, <3>1, RefAt
    <2> HIDE DEF t, u, dirlink
    <2> QED
      BY <1>3, <2>1, <2>2, <2>3, <2>4, NonePointer DEF Own, One, t, u
  <1>6. \A q \in Procs \ {p} : Still(q)
    BY <1>1, <1>2 DEF Still, OthersStay, dirlink, TypeInv
  <1>7. RefExact' /\ ref' \in [Inums -> Nat]
    BY <1>1, <1>4, <1>5, <1>6, RefStep
  <1>8. TypeInv'
    <2>1. inode' \in [Inums -> Records] /\ valid' \in [Inums -> BOOLEAN]
      BY <1>1, <1>3, DirlinkMoves, ReadType DEF dirlink, Links
    <2>2. Name(p) \in Elems
      BY <1>3, <1>1, ThreadAt DEF ThreadOk, Where, IputPoints, Name
    <2>3. ent' \in [Inums -> [Elems -> Pointers]]
      BY <1>1, <1>3, <2>2, NonePointer DEF TypeInv, dirlink
    <2> QED
      BY <1>1, <1>2, <1>7, <2>1, <2>3 DEF TypeInv, dirlink
  <1>9. LockInv'
    <2>1. LocksHeld(p)' = LocksHeld(p)
      BY SMTT(60), <1>1, <1>3, DirlinkMoves, ThreadAt, NonePointer DEF LocksHeld, Where, DpLocked, IpLocked, IputPoints, Become, Failed, NpUsed
    <2>2. th'[p].pc \notin {"itrunc", "invalidate"}
      BY <1>1, <1>3, DirlinkMoves DEF Become, NpUsed, IputPoints
    <2>3. UNCHANGED lock
      BY DEF dirlink
    <2> QED
      BY <1>1, <1>2, <2>1, <2>2, <2>3, LockSame
  <1> QED
    BY <1>2, <1>7, <1>8, <1>9, <1>1, ThreadStep DEF RefInv

LEMMA UndoRef == ASSUME NEW p \in Procs, RefInv, undo(p) PROVE RefInv'
  <1> DEFINE t == th[p]
             u == th'[p]
  <1>1. TypeInv /\ ThreadInv /\ RefExact /\ LockInv
    BY DEF RefInv
  <1>2. th' \in [Procs -> Threads] /\ OthersStay(p) /\ ThreadOk(p)'
    BY <1>1, UndoMoves
  <1>3. t.pc = "undo" /\ t.putting = None /\ t.cont = "user" /\ t.ip \in Inums
    BY <1>1, UndoMoves, ThreadAt, NonePointer DEF ThreadOk, Where, NpUsed, IpUsed, DpUsed, IputPoints, OpsAt, Creating
  <1>4. ref' \in [Inums -> Int]
    BY <1>1, RefSame DEF undo
  <1>5. \A i \in Inums : ref'[i] - ref[i] = Own(p, i)' - Own(p, i)
    <2>1. u.np = t.np /\ u.ip = None /\ u.dp = t.dp /\ u.putting = t.ip
      BY <1>1, UndoMoves DEF Become
    <2>2. (Leaving(p) <=> FALSE) /\ (Leaving(p)' <=> FALSE)
      BY <1>1, <1>3, UndoMoves DEF Leaving, Become, NpUsed, Failed
    <2>3. cwd'[p] = cwd[p] /\ ofile'[p] = ofile[p]
      BY <1>1 DEF undo, TypeInv
    <2>4. \A i \in Inums : ref'[i] = ref[i] /\ ref[i] \in Int
      <3>1. ref' = ref
        BY DEF undo
      <3> QED
        BY <1>1, <3>1, RefAt
    <2> HIDE DEF t, u, undo
    <2> QED
      BY <1>3, <2>1, <2>2, <2>3, <2>4, NonePointer DEF Own, One, t, u
  <1>6. \A q \in Procs \ {p} : Still(q)
    BY <1>1, <1>2 DEF Still, OthersStay, undo, TypeInv
  <1>7. RefExact' /\ ref' \in [Inums -> Nat]
    BY <1>1, <1>4, <1>5, <1>6, RefStep
  <1>8. TypeInv'
    <2>1. inode' \in [Inums -> Records] /\ dinode' \in [Inums -> Records]
      BY <1>1, <1>3, LinkedType, UpdateType DEF undo
    <2> QED
      BY <1>1, <1>2, <1>3, <1>7, <2>1 DEF TypeInv, undo
  <1>9. LockInv'
    <2>1. LocksHeld(p)' = LocksHeld(p)
      BY SMTT(60), <1>1, <1>3, UndoMoves, ThreadAt, NonePointer DEF LocksHeld, Where, DpLocked, IpLocked, IputPoints, Become, Failed, NpUsed
    <2>2. th'[p].pc \notin {"itrunc", "invalidate"}
      BY <1>1, <1>3, UndoMoves DEF Become, NpUsed, IputPoints
    <2>3. UNCHANGED lock
      BY DEF undo
    <2> QED
      BY <1>1, <1>2, <2>1, <2>2, <2>3, LockSame
  <1> QED
    BY <1>2, <1>7, <1>8, <1>9, <1>1, ThreadStep DEF RefInv

LEMMA LinkNlinkRef == ASSUME NEW p \in Procs, RefInv, link_nlink(p) PROVE RefInv'
  <1> DEFINE t == th[p]
             u == th'[p]
  <1>1. TypeInv /\ ThreadInv /\ RefExact /\ LockInv
    BY DEF RefInv
  <1>2. th' \in [Procs -> Threads] /\ OthersStay(p) /\ ThreadOk(p)'
    BY <1>1, LinkNlinkMoves
  <1>3. t.pc = "inode" /\ t.op = "link" /\ t.np = None /\ t.putting = None /\ t.cont = "user" /\ t.ip \in Inums
    BY <1>1, LinkNlinkMoves, ThreadAt, NonePointer DEF ThreadOk, Where, NpUsed, IpUsed, DpUsed, IputPoints, OpsAt, Creating
  <1>4. ref' \in [Inums -> Int]
    BY <1>1, <1>3, LinkNlinkMoves, IgetType DEF link_nlink
  <1>5. \A i \in Inums : ref'[i] - ref[i] = Own(p, i)' - Own(p, i)
    <2>1. u.np = Start(p, t.new) /\ u.ip = t.ip /\ u.dp = t.dp /\ u.putting = t.putting
      BY <1>1, LinkNlinkMoves DEF Become
    <2>2. (Leaving(p) <=> FALSE) /\ (Leaving(p)' <=> FALSE)
      BY <1>1, <1>3, LinkNlinkMoves DEF Leaving, Become, NpUsed, Failed
    <2>3. cwd'[p] = cwd[p] /\ ofile'[p] = ofile[p]
      BY <1>1 DEF link_nlink, TypeInv
    <2>4. \A i \in Inums : ref'[i] = ref[i] + One(i = Start(p, t.new)) /\ ref[i] \in Int
      <3>1. iget(Start(p, t.new)) /\ Start(p, t.new) \in Inums
        BY <1>1, LinkNlinkMoves DEF link_nlink
      <3> QED
        BY <1>1, <3>1, IgetAt, RefAt
    <2> HIDE DEF t, u, link_nlink
    <2> QED
      BY <1>3, <2>1, <2>2, <2>3, <2>4, NonePointer DEF Own, One, t, u
  <1>6. \A q \in Procs \ {p} : Still(q)
    BY <1>1, <1>2 DEF Still, OthersStay, link_nlink, TypeInv
  <1>7. RefExact' /\ ref' \in [Inums -> Nat]
    BY <1>1, <1>4, <1>5, <1>6, RefStep
  <1>8. TypeInv'
    <2>1. inode' \in [Inums -> Records] /\ dinode' \in [Inums -> Records]
      BY <1>1, <1>3, LinkedType, UpdateType DEF link_nlink
    <2> QED
      BY <1>1, <1>2, <1>3, <1>7, <2>1 DEF TypeInv, link_nlink
  <1>9. LockInv'
    <2>1. LocksHeld(p)' = LocksHeld(p)
      BY SMTT(60), <1>1, <1>3, LinkNlinkMoves, ThreadAt, NonePointer DEF LocksHeld, Where, DpLocked, IpLocked, IputPoints, Become, Failed, NpUsed
    <2>2. th'[p].pc \notin {"itrunc", "invalidate"}
      BY <1>1, <1>3, LinkNlinkMoves DEF Become, NpUsed, IputPoints
    <2>3. UNCHANGED lock
      BY DEF link_nlink
    <2> QED
      BY <1>1, <1>2, <2>1, <2>2, <2>3, LockSame
  <1> QED
    BY <1>2, <1>7, <1>8, <1>9, <1>1, ThreadStep DEF RefInv

LEMMA ChdirRef == ASSUME NEW p \in Procs, RefInv, sys_chdir(p) PROVE RefInv'
  <1> DEFINE t == th[p]
             u == th'[p]
  <1>1. TypeInv /\ ThreadInv /\ RefExact /\ LockInv
    BY DEF RefInv
  <1>2. th' \in [Procs -> Threads] /\ OthersStay(p) /\ ThreadOk(p)'
    BY <1>1, ChdirMoves
  <1>3. /\ t.pc = "inode" /\ t.op = "chdir" /\ t.putting = None /\ t.cont = "user" /\ t.ip \in Inums
        /\ cwd[p] \in Inums
    BY <1>1, ChdirMoves, ThreadAt, NonePointer DEF ThreadOk, Where, NpUsed, IpUsed, DpUsed, IputPoints, OpsAt, Creating
  <1>4. ref' \in [Inums -> Int]
    BY <1>1, RefSame DEF sys_chdir
  <1>5. \A i \in Inums : ref'[i] - ref[i] = Own(p, i)' - Own(p, i)
    <2>0. /\ cwd'[p] = cwd[p] /\ ofile'[p] = ofile[p]
          /\ \A i \in Inums : ref'[i] = ref[i] /\ ref[i] \in Int
      BY <1>1 DEF sys_chdir, TypeInv
    <2>1. CASE IsDir(t.ip)
      <3>1. u.np = t.np /\ u.ip = t.ip /\ u.dp = t.dp /\ u.putting = cwd[p]
        BY <1>1, <2>1, ChdirMoves DEF Become
      <3>2. ~Leaving(p) /\ Leaving(p)'
        BY <1>1, <1>3, <2>1, ChdirMoves DEF Leaving, Become, NpUsed, Failed
      <3> HIDE DEF t, u, sys_chdir
      <3> QED
        BY <1>3, <2>0, <3>1, <3>2, NonePointer DEF Own, One, t, u
    <2>2. CASE ~IsDir(t.ip)
      <3>1. u.np = t.np /\ u.ip = None /\ u.dp = t.dp /\ u.putting = t.ip
        BY <1>1, <2>2, ChdirMoves DEF Become
      <3>2. ~Leaving(p) /\ ~Leaving(p)'
        BY <1>1, <1>3, <2>2, ChdirMoves DEF Leaving, Become, NpUsed, Failed
      <3> HIDE DEF t, u, sys_chdir
      <3> QED
        BY <1>3, <2>0, <3>1, <3>2, NonePointer DEF Own, One, t, u
    <2> QED
      BY <2>1, <2>2
  <1>6. \A q \in Procs \ {p} : Still(q)
    BY <1>1, <1>2 DEF Still, OthersStay, sys_chdir, TypeInv
  <1>7. RefExact' /\ ref' \in [Inums -> Nat]
    BY <1>1, <1>4, <1>5, <1>6, RefStep
  <1>8. TypeInv'
    <2>1. inode' \in [Inums -> Records] /\ valid' \in [Inums -> BOOLEAN]
      BY <1>1, <1>3, ChdirMoves, ReadType DEF sys_chdir
    <2> QED
      BY <1>1, <1>2, <1>3, <1>7, <2>1, ChdirMoves DEF TypeInv, sys_chdir
  <1>9. LockInv'
    <2>1. LocksHeld(p)' = LocksHeld(p)
      BY SMTT(60), <1>1, <1>3, ChdirMoves, ThreadAt, NonePointer DEF LocksHeld, Where, DpLocked, IpLocked, IputPoints, Become, Failed, NpUsed
    <2>2. th'[p].pc \notin {"itrunc", "invalidate"}
      BY <1>1, <1>3, ChdirMoves DEF Become, NpUsed, IputPoints
    <2>3. UNCHANGED lock
      BY DEF sys_chdir
    <2> QED
      BY <1>1, <1>2, <2>1, <2>2, <2>3, LockSame
  <1> QED
    BY <1>2, <1>7, <1>8, <1>9, <1>1, ThreadStep DEF RefInv

LEMMA ChdirEndRef == ASSUME NEW p \in Procs, RefInv, chdir_end(p) PROVE RefInv'
  <1> DEFINE t == th[p]
             u == th'[p]
  <1>1. TypeInv /\ ThreadInv /\ RefExact /\ LockInv
    BY DEF RefInv
  <1>2. th' \in [Procs -> Threads] /\ OthersStay(p) /\ ThreadOk(p)'
    BY <1>1, ChdirEndMoves
  <1>3. /\ t.pc = "chdir_end" /\ t.np = None /\ t.dp = None /\ t.putting = None /\ t.cont = "user"
        /\ t.ip \in Inums /\ cwd[p] \in Inums
    BY <1>1, ChdirEndMoves, ThreadAt, NonePointer DEF ThreadOk, Where, NpUsed, IpUsed, DpUsed, IputPoints, OpsAt, Creating
  <1>4. ref' \in [Inums -> Int]
    BY <1>1, RefSame DEF chdir_end
  <1>5. \A i \in Inums : ref'[i] - ref[i] = Own(p, i)' - Own(p, i)
    <2>1. u.np = None /\ u.ip = None /\ u.dp = None /\ u.putting = None
      BY <1>1, ChdirEndMoves DEF Become
    <2>2. (Leaving(p) <=> TRUE) /\ (Leaving(p)' <=> FALSE)
      BY <1>1, <1>3, ChdirEndMoves DEF Leaving, Become, NpUsed, Failed
    <2>3. cwd'[p] = t.ip /\ ofile'[p] = ofile[p]
      BY <1>1 DEF chdir_end, TypeInv
    <2>4. \A i \in Inums : ref'[i] = ref[i] /\ ref[i] \in Int
      <3>1. ref' = ref
        BY DEF chdir_end
      <3> QED
        BY <1>1, <3>1, RefAt
    <2> HIDE DEF t, u, chdir_end
    <2> QED
      BY <1>3, <2>1, <2>2, <2>3, <2>4, NonePointer DEF Own, One, t, u
  <1>6. \A q \in Procs \ {p} : Still(q)
    BY <1>1, <1>2 DEF Still, OthersStay, chdir_end, TypeInv
  <1>7. RefExact' /\ ref' \in [Inums -> Nat]
    BY <1>1, <1>4, <1>5, <1>6, RefStep
  <1>8. TypeInv'
    BY <1>1, <1>2, <1>3, <1>7, ChdirEndMoves DEF TypeInv, chdir_end
  <1>9. LockInv'
    <2>1. LocksHeld(p)' = LocksHeld(p)
      BY SMTT(60), <1>1, <1>3, ChdirEndMoves, ThreadAt, NonePointer DEF LocksHeld, Where, DpLocked, IpLocked, IputPoints, Become, Failed, NpUsed
    <2>2. th'[p].pc \notin {"itrunc", "invalidate"}
      BY <1>1, <1>3, ChdirEndMoves DEF Become, NpUsed, IputPoints
    <2>3. UNCHANGED lock
      BY DEF chdir_end
    <2> QED
      BY <1>1, <1>2, <2>1, <2>2, <2>3, LockSame
  <1> QED
    BY <1>2, <1>7, <1>8, <1>9, <1>1, ThreadStep DEF RefInv

LEMMA UnlinkNotEmptyRef == ASSUME NEW p \in Procs, RefInv, unlink_notempty(p) PROVE RefInv'
  <1> DEFINE t == th[p]
             u == th'[p]
  <1>1. TypeInv /\ ThreadInv /\ RefExact /\ LockInv
    BY DEF RefInv
  <1>2. th' \in [Procs -> Threads] /\ OthersStay(p) /\ ThreadOk(p)'
    BY <1>1, UnlinkNotEmptyMoves
  <1>3. t.pc = "unlink_ip" /\ t.putting = None /\ t.cont = "user" /\ t.ip \in Inums /\ t.dp \in Inums
    BY <1>1, UnlinkNotEmptyMoves, ThreadAt, NonePointer DEF ThreadOk, Where, NpUsed, IpUsed, DpUsed, IputPoints, OpsAt, Creating
  <1>4. ref' \in [Inums -> Int]
    BY <1>1, RefSame DEF unlink_notempty
  <1>5. \A i \in Inums : ref'[i] - ref[i] = Own(p, i)' - Own(p, i)
    <2>1. u.np = t.np /\ u.ip = None /\ u.dp = t.dp /\ u.putting = t.ip
      BY <1>1, UnlinkNotEmptyMoves DEF Become
    <2>2. (Leaving(p) <=> FALSE) /\ (Leaving(p)' <=> FALSE)
      BY <1>1, <1>3, UnlinkNotEmptyMoves DEF Leaving, Become, NpUsed, Failed
    <2>3. cwd'[p] = cwd[p] /\ ofile'[p] = ofile[p]
      BY <1>1 DEF unlink_notempty, TypeInv
    <2>4. \A i \in Inums : ref'[i] = ref[i] /\ ref[i] \in Int
      <3>1. ref' = ref
        BY DEF unlink_notempty
      <3> QED
        BY <1>1, <3>1, RefAt
    <2> HIDE DEF t, u, unlink_notempty
    <2> QED
      BY <1>3, <2>1, <2>2, <2>3, <2>4, NonePointer DEF Own, One, t, u
  <1>6. \A q \in Procs \ {p} : Still(q)
    BY <1>1, <1>2 DEF Still, OthersStay, unlink_notempty, TypeInv
  <1>7. RefExact' /\ ref' \in [Inums -> Nat]
    BY <1>1, <1>4, <1>5, <1>6, RefStep
  <1>8. TypeInv'
    <2>1. inode' \in [Inums -> Records] /\ valid' \in [Inums -> BOOLEAN]
      BY <1>1, <1>3, UnlinkNotEmptyMoves, ReadType DEF unlink_notempty
    <2> QED
      BY <1>1, <1>2, <1>3, <1>7, <2>1, UnlinkNotEmptyMoves DEF TypeInv, unlink_notempty
  <1>9. LockInv'
    <2>1. LocksHeld(p)' = LocksHeld(p)
      BY SMTT(60), <1>1, <1>3, UnlinkNotEmptyMoves, ThreadAt, NonePointer DEF LocksHeld, Where, DpLocked, IpLocked, IputPoints, Become, Failed, NpUsed
    <2>2. th'[p].pc \notin {"itrunc", "invalidate"}
      BY <1>1, <1>3, UnlinkNotEmptyMoves DEF Become, NpUsed, IputPoints
    <2>3. UNCHANGED lock
      BY DEF unlink_notempty
    <2> QED
      BY <1>1, <1>2, <2>1, <2>2, <2>3, LockSame
  <1> QED
    BY <1>2, <1>7, <1>8, <1>9, <1>1, ThreadStep DEF RefInv

LEMMA UnlinkDpRef == ASSUME NEW p \in Procs, RefInv, unlink_dp(p) PROVE RefInv'
  <1> DEFINE t == th[p]
             u == th'[p]
  <1>1. TypeInv /\ ThreadInv /\ RefExact /\ LockInv
    BY DEF RefInv
  <1>2. th' \in [Procs -> Threads] /\ OthersStay(p) /\ ThreadOk(p)'
    BY <1>1, UnlinkDpMoves
  <1>3. t.pc = "parent" /\ t.putting = None /\ t.cont = "user" /\ t.dp \in Inums /\ t.np = None /\ t.op = "unlink" /\ t.ip = None
    BY <1>1, UnlinkDpMoves, ThreadAt, NonePointer DEF ThreadOk, Where, NpUsed, IpUsed, DpUsed, IputPoints, OpsAt, Creating
  <1>4. ref' \in [Inums -> Int]
    BY <1>1, <1>3, UnlinkDpMoves, IgetType DEF unlink_dp
  <1>5. \A i \in Inums : ref'[i] - ref[i] = Own(p, i)' - Own(p, i)
    <2>1. u.np = t.np /\ u.ip = dirlookup(t.dp, Name(p)) /\ u.dp = t.dp /\ u.putting = t.putting
      BY <1>1, UnlinkDpMoves DEF Become
    <2>2. (Leaving(p) <=> FALSE) /\ (Leaving(p)' <=> FALSE)
      BY <1>1, <1>3, UnlinkDpMoves DEF Leaving, Become, NpUsed, Failed
    <2>3. cwd'[p] = cwd[p] /\ ofile'[p] = ofile[p]
      BY <1>1 DEF unlink_dp, TypeInv
    <2>4. \A i \in Inums : ref'[i] = ref[i] + One(i = dirlookup(t.dp, Name(p))) /\ ref[i] \in Int
      <3>1. iget(dirlookup(t.dp, Name(p))) /\ dirlookup(t.dp, Name(p)) \in Inums
        BY <1>1, UnlinkDpMoves DEF unlink_dp
      <3> QED
        BY <1>1, <3>1, IgetAt, RefAt
    <2> HIDE DEF t, u, unlink_dp
    <2> QED
      BY <1>3, <2>1, <2>2, <2>3, <2>4, NonePointer DEF Own, One, t, u
  <1>6. \A q \in Procs \ {p} : Still(q)
    BY <1>1, <1>2 DEF Still, OthersStay, unlink_dp, TypeInv
  <1>7. RefExact' /\ ref' \in [Inums -> Nat]
    BY <1>1, <1>4, <1>5, <1>6, RefStep
  <1>8. LockInv' /\ lock' \in [Inums -> Procs \cup {Nobody}]
    <2>1. lock[t.dp] = Nobody /\ t.dp \in Inums /\ lock' = [lock EXCEPT ![t.dp] = p]
      BY <1>1, <1>3, UnlinkDpMoves DEF unlink_dp, Locks, Creates, Unlinks, Links, At
    <2>2. LocksHeld(p) = {}
      BY SMTT(60), <1>1, <1>3, UnlinkDpMoves, ThreadAt, NonePointer DEF LocksHeld, Where, DpLocked, IpLocked, IputPoints, Become, Failed
    <2>3. LocksHeld(p)' = {t.dp}
      BY SMTT(60), <1>1, <1>3, UnlinkDpMoves, ThreadAt, NonePointer DEF LocksHeld, Where, DpLocked, IpLocked, IputPoints, Become, Failed
    <2>4. Apart(p)'
      BY <1>1, <1>3, UnlinkDpMoves DEF Apart, Become
    <2> QED
      BY <1>1, <1>2, <2>1, <2>2, <2>3, <2>4, LockTake
  <1>9. TypeInv'
    <2>1. inode' \in [Inums -> Records] /\ valid' \in [Inums -> BOOLEAN]
      BY <1>1, <1>3, UnlinkDpMoves, ReadType DEF unlink_dp
    <2> QED
      BY <1>1, <1>2, <1>3, <1>7, <1>8, UnlinkDpMoves, <2>1 DEF TypeInv, unlink_dp
  <1> QED
    BY <1>2, <1>7, <1>8, <1>9, <1>1, ThreadStep DEF RefInv

LEMMA DirlinkFailsRef == ASSUME NEW p \in Procs, RefInv, dirlink_fails(p) PROVE RefInv'
  <1> DEFINE t == th[p]
             u == th'[p]
  <1>1. TypeInv /\ ThreadInv /\ RefExact /\ LockInv
    BY DEF RefInv
  <1>2. th' \in [Procs -> Threads] /\ OthersStay(p) /\ ThreadOk(p)'
    BY <1>1, DirlinkFailsMoves
  <1>3. t.pc = "parent" /\ t.putting = None /\ t.cont = "user" /\ t.dp \in Inums /\ t.np = None /\ t.op = "link2"
    BY <1>1, DirlinkFailsMoves, ThreadAt, NonePointer DEF ThreadOk, Where, NpUsed, IpUsed, DpUsed, IputPoints, OpsAt, Creating
  <1>4. ref' \in [Inums -> Int]
    BY <1>1, <1>3, DirlinkFailsMoves, IgetType DEF dirlink_fails
  <1>5. \A i \in Inums : ref'[i] - ref[i] = Own(p, i)' - Own(p, i)
    <2>1. u.np = t.np /\ u.ip = t.ip /\ u.dp = t.dp /\ u.putting = dirlookup(t.dp, Name(p))
      BY <1>1, DirlinkFailsMoves DEF Become
    <2>2. (Leaving(p) <=> FALSE) /\ (Leaving(p)' <=> FALSE)
      BY <1>1, <1>3, DirlinkFailsMoves DEF Leaving, Become, NpUsed, Failed
    <2>3. cwd'[p] = cwd[p] /\ ofile'[p] = ofile[p]
      BY <1>1 DEF dirlink_fails, TypeInv
    <2>4. \A i \in Inums : ref'[i] = ref[i] + One(i = dirlookup(t.dp, Name(p))) /\ ref[i] \in Int
      <3>1. iget(dirlookup(t.dp, Name(p))) /\ dirlookup(t.dp, Name(p)) \in Inums
        BY <1>1, DirlinkFailsMoves DEF dirlink_fails
      <3> QED
        BY <1>1, <3>1, IgetAt, RefAt
    <2> HIDE DEF t, u, dirlink_fails
    <2> QED
      BY <1>3, <2>1, <2>2, <2>3, <2>4, NonePointer DEF Own, One, t, u
  <1>6. \A q \in Procs \ {p} : Still(q)
    BY <1>1, <1>2 DEF Still, OthersStay, dirlink_fails, TypeInv
  <1>7. RefExact' /\ ref' \in [Inums -> Nat]
    BY <1>1, <1>4, <1>5, <1>6, RefStep
  <1>8. LockInv' /\ lock' \in [Inums -> Procs \cup {Nobody}]
    <2>1. lock[t.dp] = Nobody /\ t.dp \in Inums /\ lock' = [lock EXCEPT ![t.dp] = p]
      BY <1>1, <1>3, DirlinkFailsMoves DEF dirlink_fails, Locks, Creates, Unlinks, Links, At
    <2>2. LocksHeld(p) = {}
      BY SMTT(60), <1>1, <1>3, DirlinkFailsMoves, ThreadAt, NonePointer DEF LocksHeld, Where, DpLocked, IpLocked, IputPoints, Become, Failed
    <2>3. LocksHeld(p)' = {t.dp}
      BY SMTT(60), <1>1, <1>3, DirlinkFailsMoves, ThreadAt, NonePointer DEF LocksHeld, Where, DpLocked, IpLocked, IputPoints, Become, Failed
    <2>4. Apart(p)'
      BY <1>1, <1>3, DirlinkFailsMoves DEF Apart, Become
    <2> QED
      BY <1>1, <1>2, <2>1, <2>2, <2>3, <2>4, LockTake
  <1>9. TypeInv'
    <2>1. inode' \in [Inums -> Records] /\ valid' \in [Inums -> BOOLEAN]
      BY <1>1, <1>3, DirlinkFailsMoves, ReadType DEF dirlink_fails
    <2> QED
      BY <1>1, <1>2, <1>3, <1>7, <1>8, DirlinkFailsMoves, <2>1 DEF TypeInv, dirlink_fails
  <1> QED
    BY <1>2, <1>7, <1>8, <1>9, <1>1, ThreadStep DEF RefInv

LEMMA IallocPanicRef == ASSUME NEW p \in Procs, RefInv, ialloc_panic(p) PROVE RefInv'
  <1> DEFINE t == th[p]
             u == th'[p]
  <1>1. TypeInv /\ ThreadInv /\ RefExact /\ LockInv
    BY DEF RefInv
  <1>2. th' \in [Procs -> Threads] /\ OthersStay(p) /\ ThreadOk(p)'
    BY <1>1, IallocPanicMoves
  <1>3. t.pc = "parent" /\ t.putting = None /\ t.cont = "user" /\ t.dp \in Inums /\ t.np = None /\ t.op \in Creating
    BY <1>1, IallocPanicMoves, ThreadAt, NonePointer DEF ThreadOk, Where, NpUsed, IpUsed, DpUsed, IputPoints, OpsAt, Creating
  <1>4. ref' \in [Inums -> Int]
    BY <1>1, RefSame DEF ialloc_panic
  <1>5. \A i \in Inums : ref'[i] - ref[i] = Own(p, i)' - Own(p, i)
    <2>1. u.np = t.np /\ u.ip = t.ip /\ u.dp = t.dp /\ u.putting = t.putting
      BY <1>1, IallocPanicMoves DEF Become
    <2>2. (Leaving(p) <=> FALSE) /\ (Leaving(p)' <=> FALSE)
      BY <1>1, <1>3, IallocPanicMoves DEF Leaving, Become, NpUsed, Failed
    <2>3. cwd'[p] = cwd[p] /\ ofile'[p] = ofile[p]
      BY <1>1 DEF ialloc_panic, TypeInv
    <2>4. \A i \in Inums : ref'[i] = ref[i] /\ ref[i] \in Int
      <3>1. ref' = ref
        BY DEF ialloc_panic
      <3> QED
        BY <1>1, <3>1, RefAt
    <2> HIDE DEF t, u, ialloc_panic
    <2> QED
      BY <1>3, <2>1, <2>2, <2>3, <2>4, NonePointer DEF Own, One, t, u
  <1>6. \A q \in Procs \ {p} : Still(q)
    BY <1>1, <1>2 DEF Still, OthersStay, ialloc_panic, TypeInv
  <1>7. RefExact' /\ ref' \in [Inums -> Nat]
    BY <1>1, <1>4, <1>5, <1>6, RefStep
  <1>8. LockInv' /\ lock' \in [Inums -> Procs \cup {Nobody}]
    <2>1. lock[t.dp] = Nobody /\ t.dp \in Inums /\ lock' = [lock EXCEPT ![t.dp] = p]
      BY <1>1, <1>3, IallocPanicMoves DEF ialloc_panic, Locks, Creates, Unlinks, Links, At
    <2>2. LocksHeld(p) = {}
      BY SMTT(60), <1>1, <1>3, IallocPanicMoves, ThreadAt, NonePointer DEF LocksHeld, Where, DpLocked, IpLocked, IputPoints, Become, Failed
    <2>3. LocksHeld(p)' = {t.dp}
      BY SMTT(60), <1>1, <1>3, IallocPanicMoves, ThreadAt, NonePointer DEF LocksHeld, Where, DpLocked, IpLocked, IputPoints, Become, Failed
    <2>4. Apart(p)'
      BY <1>1, <1>3, IallocPanicMoves DEF Apart, Become
    <2> QED
      BY <1>1, <1>2, <2>1, <2>2, <2>3, <2>4, LockTake
  <1>9. TypeInv'
    <2>1. inode' \in [Inums -> Records] /\ valid' \in [Inums -> BOOLEAN]
      BY <1>1, <1>3, IallocPanicMoves, ReadType DEF ialloc_panic
    <2> QED
      BY <1>1, <1>2, <1>3, <1>7, <1>8, IallocPanicMoves, <2>1 DEF TypeInv, ialloc_panic
  <1> QED
    BY <1>2, <1>7, <1>8, <1>9, <1>1, ThreadStep DEF RefInv

LEMMA IputLastRef == ASSUME NEW p \in Procs, RefInv, iput_last(p) PROVE RefInv'
  <1> DEFINE t == th[p]
             u == th'[p]
  <1>1. TypeInv /\ ThreadInv /\ RefExact /\ LockInv
    BY DEF RefInv
  <1>2. th' \in [Procs -> Threads] /\ OthersStay(p) /\ ThreadOk(p)'
    BY <1>1, IputLastMoves
  <1>3. t.pc = "iput" /\ t.putting \in Inums
    BY <1>1, IputLastMoves, ThreadAt, NonePointer DEF ThreadOk, Where, NpUsed, IpUsed, DpUsed, IputPoints, OpsAt, Creating
  <1>4. ref' \in [Inums -> Int]
    BY <1>1, RefSame DEF iput_last
  <1>5. \A i \in Inums : ref'[i] - ref[i] = Own(p, i)' - Own(p, i)
    <2>1. u.np = t.np /\ u.ip = t.ip /\ u.dp = t.dp /\ u.putting = t.putting
      BY <1>1, IputLastMoves DEF Become
    <2>2. (Leaving(p) <=> t.cont = "chdir_end") /\ (Leaving(p)' <=> t.cont = "chdir_end")
      BY <1>1, <1>3, IputLastMoves DEF Leaving, Become, NpUsed, Failed
    <2>3. cwd'[p] = cwd[p] /\ ofile'[p] = ofile[p]
      BY <1>1 DEF iput_last, TypeInv
    <2>4. \A i \in Inums : ref'[i] = ref[i] /\ ref[i] \in Int
      <3>1. ref' = ref
        BY DEF iput_last
      <3> QED
        BY <1>1, <3>1, RefAt
    <2> HIDE DEF t, u, iput_last
    <2> QED
      BY <1>3, <2>1, <2>2, <2>3, <2>4, NonePointer DEF Own, One, t, u
  <1>6. \A q \in Procs \ {p} : Still(q)
    BY <1>1, <1>2 DEF Still, OthersStay, iput_last, TypeInv
  <1>7. RefExact' /\ ref' \in [Inums -> Nat]
    BY <1>1, <1>4, <1>5, <1>6, RefStep
  <1>8. LockInv' /\ lock' \in [Inums -> Procs \cup {Nobody}]
    <2>1. lock[t.putting] = Nobody /\ lock' = [lock EXCEPT ![t.putting] = p]
      BY DEF iput_last
    <2>2. LocksHeld(p)' = LocksHeld(p) \cup {t.putting}
      BY SMTT(60), <1>1, <1>3, IputLastMoves DEF LocksHeld, Where, DpLocked, IpLocked, IputPoints, Become, Failed
    <2>3. Apart(p)'
      <3>1. t.putting \notin LocksHeld(p)
        BY <1>1, <1>3, <2>1, HeldLocks, Constants
      <3> QED
        BY <1>1, <1>3, <3>1, IputLastMoves, ThreadAt DEF Apart, LocksHeld, Where, DpLocked, IpLocked, IputPoints, Become, Failed
    <2> QED
      BY <1>1, <1>2, <1>3, <2>1, <2>2, <2>3, LockTake
  <1>9. TypeInv'
    BY <1>1, <1>2, <1>3, <1>7, <1>8, IputLastMoves DEF TypeInv, iput_last
  <1> QED
    BY <1>2, <1>7, <1>8, <1>9, <1>1, ThreadStep DEF RefInv

LEMMA ItruncRef == ASSUME NEW p \in Procs, RefInv, itrunc(p) PROVE RefInv'
  <1> DEFINE t == th[p]
             u == th'[p]
  <1>1. TypeInv /\ ThreadInv /\ RefExact /\ LockInv
    BY DEF RefInv
  <1>2. th' \in [Procs -> Threads] /\ OthersStay(p) /\ ThreadOk(p)'
    BY <1>1, ItruncMoves
  <1>3. t.pc = "itrunc" /\ t.putting \in Inums
    BY <1>1, ItruncMoves, ThreadAt, NonePointer DEF ThreadOk, Where, NpUsed, IpUsed, DpUsed, IputPoints, OpsAt, Creating
  <1>4. ref' \in [Inums -> Int]
    BY <1>1, RefSame DEF itrunc
  <1>5. \A i \in Inums : ref'[i] - ref[i] = Own(p, i)' - Own(p, i)
    <2>1. u.np = t.np /\ u.ip = t.ip /\ u.dp = t.dp /\ u.putting = t.putting
      BY <1>1, ItruncMoves DEF Become
    <2>2. (Leaving(p) <=> t.cont = "chdir_end") /\ (Leaving(p)' <=> t.cont = "chdir_end")
      BY <1>1, <1>3, ItruncMoves DEF Leaving, Become, NpUsed, Failed
    <2>3. cwd'[p] = cwd[p] /\ ofile'[p] = ofile[p]
      BY <1>1 DEF itrunc, TypeInv
    <2>4. \A i \in Inums : ref'[i] = ref[i] /\ ref[i] \in Int
      <3>1. ref' = ref
        BY DEF itrunc
      <3> QED
        BY <1>1, <3>1, RefAt
    <2> HIDE DEF t, u, itrunc
    <2> QED
      BY <1>3, <2>1, <2>2, <2>3, <2>4, NonePointer DEF Own, One, t, u
  <1>6. \A q \in Procs \ {p} : Still(q)
    BY <1>1, <1>2 DEF Still, OthersStay, itrunc, TypeInv
  <1>7. RefExact' /\ ref' \in [Inums -> Nat]
    BY <1>1, <1>4, <1>5, <1>6, RefStep
  <1>8. LockInv' /\ lock' \in [Inums -> Procs \cup {Nobody}]
    <2>1. LocksHeld(p)' = LocksHeld(p) /\ Apart(p)'
      BY <1>1, <1>3, ItruncMoves, HeldLocks DEF Apart, LocksHeld, Where, DpLocked, IpLocked, IputPoints, Become, Failed
    <2>2. UNCHANGED lock
      BY DEF itrunc
    <2> QED
      BY <1>1, <1>2, <2>1, <2>2, HeldLocks, LockStep DEF Apart, TypeInv
  <1>9. TypeInv'
    <2>2. inode' \in [Inums -> Records] /\ dinode' \in [Inums -> Records]
      BY <1>1, <1>3, FreeType, UpdateType DEF itrunc
    <2>3. ent' \in [Inums -> [Elems -> Pointers]]
      BY <1>1, NonePointer DEF TypeInv, itrunc, NoEntries
    <2>4. dropped' \in [Inums -> Nat]
      <3>1. ASSUME NEW j \in Inums PROVE dropped[j] + Cardinality({n \in Names : ent[t.putting][n] = j}) \in Nat
        <4>1. IsFiniteSet({n \in Names : ent[t.putting][n] = j})
          BY Constants, FS_Subset
        <4>2. Cardinality({n \in Names : ent[t.putting][n] = j}) \in Nat
          BY <4>1, FS_CardinalityType
        <4> QED
          BY <1>1, <4>2 DEF TypeInv
      <3> QED
        BY <3>1 DEF itrunc
    <2> QED
      BY <1>1, <1>2, <1>7, <1>8, <2>2, <2>3, <2>4 DEF TypeInv, itrunc
  <1> QED
    BY <1>2, <1>7, <1>8, <1>9, <1>1, ThreadStep DEF RefInv

LEMMA InvalidateRef == ASSUME NEW p \in Procs, RefInv, invalidate(p) PROVE RefInv'
  <1> DEFINE t == th[p]
             u == th'[p]
  <1>1. TypeInv /\ ThreadInv /\ RefExact /\ LockInv
    BY DEF RefInv
  <1>2. th' \in [Procs -> Threads] /\ OthersStay(p) /\ ThreadOk(p)'
    BY <1>1, InvalidateMoves
  <1>3. t.pc = "invalidate" /\ t.putting \in Inums
    BY <1>1, InvalidateMoves, ThreadAt, NonePointer DEF ThreadOk, Where, NpUsed, IpUsed, DpUsed, IputPoints, OpsAt, Creating
  <1>4. ref' \in [Inums -> Int]
    BY <1>1, RefSame DEF invalidate
  <1>5. \A i \in Inums : ref'[i] - ref[i] = Own(p, i)' - Own(p, i)
    <2>1. u.np = t.np /\ u.ip = t.ip /\ u.dp = t.dp /\ u.putting = t.putting
      BY <1>1, InvalidateMoves DEF Become
    <2>2. (Leaving(p) <=> t.cont = "chdir_end") /\ (Leaving(p)' <=> t.cont = "chdir_end")
      BY <1>1, <1>3, InvalidateMoves DEF Leaving, Become, NpUsed, Failed
    <2>3. cwd'[p] = cwd[p] /\ ofile'[p] = ofile[p]
      BY <1>1 DEF invalidate, TypeInv
    <2>4. \A i \in Inums : ref'[i] = ref[i] /\ ref[i] \in Int
      <3>1. ref' = ref
        BY DEF invalidate
      <3> QED
        BY <1>1, <3>1, RefAt
    <2> HIDE DEF t, u, invalidate
    <2> QED
      BY <1>3, <2>1, <2>2, <2>3, <2>4, NonePointer DEF Own, One, t, u
  <1>6. \A q \in Procs \ {p} : Still(q)
    BY <1>1, <1>2 DEF Still, OthersStay, invalidate, TypeInv
  <1>7. RefExact' /\ ref' \in [Inums -> Nat]
    BY <1>1, <1>4, <1>5, <1>6, RefStep
  <1>8. LockInv' /\ lock' \in [Inums -> Procs \cup {Nobody}]
    <2>1. t.putting \in LocksHeld(p)
      BY SMTT(60), <1>1, <1>3 DEF LocksHeld, Where, DpLocked, IpLocked, IputPoints, Become, Failed
    <2>2. lock' = [lock EXCEPT ![t.putting] = Nobody]
      BY DEF invalidate
    <2>3. LocksHeld(p)' = LocksHeld(p) \ {t.putting}
      BY <1>1, <1>3, InvalidateMoves, HeldLocks DEF Apart, LocksHeld, Where, DpLocked, IpLocked, IputPoints, Become, Failed
    <2>4. Apart(p)'
      BY <1>1, <1>3, InvalidateMoves DEF Apart, Become
    <2> QED
      BY <1>1, <1>2, <1>3, <2>1, <2>2, <2>3, <2>4, LockDrop
  <1>9. TypeInv'
    BY <1>1, <1>2, <1>3, <1>7, <1>8, InvalidateMoves DEF TypeInv, invalidate
  <1> QED
    BY <1>2, <1>7, <1>8, <1>9, <1>1, ThreadStep DEF RefInv

LEMMA BadRef == ASSUME NEW p \in Procs, RefInv, bad(p) PROVE RefInv'
  <1> DEFINE t == th[p]
             u == th'[p]
  <1>1. TypeInv /\ ThreadInv /\ RefExact /\ LockInv
    BY DEF RefInv
  <1>2. th' \in [Procs -> Threads] /\ OthersStay(p) /\ ThreadOk(p)'
    BY <1>1, BadMoves
  <1>3. t.pc \in {"unlink_bad", "link_bad"} /\ t.putting = None /\ t.cont = "user" /\ t.dp \in Inums
    BY <1>1, BadMoves, ThreadAt, NonePointer DEF ThreadOk, Where, NpUsed, IpUsed, DpUsed, IputPoints, OpsAt, Creating
  <1>4. ref' \in [Inums -> Int]
    BY <1>1, RefSame DEF bad
  <1>5. \A i \in Inums : ref'[i] - ref[i] = Own(p, i)' - Own(p, i)
    <2>1. u.np = t.np /\ u.ip = t.ip /\ u.dp = None /\ u.putting = t.dp
      BY <1>1, BadMoves DEF Become
    <2>2. (Leaving(p) <=> FALSE) /\ (Leaving(p)' <=> FALSE)
      BY <1>1, <1>3, BadMoves DEF Leaving, Become, NpUsed, Failed
    <2>3. cwd'[p] = cwd[p] /\ ofile'[p] = ofile[p]
      BY <1>1 DEF bad, TypeInv
    <2>4. \A i \in Inums : ref'[i] = ref[i] /\ ref[i] \in Int
      <3>1. ref' = ref
        BY DEF bad
      <3> QED
        BY <1>1, <3>1, RefAt
    <2> HIDE DEF t, u, bad
    <2> QED
      BY <1>3, <2>1, <2>2, <2>3, <2>4, NonePointer DEF Own, One, t, u
  <1>6. \A q \in Procs \ {p} : Still(q)
    BY <1>1, <1>2 DEF Still, OthersStay, bad, TypeInv
  <1>7. RefExact' /\ ref' \in [Inums -> Nat]
    BY <1>1, <1>4, <1>5, <1>6, RefStep
  <1>8. LockInv' /\ lock' \in [Inums -> Procs \cup {Nobody}]
    <2>1. t.dp \in LocksHeld(p) /\ t.dp \in Inums
      BY SMTT(60), <1>1, <1>3, BadMoves DEF LocksHeld, Where, DpLocked, IpLocked, IputPoints, Become, Failed
    <2>2. lock' = [lock EXCEPT ![t.dp] = Nobody]
      BY DEF bad
    <2>3. LocksHeld(p) = {t.dp}
      BY SMTT(60), <1>1, <1>3, BadMoves, ThreadAt, NonePointer DEF LocksHeld, Where, DpLocked, IpLocked, IputPoints, Become, Failed
    <2>4. LocksHeld(p)' = {}
      BY SMTT(60), <1>1, <1>3, BadMoves, ThreadAt, NonePointer DEF LocksHeld, Where, DpLocked, IpLocked, IputPoints, Become, Failed
    <2>5. Apart(p)'
      BY <1>1, <1>3, BadMoves DEF Apart, Become
    <2> QED
      BY <1>1, <1>2, <2>1, <2>2, <2>3, <2>4, <2>5, LockDrop
  <1>9. TypeInv'
    BY <1>1, <1>2, <1>3, <1>7, <1>8, BadMoves DEF TypeInv, bad
  <1> QED
    BY <1>2, <1>7, <1>8, <1>9, <1>1, ThreadStep DEF RefInv

LEMMA UnlinkNlinkRef == ASSUME NEW p \in Procs, RefInv, unlink_nlink(p) PROVE RefInv'
  <1> DEFINE t == th[p]
             u == th'[p]
  <1>1. TypeInv /\ ThreadInv /\ RefExact /\ LockInv
    BY DEF RefInv
  <1>2. th' \in [Procs -> Threads] /\ OthersStay(p) /\ ThreadOk(p)'
    BY <1>1, UnlinkNlinkMoves
  <1>3. t.pc = "unlink_nlink" /\ t.putting = None /\ t.cont = "user" /\ t.ip \in Inums
    BY <1>1, UnlinkNlinkMoves, ThreadAt, NonePointer DEF ThreadOk, Where, NpUsed, IpUsed, DpUsed, IputPoints, OpsAt, Creating
  <1>4. ref' \in [Inums -> Int]
    BY <1>1, RefSame DEF unlink_nlink
  <1>5. \A i \in Inums : ref'[i] - ref[i] = Own(p, i)' - Own(p, i)
    <2>1. u.np = t.np /\ u.ip = None /\ u.dp = t.dp /\ u.putting = t.ip
      BY <1>1, UnlinkNlinkMoves DEF Become
    <2>2. (Leaving(p) <=> FALSE) /\ (Leaving(p)' <=> FALSE)
      BY <1>1, <1>3, UnlinkNlinkMoves DEF Leaving, Become, NpUsed, Failed
    <2>3. cwd'[p] = cwd[p] /\ ofile'[p] = ofile[p]
      BY <1>1 DEF unlink_nlink, TypeInv
    <2>4. \A i \in Inums : ref'[i] = ref[i] /\ ref[i] \in Int
      <3>1. ref' = ref
        BY DEF unlink_nlink
      <3> QED
        BY <1>1, <3>1, RefAt
    <2> HIDE DEF t, u, unlink_nlink
    <2> QED
      BY <1>3, <2>1, <2>2, <2>3, <2>4, NonePointer DEF Own, One, t, u
  <1>6. \A q \in Procs \ {p} : Still(q)
    BY <1>1, <1>2 DEF Still, OthersStay, unlink_nlink, TypeInv
  <1>7. RefExact' /\ ref' \in [Inums -> Nat]
    BY <1>1, <1>4, <1>5, <1>6, RefStep
  <1>8. LockInv' /\ lock' \in [Inums -> Procs \cup {Nobody}]
    <2>1. t.ip \in LocksHeld(p) /\ t.ip \in Inums
      BY SMTT(60), <1>1, <1>3, UnlinkNlinkMoves DEF LocksHeld, Where, DpLocked, IpLocked, IputPoints, Become, Failed
    <2>2. lock' = [lock EXCEPT ![t.ip] = Nobody]
      BY DEF unlink_nlink
    <2>3. LocksHeld(p) = {t.ip}
      BY SMTT(60), <1>1, <1>3, UnlinkNlinkMoves, ThreadAt, NonePointer DEF LocksHeld, Where, DpLocked, IpLocked, IputPoints, Become, Failed
    <2>4. LocksHeld(p)' = {}
      BY SMTT(60), <1>1, <1>3, UnlinkNlinkMoves, ThreadAt, NonePointer DEF LocksHeld, Where, DpLocked, IpLocked, IputPoints, Become, Failed
    <2>5. Apart(p)'
      BY <1>1, <1>3, UnlinkNlinkMoves DEF Apart, Become
    <2> QED
      BY <1>1, <1>2, <2>1, <2>2, <2>3, <2>4, <2>5, LockDrop
  <1>9. TypeInv'
    <2>2. inode' \in [Inums -> Records] /\ dinode' \in [Inums -> Records]
      BY <1>1, <1>3, LinkedType, UpdateType DEF unlink_nlink
    <2> QED
      BY <1>1, <1>2, <1>3, <1>7, <1>8, <2>2 DEF TypeInv, unlink_nlink
  <1> QED
    BY <1>2, <1>7, <1>8, <1>9, <1>1, ThreadStep DEF RefInv

LEMMA UnlinkIpRef == ASSUME NEW p \in Procs, RefInv, unlink_ip(p) PROVE RefInv'
  <1> DEFINE t == th[p]
             u == th'[p]
  <1>1. TypeInv /\ ThreadInv /\ RefExact /\ LockInv
    BY DEF RefInv
  <1>2. th' \in [Procs -> Threads] /\ OthersStay(p) /\ ThreadOk(p)'
    BY <1>1, UnlinkIpMoves
  <1>3. t.pc = "unlink_ip" /\ t.np = None /\ t.putting = None /\ t.cont = "user" /\ t.ip \in Inums /\ t.dp \in Inums
    BY <1>1, UnlinkIpMoves, ThreadAt, NonePointer DEF ThreadOk, Where, NpUsed, IpUsed, DpUsed, IputPoints, OpsAt, Creating
  <1>4. ref' \in [Inums -> Int]
    BY <1>1, RefSame DEF unlink_ip
  <1>5. \A i \in Inums : ref'[i] - ref[i] = Own(p, i)' - Own(p, i)
    <2>1. u.np = t.np /\ u.ip = t.ip /\ u.dp = None /\ u.putting = t.dp
      BY <1>1, UnlinkIpMoves DEF Become
    <2>2. (Leaving(p) <=> FALSE) /\ (Leaving(p)' <=> FALSE)
      BY <1>1, <1>3, UnlinkIpMoves DEF Leaving, Become, NpUsed, Failed
    <2>3. cwd'[p] = cwd[p] /\ ofile'[p] = ofile[p]
      BY <1>1 DEF unlink_ip, TypeInv
    <2>4. \A i \in Inums : ref'[i] = ref[i] /\ ref[i] \in Int
      <3>1. ref' = ref
        BY DEF unlink_ip
      <3> QED
        BY <1>1, <3>1, RefAt
    <2> HIDE DEF t, u, unlink_ip
    <2> QED
      BY <1>3, <2>1, <2>2, <2>3, <2>4, NonePointer DEF Own, One, t, u
  <1>6. \A q \in Procs \ {p} : Still(q)
    BY <1>1, <1>2 DEF Still, OthersStay, unlink_ip, TypeInv
  <1>7. RefExact' /\ ref' \in [Inums -> Nat]
    BY <1>1, <1>4, <1>5, <1>6, RefStep
  <1>8. LockInv' /\ lock' \in [Inums -> Procs \cup {Nobody}]
    <2>1. lock[t.ip] = Nobody /\ t.ip \in Inums /\ t.dp \in Inums
      BY <1>1, <1>3, UnlinkIpMoves DEF unlink_ip, Locks
    <2>2. lock' = [lock EXCEPT ![t.ip] = p, ![t.dp] = Nobody]
      BY DEF unlink_ip
    <2>3. LocksHeld(p) = {t.dp}
      BY SMTT(60), <1>1, <1>3, UnlinkIpMoves, ThreadAt, NonePointer DEF LocksHeld, Where, DpLocked, IpLocked, IputPoints, Become, Failed
    <2>4. LocksHeld(p)' = {t.ip}
      BY SMTT(60), <1>1, <1>3, UnlinkIpMoves, ThreadAt, NonePointer DEF LocksHeld, Where, DpLocked, IpLocked, IputPoints, Become, Failed
    <2>5. Apart(p)'
      BY <1>1, <1>3, UnlinkIpMoves DEF Apart, Become
    <2> QED
      BY <1>1, <1>2, <2>1, <2>2, <2>3, <2>4, <2>5, LockPass
  <1>9. TypeInv'
    <2>1. Name(p) \in Elems
      BY <1>3, <1>1, ThreadAt DEF ThreadOk, Where, IputPoints, Name
    <2>2. Content(t.ip) \in Records /\ Linked(t.dp, IF IsDir(t.ip) THEN -1 ELSE 0) \in Records
      BY <1>1, <1>3, ContentType, LinkedType
    <2>3. inode' \in [Inums -> Records] /\ dinode' \in [Inums -> Records]
      BY <1>1, <1>3, <2>2 DEF TypeInv, unlink_ip
    <2>4. ent' \in [Inums -> [Elems -> Pointers]]
      BY <1>1, <1>3, <2>1, NonePointer DEF TypeInv, unlink_ip
    <2> QED
      BY <1>1, <1>2, <1>3, <1>7, <1>8, <2>3, <2>4 DEF TypeInv, unlink_ip
  <1> QED
    BY <1>2, <1>7, <1>8, <1>9, <1>1, ThreadStep DEF RefInv

LEMMA CreateNewRef == ASSUME NEW p \in Procs, RefInv, create_new(p) PROVE RefInv'
  <1> DEFINE t == th[p]
             u == th'[p]
  <1>1. TypeInv /\ ThreadInv /\ RefExact /\ LockInv
    BY DEF RefInv
  <1>2. th' \in [Procs -> Threads] /\ OthersStay(p) /\ ThreadOk(p)'
    BY <1>1, CreateNewMoves
  <1>3. t.pc = "create_new" /\ t.np = None /\ t.putting = None /\ t.cont = "user" /\ t.ip \in Inums /\ t.dp \in Inums
    BY <1>1, CreateNewMoves, ThreadAt, NonePointer DEF ThreadOk, Where, NpUsed, IpUsed, DpUsed, IputPoints, OpsAt, Creating
  <1>4. ref' \in [Inums -> Int]
    BY <1>1, RefSame DEF create_new
  <1>5. \A i \in Inums : ref'[i] - ref[i] = Own(p, i)' - Own(p, i)
    <2>1. u.np = t.np /\ u.ip = t.ip /\ u.dp = None /\ u.putting = t.dp
      BY <1>1, CreateNewMoves DEF Become
    <2>2. (Leaving(p) <=> FALSE) /\ (Leaving(p)' <=> FALSE)
      BY <1>1, <1>3, CreateNewMoves DEF Leaving, Become, NpUsed, Failed
    <2>3. cwd'[p] = cwd[p] /\ ofile'[p] = ofile[p]
      BY <1>1 DEF create_new, TypeInv
    <2>4. \A i \in Inums : ref'[i] = ref[i] /\ ref[i] \in Int
      <3>1. ref' = ref
        BY DEF create_new
      <3> QED
        BY <1>1, <3>1, RefAt
    <2> HIDE DEF t, u, create_new
    <2> QED
      BY <1>3, <2>1, <2>2, <2>3, <2>4, NonePointer DEF Own, One, t, u
  <1>6. \A q \in Procs \ {p} : Still(q)
    BY <1>1, <1>2 DEF Still, OthersStay, create_new, TypeInv
  <1>7. RefExact' /\ ref' \in [Inums -> Nat]
    BY <1>1, <1>4, <1>5, <1>6, RefStep
  <1>8. LockInv' /\ lock' \in [Inums -> Procs \cup {Nobody}]
    <2>1. lock[t.ip] = Nobody /\ t.ip \in Inums /\ t.dp \in Inums
      BY <1>1, <1>3, CreateNewMoves DEF create_new, Locks
    <2>2. lock' = [lock EXCEPT ![t.ip] = p, ![t.dp] = Nobody]
      BY DEF create_new
    <2>3. LocksHeld(p) = {t.dp}
      BY SMTT(60), <1>1, <1>3, CreateNewMoves, ThreadAt, NonePointer DEF LocksHeld, Where, DpLocked, IpLocked, IputPoints, Become, Failed
    <2>4. LocksHeld(p)' = {t.ip}
      BY SMTT(60), <1>1, <1>3, CreateNewMoves, ThreadAt, NonePointer DEF LocksHeld, Where, DpLocked, IpLocked, IputPoints, Become, Failed
    <2>5. Apart(p)'
      BY <1>1, <1>3, CreateNewMoves DEF Apart, Become
    <2> QED
      BY <1>1, <1>2, <2>1, <2>2, <2>3, <2>4, <2>5, LockPass
  <1>9. TypeInv'
    <2> DEFINE isdir == Content(t.ip).type = "dir"
               new == [Content(t.ip) EXCEPT !.nlink = 1]
               dir == Linked(t.dp, IF isdir THEN 1 ELSE 0)
               dots == [NoEntries EXCEPT !["."] = t.ip, ![".."] = t.dp]
    <2>1. Name(p) \in Elems
      BY <1>3, <1>1, ThreadAt DEF ThreadOk, Where, IputPoints, Name
    <2>2. new \in Records /\ dir \in Records
      <3>1. Content(t.ip) \in Records
        BY <1>1, <1>3, ContentType
      <3>2. new \in Records
        BY <3>1 DEF Records
      <3> QED
        BY <1>1, <1>3, <3>2, LinkedType
    <2>3. dots \in [Elems -> Pointers]
      BY <1>3, NonePointer DEF NoEntries
    <2>4. /\ inode' = [inode EXCEPT ![t.ip] = new, ![t.dp] = dir]
          /\ dinode' = [dinode EXCEPT ![t.ip] = new, ![t.dp] = dir]
          /\ ent' = [ent EXCEPT ![t.ip] = IF isdir THEN dots ELSE @, ![t.dp][Name(p)] = t.ip]
      BY DEF create_new
    <2> HIDE DEF new, dir, isdir, dots
    <2>5. inode' \in [Inums -> Records] /\ dinode' \in [Inums -> Records]
      BY <1>1, <1>3, <2>2, <2>4 DEF TypeInv
    <2>6. ent' \in [Inums -> [Elems -> Pointers]]
      BY <1>1, <1>3, <2>1, <2>3, <2>4, NonePointer DEF TypeInv
    <2> QED
      BY <1>1, <1>2, <1>3, <1>7, <1>8, <2>5, <2>6 DEF TypeInv, create_new
  <1> QED
    BY <1>2, <1>7, <1>8, <1>9, <1>1, ThreadStep DEF RefInv

LEMMA IallocRef == ASSUME NEW p \in Procs, NEW k \in Inums, RefInv, ialloc(p, k) PROVE RefInv'
  <1> DEFINE t == th[p]
             u == th'[p]
  <1>1. TypeInv /\ ThreadInv /\ RefExact /\ LockInv
    BY DEF RefInv
  <1>2. th' \in [Procs -> Threads] /\ OthersStay(p) /\ ThreadOk(p)'
    BY <1>1, IallocMoves
  <1>3. t.pc = "parent" /\ t.putting = None /\ t.cont = "user" /\ t.dp \in Inums /\ t.np = None /\ t.op \in Creating /\ t.ip = None
    BY <1>1, IallocMoves, ThreadAt, NonePointer DEF ThreadOk, Where, NpUsed, IpUsed, DpUsed, IputPoints, OpsAt, Creating
  <1>4. ref' \in [Inums -> Int]
    BY <1>1, <1>3, IallocMoves, IgetType DEF ialloc
  <1>5. \A i \in Inums : ref'[i] - ref[i] = Own(p, i)' - Own(p, i)
    <2>1. u.np = t.np /\ u.ip = k /\ u.dp = t.dp /\ u.putting = t.putting
      BY <1>1, IallocMoves DEF Become
    <2>2. (Leaving(p) <=> FALSE) /\ (Leaving(p)' <=> FALSE)
      BY <1>1, <1>3, IallocMoves DEF Leaving, Become, NpUsed, Failed
    <2>3. cwd'[p] = cwd[p] /\ ofile'[p] = ofile[p]
      BY <1>1 DEF ialloc, TypeInv
    <2>4. \A i \in Inums : ref'[i] = ref[i] + One(i = k) /\ ref[i] \in Int
      <3>1. iget(k) /\ k \in Inums
        BY <1>1, IallocMoves DEF ialloc
      <3> QED
        BY <1>1, <3>1, IgetAt, RefAt
    <2> HIDE DEF t, u, ialloc
    <2> QED
      BY <1>3, <2>1, <2>2, <2>3, <2>4, NonePointer DEF Own, One, t, u
  <1>6. \A q \in Procs \ {p} : Still(q)
    BY <1>1, <1>2 DEF Still, OthersStay, ialloc, TypeInv
  <1>7. RefExact' /\ ref' \in [Inums -> Nat]
    BY <1>1, <1>4, <1>5, <1>6, RefStep
  <1>8. LockInv' /\ lock' \in [Inums -> Procs \cup {Nobody}]
    <2>1. lock[t.dp] = Nobody /\ t.dp \in Inums /\ lock' = [lock EXCEPT ![t.dp] = p]
      BY <1>1, <1>3, IallocMoves DEF ialloc, Locks, Creates, Unlinks, Links, At
    <2>2. LocksHeld(p) = {}
      BY SMTT(60), <1>1, <1>3, IallocMoves, ThreadAt, NonePointer DEF LocksHeld, Where, DpLocked, IpLocked, IputPoints, Become, Failed
    <2>3. LocksHeld(p)' = {t.dp}
      BY SMTT(60), <1>1, <1>3, IallocMoves, ThreadAt, NonePointer DEF LocksHeld, Where, DpLocked, IpLocked, IputPoints, Become, Failed
    <2>4. Apart(p)'
      BY <1>1, <1>3, IallocMoves DEF Apart, Become
    <2> QED
      BY <1>1, <1>2, <2>1, <2>2, <2>3, <2>4, LockTake
  <1>9. TypeInv'
    <2>1. inode' \in [Inums -> Records] /\ valid' \in [Inums -> BOOLEAN]
      BY <1>1, <1>3, IallocMoves, ReadType DEF ialloc
    <2>2. [type |-> Type(t), nlink |-> 0] \in Records
      BY <1>1, <1>3, ThreadAt DEF ThreadOk, Type, Creating, Records
    <2>3. dinode' \in [Inums -> Records]
      BY <1>1, <2>2 DEF TypeInv, ialloc
    <2>4. ent' \in [Inums -> [Elems -> Pointers]]
      BY <1>1, NonePointer DEF TypeInv, ialloc, NoEntries
    <2> QED
      BY <1>1, <1>2, <1>3, <1>7, <1>8, <2>1, <2>3, <2>4 DEF TypeInv, ialloc
  <1> QED
    BY <1>2, <1>7, <1>8, <1>9, <1>1, ThreadStep DEF RefInv

LEMMA CreatedRef == ASSUME NEW p \in Procs, RefInv, created(p) PROVE RefInv'
  <1> DEFINE t == th[p]
             u == th'[p]
  <1>1. TypeInv /\ ThreadInv /\ RefExact /\ LockInv
    BY DEF RefInv
  <1>2. th' \in [Procs -> Threads] /\ OthersStay(p) /\ ThreadOk(p)'
    BY <1>1, CreatedMoves
  <1>3. t.pc = "created" /\ t.np = None /\ t.putting = None /\ t.cont = "user" /\ t.ip \in Inums /\ t.dp = None
    BY <1>1, CreatedMoves, ThreadAt, NonePointer DEF ThreadOk, Where, NpUsed, IpUsed, DpUsed, IputPoints, OpsAt, Creating
  <1>4. ref' \in [Inums -> Int]
    BY <1>1, RefSame DEF created
  <1>5. \A i \in Inums : ref'[i] - ref[i] = Own(p, i)' - Own(p, i)
    <2>0. \A j \in Inums : ref'[j] = ref[j] /\ ref[j] \in Int
      <3>1. ref' = ref
        BY DEF created
      <3> QED
        BY <1>1, <3>1, RefAt
    <2>1. CASE t.op = "create" /\ ofile[p] = None
      <3>1. u.np = None /\ u.ip = None /\ u.dp = None /\ u.putting = None
        BY <1>1, <2>1, CreatedMoves DEF Become
      <3>2. ~Leaving(p) /\ ~Leaving(p)'
        BY <1>1, <1>3, <2>1, CreatedMoves DEF Leaving, Become
      <3>3. cwd'[p] = cwd[p] /\ ofile'[p] = t.ip /\ ofile[p] = None
        BY <1>1, <2>1 DEF created, TypeInv
      <3> HIDE DEF t, u, created
      <3> QED
        BY <1>3, <2>0, <3>1, <3>2, <3>3, NonePointer DEF Own, One, t, u
    <2>2. CASE ~(t.op = "create" /\ ofile[p] = None)
      <3>1. u.np = None /\ u.ip = None /\ u.dp = None /\ u.putting = t.ip
        BY <1>1, <1>3, <2>2, CreatedMoves DEF Become
      <3>2. ~Leaving(p) /\ ~Leaving(p)'
        BY <1>1, <1>3, <2>2, CreatedMoves DEF Leaving, Become
      <3>3. cwd'[p] = cwd[p] /\ ofile'[p] = ofile[p]
        BY <1>1, <2>2 DEF created, TypeInv
      <3> HIDE DEF t, u, created
      <3> QED
        BY <1>3, <2>0, <3>1, <3>2, <3>3, NonePointer DEF Own, One, t, u
    <2> QED
      BY <2>1, <2>2
  <1>6. \A q \in Procs \ {p} : Still(q)
    BY <1>1, <1>2 DEF Still, OthersStay, created, TypeInv
  <1>7. RefExact' /\ ref' \in [Inums -> Nat]
    BY <1>1, <1>4, <1>5, <1>6, RefStep
  <1>8. LockInv' /\ lock' \in [Inums -> Procs \cup {Nobody}]
    <2>1. t.ip \in LocksHeld(p) /\ t.ip \in Inums
      BY SMTT(60), <1>1, <1>3, CreatedMoves DEF LocksHeld, Where, DpLocked, IpLocked, IputPoints, Become, Failed
    <2>2. lock' = [lock EXCEPT ![t.ip] = Nobody]
      BY DEF created
    <2>3. LocksHeld(p) = {t.ip}
      BY SMTT(60), <1>1, <1>3, CreatedMoves, ThreadAt, NonePointer DEF LocksHeld, Where, DpLocked, IpLocked, IputPoints, Become, Failed
    <2>4. LocksHeld(p)' = {}
      BY SMTT(60), <1>1, <1>3, CreatedMoves, ThreadAt, NonePointer DEF LocksHeld, Where, DpLocked, IpLocked, IputPoints, Become, Failed
    <2>5. Apart(p)'
      BY <1>1, <1>3, CreatedMoves DEF Apart, Become
    <2> QED
      BY <1>1, <1>2, <2>1, <2>2, <2>3, <2>4, <2>5, LockDrop
  <1>9. TypeInv'
    <2>1. ofile' \in [Procs -> Pointers]
      BY <1>1, <1>3, NonePointer DEF TypeInv, created
    <2> QED
      BY <1>1, <1>2, <1>7, <1>8, <2>1 DEF TypeInv, created
  <1> QED
    BY <1>2, <1>7, <1>8, <1>9, <1>1, ThreadStep DEF RefInv

LEMMA IputRef == ASSUME NEW p \in Procs, RefInv, iput(p) PROVE RefInv'
  <1> DEFINE t == th[p]
             u == th'[p]
  <1>1. TypeInv /\ ThreadInv /\ RefExact /\ LockInv
    BY DEF RefInv
  <1>2. th' \in [Procs -> Threads] /\ OthersStay(p) /\ ThreadOk(p)'
    BY <1>1, IputMoves
  <1>3. t.pc \in {"iput", "ref"} /\ t.putting \in Inums
    BY <1>1, IputMoves, ThreadAt, NonePointer DEF ThreadOk, Where, NpUsed, IpUsed, DpUsed, IputPoints, OpsAt, Creating
  <1>4. ref' \in [Inums -> Int]
    BY <1>1, <1>3 DEF TypeInv, iput
  <1>5. \A i \in Inums : ref'[i] - ref[i] = Own(p, i)' - Own(p, i)
    <2>0. cwd'[p] = cwd[p] /\ ofile'[p] = ofile[p]
      BY DEF iput
    <2>1. \A j \in Inums : ref'[j] = ref[j] - One(j = t.putting) /\ ref[j] \in Int
      <3>1. ref' = [ref EXCEPT ![t.putting] = @ - 1]
        BY DEF iput
      <3> QED
        BY <1>1, <3>1 DEF One, TypeInv
    <2>2. Leaving(p)' <=> Leaving(p)
      BY <1>1, <1>3, IputMoves DEF Leaving, Become
    <2>3. u.np = t.np /\ u.ip = t.ip /\ u.dp = t.dp /\ u.putting = None
      <3>1. CASE t.cont = "user"
        BY <1>1, <1>3, <3>1, IputMoves, ThreadAt, NonePointer DEF Become, ThreadOk, Where, NpUsed, IpUsed, DpUsed, IputPoints
      <3>2. CASE t.cont # "user"
        BY <1>1, <1>3, <3>2, IputMoves DEF Become
      <3> QED
        BY <3>1, <3>2
    <2> HIDE DEF t, u, iput
    <2> QED
      BY <1>3, <2>0, <2>1, <2>2, <2>3, NonePointer DEF Own, One, t, u
  <1>6. \A q \in Procs \ {p} : Still(q)
    BY <1>1, <1>2 DEF Still, OthersStay, iput, TypeInv
  <1>7. RefExact' /\ ref' \in [Inums -> Nat]
    BY <1>1, <1>4, <1>5, <1>6, RefStep
  <1>8. TypeInv'
    <2>1. inode' \in [Inums -> Records]
      BY <1>1, <1>3, FreeType DEF TypeInv, iput
    <2> QED
      BY <1>1, <1>2, <1>7, <2>1 DEF TypeInv, iput
  <1>9. LockInv'
    <2>1. LocksHeld(p)' = LocksHeld(p)
      BY SMTT(60), <1>1, <1>3, IputMoves, ThreadAt DEF LocksHeld, Where, DpLocked, IpLocked, IputPoints, Become, ThreadOk
    <2>2. th'[p].pc \notin {"itrunc", "invalidate"}
      BY <1>1, <1>3, IputMoves, ThreadAt DEF Become, ThreadOk, Where, IputPoints
    <2>3. UNCHANGED lock
      BY DEF iput
    <2> QED
      BY <1>1, <1>2, <2>1, <2>2, <2>3, LockSame
  <1> QED
    BY <1>2, <1>7, <1>8, <1>9, <1>1, ThreadStep DEF RefInv

LEMMA StutterRef == ASSUME RefInv, UNCHANGED vars PROVE RefInv'
  <1>1. UNCHANGED <<dinode, ent, dropped, inode, valid, ref, lock, cwd, ofile, th>>
    BY DEF vars
  <1>2. TypeInv' /\ ThreadInv'
    BY <1>1 DEF RefInv, TypeInv, ThreadInv, ThreadOk, Where
  <1>3. RefExact'
    BY <1>1 DEF RefInv, RefExact, Holders, Pointer, Leaving
  <1>4. LockInv'
    BY <1>1 DEF RefInv, LockInv, LocksHeld, Where
  <1> QED
    BY <1>2, <1>3, <1>4 DEF RefInv

LEMMA InitRef == ASSUME Init PROVE RefInv
  <1> USE Constants
  <1>1. \A p \in Procs : th[p] = Idle /\ cwd[p] = ROOTINO /\ ofile[p] = None
    BY DEF Init
  <1>2. TypeInv
    <2>1. Idle \in Threads
      BY IdleRecord DEF Become
    <2>2. Cardinality(Procs) \in Nat
      BY FS_CardinalityType
    <2>3. FreeInode \in Records /\ [type |-> "dir", nlink |-> 1] \in Records
      BY DEF FreeInode, Records
    <2>4. NoEntries \in [Elems -> Pointers] /\ [NoEntries EXCEPT !["."] = ROOTINO, ![".."] = ROOTINO] \in [Elems -> Pointers]
      BY NonePointer DEF NoEntries
    <2>5. dinode \in [Inums -> Records] /\ inode \in [Inums -> Records] /\ ent \in [Inums -> [Elems -> Pointers]]
      BY <2>3, <2>4 DEF Init
    <2>6. valid \in [Inums -> BOOLEAN] /\ ref \in [Inums -> Nat] /\ lock \in [Inums -> Procs \cup {Nobody}]
          /\ dropped \in [Inums -> Nat]
      BY <2>2 DEF Init
    <2>7. cwd \in [Procs -> Inums] /\ ofile \in [Procs -> Pointers] /\ th \in [Procs -> Threads]
      BY <2>1, NonePointer DEF Init
    <2> QED
      BY <2>5, <2>6, <2>7 DEF TypeInv
  <1>3. ThreadInv
    BY <1>1, IdleRecord DEF ThreadInv, ThreadOk, Where, Become, NpUsed, DpUsed, IpUsed, IputPoints, OpsAt
  <1>4. RefExact
    <2> SUFFICES ASSUME NEW i \in Inums PROVE ref[i] = Cardinality(Holders(i))
      BY DEF RefExact
    <2>1. \A p \in Procs : Pointer(p, "cwd") = ROOTINO /\ \A f \in Fields \ {"cwd"} : Pointer(p, f) = None
      BY <1>1, IdleRecord DEF Pointer, Fields, Leaving, Become
    <2>2. CASE i = ROOTINO
      <3>1. Holders(i) = Procs \X {"cwd"}
        BY <2>1, <2>2 DEF Holders, Fields
      <3>2. IsFiniteSet({"cwd"}) /\ Cardinality({"cwd"}) = 1
        BY FS_Singleton
      <3>3. Cardinality(Procs \X {"cwd"}) = Cardinality(Procs) * 1
        BY <3>2, FS_Product
      <3>4. Cardinality(Procs) \in Nat
        BY FS_CardinalityType
      <3>5. ref[i] = Cardinality(Procs)
        BY <2>2 DEF Init
      <3> QED
        BY <3>1, <3>3, <3>4, <3>5
    <2>3. CASE i # ROOTINO
      <3>1. Holders(i) = {}
        BY <2>1, <2>3 DEF Holders
      <3>2. ref[i] = 0
        BY <2>3 DEF Init
      <3> QED
        BY <3>1, <3>2, FS_EmptySet
    <2> QED
      BY <2>2, <2>3
  <1>5. LockInv
    <2>1. \A p \in Procs : LocksHeld(p) = {} /\ th[p].pc = "user"
      BY SMTT(60), <1>1, IdleRecord DEF LocksHeld, Where, Become, DpLocked, IpLocked, IputPoints
    <2>2. \A i \in Inums : lock[i] = Nobody
      BY DEF Init
    <2> QED
      BY <2>1, <2>2 DEF LockInv
  <1> QED
    BY <1>2, <1>3, <1>4, <1>5 DEF RefInv

LEMMA NextRef == ASSUME RefInv, [Next]_vars PROVE RefInv'
  <1>1. CASE UNCHANGED vars
    BY <1>1, StutterRef
  <1>2. CASE Next
    <2>1. PICK p \in Procs :
            \/ \E c \in Calls[p] : syscall(p, c)
            \/ sys_close(p)
            \/ iput(p) \/ iput_last(p) \/ itrunc(p) \/ invalidate(p)
            \/ namex_next(p) \/ namex_fails(p) \/ namex_parent(p) \/ namex_end(p)
            \/ sys_open(p) \/ open_fails(p)
            \/ create_exists(p) \/ (\E i \in Inums : ialloc(p, i)) \/ ialloc_panic(p)
            \/ create_new(p) \/ created(p)
            \/ unlink_fails(p) \/ unlink_dp(p) \/ unlink_ip(p) \/ unlink_nlink(p) \/ unlink_notempty(p)
            \/ bad(p)
            \/ link_dir(p) \/ link_nlink(p) \/ dirlink(p) \/ dirlink_fails(p) \/ link_end(p) \/ undo(p)
            \/ sys_chdir(p) \/ chdir_end(p) \/ panic(p)
      BY <1>2 DEF Next
    <2>2. ASSUME NEW c \in Calls[p], syscall(p, c) PROVE RefInv'
      BY <2>2, SysCallRef
    <2>3. ASSUME NEW i \in Inums, ialloc(p, i) PROVE RefInv'
      BY <2>3, IallocRef
    <2>4. ASSUME sys_close(p) \/ iput(p) \/ iput_last(p) \/ itrunc(p) \/ invalidate(p) PROVE RefInv'
      BY <2>4, CloseRef, IputRef, IputLastRef, ItruncRef, InvalidateRef
    <2>5. ASSUME namex_next(p) \/ namex_fails(p) \/ namex_parent(p) \/ namex_end(p) PROVE RefInv'
      BY <2>5, NamexNextRef, NamexFailsRef, NamexParentRef, NamexEndRef
    <2>6. ASSUME sys_open(p) \/ open_fails(p) \/ create_exists(p) \/ ialloc_panic(p) \/ create_new(p) \/ created(p)
          PROVE  RefInv'
      BY <2>6, SysOpenRef, OpenFailsRef, CreateExistsRef, IallocPanicRef, CreateNewRef, CreatedRef
    <2>7. ASSUME \/ unlink_fails(p) \/ unlink_dp(p) \/ unlink_ip(p) \/ unlink_nlink(p)
                 \/ unlink_notempty(p) \/ bad(p)
          PROVE  RefInv'
      BY <2>7, UnlinkFailsRef, UnlinkDpRef, UnlinkIpRef, UnlinkNlinkRef, UnlinkNotEmptyRef, BadRef
    <2>8. ASSUME link_dir(p) \/ link_nlink(p) \/ dirlink(p) \/ dirlink_fails(p) \/ link_end(p) \/ undo(p)
          PROVE  RefInv'
      BY <2>8, LinkDirRef, LinkNlinkRef, DirlinkRef, DirlinkFailsRef, LinkEndRef, UndoRef
    <2>9. ASSUME sys_chdir(p) \/ chdir_end(p) PROVE RefInv'
      BY <2>9, ChdirRef, ChdirEndRef
    <2>10. ASSUME panic(p) PROVE RefInv'
      BY <2>10, StutterRef DEF panic
    <2> QED
      BY <2>1, <2>2, <2>3, <2>4, <2>5, <2>6, <2>7, <2>8, <2>9, <2>10
  <1> QED
    BY <1>1, <1>2

(* Reference counts, sleep locks and local variables, for any calls of any *)
(* number of processes: the ".." of a removed directory (NoDeletedLookup)  *)
(* may lead a lookup anywhere, but never to a count that is off.           *)
THEOREM References == Spec => []RefInv
  <1>1. Init => RefInv
    BY InitRef
  <1>2. RefInv /\ [Next]_vars => RefInv'
    BY NextRef
  <1> QED
    BY <1>1, <1>2, PTL DEF Spec

(* ip->ref is the number of pointers to the inode.                         *)
THEOREM ReferenceCounts == Spec => []RefExact
  <1>1. RefInv => RefExact
    BY DEF RefInv
  <1> QED
    BY <1>1, References, PTL

(* Whoever has an inode locked has a pointer to it, so that with ref = 1   *)
(* it can only be the process in iput() itself.                            *)
LEMMA LastIputFree == ASSUME RefInv PROVE IputNeverBlocks
  <1> SUFFICES ASSUME NEW p \in Procs, At(p, "iput"), LastLink(th[p].putting), lock[th[p].putting] # Nobody
               PROVE  FALSE
    BY DEF IputNeverBlocks
  <1> DEFINE i == th[p].putting
             q == lock[i]
  <1>1. TypeInv /\ ThreadInv /\ RefExact /\ LockInv
    BY DEF RefInv
  <1>2. i \in Inums /\ q \in Procs
    <2>1. i \in Inums
      BY <1>1, ThreadAt DEF ThreadOk, IputPoints, At
    <2> QED
      BY <1>1, <2>1 DEF TypeInv
  <1>3. i \in LocksHeld(q)
    BY <1>1, <1>2, HeldLocks
  <1>4. <<p, "putting">> \in Holders(i)
    BY <1>2 DEF Holders, Pointer, Fields
  <1>5. PICK f \in {"ip", "dp"} : <<q, f>> \in Holders(i)
    <2>1. ~(th[q].pc \in {"itrunc", "invalidate"} /\ th[q].putting = i)
      <3> SUFFICES ASSUME th[q].pc \in {"itrunc", "invalidate"}, th[q].putting = i PROVE FALSE
        OBVIOUS
      <3>1. <<q, "putting">> \in Holders(i)
        BY <1>2 DEF Holders, Pointer, Fields
      <3>2. <<q, "putting">> = <<p, "putting">>
        BY <1>1, <1>2, <1>4, <3>1, SoleHolder DEF LastLink
      <3> QED
        BY <3>2 DEF At
    <2>2. i = th[q].dp \/ i = th[q].ip
      BY SMTT(60), <1>3, <2>1 DEF LocksHeld
    <2>3. Pointer(q, "ip") = th[q].ip /\ Pointer(q, "dp") = th[q].dp
      BY DEF Pointer
    <2> QED
      BY <1>2, <2>2, <2>3 DEF Holders, Fields
  <1>6. <<q, f>> = <<p, "putting">>
    BY <1>1, <1>2, <1>4, <1>5, SoleHolder DEF LastLink
  <1> QED
    BY <1>5, <1>6

(* "ip->ref == 1 means no other process can have ip locked, so this        *)
(* acquiresleep() won't block (or deadlock)" (fs.c:341).                   *)
THEOREM IputDoesNotWait == Spec => []IputNeverBlocks
  <1>1. RefInv => IputNeverBlocks
    BY LastIputFree
  <1> QED
    BY <1>1, References, PTL

-----------------------------------------------------------------------------
(* Link counts.  The theorems are about the behaviours in which no lookup  *)
(* follows the ".." of a removed directory to where there is no directory  *)
(* of that name any more, DotDotNamed: NoDeletedLookup says what happens   *)
(* otherwise.                                                              *)

(* The inode that p is about to count an entry of.                         *)
PendingOf(p) == IF th[p].op \in {"link2", "unlink2"} THEN th[p].ip ELSE None

LEMMA PendingSet ==
  ASSUME NEW i \in Inums
  PROVE  /\ Pending(i) = Cardinality({p \in Procs : PendingOf(p) = i})
         /\ IsFiniteSet({p \in Procs : PendingOf(p) = i}) /\ Pending(i) \in Nat
  <1>1. {p \in Procs : th[p].op \in {"link2", "unlink2"} /\ th[p].ip = i} = {p \in Procs : PendingOf(p) = i}
    BY NonePointer DEF PendingOf
  <1>2. IsFiniteSet({p \in Procs : PendingOf(p) = i})
    BY Constants, FS_Subset
  <1> QED
    BY <1>1, <1>2, FS_CardinalityType DEF Pending

LEMMA PendingSetNext ==
  ASSUME NEW i \in Inums
  PROVE  /\ Pending(i)' = Cardinality({p \in Procs : PendingOf(p)' = i})
         /\ IsFiniteSet({p \in Procs : PendingOf(p)' = i}) /\ Pending(i)' \in Nat
  <1>1. {p \in Procs : th'[p].op \in {"link2", "unlink2"} /\ th'[p].ip = i} = {p \in Procs : PendingOf(p)' = i}
    BY NonePointer DEF PendingOf
  <1>2. IsFiniteSet({p \in Procs : PendingOf(p)' = i})
    BY Constants, FS_Subset
  <1> QED
    BY <1>1, <1>2, FS_CardinalityType DEF Pending

(* A step of p changes Pending by what p has pending before and after it.  *)
LEMMA PendingStep ==
  ASSUME NEW p \in Procs, OthersStay(p), NEW i \in Inums
  PROVE  /\ Pending(i)' = Pending(i) + One(PendingOf(p)' = i) - One(PendingOf(p) = i)
         /\ Pending(i) \in Nat /\ Pending(i)' \in Nat
  <1> DEFINE S == {q \in Procs : PendingOf(q) = i}
             T == {q \in Procs : PendingOf(q)' = i}
             R == {q \in Procs \ {p} : PendingOf(q) = i}
  <1>1. Pending(i) = Cardinality(S) /\ IsFiniteSet(S) /\ Pending(i) \in Nat
    BY PendingSet
  <1>2. Pending(i)' = Cardinality(T) /\ IsFiniteSet(T) /\ Pending(i)' \in Nat
    BY PendingSetNext
  <1>3. IsFiniteSet(R) /\ p \notin R /\ Cardinality(R) \in Nat
    BY <1>1, FS_Subset, FS_CardinalityType
  <1>4. S = IF PendingOf(p) = i THEN R \cup {p} ELSE R
    OBVIOUS
  <1>5. T = IF PendingOf(p)' = i THEN R \cup {p} ELSE R
    <2>1. \A q \in Procs \ {p} : PendingOf(q)' = PendingOf(q)
      BY DEF OthersStay, PendingOf
    <2> HIDE DEF PendingOf
    <2> QED
      BY <2>1
  <1> HIDE DEF S, T, R
  <1>6. Cardinality(S) = Cardinality(R) + One(PendingOf(p) = i)
    BY SMTT(60), <1>3, <1>4, FS_AddElement DEF One
  <1>7. Cardinality(T) = Cardinality(R) + One(PendingOf(p)' = i)
    BY <1>3, <1>5, FS_AddElement DEF One
  <1>8. One(PendingOf(p) = i) \in Int /\ One(PendingOf(p)' = i) \in Int
    BY DEF One
  <1> QED
    BY <1>1, <1>2, <1>3, <1>6, <1>7, <1>8

LEMMA EntriesFinite == ASSUME NEW i PROVE IsFiniteSet(Entries(i)) /\ Cardinality(Entries(i)) \in Nat
  <1>1. IsFiniteSet(Names \cup {".."})
    BY Constants, FS_AddElement
  <1>2. IsFiniteSet(Inums \X (Names \cup {".."}))
    BY <1>1, Constants, FS_Product
  <1>3. Entries(i) \in SUBSET (Inums \X (Names \cup {".."}))
    BY DEF Entries
  <1>4. IsFiniteSet(Entries(i))
    BY <1>2, <1>3, FS_Subset
  <1> QED
    BY <1>4, FS_CardinalityType

LEMMA EntriesFiniteNext == ASSUME NEW i PROVE IsFiniteSet(Entries(i)') /\ Cardinality(Entries(i)') \in Nat
  <1>1. IsFiniteSet(Names \cup {".."})
    BY Constants, FS_AddElement
  <1>2. IsFiniteSet(Inums \X (Names \cup {".."}))
    BY <1>1, Constants, FS_Product
  <1>3. Entries(i)' \in SUBSET (Inums \X (Names \cup {".."}))
    BY DEF Entries
  <1>4. IsFiniteSet(Entries(i)')
    BY <1>2, <1>3, FS_Subset
  <1> QED
    BY <1>4, FS_CardinalityType

(* An inode with no links has no entry, no entry to come, and had none     *)
(* that went with its directory.                                           *)
LEMMA NoLinks ==
  ASSUME TypeInv, LinkInv, NEW i \in Inums, dinode[i].nlink = 0
  PROVE  Entries(i) = {} /\ Pending(i) = 0 /\ dropped[i] = 0
  <1>1. Cardinality(Entries(i)) \in Nat /\ Pending(i) \in Nat /\ dropped[i] \in Nat
    BY EntriesFinite, PendingSet DEF TypeInv
  <1>2. Cardinality(Entries(i)) + Pending(i) + dropped[i] = 0
    BY DEF LinkInv
  <1>3. \A a, b, c \in Nat : a + b + c = 0 => a = 0 /\ b = 0 /\ c = 0
    OBVIOUS
  <1>4. Cardinality(Entries(i)) = 0 /\ Pending(i) = 0 /\ dropped[i] = 0
    BY <1>1, <1>2, <1>3
  <1> QED
    BY <1>4, EntriesFinite, FS_EmptySet

(* What anybody may lock, look into or refer to.                           *)
Public(i) ==
  /\ Alive(i)
  /\ \A q \in Procs : ~Creator(q, i) /\ ~(th[q].pc \in {"itrunc", "invalidate"} /\ th[q].putting = i)
PublicOrNone(i) == i \in Inums => Public(i)

LEMMA Holding ==
  ASSUME NEW p \in Procs, NEW f \in Fields, NEW i, Pointer(p, f) = i
  PROVE  <<p, f>> \in Holders(i)
  BY DEF Holders

(* Whoever truncates an inode holds the only pointer to it.                *)
LEMMA TruncSole ==
  ASSUME RefInv, NlinkInv, NEW q \in Procs, th[q].pc = "itrunc", NEW i \in Inums, th[q].putting = i,
         NEW x \in Holders(i)
  PROVE  x = <<q, "putting">>
  <1>1. <<q, "putting">> \in Holders(i)
    BY Holding, PtrAt DEF Fields
  <1>2. ref[i] = 1 /\ RefExact
    BY DEF RefInv, NlinkInv, TruncInv
  <1> QED
    BY <1>1, <1>2, SoleHolder

LEMMA TruncLinks ==
  ASSUME RefInv, NlinkInv, NEW q \in Procs, th[q].pc = "itrunc", NEW i \in Inums, th[q].putting = i
  PROVE  Alive(i) /\ dinode[i].nlink = 0 /\ Entries(i) = {} /\ Pending(i) = 0 /\ dropped[i] = 0
  <1>1. valid[i] /\ inode[i].nlink = 0
    BY DEF NlinkInv, TruncInv
  <1>2. ~Invalidating(i)
    <2> SUFFICES ASSUME NEW r \in Procs, th[r].pc = "invalidate", th[r].putting = i PROVE FALSE
      BY DEF Invalidating
    <2>1. <<r, "putting">> \in Holders(i)
      BY Holding, PtrAt DEF Fields
    <2>2. <<r, "putting">> = <<q, "putting">>
      BY <2>1, TruncSole
    <2> QED
      BY <2>2
  <1>3. Alive(i) /\ inode[i] = dinode[i]
    BY <1>1, <1>2 DEF NlinkInv, CacheInv
  <1> QED
    BY <1>1, <1>3, NoLinks DEF RefInv, NlinkInv

LEMMA HeldPublic ==
  ASSUME RefInv, NlinkInv, NEW p \in Procs, NEW f \in Fields, NEW i \in Inums, Pointer(p, f) = i,
         ~(f = "putting" /\ th[p].pc \in {"itrunc", "invalidate", "ref"}),
         ~(f = "ip" /\ th[p].pc = "create_new")
  PROVE  Public(i)
  <1>1. <<p, f>> \in Holders(i) /\ ~Putter(<<p, f>>)
    BY Holding DEF Putter
  <1>2. Alive(i)
    BY <1>1 DEF NlinkInv, PointerInv
  <1>3. ASSUME NEW q \in Procs, Creator(q, i) PROVE FALSE
    <2>1. NewOk(q) /\ th[q].ip = i
      BY <1>3 DEF NlinkInv, NewInv, Creator
    <2>2. <<p, f>> = <<q, "ip">>
      BY <1>1, <2>1 DEF NewOk
    <2> QED
      BY <1>3, <2>2 DEF Creator
  <1>4. ASSUME NEW q \in Procs, th[q].pc = "itrunc", th[q].putting = i PROVE FALSE
    <2>1. <<p, f>> = <<q, "putting">>
      BY <1>1, <1>4, TruncSole
    <2> QED
      BY <1>4, <2>1
  <1>5. ASSUME NEW q \in Procs, th[q].pc = "invalidate", th[q].putting = i PROVE FALSE
    BY <1>2, <1>3, <1>5 DEF NlinkInv, FreedInv
  <1> QED
    BY <1>2, <1>3, <1>4, <1>5 DEF Public

LEMMA NamedPublic ==
  ASSUME RefInv, NlinkInv, NEW i \in Inums, Entries(i) # {}
  PROVE  Public(i)
  <1>0. TypeInv /\ LinkInv
    BY DEF RefInv, NlinkInv
  <1>1. dinode[i].nlink # 0
    BY <1>0, NoLinks
  <1>2. Alive(i)
    BY <1>1 DEF NlinkInv, LinkInv, Alive
  <1>3. ASSUME NEW q \in Procs, Creator(q, i) PROVE FALSE
    <2>1. NewOk(q) /\ th[q].ip = i
      BY <1>3 DEF NlinkInv, NewInv, Creator
    <2>2. dinode[i].nlink = 0
      BY <2>1 DEF NewOk
    <2> QED
      BY <1>1, <2>2
  <1>4. ASSUME NEW q \in Procs, th[q].pc = "itrunc", th[q].putting = i PROVE FALSE
    BY <1>1, <1>4, TruncLinks
  <1>5. ASSUME NEW q \in Procs, th[q].pc = "invalidate", th[q].putting = i PROVE FALSE
    BY <1>2, <1>3, <1>5 DEF NlinkInv, FreedInv
  <1> QED
    BY <1>2, <1>3, <1>4, <1>5 DEF Public

LEMMA RootPublic == ASSUME RefInv, NlinkInv PROVE Public(ROOTINO)
  <1>1. <<ROOTINO, "..">> \in Entries(ROOTINO)
    BY Constants DEF NlinkInv, TreeInv, Entries, Named
  <1> QED
    BY <1>1, Constants, NamedPublic

LEMMA PublicContent == ASSUME NlinkInv, NEW i \in Inums, Public(i) PROVE Content(i) = dinode[i]
  BY DEF NlinkInv, CacheInv, Invalidating, Public, Content

(* A directory in use has "." and "..".                                    *)
LEMMA Dots ==
  ASSUME NlinkInv, NEW d \in Inums, Public(d), dinode[d].type = "dir"
  PROVE  ent[d]["."] = d /\ ent[d][".."] # None
  BY DEF NlinkInv, TreeInv, Public

(* What a lookup returns.                                                  *)
LEMMA LookupPublic ==
  ASSUME RefInv, NlinkInv, NEW d \in Inums, Public(d), NEW n \in Elems, dirlookup(d, n) # None,
         n = ".." => Named(dirlookup(d, n))
  PROVE  dirlookup(d, n) \in Inums /\ Public(dirlookup(d, n))
  <1> DEFINE i == ent[d][n]
  <1>0. i = dirlookup(d, n)
    BY DEF dirlookup
  <1>1. i \in Inums
    BY <1>0, LookupType DEF RefInv, Pointers
  <1>2. dinode[d].type = "dir"
    BY <1>0 DEF NlinkInv, TreeInv, NoEntries
  <1>3. CASE n \in Names
    <2>1. <<d, n>> \in Entries(i)
      BY <1>3 DEF Entries
    <2> QED
      BY <1>0, <1>1, <2>1, NamedPublic
  <1>4. CASE n = "."
    BY <1>0, <1>2, <1>4, Dots
  <1>5. CASE n = ".."
    <2>1. CASE i = ROOTINO
      BY <1>0, <2>1, <1>1, RootPublic
    <2>2. CASE NamedIn(i)
      <3>1. PICK e \in Inums, m \in Names : ent[e][m] = i
        BY <2>2 DEF NamedIn
      <3>2. <<e, m>> \in Entries(i)
        BY <3>1 DEF Entries
      <3> QED
        BY <1>0, <1>1, <3>2, NamedPublic
    <2> QED
      BY <1>0, <1>5, <2>1, <2>2 DEF Named
  <1> QED
    BY <1>3, <1>4, <1>5 DEF Elems

(* The pointers of a process before its step.                              *)
LEMMA OwnPublic ==
  ASSUME RefInv, NlinkInv, NEW p \in Procs
  PROVE  LET t == th[p] IN
         /\ PublicOrNone(t.np) /\ PublicOrNone(t.dp) /\ PublicOrNone(ofile[p])
         /\ t.pc # "create_new" => PublicOrNone(t.ip)
         /\ t.pc \notin {"itrunc", "invalidate", "ref"} => PublicOrNone(t.putting)
         /\ ~Leaving(p) => PublicOrNone(cwd[p])
  <1>1. PublicOrNone(th[p].np) /\ PublicOrNone(th[p].dp) /\ PublicOrNone(ofile[p])
    BY HeldPublic, PtrAt DEF PublicOrNone, Fields
  <1>2. th[p].pc # "create_new" => PublicOrNone(th[p].ip)
    BY HeldPublic, PtrAt DEF PublicOrNone, Fields
  <1>3. th[p].pc \notin {"itrunc", "invalidate", "ref"} => PublicOrNone(th[p].putting)
    BY HeldPublic, PtrAt DEF PublicOrNone, Fields
  <1>4. ~Leaving(p) => PublicOrNone(cwd[p])
    BY HeldPublic, PtrAt DEF PublicOrNone, Fields
  <1> QED
    BY <1>1, <1>2, <1>3, <1>4

(* The pointers of p after its step.                                       *)
Points6(p) ==
  /\ ~Leaving(p)' => PublicOrNone(cwd'[p])
  /\ PublicOrNone(ofile'[p]) /\ PublicOrNone(th'[p].np) /\ PublicOrNone(th'[p].ip) /\ PublicOrNone(th'[p].dp)
  /\ PublicOrNone(th'[p].putting) \/ th'[p].pc \in {"invalidate", "ref"}

LEMMA NewPointers ==
  ASSUME NEW p \in Procs, Points6(p), NEW f \in Fields, NEW i \in Inums, Pointer(p, f)' = i
  PROVE  Public(i) \/ Putter(<<p, f>>)'
  <1>1. f \in {"cwd", "ofile", "np", "ip", "dp", "putting"}
    BY DEF Fields
  <1> QED
    BY <1>1, PtrAtNext, NonePointer DEF Points6, PublicOrNone, Putter

(* What p does to the copies in memory and to reference counts.            *)
CacheStep(p) ==
  \A i \in Inums :
    /\ inode'[i].nlink >= 0
    /\ valid'[i] => (valid[i] /\ inode'[i] = inode[i]) \/ (Alive(i) /\ inode'[i] = dinode[i])
    /\ \/ inode'[i] = inode[i] /\ valid'[i] = valid[i] /\ ref'[i] = ref[i]
       \/ \A q \in Procs \ {p} : ~(th[q].pc = "itrunc" /\ th[q].putting = i)

LEMMA NlinkType == ASSUME TypeInv, NEW i \in Inums PROVE dinode[i] \in Records /\ dinode[i].nlink \in Int
  BY DEF TypeInv, Records

LEMMA DiskNlink == ASSUME RefInv, NlinkInv, NEW i \in Inums PROVE dinode[i].nlink >= 0
  <1>1. Cardinality(Entries(i)) \in Nat /\ Pending(i) \in Nat /\ dropped[i] \in Nat
    BY EntriesFinite, PendingSet DEF RefInv, TypeInv
  <1>2. dinode[i].nlink = Cardinality(Entries(i)) + Pending(i) + dropped[i]
    BY DEF NlinkInv, LinkInv
  <1> QED
    BY <1>1, <1>2

LEMMA NoCacheStep ==
  ASSUME NlinkInv, NEW p \in Procs, UNCHANGED <<inode, valid, ref>> PROVE CacheStep(p)
  BY DEF CacheStep, NlinkInv, LinkInv

LEMMA ReadStep ==
  ASSUME RefInv, NlinkInv, NEW p \in Procs, NEW i \in Inums, Public(i), Read(i), UNCHANGED ref
  PROVE  CacheStep(p)
  <1>1. Content(i) = dinode[i] /\ dinode[i].nlink >= 0 /\ Alive(i)
    BY PublicContent, DiskNlink DEF Public
  <1>2. /\ inode'[i] = dinode[i]
        /\ \A j \in Inums \ {i} : inode'[j] = inode[j] /\ valid'[j] = valid[j] /\ ref'[j] = ref[j]
    BY <1>1 DEF Read, RefInv, TypeInv
  <1>3. \A j \in Inums : inode[j].nlink >= 0
    BY DEF NlinkInv, LinkInv
  <1> QED
    BY <1>1, <1>2, <1>3 DEF CacheStep, Public

LEMMA GetStep ==
  ASSUME RefInv, NlinkInv, NEW p \in Procs, NEW j \in Inums, Public(j), iget(j), UNCHANGED <<inode, valid>>
  PROVE  CacheStep(p)
  <1>1. \A k \in Inums \ {j} : inode'[k] = inode[k] /\ valid'[k] = valid[k] /\ ref'[k] = ref[k]
    BY DEF iget, RefInv, TypeInv
  <1>2. \A k \in Inums : inode[k].nlink >= 0
    BY DEF NlinkInv, LinkInv
  <1> QED
    BY <1>1, <1>2 DEF CacheStep, Public

LEMMA ReadGetStep ==
  ASSUME RefInv, NlinkInv, NEW p \in Procs, NEW i \in Inums, Public(i), Read(i),
         NEW j \in Inums, Public(j), iget(j)
  PROVE  CacheStep(p)
  <1>1. Content(i) = dinode[i] /\ dinode[i].nlink >= 0 /\ Alive(i)
    BY PublicContent, DiskNlink DEF Public
  <1>2. /\ inode'[i] = dinode[i]
        /\ \A k \in Inums \ {i} : inode'[k] = inode[k] /\ valid'[k] = valid[k]
        /\ \A k \in Inums \ {j} : ref'[k] = ref[k]
    BY <1>1 DEF Read, iget, RefInv, TypeInv
  <1>3. \A k \in Inums : inode[k].nlink >= 0
    BY DEF NlinkInv, LinkInv
  <1> QED
    BY <1>1, <1>2, <1>3 DEF CacheStep, Public

(* A step that leaves the disk as it is.                                   *)
LEMMA QuietStep ==
  ASSUME NEW p \in Procs, RefInv, NlinkInv, RefInv', UNCHANGED diskVars,
         OthersStay(p), \A q \in Procs \ {p} : Still(q),
         th[p].pc \notin {"create_new", "itrunc"}, th'[p].pc \notin {"create_new", "invalidate"},
         Points6(p), CacheStep(p),
         th'[p].pc = "itrunc" => LET i == th'[p].putting IN ref'[i] = 1 /\ valid'[i] /\ inode'[i].nlink = 0,
         th[p].pc = "invalidate" => ~valid'[th[p].putting],
         CallOk(p)', PendingOf(p)' = PendingOf(p)
  PROVE  NlinkInv'
  <1>0. UNCHANGED <<dinode, ent, dropped>>
    OBVIOUS
  <1>1. \A i : Alive(i)' = Alive(i) /\ Named(i)' = Named(i) /\ Entries(i)' = Entries(i)
    BY <1>0 DEF Alive, Named, NamedIn, Entries
  <1>2. \A q \in Procs \ {p} : th'[q] = th[q] /\ \A f \in Fields : Pointer(q, f)' = Pointer(q, f)
    BY DEF OthersStay, Still, Pointer, Fields, Leaving
  <1>3. \A q \in Procs, i \in Inums : Creator(q, i)' <=> Creator(q, i)
    BY <1>2 DEF Creator
  <1>4. ASSUME NEW i \in Inums, NEW q \in Procs, NEW f \in Fields, Pointer(q, f)' = i
        PROVE  \/ q # p /\ <<q, f>> \in Holders(i) /\ (Putter(<<q, f>>)' <=> Putter(<<q, f>>))
               \/ q = p /\ (Public(i) \/ Putter(<<q, f>>)')
    <2>1. CASE q = p
      BY <1>4, <2>1, NewPointers
    <2>2. CASE q # p
      <3>1. Pointer(q, f) = i /\ th'[q] = th[q]
        BY <1>2, <1>4, <2>2
      <3>2. <<q, f>> \in Holders(i)
        BY <3>1, Holding
      <3> QED
        BY <2>2, <3>1, <3>2 DEF Putter
    <2> QED
      BY <2>1, <2>2
  <1>5. PointerInv'
    <2> SUFFICES ASSUME NEW i \in Inums, NEW q \in Procs, NEW f \in Fields, Pointer(q, f)' = i
                 PROVE  Alive(i)' \/ Putter(<<q, f>>)'
      BY DEF PointerInv, Holders
    <2>1. CASE q # p
      BY <1>1, <1>4, <2>1 DEF NlinkInv, PointerInv
    <2>2. CASE q = p
      BY <1>1, <1>4, <2>2 DEF Public
    <2> QED
      BY <2>1, <2>2
  <1>6. TruncInv'
    <2> SUFFICES ASSUME NEW q \in Procs, th'[q].pc = "itrunc", NEW i, i = th'[q].putting
                 PROVE  ref'[i] = 1 /\ valid'[i] /\ inode'[i].nlink = 0
      BY DEF TruncInv
    <2>1. CASE q # p
      <3>1. th[q].pc = "itrunc" /\ th[q].putting = i
        BY <1>2, <2>1
      <3>2. ref[i] = 1 /\ valid[i] /\ inode[i].nlink = 0
        BY <3>1 DEF NlinkInv, TruncInv
      <3>3. i \in Inums
        BY <3>1, ThreadAt DEF RefInv, ThreadOk, IputPoints
      <3> QED
        BY <2>1, <3>1, <3>2, <3>3 DEF CacheStep
    <2> QED
      BY <2>1
  <1>7. FreedInv'
    <2> SUFFICES ASSUME NEW q \in Procs, th'[q].pc = "invalidate", NEW i, i = th'[q].putting
                 PROVE  ~Alive(i)' \/ \E r \in Procs : Creator(r, i)'
      BY DEF FreedInv
    <2>1. q # p /\ th[q].pc = "invalidate" /\ th[q].putting = i
      BY <1>2
    <2>2. i \in Inums
      BY <2>1, ThreadAt DEF RefInv, ThreadOk, IputPoints
    <2>3. ~Alive(i) \/ \E r \in Procs : Creator(r, i)
      BY <2>1 DEF NlinkInv, FreedInv
    <2> QED
      BY <1>1, <1>3, <2>2, <2>3
  <1>8. CacheInv'
    <2> SUFFICES ASSUME NEW i \in Inums, valid'[i]
                 PROVE  (Alive(i)' /\ inode'[i] = dinode'[i]) \/ Invalidating(i)'
      BY DEF CacheInv
    <2>1. CASE Alive(i) /\ inode'[i] = dinode[i]
      BY <1>0, <1>1, <2>1
    <2>2. CASE valid[i] /\ inode'[i] = inode[i]
      <3>1. CASE Invalidating(i)
        <4>1. PICK q \in Procs : th[q].pc = "invalidate" /\ th[q].putting = i
          BY <3>1 DEF Invalidating
        <4>2. q # p
          BY <4>1
        <4> QED
          BY <1>2, <4>1, <4>2 DEF Invalidating
      <3>2. CASE Alive(i) /\ inode[i] = dinode[i]
        BY <1>0, <1>1, <2>2, <3>2
      <3> QED
        BY <2>2, <3>1, <3>2 DEF NlinkInv, CacheInv
    <2> QED
      BY <2>1, <2>2 DEF CacheStep
  <1>9. NewInv'
    <2> SUFFICES ASSUME NEW q \in Procs, th'[q].pc = "create_new" PROVE NewOk(q)'
      BY DEF NewInv
    <2>1. q # p /\ th'[q] = th[q] /\ th[q].pc = "create_new"
      BY <1>2
    <2> DEFINE i == th[q].ip
    <2>2. NewOk(q) /\ i \in Inums
      BY <2>1, ThreadAt DEF RefInv, ThreadOk, IputPoints, Where, IpUsed, NlinkInv, NewInv
    <2>3. Creator(q, i)
      BY <2>1 DEF Creator
    <2> HIDE DEF i
    <2>4. ASSUME NEW r \in Procs, NEW f \in Fields, Pointer(r, f)' = i
          PROVE  <<r, f>> = <<q, "ip">> \/ Putter(<<r, f>>)'
      <3>1. ~Public(i)
        BY <2>3 DEF Public
      <3>2. <<r, f>> \in Holders(i) => <<r, f>> = <<q, "ip">> \/ Putter(<<r, f>>)
        BY <2>2 DEF NewOk, i
      <3> QED
        BY <1>4, <2>2, <2>4, <3>1, <3>2
    <2>5. ASSUME NEW x \in Procs \X Fields, Pointer(x[1], x[2])' = i PROVE x = <<q, "ip">> \/ Putter(x)'
      <3>1. PICK r \in Procs, f \in Fields : x = <<r, f>>
        OBVIOUS
      <3> QED
        BY <2>4, <2>5, <3>1
    <2>6. /\ dinode[i] = [type |-> Type(th[q]), nlink |-> 0] /\ ent[i] = NoEntries
          /\ ent[th[q].dp][Name(q)] = None
      BY <2>2 DEF NewOk, i
    <2>7. th'[q].ip = i /\ Name(q)' = Name(q) /\ th'[q] = th[q]
      BY <2>1 DEF i, Name
    <2> QED
      BY <1>0, <2>5, <2>6, <2>7 DEF NewOk, Holders
  <1>10. TreeInv'
    <2>1. TreeInv
      BY DEF NlinkInv
    <2>2. \A i \in Inums : (\E q \in Procs : Creator(q, i)) => \E q \in Procs : Creator(q, i)'
      BY <1>3
    <2> HIDE DEF Creator
    <2> QED
      BY <1>0, <2>1, <2>2 DEF TreeInv
  <1>11. CallInv'
    <2> SUFFICES ASSUME NEW q \in Procs PROVE CallOk(q)'
      BY DEF CallInv
    <2>1. CASE q # p
      <3>1. CallOk(q) /\ th'[q] = th[q]
        BY <1>2, <2>1 DEF NlinkInv, CallInv
      <3> QED
        BY <1>0, <3>1 DEF CallOk, Where, Name
    <2> QED
      BY <2>1
  <1>12. LinkInv'
    <2>1. ASSUME NEW i \in Inums
          PROVE  dinode'[i].nlink = Cardinality(Entries(i)') + Pending(i)' + dropped'[i]
      <3>1. dinode[i].nlink = Cardinality(Entries(i)) + Pending(i) + dropped[i]
        BY DEF NlinkInv, LinkInv
      <3>2. Pending(i)' = Pending(i)
        <4>1. /\ Pending(i)' = Pending(i) + One(PendingOf(p)' = i) - One(PendingOf(p) = i)
              /\ Pending(i) \in Nat
          BY PendingStep
        <4> QED
          BY <4>1 DEF One
      <3> QED
        BY <1>0, <1>1, <3>1, <3>2
    <2>2. \A i \in Inums : inode'[i].nlink >= 0
      BY DEF CacheStep
    <2>3. \A i \in Inums : dinode'[i].type = "free" => dinode'[i].nlink = 0
      BY <1>0 DEF NlinkInv, LinkInv
    <2> QED
      BY <2>1, <2>2, <2>3 DEF LinkInv
  <1> QED
    BY <1>5, <1>6, <1>7, <1>8, <1>9, <1>10, <1>11, <1>12 DEF NlinkInv

-----------------------------------------------------------------------------
(* The actions that leave the disk as it is.                               *)

LEMMA SysCallQuiet ==
  ASSUME NEW p \in Procs, NEW c \in Calls[p], RefInv, NlinkInv, syscall(p, c)
  PROVE  NlinkInv'
  <1> DEFINE t == th[p]
             u == th'[p]
  <1>1. TypeInv /\ ThreadInv /\ CallOk(p)
    BY DEF RefInv, NlinkInv, CallInv
  <1>2. RefInv'
    BY SysCallRef
  <1>3. t.np = None /\ t.ip = None /\ t.dp = None /\ t.putting = None /\ t.cont = "user" /\ t.pc = "user"
    BY <1>1, SysCallMoves, ThreadAt, NonePointer DEF ThreadOk, Where, NpUsed, IpUsed, DpUsed, IputPoints, OpsAt, Creating
  <1>4. OthersStay(p) /\ (\A q \in Procs \ {p} : Still(q)) /\ UNCHANGED <<dinode, ent, dropped>>
    BY <1>1, SysCallMoves DEF Still, OthersStay, syscall, TypeInv
  <1>5. PendingOf(p) = IF t.op \in {"link2", "unlink2"} THEN t.ip ELSE None
    BY DEF PendingOf
  <1>6. /\ PublicOrNone(t.np) /\ PublicOrNone(t.dp) /\ PublicOrNone(ofile[p])
        /\ PublicOrNone(t.ip) /\ (~Leaving(p) => PublicOrNone(cwd[p])) /\ PublicOrNone(None)
    BY <1>3, OwnPublic, NonePointer DEF NpUsed, PublicOrNone
  <1>7. Start(p, c.path) \in Inums /\ Public(Start(p, c.path))
    BY <1>1, <1>3, <1>6, SysCallMoves, RootPublic, Constants DEF Start, PublicOrNone, Leaving
  <1>8. Points6(p)
    <2>1. u.np = Start(p, c.path) /\ u.ip = None /\ u.dp = None /\ u.putting = None
      BY <1>1, SysCallMoves DEF Become
    <2>2. ~Leaving(p)
      BY <1>1, <1>3, SysCallMoves DEF Leaving, Become, NpUsed, Failed
    <2>3. cwd'[p] = cwd[p] /\ ofile'[p] = ofile[p]
      BY <1>1 DEF syscall, TypeInv
    <2> HIDE DEF u, syscall
    <2> QED
      BY <1>3, <1>6, <1>7, <2>1, <2>2, <2>3 DEF Points6, PublicOrNone, u
  <1>9. CacheStep(p)
    <2>1. iget(Start(p, c.path)) /\ UNCHANGED <<inode, valid>>
      BY DEF syscall
    <2> QED
      BY <1>7, <2>1, GetStep
  <1>10. CallOk(p)'
    <2>1. c.op # "link2" /\ u.op = c.op
      BY <1>1, SysCallMoves DEF Become, Creating
    <2>2. u.pc \in {"namei", "nameiparent"} /\ u.cont = "user"
      BY <1>1, SysCallMoves DEF Become
    <2> HIDE DEF u, syscall
    <2> QED
      BY <2>1, <2>2 DEF CallOk, Where, IputPoints, u
  <1>11. PendingOf(p)' = PendingOf(p)
    BY <1>1, <1>3, <1>5, SysCallMoves, NonePointer DEF PendingOf, Become, Creating
  <1>12. /\ th[p].pc \notin {"create_new", "itrunc", "invalidate"}
         /\ th'[p].pc \notin {"create_new", "itrunc", "invalidate"}
    BY <1>1, <1>3, SysCallMoves DEF Become, NpUsed
  <1> HIDE DEF syscall
  <1> QED
    BY <1>2, <1>4, <1>8, <1>9, <1>10, <1>11, <1>12, QuietStep

LEMMA CloseQuiet ==
  ASSUME NEW p \in Procs, RefInv, NlinkInv, sys_close(p)
  PROVE  NlinkInv'
  <1> DEFINE t == th[p]
             u == th'[p]
  <1>1. TypeInv /\ ThreadInv /\ CallOk(p)
    BY DEF RefInv, NlinkInv, CallInv
  <1>2. RefInv'
    BY CloseRef
  <1>3. t.pc = "user" /\ t.putting = None /\ t.cont = "user" /\ ofile[p] \in Inums
    BY <1>1, CloseMoves, ThreadAt, NonePointer DEF ThreadOk, Where, NpUsed, IpUsed, DpUsed, IputPoints, OpsAt, Creating
  <1>4. OthersStay(p) /\ (\A q \in Procs \ {p} : Still(q)) /\ UNCHANGED <<dinode, ent, dropped>>
    BY <1>1, CloseMoves DEF Still, OthersStay, sys_close, TypeInv
  <1>5. t.op \notin {"link2", "unlink2"}
    BY <1>1, <1>3, CloseMoves, ThreadAt DEF ThreadOk, Where, NpUsed, IpUsed, DpUsed, IputPoints, OpsAt, Creating, Ops
  <1>6. /\ PublicOrNone(t.np) /\ PublicOrNone(t.dp) /\ PublicOrNone(ofile[p])
        /\ PublicOrNone(t.ip) /\ (~Leaving(p) => PublicOrNone(cwd[p])) /\ PublicOrNone(None)
    BY <1>3, OwnPublic, NonePointer DEF NpUsed, PublicOrNone
  <1>7. PublicOrNone(None)
    BY NonePointer DEF PublicOrNone
  <1>8. Points6(p)
    <2>1. u.np = t.np /\ u.ip = t.ip /\ u.dp = t.dp /\ u.putting = ofile[p]
      BY <1>1, CloseMoves DEF Become
    <2>2. ~Leaving(p)
      BY <1>1, <1>3, CloseMoves DEF Leaving, Become, NpUsed, Failed
    <2>3. cwd'[p] = cwd[p] /\ ofile'[p] = None
      BY <1>1 DEF sys_close, TypeInv
    <2> HIDE DEF u, sys_close
    <2> QED
      BY <1>3, <1>6, <1>7, <2>1, <2>2, <2>3 DEF Points6, PublicOrNone, u
  <1>9. CacheStep(p)
    BY NoCacheStep DEF sys_close
  <1>10. CallOk(p)'
    BY <1>1, <1>3, <1>4, <1>5, CloseMoves DEF CallOk, Where, IputPoints, Become, Keeps, Failed, NpUsed, Name
  <1>11. PendingOf(p)' = PendingOf(p)
    BY <1>1, <1>3, <1>5, CloseMoves, NonePointer DEF PendingOf, Become, Creating
  <1>12. /\ th[p].pc \notin {"create_new", "itrunc", "invalidate"}
         /\ th'[p].pc \notin {"create_new", "itrunc", "invalidate"}
    BY <1>1, <1>3, CloseMoves DEF Become, NpUsed
  <1> HIDE DEF sys_close
  <1> QED
    BY <1>2, <1>4, <1>8, <1>9, <1>10, <1>11, <1>12, QuietStep

LEMMA NamexNextQuiet ==
  ASSUME NEW p \in Procs, RefInv, NlinkInv, DotDotNamed, namex_next(p)
  PROVE  NlinkInv'
  <1> DEFINE t == th[p]
             u == th'[p]
  <1>1. TypeInv /\ ThreadInv /\ CallOk(p)
    BY DEF RefInv, NlinkInv, CallInv
  <1>2. RefInv'
    BY NamexNextRef
  <1>3. t.pc \in NpUsed /\ t.putting = None /\ t.cont = "user" /\ t.np \in Inums
    BY <1>1, NamexNextMoves, ThreadAt, NonePointer DEF ThreadOk, Where, NpUsed, IpUsed, DpUsed, IputPoints, OpsAt, Creating
  <1>4. OthersStay(p) /\ (\A q \in Procs \ {p} : Still(q)) /\ UNCHANGED <<dinode, ent, dropped>>
    BY <1>1, NamexNextMoves DEF Still, OthersStay, namex_next, TypeInv
  <1>5. PendingOf(p) = IF t.op \in {"link2", "unlink2"} THEN t.ip ELSE None
    BY DEF PendingOf
  <1>6. /\ PublicOrNone(t.np) /\ PublicOrNone(t.dp) /\ PublicOrNone(ofile[p])
        /\ PublicOrNone(t.ip) /\ (~Leaving(p) => PublicOrNone(cwd[p])) /\ PublicOrNone(None)
    BY <1>3, OwnPublic, NonePointer DEF NpUsed, PublicOrNone
  <1>7. dirlookup(t.np, Head(t.rest)) \in Inums /\ Public(dirlookup(t.np, Head(t.rest))) /\ Public(t.np)
    <2>1. Public(t.np)
      BY <1>3, <1>6 DEF PublicOrNone
    <2>2. dirlookup(t.np, Head(t.rest)) # None
      BY DEF namex_next
    <2>3. Head(t.rest) \in Elems
      BY <1>1, <1>3, ThreadAt DEF ThreadOk, Where, IputPoints, Name, namex_next, Walks
    <2>4. Head(t.rest) = ".." => Named(dirlookup(t.np, Head(t.rest)))
      BY <1>3, <2>2 DEF DotDotNamed, Looks, Searching, At, Name, dirlookup, namex_next, Walks, NpUsed
    <2> QED
      BY <1>3, <2>1, <2>2, <2>3, <2>4, LookupPublic
  <1>8. Points6(p)
    <2>1. u.np = dirlookup(t.np, Head(t.rest)) /\ u.ip = t.ip /\ u.dp = t.dp /\ u.putting = t.np
      BY <1>1, NamexNextMoves DEF Become
    <2>2. ~Leaving(p)
      BY <1>1, <1>3, NamexNextMoves DEF Leaving, Become, NpUsed, Failed
    <2>3. cwd'[p] = cwd[p] /\ ofile'[p] = ofile[p]
      BY <1>1 DEF namex_next, TypeInv
    <2> HIDE DEF u, namex_next
    <2> QED
      BY <1>3, <1>6, <1>7, <2>1, <2>2, <2>3 DEF Points6, PublicOrNone, u
  <1>9. CacheStep(p)
    <2>1. Read(t.np) /\ iget(dirlookup(t.np, Head(t.rest)))
      BY DEF namex_next
    <2> QED
      BY <1>3, <1>7, <2>1, ReadGetStep
  <1>10. CallOk(p)'
    BY <1>1, <1>3, <1>4, <1>5, NamexNextMoves DEF CallOk, Where, IputPoints, Become, Keeps, Failed, NpUsed, Name
  <1>11. PendingOf(p)' = PendingOf(p)
    BY <1>1, <1>3, <1>5, NamexNextMoves, NonePointer DEF PendingOf, Become, Creating
  <1>12. /\ th[p].pc \notin {"create_new", "itrunc", "invalidate"}
         /\ th'[p].pc \notin {"create_new", "itrunc", "invalidate"}
    BY <1>1, <1>3, NamexNextMoves DEF Become, NpUsed
  <1> HIDE DEF namex_next
  <1> QED
    BY <1>2, <1>4, <1>8, <1>9, <1>10, <1>11, <1>12, QuietStep

LEMMA NamexFailsQuiet ==
  ASSUME NEW p \in Procs, RefInv, NlinkInv, namex_fails(p)
  PROVE  NlinkInv'
  <1> DEFINE t == th[p]
             u == th'[p]
  <1>1. TypeInv /\ ThreadInv /\ CallOk(p)
    BY DEF RefInv, NlinkInv, CallInv
  <1>2. RefInv'
    BY NamexFailsRef
  <1>3. t.pc \in NpUsed /\ t.putting = None /\ t.cont = "user" /\ t.np \in Inums
    BY <1>1, NamexFailsMoves, ThreadAt, NonePointer DEF ThreadOk, Where, NpUsed, IpUsed, DpUsed, IputPoints, OpsAt, Creating
  <1>4. OthersStay(p) /\ (\A q \in Procs \ {p} : Still(q)) /\ UNCHANGED <<dinode, ent, dropped>>
    BY <1>1, NamexFailsMoves DEF Still, OthersStay, namex_fails, TypeInv
  <1>5. PendingOf(p) = IF t.op \in {"link2", "unlink2"} THEN t.ip ELSE None
    BY DEF PendingOf
  <1>6. /\ PublicOrNone(t.np) /\ PublicOrNone(t.dp) /\ PublicOrNone(ofile[p])
        /\ PublicOrNone(t.ip) /\ (~Leaving(p) => PublicOrNone(cwd[p])) /\ PublicOrNone(None)
    BY <1>3, OwnPublic, NonePointer DEF NpUsed, PublicOrNone
  <1>7. PublicOrNone(None)
    BY NonePointer DEF PublicOrNone
  <1>8. Points6(p)
    <2>1. u.np = None /\ u.ip = t.ip /\ u.dp = t.dp /\ u.putting = t.np
      BY <1>1, NamexFailsMoves DEF Become
    <2>2. ~Leaving(p)
      BY <1>1, <1>3, NamexFailsMoves DEF Leaving, Become, NpUsed, Failed
    <2>3. cwd'[p] = cwd[p] /\ ofile'[p] = ofile[p]
      BY <1>1 DEF namex_fails, TypeInv
    <2> HIDE DEF u, namex_fails
    <2> QED
      BY <1>3, <1>6, <1>7, <2>1, <2>2, <2>3 DEF Points6, PublicOrNone, u
  <1>9. CacheStep(p)
    <2>1. Public(t.np) /\ t.np \in Inums /\ Read(t.np) /\ UNCHANGED ref
      BY <1>3, <1>6 DEF PublicOrNone, namex_fails
    <2> QED
      BY <2>1, ReadStep
  <1>10. CallOk(p)'
    BY <1>1, <1>3, <1>4, <1>5, NamexFailsMoves DEF CallOk, Where, IputPoints, Become, Keeps, Failed, NpUsed, Name
  <1>11. PendingOf(p)' = PendingOf(p)
    BY <1>1, <1>3, <1>5, NamexFailsMoves, NonePointer DEF PendingOf, Become, Creating
  <1>12. /\ th[p].pc \notin {"create_new", "itrunc", "invalidate"}
         /\ th'[p].pc \notin {"create_new", "itrunc", "invalidate"}
    BY <1>1, <1>3, NamexFailsMoves DEF Become, NpUsed
  <1> HIDE DEF namex_fails
  <1> QED
    BY <1>2, <1>4, <1>8, <1>9, <1>10, <1>11, <1>12, QuietStep

LEMMA NamexParentQuiet ==
  ASSUME NEW p \in Procs, RefInv, NlinkInv, namex_parent(p)
  PROVE  NlinkInv'
  <1> DEFINE t == th[p]
             u == th'[p]
  <1>1. TypeInv /\ ThreadInv /\ CallOk(p)
    BY DEF RefInv, NlinkInv, CallInv
  <1>2. RefInv'
    BY NamexParentRef
  <1>3. t.pc = "nameiparent" /\ t.dp = None /\ t.putting = None /\ t.cont = "user" /\ t.np \in Inums
    BY <1>1, NamexParentMoves, ThreadAt, NonePointer DEF ThreadOk, Where, NpUsed, IpUsed, DpUsed, IputPoints, OpsAt, Creating
  <1>4. OthersStay(p) /\ (\A q \in Procs \ {p} : Still(q)) /\ UNCHANGED <<dinode, ent, dropped>>
    BY <1>1, NamexParentMoves DEF Still, OthersStay, namex_parent, TypeInv
  <1>5. PendingOf(p) = IF t.op \in {"link2", "unlink2"} THEN t.ip ELSE None
    BY DEF PendingOf
  <1>6. /\ PublicOrNone(t.np) /\ PublicOrNone(t.dp) /\ PublicOrNone(ofile[p])
        /\ PublicOrNone(t.ip) /\ (~Leaving(p) => PublicOrNone(cwd[p])) /\ PublicOrNone(None)
    BY <1>3, OwnPublic, NonePointer DEF NpUsed, PublicOrNone
  <1>7. PublicOrNone(None)
    BY NonePointer DEF PublicOrNone
  <1>8. Points6(p)
    <2>1. u.np = None /\ u.ip = t.ip /\ u.dp = t.np /\ u.putting = t.putting
      BY <1>1, NamexParentMoves DEF Become
    <2>2. ~Leaving(p)
      BY <1>1, <1>3, NamexParentMoves DEF Leaving, Become, NpUsed, Failed
    <2>3. cwd'[p] = cwd[p] /\ ofile'[p] = ofile[p]
      BY <1>1 DEF namex_parent, TypeInv
    <2> HIDE DEF u, namex_parent
    <2> QED
      BY <1>3, <1>6, <1>7, <2>1, <2>2, <2>3 DEF Points6, PublicOrNone, u
  <1>9. CacheStep(p)
    <2>1. Public(t.np) /\ t.np \in Inums /\ Read(t.np) /\ UNCHANGED ref
      BY <1>3, <1>6 DEF PublicOrNone, namex_parent
    <2> QED
      BY <2>1, ReadStep
  <1>10. CallOk(p)'
    <2>1. dinode[t.np].type = "dir"
      BY <1>3, <1>6, PublicContent DEF namex_parent, IsDir, PublicOrNone
    <2> QED
      BY <1>1, <1>3, <1>4, <2>1, NamexParentMoves DEF CallOk, Where, IputPoints, Become, Keeps, Failed, NpUsed, Name
  <1>11. PendingOf(p)' = PendingOf(p)
    BY <1>1, <1>3, <1>5, NamexParentMoves, NonePointer DEF PendingOf, Become, Creating
  <1>12. /\ th[p].pc \notin {"create_new", "itrunc", "invalidate"}
         /\ th'[p].pc \notin {"create_new", "itrunc", "invalidate"}
    BY <1>1, <1>3, NamexParentMoves DEF Become, NpUsed
  <1> HIDE DEF namex_parent
  <1> QED
    BY <1>2, <1>4, <1>8, <1>9, <1>10, <1>11, <1>12, QuietStep

LEMMA NamexEndQuiet ==
  ASSUME NEW p \in Procs, RefInv, NlinkInv, namex_end(p)
  PROVE  NlinkInv'
  <1> DEFINE t == th[p]
             u == th'[p]
  <1>1. TypeInv /\ ThreadInv /\ CallOk(p)
    BY DEF RefInv, NlinkInv, CallInv
  <1>2. RefInv'
    BY NamexEndRef
  <1>3. /\ t.pc \in NpUsed /\ t.dp = None /\ t.putting = None /\ t.cont = "user" /\ t.np \in Inums
        /\ t.pc = "namei" => t.ip = None
    BY <1>1, NamexEndMoves, ThreadAt, NonePointer DEF ThreadOk, Where, NpUsed, IpUsed, DpUsed, IputPoints, OpsAt, Creating, Phases, Ops
  <1>4. OthersStay(p) /\ (\A q \in Procs \ {p} : Still(q)) /\ UNCHANGED <<dinode, ent, dropped>>
    BY <1>1, NamexEndMoves DEF Still, OthersStay, namex_end, TypeInv
  <1>5. PendingOf(p) = IF t.op \in {"link2", "unlink2"} THEN t.ip ELSE None
    BY DEF PendingOf
  <1>6. /\ PublicOrNone(t.np) /\ PublicOrNone(t.dp) /\ PublicOrNone(ofile[p])
        /\ PublicOrNone(t.ip) /\ (~Leaving(p) => PublicOrNone(cwd[p])) /\ PublicOrNone(None)
    BY <1>3, OwnPublic, NonePointer DEF NpUsed, PublicOrNone
  <1>7. PublicOrNone(None)
    BY NonePointer DEF PublicOrNone
  <1>8. Points6(p)
    <2>0. ~Leaving(p)
      BY <1>1, <1>3 DEF Leaving, NpUsed
    <2>1. CASE t.pc = "namei"
      <3>1. u.np = None /\ u.ip = t.np /\ u.dp = t.dp /\ u.putting = t.putting
        BY <1>1, <1>3, <2>1, NamexEndMoves DEF Become
      <3>2. cwd'[p] = cwd[p] /\ ofile'[p] = ofile[p]
        BY <1>1, <2>1 DEF namex_end, TypeInv
      <3> HIDE DEF u, namex_end
      <3> QED
        BY <1>3, <1>6, <2>0, <3>1, <3>2 DEF Points6, PublicOrNone, u
    <2>2. CASE t.pc = "nameiparent"
      <3>1. u.np = None /\ u.ip = t.ip /\ u.dp = t.dp /\ u.putting = t.np
        BY <1>1, <1>3, <2>2, NamexEndMoves DEF Become
      <3>2. cwd'[p] = cwd[p] /\ ofile'[p] = ofile[p]
        BY <1>1, <2>2 DEF namex_end, TypeInv
      <3> HIDE DEF u, namex_end
      <3> QED
        BY <1>3, <1>6, <2>0, <3>1, <3>2 DEF Points6, PublicOrNone, u
    <2> QED
      BY <1>3, <2>1, <2>2 DEF NpUsed
  <1>9. CacheStep(p)
    BY NoCacheStep DEF namex_end
  <1>10. CallOk(p)'
    <2>1. t.pc = "namei" => t.op \notin {"link2", "unlink2"}
      BY <1>1, ThreadAt DEF ThreadOk, Where, NpUsed, IpUsed, DpUsed, IputPoints, OpsAt, Creating
    <2> QED
      BY <1>1, <1>3, <1>4, <2>1, NamexEndMoves DEF CallOk, Where, IputPoints, Become, Keeps, Failed, NpUsed, Name
  <1>11. PendingOf(p)' = PendingOf(p)
    <2>1. t.pc = "namei" => t.op \notin {"link2", "unlink2"}
      BY <1>1, ThreadAt DEF ThreadOk, Where, NpUsed, IpUsed, DpUsed, IputPoints, OpsAt, Creating
    <2> QED
      BY <1>1, <1>3, <2>1, NamexEndMoves DEF PendingOf, Become, NpUsed
  <1>12. /\ th[p].pc \notin {"create_new", "itrunc", "invalidate"}
         /\ th'[p].pc \notin {"create_new", "itrunc", "invalidate"}
    BY <1>1, <1>3, NamexEndMoves DEF Become, NpUsed
  <1> HIDE DEF namex_end
  <1> QED
    BY <1>2, <1>4, <1>8, <1>9, <1>10, <1>11, <1>12, QuietStep

LEMMA SysOpenQuiet ==
  ASSUME NEW p \in Procs, RefInv, NlinkInv, sys_open(p)
  PROVE  NlinkInv'
  <1> DEFINE t == th[p]
             u == th'[p]
  <1>1. TypeInv /\ ThreadInv /\ CallOk(p)
    BY DEF RefInv, NlinkInv, CallInv
  <1>2. RefInv'
    BY SysOpenRef
  <1>3. /\ t.pc \in {"inode", "existing"} /\ t.dp = None /\ t.putting = None /\ t.cont = "user"
        /\ t.np = None /\ t.ip \in Inums /\ ofile[p] = None
    BY <1>1, SysOpenMoves, ThreadAt, NonePointer DEF ThreadOk, Where, NpUsed, IpUsed, DpUsed, IputPoints, OpsAt, Creating
  <1>4. OthersStay(p) /\ (\A q \in Procs \ {p} : Still(q)) /\ UNCHANGED <<dinode, ent, dropped>>
    BY <1>1, SysOpenMoves DEF Still, OthersStay, sys_open, TypeInv
  <1>5. t.op \notin {"link2", "unlink2"}
    BY <1>1, <1>3, SysOpenMoves, ThreadAt DEF ThreadOk, Where, NpUsed, IpUsed, DpUsed, IputPoints, OpsAt, Creating, Ops
  <1>6. /\ PublicOrNone(t.np) /\ PublicOrNone(t.dp) /\ PublicOrNone(ofile[p])
        /\ PublicOrNone(t.ip) /\ (~Leaving(p) => PublicOrNone(cwd[p])) /\ PublicOrNone(None)
    BY <1>3, OwnPublic, NonePointer DEF NpUsed, PublicOrNone
  <1>7. PublicOrNone(None)
    BY NonePointer DEF PublicOrNone
  <1>8. Points6(p)
    <2>1. u.np = None /\ u.ip = None /\ u.dp = None /\ u.putting = None
      BY <1>1, SysOpenMoves DEF Become
    <2>2. ~Leaving(p)
      BY <1>1, <1>3, SysOpenMoves DEF Leaving, Become, NpUsed, Failed
    <2>3. cwd'[p] = cwd[p] /\ ofile'[p] = t.ip
      BY <1>1 DEF sys_open, TypeInv
    <2> HIDE DEF u, sys_open
    <2> QED
      BY <1>3, <1>6, <1>7, <2>1, <2>2, <2>3 DEF Points6, PublicOrNone, u
  <1>9. CacheStep(p)
    <2>1. Public(t.ip) /\ t.ip \in Inums /\ Read(t.ip) /\ UNCHANGED ref
      BY <1>3, <1>6 DEF PublicOrNone, sys_open
    <2> QED
      BY <2>1, ReadStep
  <1>10. CallOk(p)'
    BY <1>1, <1>3, <1>4, <1>5, SysOpenMoves DEF CallOk, Where, IputPoints, Become, Keeps, Failed, NpUsed, Name
  <1>11. PendingOf(p)' = PendingOf(p)
    BY <1>1, <1>3, <1>5, SysOpenMoves, NonePointer DEF PendingOf, Become, Creating
  <1>12. /\ th[p].pc \notin {"create_new", "itrunc", "invalidate"}
         /\ th'[p].pc \notin {"create_new", "itrunc", "invalidate"}
    BY <1>1, <1>3, SysOpenMoves DEF Become, NpUsed
  <1> HIDE DEF sys_open
  <1> QED
    BY <1>2, <1>4, <1>8, <1>9, <1>10, <1>11, <1>12, QuietStep

LEMMA OpenFailsQuiet ==
  ASSUME NEW p \in Procs, RefInv, NlinkInv, open_fails(p)
  PROVE  NlinkInv'
  <1> DEFINE t == th[p]
             u == th'[p]
  <1>1. TypeInv /\ ThreadInv /\ CallOk(p)
    BY DEF RefInv, NlinkInv, CallInv
  <1>2. RefInv'
    BY OpenFailsRef
  <1>3. t.pc \in {"inode", "existing"} /\ t.putting = None /\ t.cont = "user" /\ t.ip \in Inums
    BY <1>1, OpenFailsMoves, ThreadAt, NonePointer DEF ThreadOk, Where, NpUsed, IpUsed, DpUsed, IputPoints, OpsAt, Creating
  <1>4. OthersStay(p) /\ (\A q \in Procs \ {p} : Still(q)) /\ UNCHANGED <<dinode, ent, dropped>>
    BY <1>1, OpenFailsMoves DEF Still, OthersStay, open_fails, TypeInv
  <1>5. t.op \notin {"link2", "unlink2"}
    BY <1>1, <1>3, OpenFailsMoves, ThreadAt DEF ThreadOk, Where, NpUsed, IpUsed, DpUsed, IputPoints, OpsAt, Creating, Ops
  <1>6. /\ PublicOrNone(t.np) /\ PublicOrNone(t.dp) /\ PublicOrNone(ofile[p])
        /\ PublicOrNone(t.ip) /\ (~Leaving(p) => PublicOrNone(cwd[p])) /\ PublicOrNone(None)
    BY <1>3, OwnPublic, NonePointer DEF NpUsed, PublicOrNone
  <1>7. PublicOrNone(None)
    BY NonePointer DEF PublicOrNone
  <1>8. Points6(p)
    <2>1. u.np = t.np /\ u.ip = None /\ u.dp = t.dp /\ u.putting = t.ip
      BY <1>1, OpenFailsMoves DEF Become
    <2>2. ~Leaving(p)
      BY <1>1, <1>3, OpenFailsMoves DEF Leaving, Become, NpUsed, Failed
    <2>3. cwd'[p] = cwd[p] /\ ofile'[p] = ofile[p]
      BY <1>1 DEF open_fails, TypeInv
    <2> HIDE DEF u, open_fails
    <2> QED
      BY <1>3, <1>6, <1>7, <2>1, <2>2, <2>3 DEF Points6, PublicOrNone, u
  <1>9. CacheStep(p)
    <2>1. Public(t.ip) /\ t.ip \in Inums /\ Read(t.ip) /\ UNCHANGED ref
      BY <1>3, <1>6 DEF PublicOrNone, open_fails
    <2> QED
      BY <2>1, ReadStep
  <1>10. CallOk(p)'
    BY <1>1, <1>3, <1>4, <1>5, OpenFailsMoves DEF CallOk, Where, IputPoints, Become, Keeps, Failed, NpUsed, Name
  <1>11. PendingOf(p)' = PendingOf(p)
    BY <1>1, <1>3, <1>5, OpenFailsMoves, NonePointer DEF PendingOf, Become, Creating
  <1>12. /\ th[p].pc \notin {"create_new", "itrunc", "invalidate"}
         /\ th'[p].pc \notin {"create_new", "itrunc", "invalidate"}
    BY <1>1, <1>3, OpenFailsMoves DEF Become, NpUsed
  <1> HIDE DEF open_fails
  <1> QED
    BY <1>2, <1>4, <1>8, <1>9, <1>10, <1>11, <1>12, QuietStep

LEMMA CreateExistsQuiet ==
  ASSUME NEW p \in Procs, RefInv, NlinkInv, DotDotNamed, create_exists(p)
  PROVE  NlinkInv'
  <1> DEFINE t == th[p]
             u == th'[p]
  <1>1. TypeInv /\ ThreadInv /\ CallOk(p)
    BY DEF RefInv, NlinkInv, CallInv
  <1>2. RefInv'
    BY CreateExistsRef
  <1>3. t.pc = "parent" /\ t.op \in Creating /\ t.putting = None /\ t.cont = "user" /\ t.dp \in Inums /\ t.ip = None
    BY <1>1, CreateExistsMoves, ThreadAt, NonePointer DEF ThreadOk, Where, NpUsed, IpUsed, DpUsed, IputPoints, OpsAt, Creating
  <1>4. OthersStay(p) /\ (\A q \in Procs \ {p} : Still(q)) /\ UNCHANGED <<dinode, ent, dropped>>
    BY <1>1, CreateExistsMoves DEF Still, OthersStay, create_exists, TypeInv
  <1>5. t.op \notin {"link2", "unlink2"}
    BY <1>1, <1>3, CreateExistsMoves, ThreadAt DEF ThreadOk, Where, NpUsed, IpUsed, DpUsed, IputPoints, OpsAt, Creating, Ops
  <1>6. /\ PublicOrNone(t.np) /\ PublicOrNone(t.dp) /\ PublicOrNone(ofile[p])
        /\ PublicOrNone(t.ip) /\ (~Leaving(p) => PublicOrNone(cwd[p])) /\ PublicOrNone(None)
    BY <1>3, OwnPublic, NonePointer DEF NpUsed, PublicOrNone
  <1>7. dirlookup(t.dp, Name(p)) \in Inums /\ Public(dirlookup(t.dp, Name(p))) /\ Public(t.dp)
    <2>1. Public(t.dp)
      BY <1>3, <1>6 DEF PublicOrNone
    <2>2. dirlookup(t.dp, Name(p)) # None
      BY DEF create_exists
    <2>3. Name(p) \in Elems
      BY <1>1, <1>3, ThreadAt DEF ThreadOk, Where, IputPoints, Name, create_exists, Walks
    <2>4. Name(p) = ".." => Named(dirlookup(t.dp, Name(p)))
      BY <1>3, <2>2 DEF DotDotNamed, Looks, Searching, At, Name, dirlookup, create_exists, Walks, NpUsed
    <2> QED
      BY <1>3, <2>1, <2>2, <2>3, <2>4, LookupPublic
  <1>8. Points6(p)
    <2>1. u.np = t.np /\ u.ip = dirlookup(t.dp, Name(p)) /\ u.dp = None /\ u.putting = t.dp
      BY <1>1, CreateExistsMoves DEF Become
    <2>2. ~Leaving(p)
      BY <1>1, <1>3, CreateExistsMoves DEF Leaving, Become, NpUsed, Failed
    <2>3. cwd'[p] = cwd[p] /\ ofile'[p] = ofile[p]
      BY <1>1 DEF create_exists, TypeInv
    <2> HIDE DEF u, create_exists
    <2> QED
      BY <1>3, <1>6, <1>7, <2>1, <2>2, <2>3 DEF Points6, PublicOrNone, u
  <1>9. CacheStep(p)
    <2>1. Read(t.dp) /\ iget(dirlookup(t.dp, Name(p)))
      BY DEF create_exists
    <2> QED
      BY <1>3, <1>7, <2>1, ReadGetStep
  <1>10. CallOk(p)'
    BY <1>1, <1>3, <1>4, <1>5, CreateExistsMoves DEF CallOk, Where, IputPoints, Become, Keeps, Failed, NpUsed, Name
  <1>11. PendingOf(p)' = PendingOf(p)
    BY <1>1, <1>3, <1>5, CreateExistsMoves, NonePointer DEF PendingOf, Become, Creating
  <1>12. /\ th[p].pc \notin {"create_new", "itrunc", "invalidate"}
         /\ th'[p].pc \notin {"create_new", "itrunc", "invalidate"}
    BY <1>1, <1>3, CreateExistsMoves DEF Become, NpUsed
  <1> HIDE DEF create_exists
  <1> QED
    BY <1>2, <1>4, <1>8, <1>9, <1>10, <1>11, <1>12, QuietStep

LEMMA IallocPanicQuiet ==
  ASSUME NEW p \in Procs, RefInv, NlinkInv, ialloc_panic(p)
  PROVE  NlinkInv'
  <1> DEFINE t == th[p]
             u == th'[p]
  <1>1. TypeInv /\ ThreadInv /\ CallOk(p)
    BY DEF RefInv, NlinkInv, CallInv
  <1>2. RefInv'
    BY IallocPanicRef
  <1>3. t.pc = "parent" /\ t.putting = None /\ t.cont = "user" /\ t.dp \in Inums /\ t.np = None /\ t.op \in Creating
    BY <1>1, IallocPanicMoves, ThreadAt, NonePointer DEF ThreadOk, Where, NpUsed, IpUsed, DpUsed, IputPoints, OpsAt, Creating
  <1>4. OthersStay(p) /\ (\A q \in Procs \ {p} : Still(q)) /\ UNCHANGED <<dinode, ent, dropped>>
    BY <1>1, IallocPanicMoves DEF Still, OthersStay, ialloc_panic, TypeInv
  <1>5. t.op \notin {"link2", "unlink2"}
    BY <1>1, <1>3, IallocPanicMoves, ThreadAt DEF ThreadOk, Where, NpUsed, IpUsed, DpUsed, IputPoints, OpsAt, Creating, Ops
  <1>6. /\ PublicOrNone(t.np) /\ PublicOrNone(t.dp) /\ PublicOrNone(ofile[p])
        /\ PublicOrNone(t.ip) /\ (~Leaving(p) => PublicOrNone(cwd[p])) /\ PublicOrNone(None)
    BY <1>3, OwnPublic, NonePointer DEF NpUsed, PublicOrNone
  <1>7. PublicOrNone(None)
    BY NonePointer DEF PublicOrNone
  <1>8. Points6(p)
    <2>1. u.np = t.np /\ u.ip = t.ip /\ u.dp = t.dp /\ u.putting = t.putting
      BY <1>1, IallocPanicMoves DEF Become
    <2>2. ~Leaving(p)
      BY <1>1, <1>3, IallocPanicMoves DEF Leaving, Become, NpUsed, Failed
    <2>3. cwd'[p] = cwd[p] /\ ofile'[p] = ofile[p]
      BY <1>1 DEF ialloc_panic, TypeInv
    <2> HIDE DEF u, ialloc_panic
    <2> QED
      BY <1>3, <1>6, <1>7, <2>1, <2>2, <2>3 DEF Points6, PublicOrNone, u
  <1>9. CacheStep(p)
    <2>1. Public(t.dp) /\ t.dp \in Inums /\ Read(t.dp) /\ UNCHANGED ref
      BY <1>3, <1>6 DEF PublicOrNone, ialloc_panic
    <2> QED
      BY <2>1, ReadStep
  <1>10. CallOk(p)'
    BY <1>1, <1>3, <1>4, <1>5, IallocPanicMoves DEF CallOk, Where, IputPoints, Become, Keeps, Failed, NpUsed, Name
  <1>11. PendingOf(p)' = PendingOf(p)
    BY <1>1, <1>3, <1>5, IallocPanicMoves, NonePointer DEF PendingOf, Become, Creating
  <1>12. /\ th[p].pc \notin {"create_new", "itrunc", "invalidate"}
         /\ th'[p].pc \notin {"create_new", "itrunc", "invalidate"}
    BY <1>1, <1>3, IallocPanicMoves DEF Become, NpUsed
  <1> HIDE DEF ialloc_panic
  <1> QED
    BY <1>2, <1>4, <1>8, <1>9, <1>10, <1>11, <1>12, QuietStep

LEMMA CreatedQuiet ==
  ASSUME NEW p \in Procs, RefInv, NlinkInv, created(p)
  PROVE  NlinkInv'
  <1> DEFINE t == th[p]
             u == th'[p]
  <1>1. TypeInv /\ ThreadInv /\ CallOk(p)
    BY DEF RefInv, NlinkInv, CallInv
  <1>2. RefInv'
    BY CreatedRef
  <1>3. t.pc = "created" /\ t.np = None /\ t.putting = None /\ t.cont = "user" /\ t.ip \in Inums /\ t.dp = None
    BY <1>1, CreatedMoves, ThreadAt, NonePointer DEF ThreadOk, Where, NpUsed, IpUsed, DpUsed, IputPoints, OpsAt, Creating
  <1>4. OthersStay(p) /\ (\A q \in Procs \ {p} : Still(q)) /\ UNCHANGED <<dinode, ent, dropped>>
    BY <1>1, CreatedMoves DEF Still, OthersStay, created, TypeInv
  <1>5. t.op \notin {"link2", "unlink2"}
    BY <1>1, <1>3, CreatedMoves, ThreadAt DEF ThreadOk, Where, NpUsed, IpUsed, DpUsed, IputPoints, OpsAt, Creating, Ops
  <1>6. /\ PublicOrNone(t.np) /\ PublicOrNone(t.dp) /\ PublicOrNone(ofile[p])
        /\ PublicOrNone(t.ip) /\ (~Leaving(p) => PublicOrNone(cwd[p])) /\ PublicOrNone(None)
    BY <1>3, OwnPublic, NonePointer DEF NpUsed, PublicOrNone
  <1>7. PublicOrNone(None)
    BY NonePointer DEF PublicOrNone
  <1>8. Points6(p)
    <2>0. ~Leaving(p)
      BY <1>1, <1>3 DEF Leaving, NpUsed
    <2>1. CASE t.op = "create" /\ ofile[p] = None
      <3>1. u.np = None /\ u.ip = None /\ u.dp = None /\ u.putting = None
        BY <1>1, <1>3, <2>1, CreatedMoves DEF Become
      <3>2. cwd'[p] = cwd[p] /\ ofile'[p] = t.ip
        BY <1>1, <2>1 DEF created, TypeInv
      <3> HIDE DEF u, created
      <3> QED
        BY <1>3, <1>6, <2>0, <3>1, <3>2 DEF Points6, PublicOrNone, u
    <2>2. CASE ~(t.op = "create" /\ ofile[p] = None)
      <3>1. u.np = None /\ u.ip = None /\ u.dp = None /\ u.putting = t.ip
        BY <1>1, <1>3, <2>2, CreatedMoves DEF Become
      <3>2. cwd'[p] = cwd[p] /\ ofile'[p] = ofile[p]
        BY <1>1, <2>2 DEF created, TypeInv
      <3> HIDE DEF u, created
      <3> QED
        BY <1>3, <1>6, <2>0, <3>1, <3>2 DEF Points6, PublicOrNone, u
    <2> QED
      BY <1>3, <2>1, <2>2 DEF NpUsed
  <1>9. CacheStep(p)
    BY NoCacheStep DEF created
  <1>10. CallOk(p)'
    BY <1>1, <1>3, <1>4, <1>5, CreatedMoves DEF CallOk, Where, IputPoints, Become, Keeps, Failed, NpUsed, Name
  <1>11. PendingOf(p)' = PendingOf(p)
    BY <1>1, <1>3, <1>5, CreatedMoves, NonePointer DEF PendingOf, Become, Creating
  <1>12. /\ th[p].pc \notin {"create_new", "itrunc", "invalidate"}
         /\ th'[p].pc \notin {"create_new", "itrunc", "invalidate"}
    BY <1>1, <1>3, CreatedMoves DEF Become, NpUsed
  <1> HIDE DEF created
  <1> QED
    BY <1>2, <1>4, <1>8, <1>9, <1>10, <1>11, <1>12, QuietStep

LEMMA UnlinkFailsQuiet ==
  ASSUME NEW p \in Procs, RefInv, NlinkInv, unlink_fails(p)
  PROVE  NlinkInv'
  <1> DEFINE t == th[p]
             u == th'[p]
  <1>1. TypeInv /\ ThreadInv /\ CallOk(p)
    BY DEF RefInv, NlinkInv, CallInv
  <1>2. RefInv'
    BY UnlinkFailsRef
  <1>3. t.pc = "parent" /\ t.putting = None /\ t.cont = "user" /\ t.dp \in Inums
    BY <1>1, UnlinkFailsMoves, ThreadAt, NonePointer DEF ThreadOk, Where, NpUsed, IpUsed, DpUsed, IputPoints, OpsAt, Creating
  <1>4. OthersStay(p) /\ (\A q \in Procs \ {p} : Still(q)) /\ UNCHANGED <<dinode, ent, dropped>>
    BY <1>1, UnlinkFailsMoves DEF Still, OthersStay, unlink_fails, TypeInv
  <1>5. PendingOf(p) = IF t.op \in {"link2", "unlink2"} THEN t.ip ELSE None
    BY DEF PendingOf
  <1>6. /\ PublicOrNone(t.np) /\ PublicOrNone(t.dp) /\ PublicOrNone(ofile[p])
        /\ PublicOrNone(t.ip) /\ (~Leaving(p) => PublicOrNone(cwd[p])) /\ PublicOrNone(None)
    BY <1>3, OwnPublic, NonePointer DEF NpUsed, PublicOrNone
  <1>7. PublicOrNone(None)
    BY NonePointer DEF PublicOrNone
  <1>8. Points6(p)
    <2>1. u.np = t.np /\ u.ip = t.ip /\ u.dp = None /\ u.putting = t.dp
      BY <1>1, UnlinkFailsMoves DEF Become
    <2>2. ~Leaving(p)
      BY <1>1, <1>3, UnlinkFailsMoves DEF Leaving, Become, NpUsed, Failed
    <2>3. cwd'[p] = cwd[p] /\ ofile'[p] = ofile[p]
      BY <1>1 DEF unlink_fails, TypeInv
    <2> HIDE DEF u, unlink_fails
    <2> QED
      BY <1>3, <1>6, <1>7, <2>1, <2>2, <2>3 DEF Points6, PublicOrNone, u
  <1>9. CacheStep(p)
    <2>1. Public(t.dp) /\ t.dp \in Inums /\ Read(t.dp) /\ UNCHANGED ref
      BY <1>3, <1>6 DEF PublicOrNone, unlink_fails
    <2> QED
      BY <2>1, ReadStep
  <1>10. CallOk(p)'
    BY <1>1, <1>3, <1>4, <1>5, UnlinkFailsMoves DEF CallOk, Where, IputPoints, Become, Keeps, Failed, NpUsed, Name
  <1>11. PendingOf(p)' = PendingOf(p)
    BY <1>1, <1>3, <1>5, UnlinkFailsMoves, NonePointer DEF PendingOf, Become, Creating
  <1>12. /\ th[p].pc \notin {"create_new", "itrunc", "invalidate"}
         /\ th'[p].pc \notin {"create_new", "itrunc", "invalidate"}
    BY <1>1, <1>3, UnlinkFailsMoves DEF Become, NpUsed
  <1> HIDE DEF unlink_fails
  <1> QED
    BY <1>2, <1>4, <1>8, <1>9, <1>10, <1>11, <1>12, QuietStep

LEMMA UnlinkDpQuiet ==
  ASSUME NEW p \in Procs, RefInv, NlinkInv, unlink_dp(p)
  PROVE  NlinkInv'
  <1> DEFINE t == th[p]
             u == th'[p]
  <1>1. TypeInv /\ ThreadInv /\ CallOk(p)
    BY DEF RefInv, NlinkInv, CallInv
  <1>2. RefInv'
    BY UnlinkDpRef
  <1>3. t.pc = "parent" /\ t.putting = None /\ t.cont = "user" /\ t.dp \in Inums /\ t.np = None /\ t.op = "unlink" /\ t.ip = None
    BY <1>1, UnlinkDpMoves, ThreadAt, NonePointer DEF ThreadOk, Where, NpUsed, IpUsed, DpUsed, IputPoints, OpsAt, Creating
  <1>4. OthersStay(p) /\ (\A q \in Procs \ {p} : Still(q)) /\ UNCHANGED <<dinode, ent, dropped>>
    BY <1>1, UnlinkDpMoves DEF Still, OthersStay, unlink_dp, TypeInv
  <1>5. t.op \notin {"link2", "unlink2"}
    BY <1>1, <1>3, UnlinkDpMoves, ThreadAt DEF ThreadOk, Where, NpUsed, IpUsed, DpUsed, IputPoints, OpsAt, Creating, Ops
  <1>6. /\ PublicOrNone(t.np) /\ PublicOrNone(t.dp) /\ PublicOrNone(ofile[p])
        /\ PublicOrNone(t.ip) /\ (~Leaving(p) => PublicOrNone(cwd[p])) /\ PublicOrNone(None)
    BY <1>3, OwnPublic, NonePointer DEF NpUsed, PublicOrNone
  <1>7. dirlookup(t.dp, Name(p)) \in Inums /\ Public(dirlookup(t.dp, Name(p))) /\ Public(t.dp)
    <2>1. Public(t.dp)
      BY <1>3, <1>6 DEF PublicOrNone
    <2>2. dirlookup(t.dp, Name(p)) # None
      BY DEF unlink_dp, Removable
    <2>3. Name(p) \in Elems
      BY <1>1, <1>3, ThreadAt DEF ThreadOk, Where, IputPoints, Name, unlink_dp, Walks
    <2>4. Name(p) # ".."
      BY DEF unlink_dp, Removable
    <2> QED
      BY <1>3, <2>1, <2>2, <2>3, <2>4, LookupPublic
  <1>8. Points6(p)
    <2>1. u.np = t.np /\ u.ip = dirlookup(t.dp, Name(p)) /\ u.dp = t.dp /\ u.putting = t.putting
      BY <1>1, UnlinkDpMoves DEF Become
    <2>2. ~Leaving(p)
      BY <1>1, <1>3, UnlinkDpMoves DEF Leaving, Become, NpUsed, Failed
    <2>3. cwd'[p] = cwd[p] /\ ofile'[p] = ofile[p]
      BY <1>1 DEF unlink_dp, TypeInv
    <2> HIDE DEF u, unlink_dp
    <2> QED
      BY <1>3, <1>6, <1>7, <2>1, <2>2, <2>3 DEF Points6, PublicOrNone, u
  <1>9. CacheStep(p)
    <2>1. Read(t.dp) /\ iget(dirlookup(t.dp, Name(p)))
      BY DEF unlink_dp
    <2> QED
      BY <1>3, <1>7, <2>1, ReadGetStep
  <1>10. CallOk(p)'
    <2>1. Name(p) \in Names
      BY <1>1, <1>3, ThreadAt DEF ThreadOk, Where, IputPoints, Name, unlink_dp, Removable, Elems
    <2> QED
      BY <1>1, <1>3, <1>4, <1>5, <2>1, UnlinkDpMoves DEF CallOk, Where, IputPoints, Become, Keeps, Name, dirlookup
  <1>11. PendingOf(p)' = PendingOf(p)
    BY <1>1, <1>3, <1>5, UnlinkDpMoves, NonePointer DEF PendingOf, Become, Creating
  <1>12. /\ th[p].pc \notin {"create_new", "itrunc", "invalidate"}
         /\ th'[p].pc \notin {"create_new", "itrunc", "invalidate"}
    BY <1>1, <1>3, UnlinkDpMoves DEF Become, NpUsed
  <1> HIDE DEF unlink_dp
  <1> QED
    BY <1>2, <1>4, <1>8, <1>9, <1>10, <1>11, <1>12, QuietStep

LEMMA UnlinkNotEmptyQuiet ==
  ASSUME NEW p \in Procs, RefInv, NlinkInv, unlink_notempty(p)
  PROVE  NlinkInv'
  <1> DEFINE t == th[p]
             u == th'[p]
  <1>1. TypeInv /\ ThreadInv /\ CallOk(p)
    BY DEF RefInv, NlinkInv, CallInv
  <1>2. RefInv'
    BY UnlinkNotEmptyRef
  <1>3. t.pc = "unlink_ip" /\ t.putting = None /\ t.cont = "user" /\ t.ip \in Inums /\ t.dp \in Inums
    BY <1>1, UnlinkNotEmptyMoves, ThreadAt, NonePointer DEF ThreadOk, Where, NpUsed, IpUsed, DpUsed, IputPoints, OpsAt, Creating
  <1>4. OthersStay(p) /\ (\A q \in Procs \ {p} : Still(q)) /\ UNCHANGED <<dinode, ent, dropped>>
    BY <1>1, UnlinkNotEmptyMoves DEF Still, OthersStay, unlink_notempty, TypeInv
  <1>5. t.op \notin {"link2", "unlink2"}
    BY <1>1, <1>3, UnlinkNotEmptyMoves, ThreadAt DEF ThreadOk, Where, NpUsed, IpUsed, DpUsed, IputPoints, OpsAt, Creating, Ops
  <1>6. /\ PublicOrNone(t.np) /\ PublicOrNone(t.dp) /\ PublicOrNone(ofile[p])
        /\ PublicOrNone(t.ip) /\ (~Leaving(p) => PublicOrNone(cwd[p])) /\ PublicOrNone(None)
    BY <1>3, OwnPublic, NonePointer DEF NpUsed, PublicOrNone
  <1>7. PublicOrNone(None)
    BY NonePointer DEF PublicOrNone
  <1>8. Points6(p)
    <2>1. u.np = t.np /\ u.ip = None /\ u.dp = t.dp /\ u.putting = t.ip
      BY <1>1, UnlinkNotEmptyMoves DEF Become
    <2>2. ~Leaving(p)
      BY <1>1, <1>3, UnlinkNotEmptyMoves DEF Leaving, Become, NpUsed, Failed
    <2>3. cwd'[p] = cwd[p] /\ ofile'[p] = ofile[p]
      BY <1>1 DEF unlink_notempty, TypeInv
    <2> HIDE DEF u, unlink_notempty
    <2> QED
      BY <1>3, <1>6, <1>7, <2>1, <2>2, <2>3 DEF Points6, PublicOrNone, u
  <1>9. CacheStep(p)
    <2>1. Public(t.ip) /\ t.ip \in Inums /\ Read(t.ip) /\ UNCHANGED ref
      BY <1>3, <1>6 DEF PublicOrNone, unlink_notempty
    <2> QED
      BY <2>1, ReadStep
  <1>10. CallOk(p)'
    BY <1>1, <1>3, <1>4, <1>5, UnlinkNotEmptyMoves DEF CallOk, Where, IputPoints, Become, Keeps, Failed, NpUsed, Name
  <1>11. PendingOf(p)' = PendingOf(p)
    BY <1>1, <1>3, <1>5, UnlinkNotEmptyMoves, NonePointer DEF PendingOf, Become, Creating
  <1>12. /\ th[p].pc \notin {"create_new", "itrunc", "invalidate"}
         /\ th'[p].pc \notin {"create_new", "itrunc", "invalidate"}
    BY <1>1, <1>3, UnlinkNotEmptyMoves DEF Become, NpUsed
  <1> HIDE DEF unlink_notempty
  <1> QED
    BY <1>2, <1>4, <1>8, <1>9, <1>10, <1>11, <1>12, QuietStep

LEMMA BadQuiet ==
  ASSUME NEW p \in Procs, RefInv, NlinkInv, bad(p)
  PROVE  NlinkInv'
  <1> DEFINE t == th[p]
             u == th'[p]
  <1>1. TypeInv /\ ThreadInv /\ CallOk(p)
    BY DEF RefInv, NlinkInv, CallInv
  <1>2. RefInv'
    BY BadRef
  <1>3. t.pc \in {"unlink_bad", "link_bad"} /\ t.putting = None /\ t.cont = "user" /\ t.dp \in Inums
    BY <1>1, BadMoves, ThreadAt, NonePointer DEF ThreadOk, Where, NpUsed, IpUsed, DpUsed, IputPoints, OpsAt, Creating
  <1>4. OthersStay(p) /\ (\A q \in Procs \ {p} : Still(q)) /\ UNCHANGED <<dinode, ent, dropped>>
    BY <1>1, BadMoves DEF Still, OthersStay, bad, TypeInv
  <1>5. PendingOf(p) = IF t.op \in {"link2", "unlink2"} THEN t.ip ELSE None
    BY DEF PendingOf
  <1>6. /\ PublicOrNone(t.np) /\ PublicOrNone(t.dp) /\ PublicOrNone(ofile[p])
        /\ PublicOrNone(t.ip) /\ (~Leaving(p) => PublicOrNone(cwd[p])) /\ PublicOrNone(None)
    BY <1>3, OwnPublic, NonePointer DEF NpUsed, PublicOrNone
  <1>7. PublicOrNone(None)
    BY NonePointer DEF PublicOrNone
  <1>8. Points6(p)
    <2>1. u.np = t.np /\ u.ip = t.ip /\ u.dp = None /\ u.putting = t.dp
      BY <1>1, BadMoves DEF Become
    <2>2. ~Leaving(p)
      BY <1>1, <1>3, BadMoves DEF Leaving, Become, NpUsed, Failed
    <2>3. cwd'[p] = cwd[p] /\ ofile'[p] = ofile[p]
      BY <1>1 DEF bad, TypeInv
    <2> HIDE DEF u, bad
    <2> QED
      BY <1>3, <1>6, <1>7, <2>1, <2>2, <2>3 DEF Points6, PublicOrNone, u
  <1>9. CacheStep(p)
    BY NoCacheStep DEF bad
  <1>10. CallOk(p)'
    BY <1>1, <1>3, <1>4, <1>5, BadMoves DEF CallOk, Where, IputPoints, Become, Keeps, Failed, NpUsed, Name
  <1>11. PendingOf(p)' = PendingOf(p)
    BY <1>1, <1>3, <1>5, BadMoves, NonePointer DEF PendingOf, Become, Creating
  <1>12. /\ th[p].pc \notin {"create_new", "itrunc", "invalidate"}
         /\ th'[p].pc \notin {"create_new", "itrunc", "invalidate"}
    BY <1>1, <1>3, BadMoves DEF Become, NpUsed
  <1> HIDE DEF bad
  <1> QED
    BY <1>2, <1>4, <1>8, <1>9, <1>10, <1>11, <1>12, QuietStep

LEMMA LinkDirQuiet ==
  ASSUME NEW p \in Procs, RefInv, NlinkInv, link_dir(p)
  PROVE  NlinkInv'
  <1> DEFINE t == th[p]
             u == th'[p]
  <1>1. TypeInv /\ ThreadInv /\ CallOk(p)
    BY DEF RefInv, NlinkInv, CallInv
  <1>2. RefInv'
    BY LinkDirRef
  <1>3. t.pc = "inode" /\ t.putting = None /\ t.cont = "user" /\ t.ip \in Inums
    BY <1>1, LinkDirMoves, ThreadAt, NonePointer DEF ThreadOk, Where, NpUsed, IpUsed, DpUsed, IputPoints, OpsAt, Creating
  <1>4. OthersStay(p) /\ (\A q \in Procs \ {p} : Still(q)) /\ UNCHANGED <<dinode, ent, dropped>>
    BY <1>1, LinkDirMoves DEF Still, OthersStay, link_dir, TypeInv
  <1>5. t.op \notin {"link2", "unlink2"}
    BY <1>1, <1>3, LinkDirMoves, ThreadAt DEF ThreadOk, Where, NpUsed, IpUsed, DpUsed, IputPoints, OpsAt, Creating, Ops
  <1>6. /\ PublicOrNone(t.np) /\ PublicOrNone(t.dp) /\ PublicOrNone(ofile[p])
        /\ PublicOrNone(t.ip) /\ (~Leaving(p) => PublicOrNone(cwd[p])) /\ PublicOrNone(None)
    BY <1>3, OwnPublic, NonePointer DEF NpUsed, PublicOrNone
  <1>7. PublicOrNone(None)
    BY NonePointer DEF PublicOrNone
  <1>8. Points6(p)
    <2>1. u.np = t.np /\ u.ip = None /\ u.dp = t.dp /\ u.putting = t.ip
      BY <1>1, LinkDirMoves DEF Become
    <2>2. ~Leaving(p)
      BY <1>1, <1>3, LinkDirMoves DEF Leaving, Become, NpUsed, Failed
    <2>3. cwd'[p] = cwd[p] /\ ofile'[p] = ofile[p]
      BY <1>1 DEF link_dir, TypeInv
    <2> HIDE DEF u, link_dir
    <2> QED
      BY <1>3, <1>6, <1>7, <2>1, <2>2, <2>3 DEF Points6, PublicOrNone, u
  <1>9. CacheStep(p)
    <2>1. Public(t.ip) /\ t.ip \in Inums /\ Read(t.ip) /\ UNCHANGED ref
      BY <1>3, <1>6 DEF PublicOrNone, link_dir
    <2> QED
      BY <2>1, ReadStep
  <1>10. CallOk(p)'
    BY <1>1, <1>3, <1>4, <1>5, LinkDirMoves DEF CallOk, Where, IputPoints, Become, Keeps, Failed, NpUsed, Name
  <1>11. PendingOf(p)' = PendingOf(p)
    BY <1>1, <1>3, <1>5, LinkDirMoves, NonePointer DEF PendingOf, Become, Creating
  <1>12. /\ th[p].pc \notin {"create_new", "itrunc", "invalidate"}
         /\ th'[p].pc \notin {"create_new", "itrunc", "invalidate"}
    BY <1>1, <1>3, LinkDirMoves DEF Become, NpUsed
  <1> HIDE DEF link_dir
  <1> QED
    BY <1>2, <1>4, <1>8, <1>9, <1>10, <1>11, <1>12, QuietStep

LEMMA DirlinkFailsQuiet ==
  ASSUME NEW p \in Procs, RefInv, NlinkInv, DotDotNamed, dirlink_fails(p)
  PROVE  NlinkInv'
  <1> DEFINE t == th[p]
             u == th'[p]
  <1>1. TypeInv /\ ThreadInv /\ CallOk(p)
    BY DEF RefInv, NlinkInv, CallInv
  <1>2. RefInv'
    BY DirlinkFailsRef
  <1>3. t.pc = "parent" /\ t.putting = None /\ t.cont = "user" /\ t.dp \in Inums /\ t.np = None /\ t.op = "link2"
    BY <1>1, DirlinkFailsMoves, ThreadAt, NonePointer DEF ThreadOk, Where, NpUsed, IpUsed, DpUsed, IputPoints, OpsAt, Creating
  <1>4. OthersStay(p) /\ (\A q \in Procs \ {p} : Still(q)) /\ UNCHANGED <<dinode, ent, dropped>>
    BY <1>1, DirlinkFailsMoves DEF Still, OthersStay, dirlink_fails, TypeInv
  <1>5. PendingOf(p) = IF t.op \in {"link2", "unlink2"} THEN t.ip ELSE None
    BY DEF PendingOf
  <1>6. /\ PublicOrNone(t.np) /\ PublicOrNone(t.dp) /\ PublicOrNone(ofile[p])
        /\ PublicOrNone(t.ip) /\ (~Leaving(p) => PublicOrNone(cwd[p])) /\ PublicOrNone(None)
    BY <1>3, OwnPublic, NonePointer DEF NpUsed, PublicOrNone
  <1>7. dirlookup(t.dp, Name(p)) \in Inums /\ Public(dirlookup(t.dp, Name(p))) /\ Public(t.dp)
    <2>1. Public(t.dp)
      BY <1>3, <1>6 DEF PublicOrNone
    <2>2. dirlookup(t.dp, Name(p)) # None
      BY DEF dirlink_fails
    <2>3. Name(p) \in Elems
      BY <1>1, <1>3, ThreadAt DEF ThreadOk, Where, IputPoints, Name, dirlink_fails, Walks
    <2>4. Name(p) = ".." => Named(dirlookup(t.dp, Name(p)))
      BY <1>3, <2>2 DEF DotDotNamed, Looks, Searching, At, Name, dirlookup, dirlink_fails, Walks, NpUsed
    <2> QED
      BY <1>3, <2>1, <2>2, <2>3, <2>4, LookupPublic
  <1>8. Points6(p)
    <2>1. u.np = t.np /\ u.ip = t.ip /\ u.dp = t.dp /\ u.putting = dirlookup(t.dp, Name(p))
      BY <1>1, DirlinkFailsMoves DEF Become
    <2>2. ~Leaving(p)
      BY <1>1, <1>3, DirlinkFailsMoves DEF Leaving, Become, NpUsed, Failed
    <2>3. cwd'[p] = cwd[p] /\ ofile'[p] = ofile[p]
      BY <1>1 DEF dirlink_fails, TypeInv
    <2> HIDE DEF u, dirlink_fails
    <2> QED
      BY <1>3, <1>6, <1>7, <2>1, <2>2, <2>3 DEF Points6, PublicOrNone, u
  <1>9. CacheStep(p)
    <2>1. Read(t.dp) /\ iget(dirlookup(t.dp, Name(p)))
      BY DEF dirlink_fails
    <2> QED
      BY <1>3, <1>7, <2>1, ReadGetStep
  <1>10. CallOk(p)'
    BY <1>1, <1>3, <1>4, <1>5, DirlinkFailsMoves DEF CallOk, Where, IputPoints, Become, Keeps, Failed, NpUsed, Name
  <1>11. PendingOf(p)' = PendingOf(p)
    BY <1>1, <1>3, <1>5, DirlinkFailsMoves, NonePointer DEF PendingOf, Become, Creating
  <1>12. /\ th[p].pc \notin {"create_new", "itrunc", "invalidate"}
         /\ th'[p].pc \notin {"create_new", "itrunc", "invalidate"}
    BY <1>1, <1>3, DirlinkFailsMoves DEF Become, NpUsed
  <1> HIDE DEF dirlink_fails
  <1> QED
    BY <1>2, <1>4, <1>8, <1>9, <1>10, <1>11, <1>12, QuietStep

LEMMA LinkEndQuiet ==
  ASSUME NEW p \in Procs, RefInv, NlinkInv, link_end(p)
  PROVE  NlinkInv'
  <1> DEFINE t == th[p]
             u == th'[p]
  <1>1. TypeInv /\ ThreadInv /\ CallOk(p)
    BY DEF RefInv, NlinkInv, CallInv
  <1>2. RefInv'
    BY LinkEndRef
  <1>3. t.pc = "link_end" /\ t.putting = None /\ t.cont = "user" /\ t.ip \in Inums
    BY <1>1, LinkEndMoves, ThreadAt, NonePointer DEF ThreadOk, Where, NpUsed, IpUsed, DpUsed, IputPoints, OpsAt, Creating
  <1>4. OthersStay(p) /\ (\A q \in Procs \ {p} : Still(q)) /\ UNCHANGED <<dinode, ent, dropped>>
    BY <1>1, LinkEndMoves DEF Still, OthersStay, link_end, TypeInv
  <1>5. t.op \notin {"link2", "unlink2"}
    BY <1>1, <1>3, LinkEndMoves, ThreadAt DEF ThreadOk, Where, NpUsed, IpUsed, DpUsed, IputPoints, OpsAt, Creating, Ops
  <1>6. /\ PublicOrNone(t.np) /\ PublicOrNone(t.dp) /\ PublicOrNone(ofile[p])
        /\ PublicOrNone(t.ip) /\ (~Leaving(p) => PublicOrNone(cwd[p])) /\ PublicOrNone(None)
    BY <1>3, OwnPublic, NonePointer DEF NpUsed, PublicOrNone
  <1>7. PublicOrNone(None)
    BY NonePointer DEF PublicOrNone
  <1>8. Points6(p)
    <2>1. u.np = t.np /\ u.ip = None /\ u.dp = t.dp /\ u.putting = t.ip
      BY <1>1, LinkEndMoves DEF Become
    <2>2. ~Leaving(p)
      BY <1>1, <1>3, LinkEndMoves DEF Leaving, Become, NpUsed, Failed
    <2>3. cwd'[p] = cwd[p] /\ ofile'[p] = ofile[p]
      BY <1>1 DEF link_end, TypeInv
    <2> HIDE DEF u, link_end
    <2> QED
      BY <1>3, <1>6, <1>7, <2>1, <2>2, <2>3 DEF Points6, PublicOrNone, u
  <1>9. CacheStep(p)
    BY NoCacheStep DEF link_end
  <1>10. CallOk(p)'
    BY <1>1, <1>3, <1>4, <1>5, LinkEndMoves DEF CallOk, Where, IputPoints, Become, Keeps, Failed, NpUsed, Name
  <1>11. PendingOf(p)' = PendingOf(p)
    BY <1>1, <1>3, <1>5, LinkEndMoves, NonePointer DEF PendingOf, Become, Creating
  <1>12. /\ th[p].pc \notin {"create_new", "itrunc", "invalidate"}
         /\ th'[p].pc \notin {"create_new", "itrunc", "invalidate"}
    BY <1>1, <1>3, LinkEndMoves DEF Become, NpUsed
  <1> HIDE DEF link_end
  <1> QED
    BY <1>2, <1>4, <1>8, <1>9, <1>10, <1>11, <1>12, QuietStep

LEMMA ChdirQuiet ==
  ASSUME NEW p \in Procs, RefInv, NlinkInv, sys_chdir(p)
  PROVE  NlinkInv'
  <1> DEFINE t == th[p]
             u == th'[p]
  <1>1. TypeInv /\ ThreadInv /\ CallOk(p)
    BY DEF RefInv, NlinkInv, CallInv
  <1>2. RefInv'
    BY ChdirRef
  <1>3. /\ t.pc = "inode" /\ t.op = "chdir" /\ t.putting = None /\ t.cont = "user" /\ t.ip \in Inums
        /\ cwd[p] \in Inums
    BY <1>1, ChdirMoves, ThreadAt, NonePointer DEF ThreadOk, Where, NpUsed, IpUsed, DpUsed, IputPoints, OpsAt, Creating
  <1>4. OthersStay(p) /\ (\A q \in Procs \ {p} : Still(q)) /\ UNCHANGED <<dinode, ent, dropped>>
    BY <1>1, ChdirMoves DEF Still, OthersStay, sys_chdir, TypeInv
  <1>5. t.op \notin {"link2", "unlink2"}
    BY <1>1, <1>3, ChdirMoves, ThreadAt DEF ThreadOk, Where, NpUsed, IpUsed, DpUsed, IputPoints, OpsAt, Creating, Ops
  <1>6. /\ PublicOrNone(t.np) /\ PublicOrNone(t.dp) /\ PublicOrNone(ofile[p])
        /\ PublicOrNone(t.ip) /\ (~Leaving(p) => PublicOrNone(cwd[p])) /\ PublicOrNone(None)
    BY <1>3, OwnPublic, NonePointer DEF NpUsed, PublicOrNone
  <1>7. PublicOrNone(None)
    BY NonePointer DEF PublicOrNone
  <1>8. Points6(p)
    <2>0. ~Leaving(p)
      BY <1>1, <1>3 DEF Leaving, NpUsed
    <2>1. CASE IsDir(t.ip)
      <3>1. u.np = t.np /\ u.ip = t.ip /\ u.dp = t.dp /\ u.putting = cwd[p]
        BY <1>1, <1>3, <2>1, ChdirMoves DEF Become
      <3>2. cwd'[p] = cwd[p] /\ ofile'[p] = ofile[p]
        BY <1>1, <2>1 DEF sys_chdir, TypeInv
      <3> HIDE DEF u, sys_chdir
      <3> QED
        BY <1>3, <1>6, <2>0, <3>1, <3>2 DEF Points6, PublicOrNone, u
    <2>2. CASE ~IsDir(t.ip)
      <3>1. u.np = t.np /\ u.ip = None /\ u.dp = t.dp /\ u.putting = t.ip
        BY <1>1, <1>3, <2>2, ChdirMoves DEF Become
      <3>2. cwd'[p] = cwd[p] /\ ofile'[p] = ofile[p]
        BY <1>1, <2>2 DEF sys_chdir, TypeInv
      <3> HIDE DEF u, sys_chdir
      <3> QED
        BY <1>3, <1>6, <2>0, <3>1, <3>2 DEF Points6, PublicOrNone, u
    <2> QED
      BY <1>3, <2>1, <2>2 DEF NpUsed
  <1>9. CacheStep(p)
    <2>1. Public(t.ip) /\ t.ip \in Inums /\ Read(t.ip) /\ UNCHANGED ref
      BY <1>3, <1>6 DEF PublicOrNone, sys_chdir
    <2> QED
      BY <2>1, ReadStep
  <1>10. CallOk(p)'
    BY <1>1, <1>3, <1>4, <1>5, ChdirMoves DEF CallOk, Where, IputPoints, Become, Keeps, Failed, NpUsed, Name
  <1>11. PendingOf(p)' = PendingOf(p)
    BY <1>1, <1>3, <1>5, ChdirMoves, NonePointer DEF PendingOf, Become, Creating
  <1>12. /\ th[p].pc \notin {"create_new", "itrunc", "invalidate"}
         /\ th'[p].pc \notin {"create_new", "itrunc", "invalidate"}
    BY <1>1, <1>3, ChdirMoves DEF Become, NpUsed
  <1> HIDE DEF sys_chdir
  <1> QED
    BY <1>2, <1>4, <1>8, <1>9, <1>10, <1>11, <1>12, QuietStep

LEMMA ChdirEndQuiet ==
  ASSUME NEW p \in Procs, RefInv, NlinkInv, chdir_end(p)
  PROVE  NlinkInv'
  <1> DEFINE t == th[p]
             u == th'[p]
  <1>1. TypeInv /\ ThreadInv /\ CallOk(p)
    BY DEF RefInv, NlinkInv, CallInv
  <1>2. RefInv'
    BY ChdirEndRef
  <1>3. /\ t.pc = "chdir_end" /\ t.np = None /\ t.dp = None /\ t.putting = None /\ t.cont = "user"
        /\ t.ip \in Inums /\ cwd[p] \in Inums
    BY <1>1, ChdirEndMoves, ThreadAt, NonePointer DEF ThreadOk, Where, NpUsed, IpUsed, DpUsed, IputPoints, OpsAt, Creating
  <1>4. OthersStay(p) /\ (\A q \in Procs \ {p} : Still(q)) /\ UNCHANGED <<dinode, ent, dropped>>
    BY <1>1, ChdirEndMoves DEF Still, OthersStay, chdir_end, TypeInv
  <1>5. t.op \notin {"link2", "unlink2"}
    BY <1>1, <1>3, ChdirEndMoves, ThreadAt DEF ThreadOk, Where, NpUsed, IpUsed, DpUsed, IputPoints, OpsAt, Creating, Ops
  <1>6. /\ PublicOrNone(t.np) /\ PublicOrNone(t.dp) /\ PublicOrNone(ofile[p])
        /\ PublicOrNone(t.ip) /\ (~Leaving(p) => PublicOrNone(cwd[p])) /\ PublicOrNone(None)
    BY <1>3, OwnPublic, NonePointer DEF NpUsed, PublicOrNone
  <1>7. PublicOrNone(None)
    BY NonePointer DEF PublicOrNone
  <1>8. Points6(p)
    <2>1. u.np = None /\ u.ip = None /\ u.dp = None /\ u.putting = None
      BY <1>1, ChdirEndMoves DEF Become
    <2>2. TRUE
      BY <1>1, <1>3, ChdirEndMoves DEF Leaving, Become, NpUsed, Failed
    <2>3. cwd'[p] = t.ip /\ ofile'[p] = ofile[p]
      BY <1>1 DEF chdir_end, TypeInv
    <2> HIDE DEF u, chdir_end
    <2> QED
      BY <1>3, <1>6, <1>7, <2>1, <2>2, <2>3 DEF Points6, PublicOrNone, u
  <1>9. CacheStep(p)
    BY NoCacheStep DEF chdir_end
  <1>10. CallOk(p)'
    BY <1>1, <1>3, <1>4, <1>5, ChdirEndMoves DEF CallOk, Where, IputPoints, Become, Keeps, Failed, NpUsed, Name
  <1>11. PendingOf(p)' = PendingOf(p)
    BY <1>1, <1>3, <1>5, ChdirEndMoves, NonePointer DEF PendingOf, Become, Creating
  <1>12. /\ th[p].pc \notin {"create_new", "itrunc", "invalidate"}
         /\ th'[p].pc \notin {"create_new", "itrunc", "invalidate"}
    BY <1>1, <1>3, ChdirEndMoves DEF Become, NpUsed
  <1> HIDE DEF chdir_end
  <1> QED
    BY <1>2, <1>4, <1>8, <1>9, <1>10, <1>11, <1>12, QuietStep

LEMMA IputLastQuiet ==
  ASSUME NEW p \in Procs, RefInv, NlinkInv, iput_last(p)
  PROVE  NlinkInv'
  <1> DEFINE t == th[p]
             u == th'[p]
  <1>1. TypeInv /\ ThreadInv /\ CallOk(p)
    BY DEF RefInv, NlinkInv, CallInv
  <1>2. RefInv'
    BY IputLastRef
  <1>3. t.pc = "iput" /\ t.putting \in Inums
    BY <1>1, IputLastMoves, ThreadAt, NonePointer DEF ThreadOk, Where, NpUsed, IpUsed, DpUsed, IputPoints, OpsAt, Creating
  <1>4. OthersStay(p) /\ (\A q \in Procs \ {p} : Still(q)) /\ UNCHANGED <<dinode, ent, dropped>>
    BY <1>1, IputLastMoves DEF Still, OthersStay, iput_last, TypeInv
  <1>5. PendingOf(p) = IF t.op \in {"link2", "unlink2"} THEN t.ip ELSE None
    BY DEF PendingOf
  <1>6. /\ PublicOrNone(t.np) /\ PublicOrNone(t.dp) /\ PublicOrNone(ofile[p])
        /\ PublicOrNone(t.ip) /\ (~Leaving(p) => PublicOrNone(cwd[p])) /\ PublicOrNone(None)
    BY <1>3, OwnPublic, NonePointer DEF NpUsed, PublicOrNone
  <1>7. PublicOrNone(None) /\ (t.pc \notin {"itrunc", "invalidate", "ref"} => PublicOrNone(t.putting))
    BY NonePointer, OwnPublic DEF PublicOrNone
  <1>8. Points6(p)
    <2>1. u.np = t.np /\ u.ip = t.ip /\ u.dp = t.dp /\ u.putting = t.putting
      BY <1>1, IputLastMoves DEF Become
    <2>2. Leaving(p)' <=> Leaving(p)
      BY <1>1, <1>3, IputLastMoves DEF Leaving, Become, NpUsed, Failed
    <2>3. cwd'[p] = cwd[p] /\ ofile'[p] = ofile[p]
      BY <1>1 DEF iput_last, TypeInv
    <2> HIDE DEF u, iput_last
    <2> QED
      BY <1>3, <1>6, <1>7, <2>1, <2>2, <2>3 DEF Points6, PublicOrNone, u
  <1>9. CacheStep(p)
    BY NoCacheStep DEF iput_last
  <1>10. CallOk(p)'
    BY <1>1, <1>3, <1>4, <1>5, IputLastMoves DEF CallOk, Where, IputPoints, Become, Keeps, Failed, NpUsed, Name
  <1>11. PendingOf(p)' = PendingOf(p)
    BY <1>1, <1>3, <1>5, IputLastMoves, NonePointer DEF PendingOf, Become, Creating
  <1>12. /\ th[p].pc \notin {"create_new", "itrunc", "invalidate"}
         /\ th'[p].pc \notin {"create_new", "invalidate"}
         /\ ref'[u.putting] = 1 /\ valid'[u.putting] /\ inode'[u.putting].nlink = 0
    BY <1>1, <1>3, IputLastMoves DEF Become, iput_last, LastLink
  <1> HIDE DEF iput_last
  <1> QED
    BY <1>2, <1>4, <1>8, <1>9, <1>10, <1>11, <1>12, QuietStep

LEMMA InvalidateQuiet ==
  ASSUME NEW p \in Procs, RefInv, NlinkInv, invalidate(p)
  PROVE  NlinkInv'
  <1> DEFINE t == th[p]
             u == th'[p]
  <1>1. TypeInv /\ ThreadInv /\ CallOk(p)
    BY DEF RefInv, NlinkInv, CallInv
  <1>2. RefInv'
    BY InvalidateRef
  <1>3. t.pc = "invalidate" /\ t.putting \in Inums
    BY <1>1, InvalidateMoves, ThreadAt, NonePointer DEF ThreadOk, Where, NpUsed, IpUsed, DpUsed, IputPoints, OpsAt, Creating
  <1>4. OthersStay(p) /\ (\A q \in Procs \ {p} : Still(q)) /\ UNCHANGED <<dinode, ent, dropped>>
    BY <1>1, InvalidateMoves DEF Still, OthersStay, invalidate, TypeInv
  <1>5. PendingOf(p) = IF t.op \in {"link2", "unlink2"} THEN t.ip ELSE None
    BY DEF PendingOf
  <1>6. /\ PublicOrNone(t.np) /\ PublicOrNone(t.dp) /\ PublicOrNone(ofile[p])
        /\ PublicOrNone(t.ip) /\ (~Leaving(p) => PublicOrNone(cwd[p])) /\ PublicOrNone(None)
    BY <1>3, OwnPublic, NonePointer DEF NpUsed, PublicOrNone
  <1>7. PublicOrNone(None)
    BY NonePointer DEF PublicOrNone
  <1>8. Points6(p)
    <2>1. u.np = t.np /\ u.ip = t.ip /\ u.dp = t.dp /\ u.putting = t.putting
      BY <1>1, InvalidateMoves DEF Become
    <2>2. (Leaving(p)' <=> Leaving(p)) /\ u.pc = "ref"
      BY <1>1, <1>3, InvalidateMoves DEF Leaving, Become, NpUsed, Failed
    <2>3. cwd'[p] = cwd[p] /\ ofile'[p] = ofile[p]
      BY <1>1 DEF invalidate, TypeInv
    <2> HIDE DEF u, invalidate
    <2> QED
      BY <1>3, <1>6, <1>7, <2>1, <2>2, <2>3 DEF Points6, PublicOrNone, u
  <1>9. CacheStep(p)
    <2>1. UNCHANGED <<inode, ref>> /\ valid' = [valid EXCEPT ![t.putting] = FALSE]
      BY DEF invalidate
    <2>2. \A i \in Inums \ {t.putting} : valid'[i] = valid[i]
      BY <1>1, <2>1 DEF TypeInv
    <2>3. ~valid'[t.putting]
      BY <1>1, <1>3, <2>1 DEF TypeInv
    <2>4. ASSUME NEW q \in Procs \ {p}, th[q].pc = "itrunc", th[q].putting = t.putting PROVE FALSE
      <3>1. <<p, "putting">> \in Holders(t.putting)
        BY Holding, PtrAt DEF Fields
      <3>2. <<p, "putting">> = <<q, "putting">>
        BY <1>3, <2>4, <3>1, TruncSole
      <3> QED
        BY <3>2
    <2>5. \A i \in Inums : inode[i].nlink >= 0
      BY DEF NlinkInv, LinkInv
    <2> HIDE DEF invalidate
    <2> QED
      BY <2>1, <2>2, <2>3, <2>4, <2>5 DEF CacheStep
  <1>10. CallOk(p)'
    BY <1>1, <1>3, <1>4, <1>5, InvalidateMoves DEF CallOk, Where, IputPoints, Become, Keeps, Failed, NpUsed, Name
  <1>11. PendingOf(p)' = PendingOf(p)
    BY <1>1, <1>3, <1>5, InvalidateMoves, NonePointer DEF PendingOf, Become, Creating
  <1>12. /\ th[p].pc = "invalidate" /\ u.pc = "ref" /\ ~valid'[t.putting]
    BY <1>1, <1>3, InvalidateMoves DEF Become, invalidate, TypeInv
  <1> HIDE DEF invalidate
  <1> QED
    BY <1>2, <1>4, <1>8, <1>9, <1>10, <1>11, <1>12, QuietStep

LEMMA IputQuiet ==
  ASSUME NEW p \in Procs, RefInv, NlinkInv, iput(p)
  PROVE  NlinkInv'
  <1> DEFINE t == th[p]
             u == th'[p]
  <1>1. TypeInv /\ ThreadInv /\ CallOk(p)
    BY DEF RefInv, NlinkInv, CallInv
  <1>2. RefInv'
    BY IputRef
  <1>3. t.pc \in {"iput", "ref"} /\ t.putting \in Inums
    BY <1>1, IputMoves, ThreadAt, NonePointer DEF ThreadOk, Where, NpUsed, IpUsed, DpUsed, IputPoints, OpsAt, Creating
  <1>4. OthersStay(p) /\ (\A q \in Procs \ {p} : Still(q)) /\ UNCHANGED <<dinode, ent, dropped>>
    BY <1>1, IputMoves DEF Still, OthersStay, iput, TypeInv
  <1>5. PendingOf(p) = IF t.op \in {"link2", "unlink2"} THEN t.ip ELSE None
    BY DEF PendingOf
  <1>6. /\ PublicOrNone(t.np) /\ PublicOrNone(t.dp) /\ PublicOrNone(ofile[p])
        /\ PublicOrNone(t.ip) /\ (~Leaving(p) => PublicOrNone(cwd[p])) /\ PublicOrNone(None)
    BY <1>3, OwnPublic, NonePointer DEF NpUsed, PublicOrNone
  <1>7. PublicOrNone(None)
    BY NonePointer DEF PublicOrNone
  <1>8. Points6(p)
    <2>1. u.np = t.np /\ u.ip = t.ip /\ u.dp = t.dp /\ u.putting = None
      <3>1. CASE t.cont = "user"
        BY <1>1, <1>3, <3>1, IputMoves, ThreadAt, NonePointer DEF Become, ThreadOk, Where, NpUsed, IpUsed, DpUsed, IputPoints
      <3>2. CASE t.cont # "user"
        BY <1>1, <1>3, <3>2, IputMoves DEF Become
      <3> QED
        BY <3>1, <3>2
    <2>2. Leaving(p)' <=> Leaving(p)
      BY <1>1, <1>3, IputMoves DEF Leaving, Become
    <2>3. cwd'[p] = cwd[p] /\ ofile'[p] = ofile[p]
      BY DEF iput
    <2> HIDE DEF u, iput
    <2> QED
      BY <1>6, <2>1, <2>2, <2>3 DEF Points6, u
  <1>9. CacheStep(p)
    <2> DEFINE i == t.putting
    <2>1. /\ ref' = [ref EXCEPT ![i] = @ - 1]
          /\ inode' = IF ref[i] = 1 THEN [inode EXCEPT ![i] = FreeInode] ELSE inode
          /\ valid' = IF ref[i] = 1 THEN [valid EXCEPT ![i] = FALSE] ELSE valid
      BY DEF iput
    <2>2. /\ \A j \in Inums \ {i} : inode'[j] = inode[j] /\ valid'[j] = valid[j] /\ ref'[j] = ref[j]
          /\ ~valid'[i] \/ (inode'[i] = inode[i] /\ valid'[i] = valid[i])
          /\ inode'[i] \in {inode[i], FreeInode}
      BY <1>1, <1>3, <2>1 DEF TypeInv
    <2>3. ASSUME NEW q \in Procs \ {p}, th[q].pc = "itrunc", th[q].putting = i PROVE FALSE
      <3>1. <<p, "putting">> \in Holders(i)
        BY Holding, PtrAt DEF Fields
      <3>2. <<p, "putting">> = <<q, "putting">>
        BY <1>3, <2>3, <3>1, TruncSole
      <3> QED
        BY <3>2
    <2>4. (\A j \in Inums : inode[j].nlink >= 0) /\ FreeInode.nlink = 0
      BY DEF NlinkInv, LinkInv, FreeInode
    <2>5. \A j \in Inums : inode'[j].nlink >= 0
      BY <2>2, <2>4
    <2> HIDE DEF iput
    <2> QED
      BY <2>2, <2>3, <2>5 DEF CacheStep
  <1>10. CallOk(p)'
    <2>1. CASE t.cont = "user"
      BY <1>1, <1>3, <2>1, IputMoves DEF CallOk, Where, IputPoints, Become
    <2>2. CASE t.cont # "user"
      <3>1. t.cont \notin IputPoints /\ Where(p) = t.cont
        BY <1>1, <1>3, ThreadAt DEF ThreadOk, Where, IputPoints
      <3> QED
        BY <1>1, <1>3, <1>4, <2>2, <3>1, IputMoves DEF CallOk, Where, Become, Keeps, Name, IputPoints
    <2> QED
      BY <2>1, <2>2
  <1>11. PendingOf(p)' = PendingOf(p)
    <2>1. CASE t.cont = "user"
      <3>1. t.ip = None
        BY <1>1, <1>3, <2>1, ThreadAt, NonePointer DEF ThreadOk, Where, IpUsed, IputPoints
      <3> QED
        BY <1>1, <1>3, <2>1, <3>1, IputMoves DEF PendingOf, Become
    <2>2. CASE t.cont # "user"
      BY <1>1, <1>3, <2>2, IputMoves DEF PendingOf, Become
    <2> QED
      BY <2>1, <2>2
  <1>12. /\ th[p].pc \notin {"create_new", "itrunc", "invalidate"}
         /\ th'[p].pc \notin {"create_new", "itrunc", "invalidate"}
    BY <1>1, <1>3, IputMoves, ThreadAt DEF Become, CallOk, ThreadOk, Where, IputPoints
  <1> HIDE DEF iput
  <1> QED
    BY <1>2, <1>4, <1>8, <1>9, <1>10, <1>11, <1>12, QuietStep

-----------------------------------------------------------------------------
(* The actions that write to the disk.                                     *)

Untouched(i) ==
  /\ dinode'[i] = dinode[i] /\ ent'[i] = ent[i]
  /\ inode'[i] = inode[i] /\ valid'[i] = valid[i] /\ ref'[i] = ref[i]

(* What p may change: an inode that no other process creates or frees.     *)
Mine(p, i) ==
  /\ \A q \in Procs \ {p} :
        /\ ~Creator(q, i) /\ ~(th[q].pc = "itrunc" /\ th[q].putting = i)
        /\ th[q].pc = "invalidate" /\ th[q].putting = i => Creator(p, i)'
  /\ valid'[i] => (Alive(i)' /\ inode'[i] = dinode'[i]) \/ Invalidating(i)'
  /\ inode'[i] \in {inode[i], dinode'[i]}

CountsNext ==
  \A i \in Inums :
     /\ dinode'[i].nlink = Cardinality(Entries(i)') + Pending(i)' + dropped'[i]
     /\ dinode'[i].type = "free" => dinode'[i].nlink = 0

(* The inodes that the other processes have pointers to stay in use, and   *)
(* the pointers of p after the step are to inodes in use, known to all.    *)
OthersKeep(p) ==
  \A q \in Procs \ {p}, f \in Fields, i \in Inums :
     Pointer(q, f) = i /\ Alive(i) => dinode'[i].type = dinode[i].type
OwnKept(p) ==
  \A f \in Fields, i \in Inums :
     Pointer(p, f)' = i => Putter(<<p, f>>)' \/ (Alive(i)' /\ \A q \in Procs \ {p} : ~Creator(q, i))

LEMMA DiskStep ==
  ASSUME NEW p \in Procs, RefInv, NlinkInv, RefInv', \A q \in Procs \ {p} : Still(q),
         OthersKeep(p), OwnKept(p),
         \A i \in Inums : Untouched(i) \/ Mine(p, i),
         \A d \in Inums : ent'[d] = ent[d] \/ lock[d] \in {p, Nobody},
         th[p].pc # "invalidate", \A i \in Inums : Creator(p, i) => Mine(p, i),
         th'[p].pc # "itrunc", th'[p].pc = "invalidate" => dinode'[th'[p].putting].type = "free",
         th'[p].pc = "create_new" => NewOk(p)',
         TreeInv', CallOk(p)', CountsNext
  PROVE  NlinkInv'
  <1>1. \A q \in Procs \ {p} : th'[q] = th[q] /\ \A f \in Fields : Pointer(q, f)' = Pointer(q, f)
    BY DEF Still, Pointer, Fields, Leaving
  <1>2. \A q \in Procs \ {p}, i \in Inums : Creator(q, i)' <=> Creator(q, i)
    BY <1>1 DEF Creator
  <1>3. PointerInv'
    <2> SUFFICES ASSUME NEW i \in Inums, NEW q \in Procs, NEW f \in Fields, Pointer(q, f)' = i
                 PROVE  Alive(i)' \/ Putter(<<q, f>>)'
      BY DEF PointerInv, Holders
    <2>1. CASE q # p
      <3>1. Pointer(q, f) = i /\ th'[q] = th[q]
        BY <1>1, <2>1
      <3>2. Alive(i) \/ Putter(<<q, f>>)
        BY <3>1, Holding DEF NlinkInv, PointerInv
      <3>3. Putter(<<q, f>>) => Putter(<<q, f>>)'
        BY <3>1 DEF Putter
      <3>4. Alive(i) => Alive(i)'
        BY <2>1, <3>1 DEF OthersKeep, Alive
      <3> QED
        BY <3>2, <3>3, <3>4
    <2>2. CASE q = p
      BY <2>2 DEF OwnKept
    <2> QED
      BY <2>1, <2>2
  <1>4. TruncInv'
    <2> SUFFICES ASSUME NEW q \in Procs, th'[q].pc = "itrunc", NEW i, i = th'[q].putting
                 PROVE  ref'[i] = 1 /\ valid'[i] /\ inode'[i].nlink = 0
      BY DEF TruncInv
    <2>1. q # p /\ th[q].pc = "itrunc" /\ th[q].putting = i
      BY <1>1
    <2>2. ref[i] = 1 /\ valid[i] /\ inode[i].nlink = 0
      BY <2>1 DEF NlinkInv, TruncInv
    <2>3. i \in Inums
      BY <2>1, ThreadAt DEF RefInv, ThreadOk, IputPoints
    <2>4. Untouched(i)
      BY <2>1, <2>3 DEF Mine
    <2> QED
      BY <2>2, <2>4 DEF Untouched
  <1>5. FreedInv'
    <2> SUFFICES ASSUME NEW q \in Procs, th'[q].pc = "invalidate", NEW i, i = th'[q].putting
                 PROVE  ~Alive(i)' \/ \E r \in Procs : Creator(r, i)'
      BY DEF FreedInv
    <2>1. CASE q # p
      <3>1. th[q].pc = "invalidate" /\ th[q].putting = i
        BY <1>1, <2>1
      <3>2. i \in Inums
        BY <3>1, ThreadAt DEF RefInv, ThreadOk, IputPoints
      <3>3. CASE Mine(p, i)
        BY <2>1, <3>1, <3>3 DEF Mine
      <3>4. CASE Untouched(i) /\ ~Mine(p, i)
        <4>1. ~Alive(i) \/ \E r \in Procs : Creator(r, i)
          BY <3>1 DEF NlinkInv, FreedInv
        <4>2. ~Creator(p, i)
          BY <3>2, <3>4
        <4>3. ~Alive(i) => ~Alive(i)'
          BY <3>4 DEF Untouched, Alive
        <4> QED
          BY <1>2, <3>2, <4>1, <4>2, <4>3
      <3> QED
        BY <3>2, <3>3, <3>4
    <2>2. CASE q = p
      BY <2>2 DEF Alive
    <2> QED
      BY <2>1, <2>2
  <1>6. CacheInv'
    <2> SUFFICES ASSUME NEW i \in Inums, valid'[i]
                 PROVE  (Alive(i)' /\ inode'[i] = dinode'[i]) \/ Invalidating(i)'
      BY DEF CacheInv
    <2>1. CASE Mine(p, i)
      BY <2>1 DEF Mine
    <2>2. CASE Untouched(i)
      <3>1. valid[i] /\ (Alive(i) => Alive(i)') /\ inode'[i] = inode[i] /\ dinode'[i] = dinode[i]
        BY <2>2 DEF Untouched, Alive
      <3>2. CASE Invalidating(i)
        <4>1. PICK q \in Procs : th[q].pc = "invalidate" /\ th[q].putting = i
          BY <3>2 DEF Invalidating
        <4>2. q # p
          BY <4>1
        <4> QED
          BY <1>1, <4>1, <4>2 DEF Invalidating
      <3> QED
        BY <3>1, <3>2 DEF NlinkInv, CacheInv
    <2> QED
      BY <2>1, <2>2
  <1>7. NewInv'
    <2> SUFFICES ASSUME NEW q \in Procs, th'[q].pc = "create_new" PROVE NewOk(q)'
      BY DEF NewInv
    <2>1. CASE q # p
      <3>1. th'[q] = th[q] /\ th[q].pc = "create_new"
        BY <1>1, <2>1
      <3> DEFINE i == th[q].ip
                 d == th[q].dp
      <3>2. NewOk(q) /\ i \in Inums /\ d \in Inums
        BY <3>1, ThreadAt DEF RefInv, ThreadOk, IputPoints, Where, IpUsed, DpUsed, NlinkInv, NewInv
      <3>3. Creator(q, i)
        BY <3>1 DEF Creator
      <3>4. lock[d] = q
        BY <3>1, <3>2, HeldLocks DEF RefInv, LocksHeld, Where, DpLocked, IputPoints
      <3>5. th'[q].ip = i /\ th'[q].dp = d /\ Name(q)' = Name(q) /\ Type(th'[q]) = Type(th[q])
        BY <3>1 DEF Name
      <3>6. /\ dinode[i] = [type |-> Type(th[q]), nlink |-> 0] /\ ent[i] = NoEntries /\ ent[d][Name(q)] = None
            /\ \A x \in Holders(i) : x = <<q, "ip">> \/ Putter(x)
        BY <3>2 DEF NewOk
      <3> HIDE DEF i, d
      <3>7. Untouched(i)
        BY <2>1, <3>2, <3>3 DEF Mine
      <3>8. ent'[d] = ent[d]
        BY <2>1, <3>2, <3>4, Constants
      <3>9. ASSUME NEW r \in Procs, NEW f \in Fields, Pointer(r, f)' = i
            PROVE  <<r, f>> = <<q, "ip">> \/ Putter(<<r, f>>)'
        <4>1. CASE r = p
          BY <2>1, <3>2, <3>3, <3>9, <4>1 DEF OwnKept
        <4>2. CASE r # p
          <5>1. Pointer(r, f) = i /\ th'[r] = th[r]
            BY <1>1, <3>9, <4>2
          <5>2. <<r, f>> = <<q, "ip">> \/ Putter(<<r, f>>)
            BY <3>6, <5>1, Holding
          <5> QED
            BY <5>1, <5>2 DEF Putter
        <4> QED
          BY <4>1, <4>2
      <3>10. ASSUME NEW x \in Procs \X Fields, Pointer(x[1], x[2])' = i PROVE x = <<q, "ip">> \/ Putter(x)'
        <4>1. PICK r \in Procs, f \in Fields : x = <<r, f>>
          OBVIOUS
        <4> QED
          BY <3>9, <3>10, <4>1
      <3>11. /\ dinode'[i] = [type |-> Type(th'[q]), nlink |-> 0] /\ ent'[i] = NoEntries
             /\ ent'[th'[q].dp][Name(q)'] = None
        BY <3>5, <3>6, <3>7, <3>8 DEF Untouched
      <3> QED
        BY <3>5, <3>10, <3>11 DEF NewOk, Holders
    <2> QED
      BY <2>1
  <1>8. CallInv'
    <2> SUFFICES ASSUME NEW q \in Procs PROVE CallOk(q)'
      BY DEF CallInv
    <2>1. CASE q # p
      <3> DEFINE t == th[q]
      <3>1. CallOk(q) /\ th'[q] = t
        BY <1>1, <2>1 DEF NlinkInv, CallInv
      <3>2. ASSUME Where(q) \in {"parent", "create_new", "unlink_ip"} PROVE dinode'[t.dp].type = "dir"
        <4>1. t.dp \in Inums /\ dinode[t.dp].type = "dir"
          BY <3>1, <3>2, ThreadAt DEF RefInv, ThreadOk, DpUsed, CallOk
        <4>2. Pointer(q, "dp") = t.dp /\ "dp" \in Fields
          BY PtrAt DEF Fields
        <4> QED
          BY <2>1, <4>1, <4>2 DEF OthersKeep, Alive
      <3>3. ASSUME t.op = "link2" PROVE dinode'[t.ip].type # "dir"
        <4>1. dinode[t.ip].type # "dir"
          BY <3>1, <3>3 DEF CallOk
        <4>2. t.ip \in Inums /\ t.pc # "create_new"
          <5>1. t.ip # None /\ t.pc # "create_new"
            BY <3>3, ThreadAt DEF RefInv, ThreadOk, OpsAt, IpUsed, Creating, Ops, Where, IputPoints
          <5> QED
            BY <5>1, ThreadAt DEF RefInv
        <4>3. Pointer(q, "ip") = t.ip /\ "ip" \in Fields
          BY PtrAt DEF Fields
        <4>4. Alive(t.ip)
          BY <4>2, <4>3, HeldPublic DEF Public
        <4> QED
          BY <2>1, <4>1, <4>2, <4>3, <4>4 DEF OthersKeep
      <3>4. ASSUME t.pc = "unlink_ip" PROVE Name(q) \in Names /\ ent'[t.dp][Name(q)] = t.ip
        <4>1. t.dp \in Inums
          BY <3>4, ThreadAt DEF RefInv, ThreadOk, DpUsed, Where, IputPoints
        <4>2. lock[t.dp] = q
          BY <3>4, <4>1, HeldLocks DEF RefInv, LocksHeld, Where, DpLocked, IputPoints
        <4>3. ent'[t.dp] = ent[t.dp]
          BY <2>1, <4>1, <4>2, Constants
        <4> QED
          BY <3>1, <3>4, <4>3 DEF CallOk
      <3>5. Where(q)' = Where(q) /\ Name(q)' = Name(q)
        BY <3>1 DEF Where, Name
      <3> QED
        BY <3>1, <3>2, <3>3, <3>4, <3>5 DEF CallOk
    <2> QED
      BY <2>1
  <1>9. LinkInv'
    <2>1. ASSUME NEW i \in Inums PROVE inode'[i].nlink >= 0
      <3>1. inode[i].nlink >= 0
        BY DEF NlinkInv, LinkInv
      <3>2. Cardinality(Entries(i)') \in Nat /\ Pending(i)' \in Nat /\ dropped'[i] \in Nat
        BY EntriesFiniteNext, PendingSetNext DEF RefInv, TypeInv
      <3>3. dinode'[i].nlink >= 0
        BY <3>2 DEF CountsNext
      <3>4. inode'[i] \in {inode[i], dinode'[i]}
        BY DEF Untouched, Mine
      <3> QED
        BY <3>1, <3>3, <3>4
    <2> QED
      BY <2>1 DEF LinkInv, CountsNext
  <1> QED
    BY <1>3, <1>4, <1>5, <1>6, <1>7, <1>8, <1>9 DEF NlinkInv

SameTypes == \A i \in Inums : dinode'[i].type = dinode[i].type

LEMMA TypesKept ==
  ASSUME NEW p \in Procs, Points6(p), SameTypes
  PROVE  OwnKept(p) /\ OthersKeep(p)
  <1>1. OthersKeep(p)
    BY DEF OthersKeep, SameTypes
  <1>2. ASSUME NEW f \in Fields, NEW i \in Inums, Pointer(p, f)' = i
        PROVE  Putter(<<p, f>>)' \/ (Alive(i)' /\ \A q \in Procs \ {p} : ~Creator(q, i))
    <2>1. Public(i) \/ Putter(<<p, f>>)'
      BY <1>2, NewPointers
    <2>2. Alive(i)' <=> Alive(i)
      BY DEF SameTypes, Alive
    <2> QED
      BY <2>1, <2>2 DEF Public
  <1> QED
    BY <1>1, <1>2 DEF OwnKept

LEMMA SameTree ==
  ASSUME NEW p \in Procs, TypeInv, NlinkInv, SameTypes, UNCHANGED ent, \A q \in Procs \ {p} : Still(q),
         th[p].pc # "create_new"
  PROVE  TreeInv'
  <1>1. TreeInv
    BY DEF NlinkInv
  <1>2. \A i \in Inums : (\E q \in Procs : Creator(q, i)) => \E q \in Procs : Creator(q, i)'
    BY DEF Creator, Still
  <1>3. \A d \in Inums, n \in Names : ent[d][n] # None => ent[d][n] \in Inums
    BY DEF TypeInv, Elems, Pointers
  <1>4. ROOTINO \in Inums
    BY Constants
  <1> HIDE DEF Creator
  <1>5. (\A i \in Inums : dinode[i].type # "dir" => ent[i] = NoEntries)'
    BY <1>1 DEF TreeInv, SameTypes
  <1>6. (\A i \in Inums : dinode[i].type = "dir" =>
            \/ ent[i]["."] = i /\ ent[i][".."] # None
            \/ \E q \in Procs : Creator(q, i))'
    BY <1>1, <1>2 DEF TreeInv, SameTypes
  <1>7. (\A d \in Inums, n \in Names : ent[d][n] # None /\ dinode[ent[d][n]].type = "dir" =>
            /\ ent[d][n] # ROOTINO /\ ent[ent[d][n]][".."] = d
            /\ \A e \in Inums, m \in Names : ent[e][m] = ent[d][n] => e = d /\ m = n)'
    BY <1>1, <1>3 DEF TreeInv, SameTypes
  <1>8. (dinode[ROOTINO].type = "dir" /\ ent[ROOTINO][".."] = ROOTINO)'
    BY <1>1, <1>4 DEF TreeInv, SameTypes
  <1> QED
    BY <1>5, <1>6, <1>7, <1>8 DEF TreeInv

(* An inode known to all, which p writes through or leaves as it is.       *)
LEMMA PublicMine ==
  ASSUME NlinkInv, NEW p \in Procs, NEW i \in Inums, Public(i), dinode'[i].type = dinode[i].type,
         \/ inode'[i] = dinode'[i]
         \/ inode'[i] = inode[i] /\ valid'[i] = valid[i] /\ dinode'[i] = dinode[i]
  PROVE  Mine(p, i)
  <1>1. Alive(i)' /\ ~Invalidating(i)
    BY DEF Public, Alive, Invalidating
  <1>2. valid[i] => inode[i] = dinode[i]
    BY <1>1 DEF NlinkInv, CacheInv
  <1>3. \A q \in Procs \ {p} : ~Creator(q, i) /\ ~(th[q].pc \in {"itrunc", "invalidate"} /\ th[q].putting = i)
    BY DEF Public
  <1> QED
    BY <1>1, <1>2, <1>3 DEF Mine

(* link() counts a name before it is there, unlink() after it has gone.    *)
LEMMA CountStep ==
  ASSUME NEW p \in Procs, RefInv, NlinkInv, RefInv', \A q \in Procs \ {p} : Still(q),
         NEW ip \in Inums, Public(ip), NEW k \in {1, -1},
         dinode' = [dinode EXCEPT ![ip] = Linked(ip, k)], inode' = [inode EXCEPT ![ip] = Linked(ip, k)],
         UNCHANGED <<ent, dropped>>, \A i \in Inums \ {ip} : valid'[i] = valid[i],
         \A i \in Inums : ref'[i] = ref[i] \/ Public(i),
         \A i \in Inums : One(PendingOf(p)' = i) - One(PendingOf(p) = i) = IF i = ip THEN k ELSE 0,
         th[p].pc \notin {"create_new", "invalidate"},
         th'[p].pc \notin {"create_new", "itrunc", "invalidate"}, Points6(p), CallOk(p)'
  PROVE  NlinkInv'
  <1>0. TypeInv /\ TypeInv'
    BY DEF RefInv
  <1>1. /\ Linked(ip, k).type = dinode[ip].type /\ Linked(ip, k).nlink = dinode[ip].nlink + k
        /\ dinode[ip].nlink \in Int
    <2>1. Content(ip) = dinode[ip] /\ dinode[ip] \in Records
      BY PublicContent, <1>0 DEF TypeInv
    <2> QED
      BY <2>1 DEF Linked, Records
  <1>2. /\ dinode'[ip] = Linked(ip, k) /\ inode'[ip] = Linked(ip, k)
        /\ \A i \in Inums \ {ip} : dinode'[i] = dinode[i] /\ inode'[i] = inode[i]
    BY <1>0 DEF TypeInv
  <1>3. SameTypes
    BY <1>1, <1>2 DEF SameTypes
  <1>4. TreeInv'
    BY <1>0, <1>3, SameTree
  <1>5. ASSUME NEW i \in Inums PROVE Untouched(i) \/ Mine(p, i)
    <2>1. CASE i = ip
      BY <1>2, <1>3, <2>1, PublicMine DEF SameTypes
    <2>2. CASE i # ip /\ Public(i)
      BY <1>2, <1>3, <2>2, PublicMine DEF SameTypes
    <2>3. CASE i # ip /\ ref'[i] = ref[i]
      BY <1>2, <2>3 DEF Untouched
    <2> QED
      BY <2>1, <2>2, <2>3
  <1>6. CountsNext
    <2> SUFFICES ASSUME NEW i \in Inums
                 PROVE  /\ dinode'[i].nlink = Cardinality(Entries(i)') + Pending(i)' + dropped'[i]
                        /\ dinode'[i].type = "free" => dinode'[i].nlink = 0
      BY DEF CountsNext
    <2>1. /\ dinode[i].nlink = Cardinality(Entries(i)) + Pending(i) + dropped[i]
          /\ dinode[i].type = "free" => dinode[i].nlink = 0
      BY DEF NlinkInv, LinkInv
    <2>2. Entries(i)' = Entries(i)
      BY DEF Entries, Named, NamedIn
    <2>3. Cardinality(Entries(i)) \in Nat /\ dropped[i] \in Nat
      BY <1>0, EntriesFinite DEF TypeInv
    <2>4. /\ Pending(i)' = Pending(i) + One(PendingOf(p)' = i) - One(PendingOf(p) = i)
          /\ Pending(i) \in Nat /\ Pending(i)' \in Nat
      <3>1. OthersStay(p)
        BY DEF OthersStay, Still
      <3> QED
        BY <3>1, PendingStep
    <2>5. One(PendingOf(p)' = i) \in Int /\ One(PendingOf(p) = i) \in Int
      BY DEF One
    <2> HIDE DEF One, PendingOf
    <2>6. CASE i = ip
      <3>1. Pending(i)' = Pending(i) + k
        BY <2>4, <2>5, <2>6
      <3>2. dinode'[i].nlink = dinode[i].nlink + k /\ dinode'[i].type # "free"
        BY <1>1, <1>2, <2>6 DEF Public, Alive
      <3>3. k \in Int /\ dinode[i].nlink \in Int
        BY <1>1, <2>6
      <3>4. \A a, e, q, r, d, b \in Int : a = e + q + d /\ r = q + k /\ b = a + k => b = e + r + d
        BY <3>3
      <3>5. dinode'[i].nlink = Cardinality(Entries(i)) + Pending(i)' + dropped[i]
        BY <2>1, <2>3, <2>4, <3>1, <3>2, <3>3, <3>4
      <3> QED
        BY <2>2, <3>2, <3>5
    <2>7. CASE i # ip
      <3>1. Pending(i)' = Pending(i)
        BY <2>4, <2>5, <2>7
      <3> QED
        BY <1>2, <2>1, <2>2, <2>7, <3>1
    <2> QED
      BY <2>6, <2>7
  <1>7. OwnKept(p) /\ OthersKeep(p)
    BY <1>3, TypesKept
  <1>8. \A i \in Inums : ~Creator(p, i)
    BY DEF Creator
  <1> QED
    BY <1>4, <1>5, <1>6, <1>7, <1>8, DiskStep

LEMMA LinkNlinkLinks ==
  ASSUME NEW p \in Procs, RefInv, NlinkInv, link_nlink(p)
  PROVE  NlinkInv'
  <1> DEFINE t == th[p]
             u == th'[p]
  <1>1. TypeInv /\ ThreadInv /\ CallOk(p)
    BY DEF RefInv, NlinkInv, CallInv
  <1>2. RefInv'
    BY LinkNlinkRef
  <1>3. t.pc = "inode" /\ t.op = "link" /\ t.np = None /\ t.putting = None /\ t.cont = "user" /\ t.ip \in Inums
    BY <1>1, LinkNlinkMoves, ThreadAt, NonePointer DEF ThreadOk, Where, NpUsed, IpUsed, DpUsed, IputPoints, OpsAt, Creating
  <1>4. \A q \in Procs \ {p} : Still(q)
    BY <1>1, LinkNlinkMoves DEF Still, OthersStay, link_nlink, TypeInv
  <1>5. t.op = "link"
    BY <1>1, <1>3, LinkNlinkMoves, ThreadAt DEF ThreadOk, Where, NpUsed, IpUsed, DpUsed, IputPoints, OpsAt, Creating, Ops
  <1>6. /\ PublicOrNone(t.np) /\ PublicOrNone(t.dp) /\ PublicOrNone(ofile[p]) /\ Public(t.ip)
        /\ (~Leaving(p) => PublicOrNone(cwd[p])) /\ PublicOrNone(None)
    BY <1>3, OwnPublic, NonePointer DEF NpUsed, PublicOrNone
  <1>7. Start(p, t.new) \in Inums /\ Public(Start(p, t.new))
    BY <1>1, <1>3, <1>6, LinkNlinkMoves, RootPublic, Constants DEF Start, PublicOrNone, Leaving
  <1>8. Points6(p)
    <2>1. u.np = Start(p, t.new) /\ u.ip = t.ip /\ u.dp = t.dp /\ u.putting = t.putting
      BY <1>1, LinkNlinkMoves DEF Become
    <2>2. ~Leaving(p)
      BY <1>1, <1>3 DEF Leaving
    <2>3. cwd'[p] = cwd[p] /\ ofile'[p] = ofile[p]
      BY <1>1 DEF link_nlink, TypeInv
    <2> HIDE DEF u, link_nlink
    <2> QED
      BY <1>3, <1>6, <1>7, <2>1, <2>2, <2>3 DEF Points6, PublicOrNone, u
  <1>9. dinode' = [dinode EXCEPT ![t.ip] = Linked(t.ip, 1)] /\ inode' = [inode EXCEPT ![t.ip] = Linked(t.ip, 1)]
    BY DEF link_nlink, Update
  <1>10. UNCHANGED <<ent, dropped>> /\ \A i \in Inums \ {t.ip} : valid'[i] = valid[i]
    BY <1>1 DEF link_nlink, TypeInv
  <1>11. \A i \in Inums : ref'[i] = ref[i] \/ Public(i)
    BY <1>1, <1>7 DEF link_nlink, iget, TypeInv
  <1>12. \A i \in Inums : One(PendingOf(p)' = i) - One(PendingOf(p) = i) = IF i = t.ip THEN 1 ELSE 0
    <2>1. PendingOf(p) = None /\ PendingOf(p)' = t.ip
      BY <1>1, <1>3, <1>5, LinkNlinkMoves DEF PendingOf, Become
    <2> HIDE DEF link_nlink, PendingOf
    <2> QED
      BY <1>3, <2>1, Constants DEF One
  <1>13. CallOk(p)'
    <2>1. u.op = "link2" /\ u.ip = t.ip /\ u.pc = "nameiparent" /\ u.cont = "user"
      BY <1>1, <1>3, LinkNlinkMoves DEF Become
    <2>2. dinode'[t.ip].type # "dir"
      <3>1. Content(t.ip).type # "dir" /\ Content(t.ip) \in Records
        BY <1>1, <1>3, ContentType DEF link_nlink, IsDir
      <3>2. dinode'[t.ip] = Linked(t.ip, 1)
        BY <1>1, <1>3, <1>9 DEF TypeInv
      <3> QED
        BY <3>1, <3>2 DEF Linked, Records
    <2> HIDE DEF u, link_nlink
    <2> QED
      BY <2>1, <2>2 DEF CallOk, Where, IputPoints, u
  <1>14. /\ t.pc \notin {"create_new", "invalidate"} /\ u.pc \notin {"create_new", "itrunc", "invalidate"}
         /\ t.ip \in Inums /\ 1 \in {1, -1}
    BY <1>1, <1>3, LinkNlinkMoves DEF Become
  <1> HIDE DEF link_nlink
  <1> QED
    BY <1>2, <1>4, <1>6, <1>8, <1>9, <1>10, <1>11, <1>12, <1>13, <1>14, CountStep

LEMMA UndoLinks ==
  ASSUME NEW p \in Procs, RefInv, NlinkInv, undo(p)
  PROVE  NlinkInv'
  <1> DEFINE t == th[p]
             u == th'[p]
  <1>1. TypeInv /\ ThreadInv /\ CallOk(p)
    BY DEF RefInv, NlinkInv, CallInv
  <1>2. RefInv'
    BY UndoRef
  <1>3. t.pc = "undo" /\ t.putting = None /\ t.cont = "user" /\ t.ip \in Inums
    BY <1>1, UndoMoves, ThreadAt, NonePointer DEF ThreadOk, Where, NpUsed, IpUsed, DpUsed, IputPoints, OpsAt, Creating
  <1>4. \A q \in Procs \ {p} : Still(q)
    BY <1>1, UndoMoves DEF Still, OthersStay, undo, TypeInv
  <1>5. t.op = "link2"
    BY <1>1, <1>3, UndoMoves, ThreadAt DEF ThreadOk, Where, NpUsed, IpUsed, DpUsed, IputPoints, OpsAt, Creating, Ops
  <1>6. /\ PublicOrNone(t.np) /\ PublicOrNone(t.dp) /\ PublicOrNone(ofile[p]) /\ Public(t.ip)
        /\ (~Leaving(p) => PublicOrNone(cwd[p])) /\ PublicOrNone(None)
    BY <1>3, OwnPublic, NonePointer DEF NpUsed, PublicOrNone
  <1>7. TRUE
    OBVIOUS
  <1>8. Points6(p)
    <2>1. u.np = t.np /\ u.ip = None /\ u.dp = t.dp /\ u.putting = t.ip
      BY <1>1, UndoMoves DEF Become
    <2>2. ~Leaving(p)
      BY <1>1, <1>3 DEF Leaving
    <2>3. cwd'[p] = cwd[p] /\ ofile'[p] = ofile[p]
      BY <1>1 DEF undo, TypeInv
    <2> HIDE DEF u, undo
    <2> QED
      BY <1>3, <1>6, <1>7, <2>1, <2>2, <2>3 DEF Points6, PublicOrNone, u
  <1>9. dinode' = [dinode EXCEPT ![t.ip] = Linked(t.ip, -1)] /\ inode' = [inode EXCEPT ![t.ip] = Linked(t.ip, -1)]
    BY DEF undo, Update
  <1>10. UNCHANGED <<ent, dropped>> /\ \A i \in Inums \ {t.ip} : valid'[i] = valid[i]
    BY <1>1 DEF undo, TypeInv
  <1>11. \A i \in Inums : ref'[i] = ref[i] \/ Public(i)
    BY <1>1, <1>7 DEF undo, iget, TypeInv
  <1>12. \A i \in Inums : One(PendingOf(p)' = i) - One(PendingOf(p) = i) = IF i = t.ip THEN -1 ELSE 0
    <2>1. PendingOf(p) = t.ip /\ PendingOf(p)' = None
      BY <1>1, <1>3, <1>5, UndoMoves DEF PendingOf, Become
    <2> HIDE DEF undo, PendingOf
    <2> QED
      BY <1>3, <2>1, Constants DEF One
  <1>13. CallOk(p)'
    <2>1. u.pc = "iput" /\ u.cont = "user" /\ u.op \in {"link", "unlink"}
      BY <1>1, UndoMoves DEF Become
    <2> HIDE DEF u, undo
    <2> QED
      BY <2>1 DEF CallOk, Where, IputPoints, u
  <1>14. /\ t.pc \notin {"create_new", "invalidate"} /\ u.pc \notin {"create_new", "itrunc", "invalidate"}
         /\ t.ip \in Inums /\ -1 \in {1, -1}
    BY <1>1, <1>3, UndoMoves DEF Become
  <1> HIDE DEF undo
  <1> QED
    BY <1>2, <1>4, <1>6, <1>8, <1>9, <1>10, <1>11, <1>12, <1>13, <1>14, CountStep

LEMMA UnlinkNlinkLinks ==
  ASSUME NEW p \in Procs, RefInv, NlinkInv, unlink_nlink(p)
  PROVE  NlinkInv'
  <1> DEFINE t == th[p]
             u == th'[p]
  <1>1. TypeInv /\ ThreadInv /\ CallOk(p)
    BY DEF RefInv, NlinkInv, CallInv
  <1>2. RefInv'
    BY UnlinkNlinkRef
  <1>3. t.pc = "unlink_nlink" /\ t.putting = None /\ t.cont = "user" /\ t.ip \in Inums
    BY <1>1, UnlinkNlinkMoves, ThreadAt, NonePointer DEF ThreadOk, Where, NpUsed, IpUsed, DpUsed, IputPoints, OpsAt, Creating
  <1>4. \A q \in Procs \ {p} : Still(q)
    BY <1>1, UnlinkNlinkMoves DEF Still, OthersStay, unlink_nlink, TypeInv
  <1>5. t.op = "unlink2"
    BY <1>1, <1>3, UnlinkNlinkMoves, ThreadAt DEF ThreadOk, Where, NpUsed, IpUsed, DpUsed, IputPoints, OpsAt, Creating, Ops
  <1>6. /\ PublicOrNone(t.np) /\ PublicOrNone(t.dp) /\ PublicOrNone(ofile[p]) /\ Public(t.ip)
        /\ (~Leaving(p) => PublicOrNone(cwd[p])) /\ PublicOrNone(None)
    BY <1>3, OwnPublic, NonePointer DEF NpUsed, PublicOrNone
  <1>7. TRUE
    OBVIOUS
  <1>8. Points6(p)
    <2>1. u.np = t.np /\ u.ip = None /\ u.dp = t.dp /\ u.putting = t.ip
      BY <1>1, UnlinkNlinkMoves DEF Become
    <2>2. ~Leaving(p)
      BY <1>1, <1>3 DEF Leaving
    <2>3. cwd'[p] = cwd[p] /\ ofile'[p] = ofile[p]
      BY <1>1 DEF unlink_nlink, TypeInv
    <2> HIDE DEF u, unlink_nlink
    <2> QED
      BY <1>3, <1>6, <1>7, <2>1, <2>2, <2>3 DEF Points6, PublicOrNone, u
  <1>9. dinode' = [dinode EXCEPT ![t.ip] = Linked(t.ip, -1)] /\ inode' = [inode EXCEPT ![t.ip] = Linked(t.ip, -1)]
    BY DEF unlink_nlink, Update
  <1>10. UNCHANGED <<ent, dropped>> /\ \A i \in Inums \ {t.ip} : valid'[i] = valid[i]
    BY <1>1 DEF unlink_nlink, TypeInv
  <1>11. \A i \in Inums : ref'[i] = ref[i] \/ Public(i)
    BY <1>1, <1>7 DEF unlink_nlink, iget, TypeInv
  <1>12. \A i \in Inums : One(PendingOf(p)' = i) - One(PendingOf(p) = i) = IF i = t.ip THEN -1 ELSE 0
    <2>1. PendingOf(p) = t.ip /\ PendingOf(p)' = None
      BY <1>1, <1>3, <1>5, UnlinkNlinkMoves DEF PendingOf, Become
    <2> HIDE DEF unlink_nlink, PendingOf
    <2> QED
      BY <1>3, <2>1, Constants DEF One
  <1>13. CallOk(p)'
    <2>1. u.pc = "iput" /\ u.cont = "user" /\ u.op \in {"link", "unlink"}
      BY <1>1, UnlinkNlinkMoves DEF Become
    <2> HIDE DEF u, unlink_nlink
    <2> QED
      BY <2>1 DEF CallOk, Where, IputPoints, u
  <1>14. /\ t.pc \notin {"create_new", "invalidate"} /\ u.pc \notin {"create_new", "itrunc", "invalidate"}
         /\ t.ip \in Inums /\ -1 \in {1, -1}
    BY <1>1, <1>3, UnlinkNlinkMoves DEF Become
  <1> HIDE DEF unlink_nlink
  <1> QED
    BY <1>2, <1>4, <1>6, <1>8, <1>9, <1>10, <1>11, <1>12, <1>13, <1>14, CountStep

(* The entries of i in the directories e.                                  *)
NamedOf(e, d) == d = ROOTINO \/ \E c \in Inums, n \in Names : e[c][n] = d
EntriesOf(e, i) ==
  {x \in Inums \X Names : e[x[1]][x[2]] = i} \cup {x \in Inums \X {".."} : e[x[1]][".."] = i /\ NamedOf(e, x[1])}

LEMMA EntriesAt == ASSUME NEW i PROVE Entries(i) = EntriesOf(ent, i) /\ Entries(i)' = EntriesOf(ent', i)
  BY DEF Entries, EntriesOf, Named, NamedIn, NamedOf

(* The directories f have one name more than e: that of j in d.  If j is a *)
(* directory the name makes its ".." count for w.                          *)
OneName(e, f, d, n, j, w) ==
  /\ d \in Inums /\ j \in Inums /\ n \in Names /\ f[d][n] = j /\ e[d][n] = None
  /\ \A c \in Inums, m \in Names : c # d \/ m # n => e[c][m] = f[c][m]
  /\ \A c \in Inums : c # j => e[c][".."] = f[c][".."]
  /\ f[j][".."] = w
  /\ e[j][".."] = None \/ ~NamedOf(e, j)

LEMMA NameEntries ==
  ASSUME NEW e, NEW f, NEW d, NEW n, NEW j, NEW w, OneName(e, f, d, n, j, w), NEW i \in Inums
  PROVE  Cardinality(EntriesOf(f, i)) = Cardinality(EntriesOf(e, i)) + One(i = j) + One(i = w)
  <1> DEFINE E == EntriesOf(e, i)
             N == IF i = j THEN E \cup {<<d, n>>} ELSE E
             F == IF i = w THEN N \cup {<<j, "..">>} ELSE N
  <1>0. None # i /\ ".." \notin Names
    BY Constants
  <1>1. IsFiniteSet(E)
    <2>1. IsFiniteSet(Names \cup {".."})
      BY Constants, FS_AddElement
    <2>2. IsFiniteSet(Inums \X (Names \cup {".."}))
      BY <2>1, Constants, FS_Product
    <2>3. E \in SUBSET (Inums \X (Names \cup {".."}))
      BY DEF EntriesOf
    <2> QED
      BY <2>2, <2>3, FS_Subset
  <1>2. <<d, n>> \notin E /\ <<j, "..">> \notin E
    BY <1>0 DEF OneName, EntriesOf
  <1>3. <<j, "..">> \notin N
    BY <1>0, <1>2 DEF OneName
  <1>4. IsFiniteSet(N) /\ Cardinality(N) = Cardinality(E) + One(i = j)
    BY <1>1, <1>2, Adding
  <1>5. Cardinality(F) = Cardinality(N) + One(i = w)
    <2> HIDE DEF N
    <2> QED
      BY <1>3, <1>4, Adding
  <1>6. \A c \in Inums : c # j => (NamedOf(f, c) <=> NamedOf(e, c))
    BY Constants DEF OneName, NamedOf
  <1>7. NamedOf(f, j)
    BY DEF OneName, NamedOf
  <1>8. EntriesOf(f, i) = F
    <2>1. ASSUME NEW c \in Inums, NEW m \in Names
          PROVE  <<c, m>> \in EntriesOf(f, i) <=> <<c, m>> \in F
      <3>1. <<c, m>> \in EntriesOf(f, i) <=> f[c][m] = i
        BY <1>0 DEF EntriesOf
      <3>2. <<c, m>> \in E <=> e[c][m] = i
        BY <1>0 DEF EntriesOf
      <3>3. <<c, m>> \in F <=> <<c, m>> \in E \/ (i = j /\ c = d /\ m = n)
        BY <1>0
      <3> QED
        BY <1>0, <3>1, <3>2, <3>3 DEF OneName
    <2>2. ASSUME NEW c \in Inums
          PROVE  <<c, "..">> \in EntriesOf(f, i) <=> <<c, "..">> \in F
      <3>1. <<c, "..">> \in EntriesOf(f, i) <=> f[c][".."] = i /\ NamedOf(f, c)
        BY <1>0 DEF EntriesOf
      <3>2. <<c, "..">> \in E <=> e[c][".."] = i /\ NamedOf(e, c)
        BY <1>0 DEF EntriesOf
      <3>3. <<c, "..">> \in F <=> <<c, "..">> \in E \/ (i = w /\ c = j)
        BY <1>0 DEF OneName
      <3>4. CASE c = j
        BY <1>2, <1>7, <3>1, <3>3, <3>4 DEF OneName
      <3>5. CASE c # j
        BY <1>6, <3>1, <3>2, <3>3, <3>5 DEF OneName
      <3> QED
        BY <3>4, <3>5
    <2>3. EntriesOf(f, i) \subseteq Inums \X (Names \cup {".."}) /\ F \subseteq Inums \X (Names \cup {".."})
      BY DEF EntriesOf, OneName
    <2> HIDE DEF F
    <2>4. ASSUME NEW x \in Inums \X (Names \cup {".."}) PROVE x \in EntriesOf(f, i) <=> x \in F
      <3>1. PICK c \in Inums, m \in Names \cup {".."} : x = <<c, m>>
        OBVIOUS
      <3> QED
        BY <2>1, <2>2, <3>1
    <2> QED
      BY <2>3, <2>4
  <1> HIDE DEF E, N, F
  <1>9. Cardinality(E) \in Nat /\ One(i = j) \in Int /\ One(i = w) \in Int
    BY <1>1, FS_CardinalityType DEF One
  <1> QED
    BY <1>4, <1>5, <1>8, <1>9 DEF E

(* What p has in hand when it writes an entry.                             *)
LEMMA DirAt ==
  ASSUME RefInv, NlinkInv, NEW p \in Procs, Where(p) \in {"parent", "create_new", "unlink_ip"}
  PROVE  /\ th[p].dp \in Inums /\ Public(th[p].dp) /\ dinode[th[p].dp].type = "dir"
         /\ Name(p) \in Elems /\ Name(p) = Head(th[p].rest)
         /\ th[p].pc \in {"create_new", "unlink_ip"} => lock[th[p].dp] = p
  <1>1. TypeInv /\ ThreadInv /\ CallOk(p)
    BY DEF RefInv, NlinkInv, CallInv
  <1>2. th[p].dp \in Inums /\ Len(th[p].rest) = 1
    BY <1>1, ThreadAt DEF ThreadOk, DpUsed
  <1>3. Public(th[p].dp)
    BY <1>2, OwnPublic DEF PublicOrNone
  <1>4. Name(p) \in Elems /\ Name(p) = Head(th[p].rest)
    BY <1>1, <1>2, ThreadAt DEF Name
  <1>5. th[p].pc \in {"create_new", "unlink_ip"} => lock[th[p].dp] = p
    BY <1>2, HeldLocks DEF RefInv, LocksHeld, Where, DpLocked, IputPoints
  <1> QED
    BY <1>1, <1>2, <1>3, <1>4, <1>5 DEF CallOk

(* dirlookup() finds "." and "..", so that a new name is neither.          *)
LEMMA NewName ==
  ASSUME NlinkInv, NEW d \in Inums, Public(d), dinode[d].type = "dir", NEW n \in Elems, dirlookup(d, n) = None
  PROVE  n \in Names
  <1>1. ent[d]["."] = d /\ ent[d][".."] # None /\ None # d
    BY Dots, Constants
  <1> QED
    BY <1>1 DEF dirlookup, Elems

LEMMA DirlinkLinks ==
  ASSUME NEW p \in Procs, RefInv, NlinkInv, dirlink(p)
  PROVE  NlinkInv'
  <1> DEFINE t == th[p]
             u == th'[p]
             d == t.dp
             n == Name(p)
             j == t.ip
  <1>1. TypeInv /\ ThreadInv /\ CallOk(p) /\ TreeInv
    BY DEF RefInv, NlinkInv, CallInv
  <1>2. RefInv' /\ TypeInv'
    BY DirlinkRef DEF RefInv
  <1>3. /\ t.pc = "parent" /\ t.op = "link2" /\ t.putting = None /\ t.cont = "user"
        /\ j \in Inums /\ Where(p) = "parent"
    BY <1>1, DirlinkMoves, ThreadAt, NonePointer DEF ThreadOk, Where, NpUsed, IpUsed, DpUsed, IputPoints
  <1>4. \A q \in Procs \ {p} : Still(q)
    BY <1>1, DirlinkMoves DEF Still, OthersStay, dirlink, TypeInv
  <1>5. d \in Inums /\ Public(d) /\ dinode[d].type = "dir" /\ n \in Elems
    BY <1>3, DirAt
  <1>6. /\ PublicOrNone(t.np) /\ PublicOrNone(ofile[p]) /\ Public(j)
        /\ (~Leaving(p) => PublicOrNone(cwd[p])) /\ PublicOrNone(None)
    BY <1>3, OwnPublic, NonePointer DEF PublicOrNone
  <1>7. ent[d][n] = None /\ n \in Names
    BY <1>5, NewName DEF dirlink, dirlookup
  <1>8. dinode[j].type # "dir" /\ j # d /\ ent[j] = NoEntries
    BY <1>1, <1>3, <1>5 DEF CallOk, TreeInv
  <1>9. /\ Read(d) /\ UNCHANGED <<dinode, dropped, ref>> /\ lock[d] = Nobody
        /\ ent' = [ent EXCEPT ![d][n] = j]
    BY DEF dirlink, Links, Locks
  <1>10. /\ u.pc = "iput" /\ u.op = "link" /\ u.np = t.np /\ u.ip = j /\ u.dp = None /\ u.putting = d
         /\ u.cont = "link_end" /\ cwd'[p] = cwd[p] /\ ofile'[p] = ofile[p]
    BY <1>1, DirlinkMoves DEF Become, dirlink
  <1> HIDE DEF dirlink, u, t, d, n, j
  <1>11. /\ ent'[d][n] = j /\ \A c \in Inums, m \in Elems : c # d \/ m # n => ent'[c][m] = ent[c][m]
         /\ \A c \in Inums : c # d => ent'[c] = ent[c]
    BY <1>1, <1>3, <1>5, <1>9 DEF TypeInv
  <1>12. ".." \in Elems /\ "." \in Elems /\ Names \subseteq Elems /\ ".." \notin Names /\ "." \notin Names
    BY Constants DEF Elems
  <1>13. SameTypes
    BY <1>9 DEF SameTypes
  <1>14. OwnKept(p) /\ OthersKeep(p)
    <2>1. ~Leaving(p)
      BY <1>3 DEF Leaving, t
    <2>2. Points6(p)
      BY <1>5, <1>6, <1>10, <2>1 DEF Points6, PublicOrNone, u
    <2> QED
      BY <1>13, <2>2, TypesKept
  <1>15. ASSUME NEW i \in Inums PROVE Untouched(i) \/ Mine(p, i)
    <2>1. CASE i = d
      <3>1. inode'[d] = dinode'[d]
        BY <1>1, <1>5, <1>9, PublicContent DEF Read, TypeInv
      <3> QED
        BY <1>5, <1>13, <2>1, <3>1, PublicMine DEF SameTypes
    <2>2. CASE i # d
      BY <1>1, <1>9, <1>11, <2>2 DEF Untouched, Read, TypeInv
    <2> QED
      BY <2>1, <2>2
  <1>16. TreeInv'
    <2>1. \A i \in Inums : (\E q \in Procs : Creator(q, i)) => \E q \in Procs : Creator(q, i)'
      BY <1>3, <1>4 DEF Creator, Still, t
    <2> HIDE DEF Creator
    <2>2. (\A i \in Inums : dinode[i].type # "dir" => ent[i] = NoEntries)'
      BY <1>1, <1>5, <1>9, <1>11 DEF TreeInv
    <2>3. (\A i \in Inums : dinode[i].type = "dir" =>
              \/ ent[i]["."] = i /\ ent[i][".."] # None
              \/ \E q \in Procs : Creator(q, i))'
      <3>1. \A i \in Inums : ent'[i]["."] = ent[i]["."] /\ ent'[i][".."] = ent[i][".."]
        BY <1>7, <1>11, <1>12
      <3> QED
        BY <1>1, <1>9, <2>1, <3>1 DEF TreeInv
    <2>4. (\A c \in Inums, m \in Names : ent[c][m] # None /\ dinode[ent[c][m]].type = "dir" =>
              /\ ent[c][m] # ROOTINO /\ ent[ent[c][m]][".."] = c
              /\ \A e \in Inums, l \in Names : ent[e][l] = ent[c][m] => e = c /\ l = m)'
      <3> SUFFICES ASSUME NEW c \in Inums, NEW m \in Names, ent'[c][m] # None, dinode'[ent'[c][m]].type = "dir"
                   PROVE  /\ ent'[c][m] # ROOTINO /\ ent'[ent'[c][m]][".."] = c
                          /\ \A e \in Inums, l \in Names : ent'[e][l] = ent'[c][m] => e = c /\ l = m
        OBVIOUS
      <3> DEFINE k == ent[c][m]
      <3>1. c # d \/ m # n
        BY <1>8, <1>9, <1>11
      <3>2. ent'[c][m] = k /\ k # None /\ dinode[k].type = "dir" /\ k # j
        BY <1>8, <1>9, <1>11, <1>12, <3>1
      <3>3. k \in Inums
        BY <1>1, <1>12, <3>2 DEF TypeInv, Pointers
      <3>4. /\ k # ROOTINO /\ ent[k][".."] = c
            /\ \A e \in Inums, l \in Names : ent[e][l] = k => e = c /\ l = m
        BY <1>1, <3>2 DEF TreeInv
      <3>5. ent'[k][".."] = c
        BY <1>7, <1>11, <1>12, <3>3, <3>4
      <3> HIDE DEF k
      <3>6. ASSUME NEW e \in Inums, NEW l \in Names, ent'[e][l] = k PROVE e = c /\ l = m
        BY <1>11, <1>12, <3>2, <3>4, <3>6
      <3> QED
        BY <3>2, <3>4, <3>5, <3>6
    <2>5. (dinode[ROOTINO].type = "dir" /\ ent[ROOTINO][".."] = ROOTINO)'
      BY <1>1, <1>7, <1>9, <1>11, <1>12, Constants DEF TreeInv
    <2> QED
      BY <2>2, <2>3, <2>4, <2>5 DEF TreeInv
  <1>17. CallOk(p)'
    BY <1>10 DEF CallOk, Where, IputPoints, u
  <1>18. CountsNext
    <2> SUFFICES ASSUME NEW i \in Inums
                 PROVE  /\ dinode'[i].nlink = Cardinality(Entries(i)') + Pending(i)' + dropped'[i]
                        /\ dinode'[i].type = "free" => dinode'[i].nlink = 0
      BY DEF CountsNext
    <2>1. /\ dinode[i].nlink = Cardinality(Entries(i)) + Pending(i) + dropped[i]
          /\ dinode[i].type = "free" => dinode[i].nlink = 0
      BY DEF NlinkInv, LinkInv
    <2>2. OneName(ent, ent', d, n, j, None)
      <3>1. ent[j][".."] = None
        BY <1>8, <1>12 DEF NoEntries
      <3> QED
        BY <1>3, <1>5, <1>7, <1>11, <1>12, <3>1 DEF OneName
    <2>3. Cardinality(Entries(i)') = Cardinality(Entries(i)) + One(i = j) + One(i = None)
      BY <2>2, NameEntries, EntriesAt
    <2>4. One(i = None) = 0 /\ One(i = j) \in Int
      BY Constants DEF One
    <2>5. Pending(i)' = Pending(i) + One(PendingOf(p)' = i) - One(PendingOf(p) = i)
          /\ Pending(i) \in Nat
      <3>1. OthersStay(p)
        BY <1>4 DEF OthersStay, Still
      <3> QED
        BY <3>1, PendingStep
    <2>6. PendingOf(p) = j /\ PendingOf(p)' = None
      BY <1>3, <1>10 DEF PendingOf, t, u, j
    <2>7. Pending(i)' = Pending(i) - One(i = j)
      <3>1. One(None = i) = 0 /\ One(j = i) = One(i = j)
        BY Constants DEF One
      <3> QED
        BY <2>4, <2>5, <2>6, <3>1
    <2>8. Cardinality(Entries(i)) \in Nat /\ dropped[i] \in Nat
      BY <1>1, EntriesFinite DEF TypeInv
    <2>9. Cardinality(Entries(i)') + Pending(i)' + dropped[i] = Cardinality(Entries(i)) + Pending(i) + dropped[i]
      BY <2>3, <2>4, <2>5, <2>7, <2>8
    <2> QED
      BY <1>9, <2>1, <2>9
  <1>19. \A c \in Inums : ent'[c] = ent[c] \/ lock[c] \in {p, Nobody}
    BY <1>9, <1>11
  <1>20. t.pc \notin {"invalidate", "create_new"} /\ u.pc \notin {"itrunc", "invalidate", "create_new"}
    BY <1>3, <1>10
  <1>21. \A i \in Inums : ~Creator(p, i)
    BY <1>3 DEF Creator, t
  <1> QED
    BY <1>2, <1>4, <1>14, <1>15, <1>16, <1>17, <1>18, <1>19, <1>20, <1>21, DiskStep DEF t, u

LEMMA LinkedPublic ==
  ASSUME TypeInv, NlinkInv, NEW i \in Inums, Public(i), NEW k \in Int
  PROVE  /\ Linked(i, k).type = dinode[i].type /\ Linked(i, k).nlink = dinode[i].nlink + k
         /\ dinode[i].nlink \in Int /\ Linked(i, k) \in Records
  <1>1. Content(i) = dinode[i] /\ dinode[i] \in Records
    BY PublicContent DEF TypeInv
  <1> QED
    BY <1>1 DEF Linked, Records

LEMMA UnlinkIpLinks ==
  ASSUME NEW p \in Procs, RefInv, NlinkInv, unlink_ip(p)
  PROVE  NlinkInv'
  <1> DEFINE t == th[p]
             u == th'[p]
             d == t.dp
             n == Name(p)
             j == t.ip
             k == IF IsDir(j) THEN -1 ELSE 0
             w == IF IsDir(j) THEN d ELSE None
  <1>1. TypeInv /\ ThreadInv /\ CallOk(p) /\ TreeInv
    BY DEF RefInv, NlinkInv, CallInv
  <1>2. RefInv' /\ TypeInv'
    BY UnlinkIpRef DEF RefInv
  <1>3. /\ t.pc = "unlink_ip" /\ t.op = "unlink" /\ t.putting = None /\ t.cont = "user"
        /\ j \in Inums /\ Where(p) = "unlink_ip"
    BY <1>1, UnlinkIpMoves, ThreadAt, NonePointer DEF ThreadOk, Where, NpUsed, IpUsed, DpUsed, IputPoints, OpsAt, Creating
  <1>4. \A q \in Procs \ {p} : Still(q)
    BY <1>1, UnlinkIpMoves DEF Still, OthersStay, unlink_ip, TypeInv
  <1>5. d \in Inums /\ Public(d) /\ dinode[d].type = "dir" /\ n \in Elems /\ lock[d] = p
    BY <1>3, DirAt
  <1>6. /\ PublicOrNone(t.np) /\ PublicOrNone(ofile[p]) /\ Public(j)
        /\ (~Leaving(p) => PublicOrNone(cwd[p])) /\ PublicOrNone(None)
    BY <1>3, OwnPublic, NonePointer DEF PublicOrNone
  <1>7. ent[d][n] = j /\ n \in Names
    BY <1>1, <1>3 DEF CallOk
  <1>8. lock[j] = Nobody /\ j # d
    BY <1>5, Constants DEF unlink_ip, Locks
  <1>9. /\ UNCHANGED <<dropped, ref>> /\ Content(j) = dinode[j] /\ k \in Int
        /\ inode' = [inode EXCEPT ![j] = dinode[j], ![d] = Linked(d, k)]
        /\ dinode' = [dinode EXCEPT ![d] = Linked(d, k)]
        /\ valid' = [valid EXCEPT ![j] = TRUE]
        /\ ent' = [ent EXCEPT ![d][n] = None]
    <2>1. Content(j) = dinode[j]
      BY <1>3, <1>6, PublicContent
    <2>2. /\ UNCHANGED <<dropped, ref>> /\ inode' = [inode EXCEPT ![j] = Content(j), ![d] = Linked(d, k)]
          /\ dinode' = [dinode EXCEPT ![d] = Linked(d, k)]
          /\ valid' = [valid EXCEPT ![j] = TRUE] /\ ent' = [ent EXCEPT ![d][n] = None]
      BY DEF unlink_ip
    <2>3. k \in Int
      OBVIOUS
    <2> HIDE DEF unlink_ip, t, d, n, j, k
    <2> QED
      BY <2>1, <2>2, <2>3
  <1>10. /\ u.pc = "iput" /\ u.op = "unlink2" /\ u.np = t.np /\ u.ip = j /\ u.dp = None /\ u.putting = d
         /\ u.cont = "unlink_nlink" /\ cwd'[p] = cwd[p] /\ ofile'[p] = ofile[p]
    BY <1>1, UnlinkIpMoves DEF Become, unlink_ip
  <1>11. IsDir(j) <=> dinode[j].type = "dir"
    BY <1>9 DEF IsDir
  <1> HIDE DEF unlink_ip, u, t, d, n, j, IsDir
  <1>12. /\ ent'[d][n] = None /\ \A c \in Inums, m \in Elems : c # d \/ m # n => ent'[c][m] = ent[c][m]
         /\ \A c \in Inums : c # d => ent'[c] = ent[c]
    BY <1>1, <1>3, <1>5, <1>9 DEF TypeInv
  <1>13. ".." \in Elems /\ "." \in Elems /\ Names \subseteq Elems /\ ".." \notin Names /\ "." \notin Names
    BY Constants DEF Elems
  <1>14. /\ Linked(d, k).type = dinode[d].type /\ Linked(d, k).nlink = dinode[d].nlink + k
         /\ dinode[d].nlink \in Int
    BY <1>1, <1>5, <1>9, LinkedPublic
  <1> HIDE DEF k
  <1>15. /\ dinode'[d] = Linked(d, k) /\ \A i \in Inums \ {d} : dinode'[i] = dinode[i]
         /\ inode'[d] = dinode'[d] /\ inode'[j] = dinode'[j]
         /\ \A i \in Inums \ {d, j} : inode'[i] = inode[i] /\ valid'[i] = valid[i]
    BY <1>1, <1>3, <1>5, <1>8, <1>9 DEF TypeInv
  <1>16. SameTypes
    BY <1>5, <1>14, <1>15 DEF SameTypes
  <1>17. OwnKept(p) /\ OthersKeep(p)
    <2>1. ~Leaving(p)
      BY <1>3 DEF Leaving, t
    <2>2. Points6(p)
      BY <1>5, <1>6, <1>10, <2>1 DEF Points6, PublicOrNone, u
    <2> QED
      BY <1>16, <2>2, TypesKept
  <1>18. ASSUME NEW i \in Inums PROVE Untouched(i) \/ Mine(p, i)
    <2>1. CASE i = d \/ i = j
      BY <1>5, <1>6, <1>15, <1>16, <2>1, PublicMine DEF SameTypes
    <2>2. CASE i # d /\ i # j
      BY <1>9, <1>12, <1>15, <2>2 DEF Untouched
    <2> QED
      BY <2>1, <2>2
  <1>19. ASSUME dinode[j].type = "dir"
         PROVE  /\ j # ROOTINO /\ ent[j][".."] = d
                /\ \A e \in Inums, l \in Names : ent[e][l] = j => e = d /\ l = n
    BY <1>1, <1>3, <1>5, <1>7, <1>19, Constants DEF TreeInv
  <1>20. TreeInv'
    <2>1. \A i \in Inums : (\E q \in Procs : Creator(q, i)) => \E q \in Procs : Creator(q, i)'
      BY <1>3, <1>4 DEF Creator, Still, t
    <2> HIDE DEF Creator
    <2>2. (\A i \in Inums : dinode[i].type # "dir" => ent[i] = NoEntries)'
      BY <1>1, <1>5, <1>12, <1>16 DEF TreeInv, SameTypes
    <2>3. (\A i \in Inums : dinode[i].type = "dir" =>
              \/ ent[i]["."] = i /\ ent[i][".."] # None
              \/ \E q \in Procs : Creator(q, i))'
      <3>1. \A i \in Inums : ent'[i]["."] = ent[i]["."] /\ ent'[i][".."] = ent[i][".."]
        BY <1>7, <1>12, <1>13
      <3> QED
        BY <1>1, <1>16, <2>1, <3>1 DEF TreeInv, SameTypes
    <2>4. (\A c \in Inums, m \in Names : ent[c][m] # None /\ dinode[ent[c][m]].type = "dir" =>
              /\ ent[c][m] # ROOTINO /\ ent[ent[c][m]][".."] = c
              /\ \A e \in Inums, l \in Names : ent[e][l] = ent[c][m] => e = c /\ l = m)'
      <3> SUFFICES ASSUME NEW c \in Inums, NEW m \in Names, ent'[c][m] # None, dinode'[ent'[c][m]].type = "dir"
                   PROVE  /\ ent'[c][m] # ROOTINO /\ ent'[ent'[c][m]][".."] = c
                          /\ \A e \in Inums, l \in Names : ent'[e][l] = ent'[c][m] => e = c /\ l = m
        OBVIOUS
      <3> DEFINE h == ent[c][m]
      <3>1. c # d \/ m # n
        BY <1>12
      <3>2. ent'[c][m] = h /\ h # None
        BY <1>12, <1>13, <3>1
      <3>3. h \in Inums
        BY <1>1, <1>13, <3>2 DEF TypeInv, Pointers
      <3> HIDE DEF h
      <3>4. dinode[h].type = "dir"
        BY <1>16, <3>2, <3>3 DEF SameTypes
      <3>5. /\ h # ROOTINO /\ ent[h][".."] = c
            /\ \A e \in Inums, l \in Names : ent[e][l] = h => e = c /\ l = m
        BY <1>1, <3>2, <3>4 DEF TreeInv, h
      <3>6. ent'[h][".."] = c
        BY <1>7, <1>12, <1>13, <3>3, <3>5
      <3>7. ASSUME NEW e \in Inums, NEW l \in Names, ent'[e][l] = h PROVE e = c /\ l = m
        BY <1>12, <1>13, <3>2, <3>5, <3>7
      <3> QED
        BY <3>2, <3>5, <3>6, <3>7
    <2>5. (dinode[ROOTINO].type = "dir" /\ ent[ROOTINO][".."] = ROOTINO)'
      BY <1>1, <1>7, <1>12, <1>13, <1>16, Constants DEF TreeInv, SameTypes
    <2> QED
      BY <2>2, <2>3, <2>4, <2>5 DEF TreeInv
  <1>21. CallOk(p)'
    BY <1>10 DEF CallOk, Where, IputPoints, u
  <1>22. CountsNext
    <2> SUFFICES ASSUME NEW i \in Inums
                 PROVE  /\ dinode'[i].nlink = Cardinality(Entries(i)') + Pending(i)' + dropped'[i]
                        /\ dinode'[i].type = "free" => dinode'[i].nlink = 0
      BY DEF CountsNext
    <2>1. /\ dinode[i].nlink = Cardinality(Entries(i)) + Pending(i) + dropped[i]
          /\ dinode[i].type = "free" => dinode[i].nlink = 0
      BY DEF NlinkInv, LinkInv
    <2>2. OneName(ent', ent, d, n, j, w)
      <3>1. ent[j][".."] = w
        BY <1>1, <1>3, <1>11, <1>13, <1>19 DEF TreeInv, NoEntries
      <3>2. ent'[j][".."] = None \/ ~NamedOf(ent', j)
        <4>1. CASE dinode[j].type = "dir"
          <5>1. \A e \in Inums, l \in Names : ent'[e][l] # j
            BY <1>3, <1>12, <1>13, <1>19, <4>1, Constants
          <5> QED
            BY <1>19, <4>1, <5>1 DEF NamedOf
        <4>2. CASE dinode[j].type # "dir"
          BY <1>3, <1>7, <1>11, <1>12, <1>13, <3>1, <4>2
        <4> QED
          BY <4>1, <4>2
      <3> HIDE DEF w
      <3> QED
        BY <1>3, <1>5, <1>7, <1>12, <1>13, <3>1, <3>2 DEF OneName
    <2>3. Cardinality(Entries(i)) = Cardinality(Entries(i)') + One(i = j) + One(i = w)
      BY <2>2, NameEntries, EntriesAt
    <2>4. One(i = w) \in Int /\ One(i = j) \in Int
      BY DEF One
    <2>5. Pending(i)' = Pending(i) + One(PendingOf(p)' = i) - One(PendingOf(p) = i)
          /\ Pending(i) \in Nat
      <3>1. OthersStay(p)
        BY <1>4 DEF OthersStay, Still
      <3> QED
        BY <3>1, PendingStep
    <2>6. PendingOf(p) = None /\ PendingOf(p)' = j
      BY <1>3, <1>10 DEF PendingOf, t, u, j
    <2>7. Pending(i)' = Pending(i) + One(i = j)
      <3>1. One(None = i) = 0 /\ One(j = i) = One(i = j)
        BY Constants DEF One
      <3> QED
        BY <2>4, <2>5, <2>6, <3>1
    <2>8. Cardinality(Entries(i)') \in Nat /\ dropped[i] \in Nat
      BY <1>1, EntriesFiniteNext DEF TypeInv
    <2>9. dinode'[i].nlink = dinode[i].nlink - One(i = w) /\ dinode[i].nlink \in Int
      <3>1. dinode[i].nlink \in Int
        BY <1>1, NlinkType
      <3>2. CASE i = d
        <4>1. k = 0 - One(i = w)
          BY <1>5, <3>2, Constants DEF k, One
        <4> HIDE DEF w
        <4> QED
          BY <1>14, <1>15, <2>4, <3>1, <3>2, <4>1
      <3>3. CASE i # d
        <4>1. One(i = w) = 0
          BY <3>3, Constants DEF One
        <4> QED
          BY <1>15, <3>1, <3>3, <4>1
      <3> QED
        BY <3>2, <3>3
    <2> HIDE DEF w
    <2>10. \A a, x, y, r, s, g \in Int :
             a = (x + y + s) + r + g => a - s = x + (r + y) + g
      OBVIOUS
    <2>11. dinode'[i].nlink = Cardinality(Entries(i)') + Pending(i)' + dropped[i]
      BY <2>1, <2>3, <2>4, <2>5, <2>7, <2>8, <2>9, <2>10
    <2>12. dinode'[i].type # "free" \/ dinode'[i] = dinode[i]
      BY <1>5, <1>15, <1>16 DEF SameTypes
    <2> QED
      BY <1>9, <2>1, <2>11, <2>12
  <1>23. \A c \in Inums : ent'[c] = ent[c] \/ lock[c] \in {p, Nobody}
    BY <1>5, <1>12
  <1>24. t.pc \notin {"invalidate", "create_new"} /\ u.pc \notin {"itrunc", "invalidate", "create_new"}
    BY <1>3, <1>10
  <1>25. \A i \in Inums : ~Creator(p, i)
    BY <1>3 DEF Creator, t
  <1> QED
    BY <1>2, <1>4, <1>17, <1>18, <1>20, <1>21, <1>22, <1>23, <1>24, <1>25, DiskStep DEF t, u

(* The inode of create(), which nobody knows, once it is not locked.       *)
LEMMA CreatorMine ==
  ASSUME RefInv, NlinkInv, NEW p \in Procs, NEW i \in Inums, Creator(p, i), NEW q \in Procs \ {p}
  PROVE  ~Creator(q, i) /\ ~(th[q].pc = "itrunc" /\ th[q].putting = i)
  <1>1. \A x \in Holders(i) : x = <<p, "ip">> \/ Putter(x)
    BY DEF NlinkInv, NewInv, NewOk, Creator
  <1>2. ASSUME Creator(q, i) PROVE FALSE
    <2>1. <<q, "ip">> \in Holders(i)
      BY <1>2, Holding, PtrAt DEF Fields, Creator
    <2> QED
      BY <1>1, <2>1 DEF Putter
  <1>3. ASSUME th[q].pc = "itrunc", th[q].putting = i PROVE FALSE
    <2>1. <<q, "putting">> \in Holders(i)
      BY <1>3, Holding, PtrAt DEF Fields
    <2> QED
      BY <1>1, <1>3, <2>1 DEF Putter
  <1> QED
    BY <1>2, <1>3

LEMMA CreateNewLinks ==
  ASSUME NEW p \in Procs, RefInv, NlinkInv, create_new(p)
  PROVE  NlinkInv'
  <1> DEFINE t == th[p]
             u == th'[p]
             d == t.dp
             n == Name(p)
             j == t.ip
             isdir == Content(j).type = "dir"
             k == IF isdir THEN 1 ELSE 0
             w == IF isdir THEN d ELSE None
             dots == [NoEntries EXCEPT !["."] = j, ![".."] = d]
             contents == IF isdir THEN dots ELSE NoEntries
             new == [dinode[j] EXCEPT !.nlink = 1]
  <1>1. TypeInv /\ ThreadInv /\ CallOk(p) /\ TreeInv
    BY DEF RefInv, NlinkInv, CallInv
  <1>2. RefInv' /\ TypeInv'
    BY CreateNewRef DEF RefInv
  <1>3. /\ t.pc = "create_new" /\ t.op \in Creating /\ t.putting = None /\ t.cont = "user" /\ t.np = None
        /\ j \in Inums /\ Where(p) = "create_new"
    BY <1>1, CreateNewMoves, ThreadAt, NonePointer DEF ThreadOk, Where, NpUsed, IpUsed, DpUsed, IputPoints, OpsAt, Creating
  <1>4. \A q \in Procs \ {p} : Still(q)
    BY <1>1, CreateNewMoves DEF Still, OthersStay, create_new, TypeInv
  <1>5. d \in Inums /\ Public(d) /\ dinode[d].type = "dir" /\ n \in Elems /\ lock[d] = p
    BY <1>3, DirAt
  <1>6. /\ PublicOrNone(ofile[p]) /\ (~Leaving(p) => PublicOrNone(cwd[p]))
    BY <1>3, OwnPublic DEF PublicOrNone
  <1>7. /\ dinode[j].nlink = 0 /\ dinode[j].type = Type(t) /\ dinode[j].type # "free"
        /\ ent[j] = NoEntries /\ ent[d][n] = None /\ dinode[j] \in Records
    <2>1. NewOk(p) /\ dinode[j] \in Records
      BY <1>1, <1>3 DEF NlinkInv, NewInv, TypeInv
    <2>2. Type(t) # "free"
      BY <1>1, <1>3, ThreadAt DEF ThreadOk, Type, Creating, Devices
    <2> QED
      BY <2>1, <2>2 DEF NewOk
  <1>8. lock[j] = Nobody /\ j # d /\ n \in Names
    BY <1>5, <1>7, NewName, Constants DEF create_new, Locks, dirlookup
  <1>9. Creator(p, j) /\ \A q \in Procs : ~(th[q].pc = "invalidate" /\ th[q].putting = j)
    <2>1. ASSUME NEW q \in Procs, th[q].pc = "invalidate", th[q].putting = j PROVE FALSE
      <3>1. lock[j] = q
        BY <1>3, <2>1, HeldLocks DEF RefInv, LocksHeld
      <3> QED
        BY <1>8, <3>1, Constants
    <2> QED
      BY <1>3, <2>1 DEF Creator
  <1>10. Content(j) = dinode[j]
    BY <1>3, <1>9 DEF NlinkInv, CacheInv, Invalidating, Content
  <1>11. /\ UNCHANGED <<dropped, ref>> /\ k \in Int
         /\ inode' = [inode EXCEPT ![j] = new, ![d] = Linked(d, k)]
         /\ dinode' = [dinode EXCEPT ![j] = new, ![d] = Linked(d, k)]
         /\ valid' = [valid EXCEPT ![j] = TRUE]
         /\ ent' = [ent EXCEPT ![j] = contents, ![d][n] = j]
    <2>1. /\ UNCHANGED <<dropped, ref>> /\ inode' = [inode EXCEPT ![j] = [Content(j) EXCEPT !.nlink = 1], ![d] = Linked(d, k)]
          /\ dinode' = [dinode EXCEPT ![j] = [Content(j) EXCEPT !.nlink = 1], ![d] = Linked(d, k)]
          /\ valid' = [valid EXCEPT ![j] = TRUE]
          /\ ent' = [ent EXCEPT ![j] = IF isdir THEN dots ELSE @, ![d][n] = j]
      BY DEF create_new
    <2>2. (IF isdir THEN dots ELSE ent[j]) = contents
      BY <1>7
    <2>3. k \in Int
      OBVIOUS
    <2> HIDE DEF create_new, t, d, n, j, k, dots, isdir, contents
    <2>4. [ent EXCEPT ![j] = IF isdir THEN dots ELSE @, ![d][n] = j] = [ent EXCEPT ![j] = contents, ![d][n] = j]
      BY <2>2
    <2> QED
      BY <1>10, <2>1, <2>3, <2>4
  <1>12. /\ u.pc = "iput" /\ u.op = t.op /\ u.np = None /\ u.ip = j /\ u.dp = None /\ u.putting = d
         /\ u.cont = "created" /\ cwd'[p] = cwd[p] /\ ofile'[p] = ofile[p]
    BY <1>1, <1>3, CreateNewMoves DEF Become, create_new
  <1>13. isdir <=> dinode[j].type = "dir"
    BY <1>10
  <1>14. ".." \in Elems /\ "." \in Elems /\ Names \subseteq Elems /\ ".." \notin Names /\ "." \notin Names
    BY Constants DEF Elems
  <1>15. /\ \A m \in Names : contents[m] = None
         /\ contents[".."] = w /\ NoEntries[".."] = None
         /\ isdir => contents["."] = j
    BY <1>14 DEF NoEntries
  <1> HIDE DEF create_new, u, t, d, n, j, isdir, contents
  <1>16. /\ ent'[d][n] = j /\ \A m \in Elems : m # n => ent'[d][m] = ent[d][m]
         /\ \A c \in Inums \ {d, j} : ent'[c] = ent[c]
         /\ ent'[j] = contents
    BY <1>1, <1>3, <1>5, <1>8, <1>11 DEF TypeInv
  <1>17. /\ Linked(d, k).type = dinode[d].type /\ Linked(d, k).nlink = dinode[d].nlink + k
         /\ dinode[d].nlink \in Int
    BY <1>1, <1>5, <1>11, LinkedPublic
  <1>18. new.type = dinode[j].type /\ new.nlink = 1
    BY <1>7 DEF Records
  <1> HIDE DEF k, new
  <1>19. /\ dinode'[d] = Linked(d, k) /\ dinode'[j] = new /\ \A i \in Inums \ {d, j} : dinode'[i] = dinode[i]
         /\ inode'[d] = dinode'[d] /\ inode'[j] = dinode'[j]
         /\ \A i \in Inums \ {d, j} : inode'[i] = inode[i] /\ valid'[i] = valid[i]
    BY <1>1, <1>3, <1>5, <1>8, <1>11 DEF TypeInv
  <1>20. SameTypes
    BY <1>3, <1>5, <1>17, <1>18, <1>19 DEF SameTypes
  <1>21. dinode'[j].type # "free" /\ Alive(j)
    BY <1>3, <1>7, <1>20 DEF SameTypes, Alive
  <1>22. OthersKeep(p)
    BY <1>20 DEF OthersKeep, SameTypes
  <1>23. OwnKept(p)
    <2>1. ASSUME NEW f \in Fields, NEW i \in Inums, Pointer(p, f)' = i
          PROVE  i = j \/ Public(i)
      <3>1. /\ Pointer(p, "cwd")' = (IF Leaving(p)' THEN None ELSE cwd[p]) /\ Pointer(p, "ofile")' = ofile[p]
            /\ Pointer(p, "np")' = None /\ Pointer(p, "ip")' = j /\ Pointer(p, "dp")' = None
            /\ Pointer(p, "putting")' = d
        BY <1>12, PtrAtNext DEF u
      <3>2. ~Leaving(p)
        BY <1>3 DEF Leaving, t
      <3>3. f \in {"cwd", "ofile", "np", "ip", "dp", "putting"}
        BY DEF Fields
      <3> QED
        BY <1>5, <1>6, <2>1, <3>1, <3>2, <3>3, Constants DEF PublicOrNone
    <2>2. ASSUME NEW i \in Inums, i = j \/ Public(i)
          PROVE  Alive(i)' /\ \A q \in Procs \ {p} : ~Creator(q, i)
      <3>1. CASE i = j
        <4>1. Alive(i)'
          BY <1>21, <3>1 DEF Alive
        <4> QED
          BY <1>3, <1>9, <3>1, <4>1, CreatorMine
      <3>2. CASE Public(i)
        BY <1>20, <3>2 DEF Public, SameTypes, Alive
      <3> QED
        BY <2>2, <3>1, <3>2
    <2> QED
      BY <2>1, <2>2 DEF OwnKept
  <1>24. ASSUME NEW i \in Inums, i = j PROVE Mine(p, i)
    <2>1. \A q \in Procs \ {p} : ~Creator(q, i) /\ ~(th[q].pc = "itrunc" /\ th[q].putting = i)
      BY <1>9, <1>24, CreatorMine
    <2>2. Alive(i)'
      BY <1>21, <1>24 DEF Alive
    <2> HIDE DEF Creator
    <2> QED
      BY <1>9, <1>19, <1>24, <2>1, <2>2 DEF Mine
  <1>25. ASSUME NEW i \in Inums PROVE Untouched(i) \/ Mine(p, i)
    <2>1. CASE i = d
      BY <1>5, <1>19, <1>20, <2>1, PublicMine DEF SameTypes
    <2>2. CASE i # d /\ i # j
      BY <1>11, <1>16, <1>19, <2>2 DEF Untouched
    <2> QED
      BY <1>24, <2>1, <2>2
  <1>26. \A e \in Inums, l \in Names : ent[e][l] # j
    <2>1. Entries(j) = {}
      BY <1>1, <1>3, <1>7, NoLinks DEF NlinkInv
    <2>2. ASSUME NEW e \in Inums, NEW l \in Names, ent[e][l] = j PROVE FALSE
      <3>1. <<e, l>> \in Entries(j)
        BY <2>2 DEF Entries
      <3> QED
        BY <2>1, <3>1
    <2> QED
      BY <2>2
  <1>27. ROOTINO \in Inums /\ ROOTINO # j
    <2>1. Public(ROOTINO) /\ ROOTINO \in Inums
      BY RootPublic, Constants
    <2> QED
      BY <1>9, <2>1 DEF Public
  <1>28. TreeInv'
    <2>1. (\A i \in Inums : dinode[i].type # "dir" => ent[i] = NoEntries)'
      <3> SUFFICES ASSUME NEW i \in Inums, dinode'[i].type # "dir" PROVE ent'[i] = NoEntries
        OBVIOUS
      <3>1. dinode[i].type # "dir" /\ i # d
        BY <1>5, <1>20 DEF SameTypes
      <3>2. CASE i = j
        BY <1>13, <1>16, <3>1, <3>2 DEF contents
      <3> QED
        BY <1>1, <1>16, <3>1, <3>2 DEF TreeInv
    <2>2. (\A i \in Inums : dinode[i].type = "dir" =>
              \/ ent[i]["."] = i /\ ent[i][".."] # None
              \/ \E q \in Procs : Creator(q, i))'
      <3> SUFFICES ASSUME NEW i \in Inums, dinode'[i].type = "dir"
                   PROVE  \/ ent'[i]["."] = i /\ ent'[i][".."] # None
                          \/ \E q \in Procs : Creator(q, i)'
        OBVIOUS
      <3>1. dinode[i].type = "dir"
        BY <1>20 DEF SameTypes
      <3>2. CASE i = j
        BY <1>5, <1>13, <1>15, <1>16, <3>1, <3>2, Constants
      <3>3. CASE i # j
        <4>1. ent'[i]["."] = ent[i]["."] /\ ent'[i][".."] = ent[i][".."]
          BY <1>8, <1>14, <1>16, <3>3
        <4>2. ASSUME NEW q \in Procs, Creator(q, i) PROVE Creator(q, i)'
          BY <1>4, <3>3, <4>2 DEF Creator, Still, j, t
        <4> HIDE DEF Creator
        <4> QED
          BY <1>1, <3>1, <4>1, <4>2 DEF TreeInv
      <3> QED
        BY <3>2, <3>3
    <2>3. (\A c \in Inums, m \in Names : ent[c][m] # None /\ dinode[ent[c][m]].type = "dir" =>
              /\ ent[c][m] # ROOTINO /\ ent[ent[c][m]][".."] = c
              /\ \A e \in Inums, l \in Names : ent[e][l] = ent[c][m] => e = c /\ l = m)'
      <3> SUFFICES ASSUME NEW c \in Inums, NEW m \in Names, ent'[c][m] # None, dinode'[ent'[c][m]].type = "dir"
                   PROVE  /\ ent'[c][m] # ROOTINO /\ ent'[ent'[c][m]][".."] = c
                          /\ \A e \in Inums, l \in Names : ent'[e][l] = ent'[c][m] => e = c /\ l = m
        OBVIOUS
      <3>1. \A e \in Inums, l \in Names :
              ent'[e][l] = IF e = d /\ l = n THEN j ELSE IF e = j THEN None ELSE ent[e][l]
        BY <1>8, <1>14, <1>15, <1>16
      <3>2. CASE c = d /\ m = n
        <4>1. ent'[c][m] = j
          BY <3>1, <3>2
        <4>2. dinode[j].type = "dir"
          BY <1>3, <1>20, <4>1 DEF SameTypes
        <4>3. ent'[j][".."] = d
          BY <1>13, <1>15, <1>16, <4>2
        <4>4. ASSUME NEW e \in Inums, NEW l \in Names, ent'[e][l] = j PROVE e = d /\ l = n
          BY <1>3, <1>26, <3>1, <4>4, Constants
        <4> QED
          BY <1>27, <3>2, <4>1, <4>3, <4>4
      <3>3. CASE ~(c = d /\ m = n)
        <4> DEFINE h == ent[c][m]
        <4>1. ent'[c][m] = h /\ h # None /\ c # j
          BY <3>1, <3>3
        <4>2. h \in Inums /\ h # j
          BY <1>1, <1>14, <1>26, <4>1 DEF TypeInv, Pointers
        <4> HIDE DEF h
        <4>3. dinode[h].type = "dir"
          BY <1>20, <4>1, <4>2 DEF SameTypes
        <4>4. /\ h # ROOTINO /\ ent[h][".."] = c
              /\ \A e \in Inums, l \in Names : ent[e][l] = h => e = c /\ l = m
          BY <1>1, <4>1, <4>3 DEF TreeInv, h
        <4>5. ent'[h][".."] = c
          BY <1>8, <1>14, <1>16, <4>2, <4>4
        <4>6. ASSUME NEW e \in Inums, NEW l \in Names, ent'[e][l] = h PROVE e = c /\ l = m
          BY <3>1, <4>1, <4>2, <4>4, <4>6
        <4> QED
          BY <4>1, <4>4, <4>5, <4>6
      <3> QED
        BY <3>2, <3>3
    <2>4. (dinode[ROOTINO].type = "dir" /\ ent[ROOTINO][".."] = ROOTINO)'
      BY <1>1, <1>8, <1>14, <1>16, <1>20, <1>27 DEF TreeInv, SameTypes
    <2> QED
      BY <2>1, <2>2, <2>3, <2>4 DEF TreeInv
  <1>29. CallOk(p)'
    BY <1>3, <1>12 DEF CallOk, Where, IputPoints, u, Creating
  <1>30. CountsNext
    <2> SUFFICES ASSUME NEW i \in Inums
                 PROVE  /\ dinode'[i].nlink = Cardinality(Entries(i)') + Pending(i)' + dropped'[i]
                        /\ dinode'[i].type = "free" => dinode'[i].nlink = 0
      BY DEF CountsNext
    <2>1. /\ dinode[i].nlink = Cardinality(Entries(i)) + Pending(i) + dropped[i]
          /\ dinode[i].type = "free" => dinode[i].nlink = 0
      BY DEF NlinkInv, LinkInv
    <2>2. OneName(ent, ent', d, n, j, w)
      <3>1. ent'[j][".."] = w /\ ent[j][".."] = None
        BY <1>7, <1>15, <1>16
      <3>2. \A c \in Inums, m \in Names : c # d \/ m # n => ent[c][m] = ent'[c][m]
        <4> SUFFICES ASSUME NEW c \in Inums, NEW m \in Names, c # d \/ m # n PROVE ent[c][m] = ent'[c][m]
          OBVIOUS
        <4>1. CASE c = j
          BY <1>7, <1>14, <1>15, <1>16, <4>1 DEF NoEntries
        <4> QED
          BY <1>14, <1>16, <4>1
      <3>3. \A c \in Inums : c # j => ent[c][".."] = ent'[c][".."]
        BY <1>8, <1>14, <1>16
      <3> HIDE DEF w
      <3> QED
        BY <1>3, <1>5, <1>7, <1>8, <1>16, <3>1, <3>2, <3>3 DEF OneName
    <2>3. Cardinality(Entries(i)') = Cardinality(Entries(i)) + One(i = j) + One(i = w)
      BY <2>2, NameEntries, EntriesAt
    <2>4. One(i = w) \in Int /\ One(i = j) \in Int
      BY DEF One
    <2>5. Pending(i)' = Pending(i) + One(PendingOf(p)' = i) - One(PendingOf(p) = i)
          /\ Pending(i) \in Nat
      <3>1. OthersStay(p)
        BY <1>4 DEF OthersStay, Still
      <3> QED
        BY <3>1, PendingStep
    <2>6. PendingOf(p) = None /\ PendingOf(p)' = None
      BY <1>3, <1>12 DEF PendingOf, t, u, Creating
    <2>7. Pending(i)' = Pending(i)
      <3>1. One(None = i) = 0
        BY Constants DEF One
      <3> QED
        BY <2>5, <2>6, <3>1
    <2>8. Cardinality(Entries(i)) \in Nat /\ dropped[i] \in Nat
      BY <1>1, EntriesFinite DEF TypeInv
    <2>9. dinode'[i].nlink = dinode[i].nlink + One(i = j) + One(i = w) /\ dinode[i].nlink \in Int
      <3>1. dinode[i].nlink \in Int
        BY <1>1, NlinkType
      <3>2. CASE i = d
        <4>1. k = One(i = w) /\ One(i = j) = 0
          BY <1>5, <1>8, <3>2, Constants DEF k, One
        <4> HIDE DEF w
        <4> QED
          BY <1>17, <1>19, <2>4, <3>1, <3>2, <4>1
      <3>3. CASE i = j
        <4>1. One(i = j) = 1 /\ One(i = w) = 0
          BY <1>3, <1>8, <3>3, Constants DEF One
        <4> QED
          BY <1>7, <1>18, <1>19, <3>1, <3>3, <4>1
      <3>4. CASE i # d /\ i # j
        <4>1. One(i = w) = 0 /\ One(i = j) = 0
          BY <3>4, Constants DEF One
        <4> QED
          BY <1>19, <3>1, <3>4, <4>1
      <3> QED
        BY <3>2, <3>3, <3>4
    <2> HIDE DEF w
    <2>10. \A a, x, y, r, s, g \in Int :
             a = x + r + g => a + y + s = (x + y + s) + r + g
      OBVIOUS
    <2>11. dinode'[i].nlink = Cardinality(Entries(i)') + Pending(i)' + dropped[i]
      BY <2>1, <2>3, <2>4, <2>5, <2>7, <2>8, <2>9, <2>10
    <2>12. dinode'[i].type # "free" \/ dinode'[i] = dinode[i]
      BY <1>5, <1>7, <1>19, <1>20 DEF SameTypes
    <2> QED
      BY <1>11, <2>1, <2>11, <2>12
  <1>31. \A c \in Inums : ent'[c] = ent[c] \/ lock[c] \in {p, Nobody}
    BY <1>5, <1>8, <1>16
  <1>32. t.pc # "invalidate" /\ u.pc \notin {"itrunc", "invalidate", "create_new"}
    BY <1>3, <1>12
  <1>33. \A i \in Inums : Creator(p, i) => Mine(p, i)
    BY <1>24 DEF Creator, j, t
  <1> QED
    BY <1>2, <1>4, <1>22, <1>23, <1>24, <1>25, <1>28, <1>29, <1>30, <1>31, <1>32, <1>33, DiskStep DEF t, u, j

(* What is free is only referred to by those who have just freed it.       *)
LEMMA FreeHolders ==
  ASSUME RefInv, NlinkInv, NEW i \in Inums, ~Alive(i)
  PROVE  /\ \A q \in Procs, f \in Fields : Pointer(q, f) = i => Putter(<<q, f>>)
         /\ \A q \in Procs : ~Creator(q, i) /\ ~(th[q].pc = "itrunc" /\ th[q].putting = i)
         /\ i # ROOTINO /\ ent[i] = NoEntries /\ dinode[i].nlink = 0 /\ (valid[i] => Invalidating(i))
         /\ Entries(i) = {} /\ Pending(i) = 0 /\ dropped[i] = 0
  <1>1. ASSUME NEW q \in Procs, NEW f \in Fields, Pointer(q, f) = i PROVE Putter(<<q, f>>)
    BY <1>1, Holding DEF NlinkInv, PointerInv
  <1>2. ASSUME NEW q \in Procs, Creator(q, i) PROVE FALSE
    <2>1. Pointer(q, "ip") = i /\ "ip" \in Fields
      BY <1>2, PtrAt DEF Creator, Fields
    <2> QED
      BY <1>1, <2>1 DEF Putter
  <1>3. ASSUME NEW q \in Procs, th[q].pc = "itrunc", th[q].putting = i PROVE FALSE
    BY <1>3, TruncLinks
  <1>4. i # ROOTINO /\ ent[i] = NoEntries
    BY DEF NlinkInv, TreeInv, Alive
  <1>5. dinode[i].nlink = 0 /\ (valid[i] => Invalidating(i))
    BY DEF NlinkInv, LinkInv, CacheInv, Alive
  <1>6. Entries(i) = {} /\ Pending(i) = 0 /\ dropped[i] = 0
    BY <1>5, NoLinks DEF RefInv, NlinkInv
  <1> QED
    BY <1>1, <1>2, <1>3, <1>4, <1>5, <1>6

LEMMA IallocLinks ==
  ASSUME NEW p \in Procs, NEW k \in Inums, RefInv, NlinkInv, ialloc(p, k)
  PROVE  NlinkInv'
  <1> DEFINE t == th[p]
             u == th'[p]
             d == t.dp
             n == Name(p)
             new == [type |-> Type(t), nlink |-> 0]
  <1>1. TypeInv /\ ThreadInv /\ CallOk(p) /\ TreeInv
    BY DEF RefInv, NlinkInv, CallInv
  <1>2. RefInv' /\ TypeInv'
    BY IallocRef DEF RefInv
  <1>3. /\ t.pc = "parent" /\ t.op \in Creating /\ t.putting = None /\ t.cont = "user" /\ t.np = None
        /\ t.ip = None /\ Where(p) = "parent"
    BY <1>1, IallocMoves, ThreadAt, NonePointer DEF ThreadOk, Where, NpUsed, IpUsed, DpUsed, IputPoints, OpsAt, Creating
  <1>4. \A q \in Procs \ {p} : Still(q)
    BY <1>1, IallocMoves DEF Still, OthersStay, ialloc, TypeInv
  <1>5. d \in Inums /\ Public(d) /\ dinode[d].type = "dir"
    BY <1>3, DirAt
  <1>6. /\ PublicOrNone(ofile[p]) /\ (~Leaving(p) => PublicOrNone(cwd[p]))
    BY <1>3, OwnPublic DEF PublicOrNone
  <1>7. ~Alive(k) /\ k # d /\ ent[d][n] = None
    BY <1>5 DEF ialloc, Alive, dirlookup
  <1>8. Type(t) # "free"
    BY <1>1, <1>3, ThreadAt DEF ThreadOk, Type, Creating, Devices
  <1>9. /\ UNCHANGED dropped /\ iget(k) /\ Read(d) /\ lock' = [lock EXCEPT ![d] = p]
        /\ dinode' = [dinode EXCEPT ![k] = new] /\ ent' = [ent EXCEPT ![k] = NoEntries]
    BY DEF ialloc
  <1>10. /\ u.pc = "create_new" /\ u.op = t.op /\ u.np = None /\ u.ip = k /\ u.dp = d /\ u.putting = None
         /\ u.cont = "user" /\ u.arg = t.arg /\ u.rest = t.rest /\ cwd'[p] = cwd[p] /\ ofile'[p] = ofile[p]
    BY <1>1, <1>3, IallocMoves DEF Become, Keeps, ialloc
  <1>11. Type(u) = Type(t) /\ Name(p)' = n
    BY <1>10 DEF Type, Name
  <1> HIDE DEF ialloc, u, t, d, n
  <1>12. new.type = Type(t) /\ new.nlink = 0
    OBVIOUS
  <1> HIDE DEF new
  <1>13. dinode'[k] = new /\ \A i \in Inums \ {k} : dinode'[i] = dinode[i]
    BY <1>1, <1>9 DEF TypeInv
  <1>14. ent' = ent
    BY <1>1, <1>7, <1>9, FreeHolders DEF TypeInv
  <1>15. /\ inode'[d] = dinode'[d] /\ \A i \in Inums \ {d} : inode'[i] = inode[i] /\ valid'[i] = valid[i]
         /\ \A i \in Inums \ {k} : ref'[i] = ref[i]
    BY <1>1, <1>5, <1>7, <1>9, <1>13, PublicContent DEF Read, iget, TypeInv
  <1>16. OthersKeep(p)
    BY <1>7, <1>13 DEF OthersKeep
  <1>17. /\ Pointer(p, "cwd")' = (IF Leaving(p)' THEN None ELSE cwd[p]) /\ Pointer(p, "ofile")' = ofile[p]
         /\ Pointer(p, "np")' = None /\ Pointer(p, "ip")' = k /\ Pointer(p, "dp")' = d
         /\ Pointer(p, "putting")' = None
    BY <1>10, PtrAtNext DEF u
  <1>18. ASSUME NEW f \in Fields, NEW i \in Inums, Pointer(p, f)' = i
         PROVE  f = "ip" \/ (Public(i) /\ i # k)
    <2>1. ~Leaving(p)
      BY <1>3 DEF Leaving, t
    <2>2. f \in {"cwd", "ofile", "np", "ip", "dp", "putting"}
      BY DEF Fields
    <2>3. f = "ip" \/ Public(i)
      BY <1>5, <1>6, <1>17, <1>18, <2>1, <2>2, Constants DEF PublicOrNone
    <2> QED
      BY <1>7, <2>3 DEF Public
  <1>19. OwnKept(p)
    <2> SUFFICES ASSUME NEW f \in Fields, NEW i \in Inums, Pointer(p, f)' = i
                 PROVE  Alive(i)' /\ \A q \in Procs \ {p} : ~Creator(q, i)
      BY DEF OwnKept
    <2>1. CASE i = k
      <3>1. dinode'[i].type # "free"
        BY <1>8, <1>12, <1>13, <2>1
      <3> QED
        BY <1>7, <2>1, <3>1, FreeHolders DEF Alive
    <2>2. CASE i # k
      BY <1>13, <1>17, <1>18, <2>2 DEF Public, Alive
    <2> QED
      BY <2>1, <2>2
  <1>20. Creator(p, k)'
    BY <1>10 DEF Creator, u
  <1>21. Mine(p, k)
    <2>1. \A q \in Procs \ {p} : ~Creator(q, k) /\ ~(th[q].pc = "itrunc" /\ th[q].putting = k)
      BY <1>7, FreeHolders
    <2>2. valid'[k] => Invalidating(k)'
      <3> SUFFICES ASSUME valid[k] PROVE Invalidating(k)'
        BY <1>7, <1>15
      <3>1. PICK q \in Procs : th[q].pc = "invalidate" /\ th[q].putting = k
        BY <1>7, FreeHolders DEF Invalidating
      <3>2. q # p
        BY <1>3, <3>1 DEF t
      <3> QED
        BY <1>4, <3>1, <3>2 DEF Still, Invalidating
    <2>3. inode'[k] = inode[k]
      BY <1>7, <1>15
    <2> QED
      BY <1>20, <2>1, <2>2, <2>3 DEF Mine
  <1>22. ASSUME NEW i \in Inums PROVE Untouched(i) \/ Mine(p, i)
    <2>1. CASE i = d
      BY <1>5, <1>7, <1>13, <1>15, <2>1, PublicMine
    <2>2. CASE i # d /\ i # k
      BY <1>13, <1>14, <1>15, <2>2 DEF Untouched
    <2> QED
      BY <1>21, <2>1, <2>2
  <1>23. NewOk(p)'
    <2>1. dinode'[k] = [type |-> Type(u), nlink |-> 0] /\ ent'[k] = NoEntries /\ ent'[d][Name(p)'] = None
      BY <1>7, <1>11, <1>13, <1>14, FreeHolders DEF new
    <2>2. ASSUME NEW q \in Procs, NEW f \in Fields, Pointer(q, f)' = k
          PROVE  <<q, f>> = <<p, "ip">> \/ Putter(<<q, f>>)'
      <3>1. CASE q = p
        BY <1>18, <2>2, <3>1
      <3>2. CASE q # p
        <4>1. th'[q] = th[q] /\ Pointer(q, f) = k
          BY <1>4, <2>2, <3>2 DEF Still, Pointer, Fields, Leaving
        <4> QED
          BY <1>7, <4>1, FreeHolders DEF Putter
      <3> QED
        BY <3>1, <3>2
    <2>3. ASSUME NEW x \in Procs \X Fields, Pointer(x[1], x[2])' = k PROVE x = <<p, "ip">> \/ Putter(x)'
      <3>1. PICK q \in Procs, f \in Fields : x = <<q, f>>
        OBVIOUS
      <3> QED
        BY <2>2, <2>3, <3>1
    <2> QED
      BY <1>10, <2>1, <2>3 DEF NewOk, Holders, u
  <1>24. TreeInv'
    <2>1. (\A i \in Inums : dinode[i].type # "dir" => ent[i] = NoEntries)'
      BY <1>1, <1>7, <1>13, <1>14, FreeHolders DEF TreeInv
    <2>2. (\A i \in Inums : dinode[i].type = "dir" =>
              \/ ent[i]["."] = i /\ ent[i][".."] # None
              \/ \E q \in Procs : Creator(q, i))'
      <3>1. ASSUME NEW i \in Inums, NEW q \in Procs, Creator(q, i) PROVE Creator(q, i)'
        BY <1>3, <1>4, <3>1 DEF Creator, Still, t
      <3> HIDE DEF Creator
      <3> QED
        BY <1>1, <1>13, <1>14, <1>20, <3>1 DEF TreeInv
    <2>3. \A e \in Inums, l \in Names : ent[e][l] # k
      <3>1. Entries(k) = {}
        BY <1>7, FreeHolders
      <3>2. ASSUME NEW e \in Inums, NEW l \in Names, ent[e][l] = k PROVE FALSE
        <4>1. <<e, l>> \in Entries(k)
          BY <3>2 DEF Entries
        <4> QED
          BY <3>1, <4>1
      <3> QED
        BY <3>2
    <2>4. \A e \in Inums, l \in Names : ent[e][l] # None => ent[e][l] \in Inums
      BY <1>1 DEF TypeInv, Elems, Pointers
    <2>5. (\A c \in Inums, m \in Names : ent[c][m] # None /\ dinode[ent[c][m]].type = "dir" =>
              /\ ent[c][m] # ROOTINO /\ ent[ent[c][m]][".."] = c
              /\ \A e \in Inums, l \in Names : ent[e][l] = ent[c][m] => e = c /\ l = m)'
      BY <1>1, <1>13, <1>14, <2>3, <2>4 DEF TreeInv
    <2>6. (dinode[ROOTINO].type = "dir" /\ ent[ROOTINO][".."] = ROOTINO)'
      BY <1>1, <1>7, <1>13, <1>14, FreeHolders, Constants DEF TreeInv
    <2> QED
      BY <2>1, <2>2, <2>5, <2>6 DEF TreeInv
  <1>25. CallOk(p)'
    <2>1. dinode'[d].type = "dir"
      BY <1>5, <1>7, <1>13
    <2> QED
      BY <1>3, <1>10, <2>1 DEF CallOk, Where, IputPoints, u, Creating
  <1>26. CountsNext
    <2> SUFFICES ASSUME NEW i \in Inums
                 PROVE  /\ dinode'[i].nlink = Cardinality(Entries(i)') + Pending(i)' + dropped'[i]
                        /\ dinode'[i].type = "free" => dinode'[i].nlink = 0
      BY DEF CountsNext
    <2>1. /\ dinode[i].nlink = Cardinality(Entries(i)) + Pending(i) + dropped[i]
          /\ dinode[i].type = "free" => dinode[i].nlink = 0
      BY DEF NlinkInv, LinkInv
    <2>2. Entries(i)' = Entries(i)
      BY <1>14 DEF Entries, Named, NamedIn
    <2>3. Pending(i)' = Pending(i) + One(PendingOf(p)' = i) - One(PendingOf(p) = i)
          /\ Pending(i) \in Nat
      <3>1. OthersStay(p)
        BY <1>4 DEF OthersStay, Still
      <3> QED
        BY <3>1, PendingStep
    <2>4. PendingOf(p) = None /\ PendingOf(p)' = None
      BY <1>3, <1>10 DEF PendingOf, t, u, Creating
    <2>5. Pending(i)' = Pending(i)
      <3>1. One(None = i) = 0
        BY Constants DEF One
      <3> QED
        BY <2>3, <2>4, <3>1
    <2>6. dinode'[i].nlink = dinode[i].nlink
      BY <1>7, <1>12, <1>13, FreeHolders
    <2>7. dinode'[i].type = "free" => dinode'[i] = dinode[i]
      BY <1>8, <1>12, <1>13
    <2> QED
      BY <1>9, <2>1, <2>2, <2>5, <2>6, <2>7
  <1>27. t.pc # "invalidate" /\ u.pc \notin {"itrunc", "invalidate"} /\ \A i \in Inums : ~Creator(p, i)
    BY <1>3, <1>10 DEF Creator, t
  <1> QED
    BY <1>2, <1>4, <1>14, <1>16, <1>19, <1>22, <1>23, <1>24, <1>25, <1>26, <1>27, DiskStep DEF t, u

(* The entries that go with the directory k, which has no name itself: of  *)
(* files only, since a directory in k would count in k's links.            *)
LEMMA DroppedEntries ==
  ASSUME TypeInv, NlinkInv, NEW k \in Inums, Entries(k) = {}, k # ROOTINO,
         ent' = [ent EXCEPT ![k] = NoEntries], NEW i \in Inums
  PROVE  Cardinality(Entries(i)) = Cardinality(Entries(i)') + Cardinality({n \in Names : ent[k][n] = i})
  <1> DEFINE N == {n \in Names : ent[k][n] = i}
             D == {k} \X N
             S == Entries(i)'
  <1>0. /\ ".." \in Elems /\ Names \subseteq Elems /\ ".." \notin Names /\ None # i
        /\ TreeInv
    BY Constants DEF Elems, NlinkInv
  <1>1. /\ \A m \in Elems : ent'[k][m] = None
        /\ \A c \in Inums : c # k => ent'[c] = ent[c]
    BY DEF TypeInv, NoEntries
  <1>2. \A c \in Inums, m \in Names : ent[c][m] # k
    <2>1. ASSUME NEW c \in Inums, NEW m \in Names, ent[c][m] = k PROVE FALSE
      <3>1. <<c, m>> \in Entries(k)
        BY <2>1 DEF Entries
      <3> QED
        BY <3>1
    <2> QED
      BY <2>1
  <1>3. ASSUME NEW c \in Inums, ent[c][".."] = i PROVE \A m \in Names : ent[k][m] # c
    <2> SUFFICES ASSUME NEW m \in Names, ent[k][m] = c PROVE FALSE
      OBVIOUS
    <2>1. dinode[c].type = "dir"
      BY <1>0, <1>3 DEF TreeInv, NoEntries
    <2>2. ent[c][".."] = k
      BY <1>0, <2>1, Constants DEF TreeInv
    <2>3. Named(c)
      BY DEF Named, NamedIn
    <2>4. <<c, "..">> \in Entries(k)
      BY <2>2, <2>3 DEF Entries
    <2> QED
      BY <2>4
  <1>4. ~Named(k)
    BY <1>2 DEF Named, NamedIn
  <1>5. ASSUME NEW c \in Inums, NEW m \in Names
        PROVE  /\ <<c, m>> \in Entries(i) <=> ent[c][m] = i
               /\ <<c, m>> \in S <=> ent'[c][m] = i
               /\ <<c, m>> \in D <=> c = k /\ ent[c][m] = i
    BY <1>0 DEF Entries
  <1>6. ASSUME NEW c \in Inums
        PROVE  /\ <<c, "..">> \in Entries(i) <=> ent[c][".."] = i /\ Named(c)
               /\ <<c, "..">> \in S <=> ent'[c][".."] = i /\ Named(c)'
               /\ <<c, "..">> \notin D
    BY <1>0 DEF Entries
  <1>7. ASSUME NEW c \in Inums
        PROVE  <<c, "..">> \in Entries(i) <=> <<c, "..">> \in S \cup D
    <2>1. CASE c = k
      BY <1>0, <1>1, <1>4, <1>6, <2>1
    <2>2. CASE c # k
      <3>1. ent[c][".."] = i => (Named(c)' <=> Named(c))
        <4> SUFFICES ASSUME ent[c][".."] = i PROVE Named(c)' <=> Named(c)
          OBVIOUS
        <4>1. \A e \in Inums, m \in Names : ent'[e][m] = c <=> ent[e][m] = c
          <5> SUFFICES ASSUME NEW e \in Inums, NEW m \in Names PROVE ent'[e][m] = c <=> ent[e][m] = c
            OBVIOUS
          <5>1. CASE e = k
            BY <1>0, <1>1, <1>3, <5>1, Constants
          <5> QED
            BY <1>1, <5>1
        <4> QED
          BY <4>1 DEF Named, NamedIn
      <3> QED
        BY <1>1, <1>6, <2>2, <3>1
    <2> QED
      BY <2>1, <2>2
  <1>8. ASSUME NEW c \in Inums, NEW m \in Names
        PROVE  /\ <<c, m>> \in Entries(i) <=> <<c, m>> \in S \cup D
               /\ ~(<<c, m>> \in S /\ <<c, m>> \in D)
    <2>1. CASE c = k
      BY <1>0, <1>1, <1>5, <2>1
    <2>2. CASE c # k
      BY <1>1, <1>5, <2>2
    <2> QED
      BY <2>1, <2>2
  <1>9. /\ Entries(i) \subseteq Inums \X (Names \cup {".."}) /\ S \subseteq Inums \X (Names \cup {".."})
        /\ D \subseteq Inums \X (Names \cup {".."})
    BY DEF Entries
  <1>10. IsFiniteSet(N)
    BY Constants, FS_Subset
  <1>11. IsFiniteSet(D) /\ Cardinality(D) = Cardinality(N)
    <2>1. IsFiniteSet({k}) /\ Cardinality({k}) = 1 /\ Cardinality(N) \in Nat
      BY <1>10, FS_Singleton, FS_CardinalityType
    <2>2. IsFiniteSet(D) /\ Cardinality(D) = Cardinality({k}) * Cardinality(N)
      BY <1>10, <2>1, FS_Product
    <2> QED
      BY <2>1, <2>2
  <1> HIDE DEF D, S, N
  <1>12. Entries(i) = S \cup D /\ S \cap D = {}
    <2>1. ASSUME NEW x \in Inums \X (Names \cup {".."})
          PROVE  (x \in Entries(i) <=> x \in S \cup D) /\ ~(x \in S /\ x \in D)
      <3>1. PICK c \in Inums, m \in Names \cup {".."} : x = <<c, m>>
        OBVIOUS
      <3>2. CASE m \in Names
        BY <1>8, <3>1, <3>2
      <3>3. CASE m = ".."
        BY <1>6, <1>7, <3>1, <3>3
      <3> QED
        BY <3>1, <3>2, <3>3
    <2> QED
      BY <1>9, <2>1
  <1>13. IsFiniteSet(S) /\ Cardinality(S) \in Nat
    BY EntriesFiniteNext DEF S
  <1>14. Cardinality(S \cup D) = Cardinality(S) + Cardinality(D) - Cardinality(S \cap D)
    BY <1>11, <1>13, FS_Union
  <1>15. Cardinality(S \cap D) = 0 /\ Cardinality(D) \in Nat
    BY <1>11, <1>12, FS_EmptySet, FS_CardinalityType
  <1>16. Cardinality(Entries(i)) = Cardinality(S) + Cardinality(N)
    BY <1>11, <1>12, <1>13, <1>14, <1>15
  <1> QED
    BY <1>16 DEF S, N

LEMMA ItruncLinks ==
  ASSUME NEW p \in Procs, RefInv, NlinkInv, itrunc(p)
  PROVE  NlinkInv'
  <1> DEFINE t == th[p]
             u == th'[p]
  <1>1. TypeInv /\ ThreadInv /\ CallOk(p) /\ TreeInv
    BY DEF RefInv, NlinkInv, CallInv
  <1>2. RefInv' /\ TypeInv'
    BY ItruncRef DEF RefInv
  <1>3. t.pc = "itrunc" /\ t.putting \in Inums
    BY <1>1, ItruncMoves
  <1>4. \A q \in Procs \ {p} : Still(q)
    BY <1>1, ItruncMoves DEF Still, OthersStay, itrunc, TypeInv
  <1>5. PICK k \in Inums : k = t.putting
    BY <1>3
  <1>6. /\ PublicOrNone(t.np) /\ PublicOrNone(t.ip) /\ PublicOrNone(t.dp) /\ PublicOrNone(ofile[p])
        /\ ~Leaving(p) => PublicOrNone(cwd[p])
    BY <1>3, OwnPublic
  <1>7. /\ Entries(k) = {} /\ dinode[k].nlink = 0 /\ ~Public(k)
        /\ \A x \in Holders(k) : x = <<p, "putting">>
    BY <1>3, <1>5, TruncLinks, TruncSole DEF Public
  <1>8. k # ROOTINO
    BY <1>7, RootPublic
  <1>9. /\ dinode' = [dinode EXCEPT ![k] = FreeInode] /\ inode' = [inode EXCEPT ![k] = FreeInode]
        /\ ent' = [ent EXCEPT ![k] = NoEntries] /\ UNCHANGED <<valid, ref, lock>>
        /\ dropped' = [j \in Inums |-> dropped[j] + Cardinality({n \in Names : ent[k][n] = j})]
    BY <1>5 DEF itrunc, Update
  <1>10. /\ u.pc = "invalidate" /\ u.op = t.op /\ u.np = t.np /\ u.ip = t.ip /\ u.dp = t.dp /\ u.putting = k
         /\ u.cont = t.cont /\ u.rest = t.rest /\ cwd'[p] = cwd[p] /\ ofile'[p] = ofile[p]
    BY <1>1, <1>5, ItruncMoves DEF Become, Keeps, itrunc
  <1> HIDE DEF itrunc, u, t
  <1>11. /\ dinode'[k] = FreeInode /\ inode'[k] = FreeInode /\ ent'[k] = NoEntries
         /\ \A i \in Inums \ {k} : dinode'[i] = dinode[i] /\ inode'[i] = inode[i] /\ ent'[i] = ent[i]
    BY <1>1, <1>9 DEF TypeInv
  <1>12. ASSUME NEW q \in Procs, NEW f \in Fields, Pointer(q, f) = k
         PROVE  q = p /\ f = "putting"
    BY <1>7, <1>12, Holding
  <1>13. OthersKeep(p)
    BY <1>11, <1>12 DEF OthersKeep
  <1>14. OwnKept(p)
    <2> SUFFICES ASSUME NEW f \in Fields, NEW i \in Inums, Pointer(p, f)' = i, f # "putting"
                 PROVE  Alive(i)' /\ \A q \in Procs \ {p} : ~Creator(q, i)
      BY <1>10 DEF OwnKept, Putter, u
    <2>1. Leaving(p)' <=> Leaving(p)
      BY <1>3, <1>10 DEF Leaving, t, u
    <2>2. /\ Pointer(p, "cwd")' = (IF Leaving(p) THEN None ELSE cwd[p]) /\ Pointer(p, "ofile")' = ofile[p]
          /\ Pointer(p, "np")' = t.np /\ Pointer(p, "ip")' = t.ip /\ Pointer(p, "dp")' = t.dp
      BY <1>10, <2>1, PtrAtNext DEF u
    <2>3. f \in {"cwd", "ofile", "np", "ip", "dp"}
      BY DEF Fields
    <2>4. Public(i)
      BY <1>6, <2>2, <2>3, Constants DEF PublicOrNone
    <2>5. i # k
      BY <1>7, <2>4
    <2> QED
      BY <1>11, <2>4, <2>5 DEF Public, Alive
  <1>15. Mine(p, k)
    <2>1. ASSUME NEW q \in Procs \ {p}
          PROVE  ~Creator(q, k) /\ ~(th[q].pc \in {"itrunc", "invalidate"} /\ th[q].putting = k)
      <3>1. Pointer(q, "ip") = th[q].ip /\ Pointer(q, "putting") = th[q].putting /\ {"ip", "putting"} \subseteq Fields
        BY PtrAt DEF Fields
      <3> QED
        BY <1>12, <3>1 DEF Creator
    <2>2. Invalidating(k)'
      BY <1>10 DEF Invalidating, u
    <2> QED
      BY <1>11, <2>1, <2>2 DEF Mine
  <1>16. \A i \in Inums : Untouched(i) \/ Mine(p, i)
    BY <1>9, <1>11, <1>15 DEF Untouched
  <1>17. \A c \in Inums : ent'[c] = ent[c] \/ lock[c] \in {p, Nobody}
    <2>1. lock[k] = p
      BY <1>3, <1>5, HeldLocks DEF RefInv, LocksHeld, t
    <2> QED
      BY <1>11, <2>1
  <1>18. \A e \in Inums, l \in Names : ent[e][l] # k
    <2>1. ASSUME NEW e \in Inums, NEW l \in Names, ent[e][l] = k PROVE FALSE
      <3>1. <<e, l>> \in Entries(k)
        BY <2>1 DEF Entries
      <3> QED
        BY <1>7, <3>1
    <2> QED
      BY <2>1
  <1>19. TreeInv'
    <2>1. (\A i \in Inums : dinode[i].type # "dir" => ent[i] = NoEntries)'
      BY <1>1, <1>11 DEF TreeInv
    <2>2. (\A i \in Inums : dinode[i].type = "dir" =>
              \/ ent[i]["."] = i /\ ent[i][".."] # None
              \/ \E q \in Procs : Creator(q, i))'
      <3>1. \A i \in Inums, q \in Procs : Creator(q, i) => Creator(q, i)'
        BY <1>3, <1>4 DEF Creator, Still, t
      <3> HIDE DEF Creator
      <3> QED
        BY <1>1, <1>11, <3>1 DEF TreeInv, FreeInode
    <2>3. (\A c \in Inums, m \in Names : ent[c][m] # None /\ dinode[ent[c][m]].type = "dir" =>
              /\ ent[c][m] # ROOTINO /\ ent[ent[c][m]][".."] = c
              /\ \A e \in Inums, l \in Names : ent[e][l] = ent[c][m] => e = c /\ l = m)'
      <3> SUFFICES ASSUME NEW c \in Inums, NEW m \in Names, ent'[c][m] # None, dinode'[ent'[c][m]].type = "dir"
                   PROVE  /\ ent'[c][m] # ROOTINO /\ ent'[ent'[c][m]][".."] = c
                          /\ \A e \in Inums, l \in Names : ent'[e][l] = ent'[c][m] => e = c /\ l = m
        OBVIOUS
      <3> DEFINE h == ent[c][m]
      <3>1. \A l \in Names : ent'[k][l] = None
        BY <1>11 DEF NoEntries, Elems
      <3>2. c # k /\ ent'[c][m] = h /\ h # None
        BY <1>11, <3>1
      <3>3. h \in Inums /\ h # k
        BY <1>1, <1>18, <3>2 DEF TypeInv, Pointers, Elems
      <3> HIDE DEF h
      <3>4. dinode[h].type = "dir"
        BY <1>11, <3>2, <3>3
      <3>5. /\ h # ROOTINO /\ ent[h][".."] = c
            /\ \A e \in Inums, l \in Names : ent[e][l] = h => e = c /\ l = m
        BY <1>1, <3>2, <3>4 DEF TreeInv, h
      <3>6. ent'[h][".."] = c
        BY <1>11, <3>3, <3>5
      <3>7. ASSUME NEW e \in Inums, NEW l \in Names, ent'[e][l] = h PROVE e = c /\ l = m
        BY <1>11, <3>1, <3>2, <3>5, <3>7
      <3> QED
        BY <3>2, <3>5, <3>6, <3>7
    <2>4. (dinode[ROOTINO].type = "dir" /\ ent[ROOTINO][".."] = ROOTINO)'
      BY <1>1, <1>8, <1>11, Constants DEF TreeInv
    <2> QED
      BY <2>1, <2>2, <2>3, <2>4 DEF TreeInv
  <1>20. CallOk(p)'
    <2>1. Where(p)' = t.cont /\ Where(p) = t.cont /\ Name(p)' = Name(p)
      BY <1>3, <1>10 DEF Where, IputPoints, Name, t, u
    <2>2. ASSUME t.cont \in {"parent", "create_new", "unlink_ip"} PROVE dinode'[t.dp].type = "dir"
      <3>1. t.dp \in Inums /\ Public(t.dp) /\ dinode[t.dp].type = "dir"
        BY <2>1, <2>2, DirAt DEF t
      <3> QED
        BY <1>7, <1>11, <3>1
    <2>3. ASSUME t.op = "link2" PROVE dinode'[t.ip].type # "dir"
      <3>1. dinode[t.ip].type # "dir"
        BY <1>1, <2>3 DEF CallOk, t
      <3>2. t.ip \in Inums
        <4>1. t.ip # None
          BY <1>1, <2>3, ThreadAt DEF ThreadOk, OpsAt, IpUsed, Creating, Ops, t
        <4> QED
          BY <1>1, <4>1, ThreadAt DEF t
      <3> QED
        BY <1>11, <3>1, <3>2 DEF FreeInode
    <2> QED
      BY <1>1, <1>10, <2>1, <2>2, <2>3 DEF CallOk, u, t
  <1>21. CountsNext
    <2> SUFFICES ASSUME NEW i \in Inums
                 PROVE  /\ dinode'[i].nlink = Cardinality(Entries(i)') + Pending(i)' + dropped'[i]
                        /\ dinode'[i].type = "free" => dinode'[i].nlink = 0
      BY DEF CountsNext
    <2> DEFINE N == {n \in Names : ent[k][n] = i}
    <2>1. /\ dinode[i].nlink = Cardinality(Entries(i)) + Pending(i) + dropped[i]
          /\ dinode[i].type = "free" => dinode[i].nlink = 0
      BY DEF NlinkInv, LinkInv
    <2>2. Cardinality(Entries(i)) = Cardinality(Entries(i)') + Cardinality(N)
      BY <1>1, <1>7, <1>8, <1>9, DroppedEntries
    <2>3. dropped'[i] = dropped[i] + Cardinality(N)
      BY <1>9
    <2>4. Cardinality(N) \in Nat
      <3>1. IsFiniteSet(N)
        BY Constants, FS_Subset
      <3> QED
        BY <3>1, FS_CardinalityType
    <2> HIDE DEF N
    <2>5. /\ Pending(i)' = Pending(i) + One(PendingOf(p)' = i) - One(PendingOf(p) = i)
          /\ Pending(i) \in Nat
      <3>1. OthersStay(p)
        BY <1>4 DEF OthersStay, Still
      <3> QED
        BY <3>1, PendingStep
    <2>6. PendingOf(p)' = PendingOf(p)
      BY <1>10 DEF PendingOf, t, u
    <2>7. Pending(i)' = Pending(i)
      <3>1. One(PendingOf(p) = i) \in Int
        BY DEF One
      <3> QED
        BY <2>5, <2>6, <3>1
    <2>8. Cardinality(Entries(i)') \in Nat /\ dropped[i] \in Nat
      BY <1>1, EntriesFiniteNext DEF TypeInv
    <2>9. dinode'[i].nlink = dinode[i].nlink
      BY <1>7, <1>11 DEF FreeInode
    <2>10. dinode'[i].type = "free" => dinode'[i].nlink = 0
      BY <1>11, <2>1 DEF FreeInode
    <2>11. \A a, x, r, s, g \in Int : a = (x + s) + r + g => a = x + r + (g + s)
      OBVIOUS
    <2>12. dinode[i].nlink \in Int
      BY <1>1, NlinkType
    <2> QED
      BY <2>1, <2>2, <2>3, <2>4, <2>5, <2>7, <2>8, <2>9, <2>10, <2>11, <2>12
  <1>22. u.pc = "invalidate" /\ dinode'[u.putting].type = "free" /\ t.pc # "invalidate"
    BY <1>3, <1>10, <1>11 DEF FreeInode
  <1>23. \A i \in Inums : ~Creator(p, i)
    BY <1>3 DEF Creator, t
  <1> QED
    BY <1>2, <1>4, <1>13, <1>14, <1>16, <1>17, <1>19, <1>20, <1>21, <1>22, <1>23, DiskStep DEF t, u

-----------------------------------------------------------------------------
(* Link counts, put together.                                              *)

LEMMA StutterNlink == ASSUME NlinkInv, UNCHANGED vars PROVE NlinkInv'
  <1>1. UNCHANGED <<dinode, ent, dropped, inode, valid, ref, lock, cwd, ofile, th>>
    BY DEF vars
  <1>2. \A i \in Inums : Holders(i)' = Holders(i) /\ Entries(i)' = Entries(i) /\ Pending(i)' = Pending(i)
    BY <1>1 DEF Holders, Pointer, Leaving, Entries, Named, NamedIn, Pending
  <1>3. PointerInv' /\ TruncInv' /\ FreedInv' /\ CacheInv'
    BY <1>1, <1>2 DEF NlinkInv, PointerInv, TruncInv, FreedInv, CacheInv, Alive, Putter, Creator, Invalidating
  <1>4. ASSUME NEW p \in Procs, th[p].pc = "create_new", NewOk(p) PROVE NewOk(p)'
    <2>1. \A i : Holders(i)' = Holders(i)
      BY <1>1 DEF Holders, Pointer, Leaving
    <2>2. \A x : Putter(x)' <=> Putter(x)
      BY <1>1 DEF Putter
    <2>3. Name(p)' = Name(p) /\ Type(th[p])' = Type(th[p])
      BY <1>1 DEF Name, Type
    <2>4. th' = th /\ dinode' = dinode /\ ent' = ent
      BY <1>1
    <2> QED
      BY <1>4, <2>1, <2>2, <2>3, <2>4 DEF NewOk
  <1>7. NewInv'
    BY <1>1, <1>4 DEF NlinkInv, NewInv
  <1>8. CallInv'
    BY <1>1 DEF NlinkInv, CallInv, CallOk, Where, Name
  <1>5. TreeInv'
    BY <1>1 DEF NlinkInv, TreeInv, Creator
  <1>6. LinkInv'
    BY <1>1, <1>2 DEF NlinkInv, LinkInv
  <1> QED
    BY <1>3, <1>5, <1>6, <1>7, <1>8 DEF NlinkInv

LEMMA InitNlink == ASSUME Init PROVE NlinkInv
  <1> USE Constants
  <1>1. \A p \in Procs : th[p] = Idle /\ cwd[p] = ROOTINO /\ ofile[p] = None
    BY DEF Init
  <1>2. \A p \in Procs : /\ th[p].pc = "user" /\ th[p].op = "none" /\ th[p].cont = "user"
                         /\ th[p].np = None /\ th[p].ip = None /\ th[p].dp = None /\ th[p].putting = None
    BY <1>1, IdleRecord DEF Become
  <1>3. /\ dinode[ROOTINO] = [type |-> "dir", nlink |-> 1]
        /\ \A i \in Inums \ {ROOTINO} : dinode[i] = FreeInode /\ ent[i] = NoEntries
        /\ \A i \in Inums : inode[i] = FreeInode /\ valid[i] = FALSE /\ dropped[i] = 0
    BY DEF Init
  <1>4. /\ ent[ROOTINO]["."] = ROOTINO /\ ent[ROOTINO][".."] = ROOTINO
        /\ \A n \in Names : ent[ROOTINO][n] = None
    BY DEF Init, NoEntries, Elems
  <1>5. \A d \in Inums, n \in Names : ent[d][n] = None
    BY <1>3, <1>4 DEF NoEntries, Elems
  <1>6. \A d \in Inums \ {ROOTINO} : ent[d][".."] = None
    BY <1>3 DEF NoEntries, Elems
  <1>7. PointerInv
    <2> SUFFICES ASSUME NEW i \in Inums, NEW p \in Procs, NEW f \in Fields, Pointer(p, f) = i
                 PROVE  Alive(i)
      BY DEF PointerInv, Holders
    <2>1. i = ROOTINO
      <3>1. i # None
        BY Constants
      <3>2. Pointer(p, f) \in {ROOTINO, None}
        BY <1>1, <1>2 DEF Pointer, Fields
      <3> QED
        BY <3>1, <3>2
    <2> QED
      BY <1>3, <2>1 DEF Alive
  <1>8. TruncInv /\ FreedInv /\ NewInv /\ CallInv
    BY <1>2 DEF TruncInv, FreedInv, NewInv, CallInv, CallOk, Where, IputPoints
  <1>9. CacheInv
    BY <1>3 DEF CacheInv
  <1>10. TreeInv
    <2>1. \A i \in Inums \ {ROOTINO} : dinode[i].type # "dir"
      BY <1>3 DEF FreeInode
    <2> QED
      BY <1>3, <1>4, <1>5, <2>1 DEF TreeInv
  <1>11. LinkInv
    <2> SUFFICES ASSUME NEW i \in Inums
                 PROVE  /\ dinode[i].nlink = Cardinality(Entries(i)) + Pending(i) + dropped[i]
                        /\ inode[i].nlink >= 0 /\ (dinode[i].type = "free" => dinode[i].nlink = 0)
      BY DEF LinkInv
    <2>1. Pending(i) = 0
      <3>1. {p \in Procs : th[p].op \in {"link2", "unlink2"} /\ th[p].ip = i} = {}
        BY <1>2
      <3> QED
        BY <3>1, FS_EmptySet DEF Pending
    <2>2. CASE i = ROOTINO
      <3>1. Entries(i) = {<<ROOTINO, "..">>}
        BY <1>4, <1>5, <1>6, <2>2 DEF Entries, Named
      <3>2. Cardinality(Entries(i)) = 1
        BY <3>1, FS_Singleton
      <3> QED
        BY <1>3, <2>1, <2>2, <3>2 DEF FreeInode
    <2>3. CASE i # ROOTINO
      <3>1. Entries(i) = {}
        BY <1>4, <1>5, <1>6, <2>3 DEF Entries
      <3>2. Cardinality(Entries(i)) = 0
        BY <3>1, FS_EmptySet
      <3> QED
        BY <1>3, <2>1, <2>3, <3>2 DEF FreeInode
    <2> QED
      BY <2>2, <2>3
  <1> QED
    BY <1>7, <1>8, <1>9, <1>10, <1>11 DEF NlinkInv

LEMMA NextNlink == ASSUME RefInv, NlinkInv, DotDotNamed, [Next]_vars PROVE NlinkInv'
  <1>1. CASE UNCHANGED vars
    BY <1>1, StutterNlink
  <1>2. CASE Next
    <2>1. PICK p \in Procs :
            \/ \E c \in Calls[p] : syscall(p, c)
            \/ sys_close(p)
            \/ iput(p) \/ iput_last(p) \/ itrunc(p) \/ invalidate(p)
            \/ namex_next(p) \/ namex_fails(p) \/ namex_parent(p) \/ namex_end(p)
            \/ sys_open(p) \/ open_fails(p)
            \/ create_exists(p) \/ (\E i \in Inums : ialloc(p, i)) \/ ialloc_panic(p)
            \/ create_new(p) \/ created(p)
            \/ unlink_fails(p) \/ unlink_dp(p) \/ unlink_ip(p) \/ unlink_nlink(p) \/ unlink_notempty(p)
            \/ bad(p)
            \/ link_dir(p) \/ link_nlink(p) \/ dirlink(p) \/ dirlink_fails(p) \/ link_end(p) \/ undo(p)
            \/ sys_chdir(p) \/ chdir_end(p) \/ panic(p)
      BY <1>2 DEF Next
    <2>2. ASSUME NEW c \in Calls[p], syscall(p, c) PROVE NlinkInv'
      BY <2>2, SysCallQuiet
    <2>3. ASSUME NEW i \in Inums, ialloc(p, i) PROVE NlinkInv'
      BY <2>3, IallocLinks
    <2>4. ASSUME sys_close(p) \/ iput(p) \/ iput_last(p) \/ itrunc(p) \/ invalidate(p) PROVE NlinkInv'
      BY <2>4, CloseQuiet, IputQuiet, IputLastQuiet, ItruncLinks, InvalidateQuiet
    <2>5. ASSUME namex_next(p) \/ namex_fails(p) \/ namex_parent(p) \/ namex_end(p) PROVE NlinkInv'
      BY <2>5, NamexNextQuiet, NamexFailsQuiet, NamexParentQuiet, NamexEndQuiet
    <2>6. ASSUME sys_open(p) \/ open_fails(p) \/ create_exists(p) \/ ialloc_panic(p) \/ create_new(p) \/ created(p)
          PROVE  NlinkInv'
      BY <2>6, SysOpenQuiet, OpenFailsQuiet, CreateExistsQuiet, IallocPanicQuiet, CreateNewLinks, CreatedQuiet
    <2>7. ASSUME \/ unlink_fails(p) \/ unlink_dp(p) \/ unlink_ip(p) \/ unlink_nlink(p)
                 \/ unlink_notempty(p) \/ bad(p)
          PROVE  NlinkInv'
      BY <2>7, UnlinkFailsQuiet, UnlinkDpQuiet, UnlinkIpLinks, UnlinkNlinkLinks, UnlinkNotEmptyQuiet, BadQuiet
    <2>8. ASSUME link_dir(p) \/ link_nlink(p) \/ dirlink(p) \/ dirlink_fails(p) \/ link_end(p) \/ undo(p)
          PROVE  NlinkInv'
      BY <2>8, LinkDirQuiet, LinkNlinkLinks, DirlinkLinks, DirlinkFailsQuiet, LinkEndQuiet, UndoLinks
    <2>9. ASSUME sys_chdir(p) \/ chdir_end(p) PROVE NlinkInv'
      BY <2>9, ChdirQuiet, ChdirEndQuiet
    <2>10. ASSUME panic(p) PROVE NlinkInv'
      BY <2>10, StutterNlink DEF panic
    <2> QED
      BY <2>1, <2>2, <2>3, <2>4, <2>5, <2>6, <2>7, <2>8, <2>9, <2>10
  <1> QED
    BY <1>1, <1>2

-----------------------------------------------------------------------------
(* unlink() finds a directory empty, and it stays so until its link count   *)
(* is down: whoever adds a name to a directory has it locked.              *)
StaysUnlinked(p) ==
  /\ OthersStay(p)
  /\ Unlinked(p)' => Unlinked(p) /\ th'[p].ip = th[p].ip

LEMMA LockedByUnlink ==
  ASSUME NEW q \in Procs, RefInv, Unlinked(q)
  PROVE  th[q].ip \in Inums /\ lock[th[q].ip] = q
  <1>1. TypeInv /\ ThreadInv /\ LockInv
    BY DEF RefInv
  <1>2. th[q].ip \in Inums
    BY <1>1, ThreadAt DEF ThreadOk, Unlinked, IpUsed
  <1> QED
    BY <1>1, <1>2, HeldLocks DEF LocksHeld, IpLocked, Unlinked

(* p adds no name to a directory that another process has locked.          *)
LEMMA EmptyStep ==
  ASSUME NEW p \in Procs, RefInv, EmptyInv, OthersStay(p),
         \A i \in Inums, n \in Names : lock[i] \in Procs \ {p} => ent'[i][n] \in {ent[i][n], None},
         Unlinked(p)' => isdirempty(th[p].ip)'
  PROVE  EmptyInv'
  <1> SUFFICES ASSUME NEW q \in Procs, Unlinked(q)' PROVE isdirempty(th[q].ip)'
    BY DEF EmptyInv
  <1>1. CASE q # p
    <2>1. th'[q] = th[q] /\ Unlinked(q)
      BY <1>1 DEF OthersStay, Unlinked, Where
    <2>2. th[q].ip \in Inums /\ lock[th[q].ip] = q
      BY <2>1, LockedByUnlink
    <2>3. \A n \in Names : ent[th[q].ip][n] = None
      BY <2>1 DEF EmptyInv, isdirempty
    <2>4. \A n \in Names : ent'[th[q].ip][n] = None
      BY <1>1, <2>2, <2>3
    <2> QED
      BY <2>1, <2>4 DEF isdirempty
  <1> QED
    BY <1>1

LEMMA SameEntries ==
  ASSUME NEW p \in Procs, RefInv, EmptyInv, StaysUnlinked(p), ent' = ent
  PROVE  EmptyInv'
  <1>1. Unlinked(p)' => isdirempty(th[p].ip)'
    BY DEF StaysUnlinked, EmptyInv, isdirempty
  <1> QED
    BY <1>1, EmptyStep DEF StaysUnlinked

LEMMA MostStayEmpty ==
  ASSUME NEW p \in Procs, RefInv, EmptyInv,
         \/ (\E c \in Calls[p] : syscall(p, c))
         \/ sys_close(p) \/ iput(p) \/ iput_last(p) \/ invalidate(p) \/ namex_next(p) \/ namex_fails(p)
         \/ namex_parent(p) \/ namex_end(p) \/ sys_open(p) \/ open_fails(p) \/ create_exists(p) \/ ialloc_panic(p)
         \/ created(p) \/ unlink_fails(p) \/ unlink_dp(p) \/ unlink_nlink(p) \/ unlink_notempty(p) \/ bad(p)
         \/ link_dir(p) \/ link_nlink(p) \/ dirlink_fails(p) \/ link_end(p) \/ undo(p)
         \/ sys_chdir(p) \/ chdir_end(p)
  PROVE  EmptyInv'
  <1> DEFINE t == th[p]
  <1>1. th \in [Procs -> Threads] /\ t \in Threads /\ ThreadOk(p)
    BY ThreadAt DEF RefInv
  <1> SUFFICES StaysUnlinked(p) /\ ent' = ent
    BY SameEntries
  <1>2. ASSUME NEW c \in Calls[p], syscall(p, c) PROVE StaysUnlinked(p) /\ ent' = ent
    BY <1>1, <1>2 DEF syscall, Walking, OthersStay, StaysUnlinked, Unlinked, Where, IputPoints, Threads
  <1>3. ASSUME sys_close(p) PROVE StaysUnlinked(p) /\ ent' = ent
    BY <1>1, <1>3 DEF sys_close, At, Iput, OthersStay, StaysUnlinked, Unlinked, Where, IputPoints, Threads
  <1>4. ASSUME iput(p) PROVE StaysUnlinked(p) /\ ent' = ent
    <2>1. ent' = ent /\ th' = [th EXCEPT ![p] = After(t)] /\ t.pc \in {"iput", "ref"}
      BY <1>4 DEF iput, At
    <2>2. Where(p) = t.cont /\ t.cont \notin IputPoints
      BY <1>1, <2>1 DEF Where, IputPoints, ThreadOk
    <2>3. OthersStay(p) /\ th'[p] = After(t)
      BY <1>1, <2>1 DEF OthersStay
    <2>4. CASE t.cont = "user"
      BY <2>1, <2>3, <2>4 DEF After, Idle, StaysUnlinked, Unlinked, Where, IputPoints
    <2>5. CASE t.cont # "user"
      <3>1. th'[p].pc = t.cont /\ th'[p].ip = t.ip
        BY <1>1, <2>3, <2>5 DEF After, Threads
      <3> QED
        BY <2>1, <2>2, <2>3, <3>1 DEF StaysUnlinked, Unlinked, Where
    <2> QED
      BY <2>4, <2>5
  <1>5. ASSUME iput_last(p) PROVE StaysUnlinked(p) /\ ent' = ent
    BY <1>1, <1>5 DEF iput_last, At, Iput, OthersStay, StaysUnlinked, Unlinked, Where, IputPoints, Threads, ThreadOk
  <1>6. ASSUME invalidate(p) PROVE StaysUnlinked(p) /\ ent' = ent
    BY <1>1, <1>6 DEF invalidate, At, Iput, OthersStay, StaysUnlinked, Unlinked, Where, IputPoints, Threads, ThreadOk
  <1>7. ASSUME namex_next(p) PROVE StaysUnlinked(p) /\ ent' = ent
    BY <1>1, <1>7 DEF namex_next, At, Iput, OthersStay, StaysUnlinked, Unlinked, Where, IputPoints, Threads, Walks
  <1>8. ASSUME namex_fails(p) PROVE StaysUnlinked(p) /\ ent' = ent
    BY <1>1, <1>8 DEF namex_fails, At, Iput, Failed, OthersStay, StaysUnlinked, Unlinked, Where, IputPoints, Threads, Walks
  <1>9. ASSUME namex_parent(p) PROVE StaysUnlinked(p) /\ ent' = ent
    BY <1>1, <1>9 DEF namex_parent, At, Iput, OthersStay, StaysUnlinked, Unlinked, Where, IputPoints, Threads, Walks
  <1>10. ASSUME namex_end(p) PROVE StaysUnlinked(p) /\ ent' = ent
    BY <1>1, <1>10 DEF namex_end, At, Iput, Failed, OthersStay, StaysUnlinked, Unlinked, Where, IputPoints, Threads
  <1>11. ASSUME sys_open(p) PROVE StaysUnlinked(p) /\ ent' = ent
    BY <1>1, <1>11 DEF sys_open, At, Iput, Idle, OthersStay, StaysUnlinked, Unlinked, Where, IputPoints, Threads, Opens
  <1>12. ASSUME open_fails(p) PROVE StaysUnlinked(p) /\ ent' = ent
    BY <1>1, <1>12 DEF open_fails, At, Iput, OthersStay, StaysUnlinked, Unlinked, Where, IputPoints, Threads, Opens
  <1>13. ASSUME create_exists(p) PROVE StaysUnlinked(p) /\ ent' = ent
    BY <1>1, <1>13 DEF create_exists, At, Iput, OthersStay, StaysUnlinked, Unlinked, Where, IputPoints, Threads, Creates
  <1>14. ASSUME ialloc_panic(p) PROVE StaysUnlinked(p) /\ ent' = ent
    BY <1>1, <1>14 DEF ialloc_panic, At, Iput, OthersStay, StaysUnlinked, Unlinked, Where, IputPoints, Threads, Creates
  <1>15. ASSUME created(p) PROVE StaysUnlinked(p) /\ ent' = ent
    BY <1>1, <1>15 DEF created, At, Iput, Idle, OthersStay, StaysUnlinked, Unlinked, Where, IputPoints, Threads
  <1>16. ASSUME unlink_fails(p) PROVE StaysUnlinked(p) /\ ent' = ent
    BY <1>1, <1>16 DEF unlink_fails, At, Iput, OthersStay, StaysUnlinked, Unlinked, Where, IputPoints, Threads, Unlinks
  <1>17. ASSUME unlink_dp(p) PROVE StaysUnlinked(p) /\ ent' = ent
    BY <1>1, <1>17 DEF unlink_dp, At, Iput, OthersStay, StaysUnlinked, Unlinked, Where, IputPoints, Threads, Unlinks
  <1>18. ASSUME unlink_nlink(p) PROVE StaysUnlinked(p) /\ ent' = ent
    BY <1>1, <1>18 DEF unlink_nlink, At, Iput, OthersStay, StaysUnlinked, Unlinked, Where, IputPoints, Threads
  <1>19. ASSUME unlink_notempty(p) PROVE StaysUnlinked(p) /\ ent' = ent
    BY <1>1, <1>19 DEF unlink_notempty, At, Iput, OthersStay, StaysUnlinked, Unlinked, Where, IputPoints, Threads
  <1>20. ASSUME bad(p) PROVE StaysUnlinked(p) /\ ent' = ent
    BY <1>1, <1>20 DEF bad, At, Iput, Failed, OthersStay, StaysUnlinked, Unlinked, Where, IputPoints, Threads
  <1>21. ASSUME link_dir(p) PROVE StaysUnlinked(p) /\ ent' = ent
    BY <1>1, <1>21 DEF link_dir, At, Iput, OthersStay, StaysUnlinked, Unlinked, Where, IputPoints, Threads
  <1>22. ASSUME link_nlink(p) PROVE StaysUnlinked(p) /\ ent' = ent
    BY <1>1, <1>22 DEF link_nlink, At, Iput, Walking, OthersStay, StaysUnlinked, Unlinked, Where, IputPoints, Threads
  <1>23. ASSUME dirlink_fails(p) PROVE StaysUnlinked(p) /\ ent' = ent
    BY <1>1, <1>23 DEF dirlink_fails, At, Iput, OthersStay, StaysUnlinked, Unlinked, Where, IputPoints, Threads, Links
  <1>24. ASSUME link_end(p) PROVE StaysUnlinked(p) /\ ent' = ent
    BY <1>1, <1>24 DEF link_end, At, Iput, OthersStay, StaysUnlinked, Unlinked, Where, IputPoints, Threads
  <1>25. ASSUME undo(p) PROVE StaysUnlinked(p) /\ ent' = ent
    BY <1>1, <1>25 DEF undo, At, Iput, OthersStay, StaysUnlinked, Unlinked, Where, IputPoints, Threads
  <1>26. ASSUME sys_chdir(p) PROVE StaysUnlinked(p) /\ ent' = ent
    BY <1>1, <1>26 DEF sys_chdir, At, Iput, OthersStay, StaysUnlinked, Unlinked, Where, IputPoints, Threads
  <1>27. ASSUME chdir_end(p) PROVE StaysUnlinked(p) /\ ent' = ent
    BY <1>1, <1>27 DEF chdir_end, At, Iput, Idle, OthersStay, StaysUnlinked, Unlinked, Where, IputPoints, Threads
  <1> QED
    BY <1>2, <1>3, <1>4, <1>5, <1>6, <1>7, <1>8, <1>9, <1>10, <1>11, <1>12, <1>13, <1>14, <1>15, <1>16, <1>17, <1>18, <1>19, <1>20, <1>21, <1>22, <1>23, <1>24, <1>25, <1>26, <1>27

LEMMA ItruncEmpty ==
  ASSUME NEW p \in Procs, RefInv, EmptyInv, itrunc(p)
  PROVE  EmptyInv'
  <1>1. /\ th \in [Procs -> Threads] /\ th[p] \in Threads /\ ThreadOk(p) /\ ent \in [Inums -> [Elems -> Pointers]]
    BY ThreadAt DEF RefInv, TypeInv
  <1>2. StaysUnlinked(p)
    BY <1>1 DEF itrunc, At, OthersStay, StaysUnlinked, Unlinked, Where, IputPoints, Threads, ThreadOk
  <1>3. Names \subseteq Elems
    BY DEF Elems
  <1>4. \A i \in Inums, n \in Names : ent'[i][n] \in {ent[i][n], None}
    BY <1>1, <1>3 DEF itrunc, NoEntries
  <1>5. ASSUME Unlinked(p)' PROVE isdirempty(th[p].ip)'
    <2>1. th[p].ip \in Inums /\ th'[p].ip = th[p].ip /\ isdirempty(th[p].ip)
      BY <1>2, <1>5, LockedByUnlink DEF StaysUnlinked, EmptyInv
    <2> QED
      BY <1>4, <2>1 DEF isdirempty
  <1> QED
    BY <1>2, <1>4, <1>5, EmptyStep DEF StaysUnlinked

LEMMA IallocEmpty ==
  ASSUME NEW p \in Procs, NEW i \in Inums, RefInv, EmptyInv, ialloc(p, i)
  PROVE  EmptyInv'
  <1>1. /\ th \in [Procs -> Threads] /\ th[p] \in Threads /\ ent \in [Inums -> [Elems -> Pointers]]
    BY ThreadAt DEF RefInv, TypeInv
  <1>2. OthersStay(p) /\ ~Unlinked(p)'
    BY <1>1 DEF ialloc, OthersStay, Unlinked, Where, IputPoints, Threads
  <1>3. Names \subseteq Elems
    BY DEF Elems
  <1>4. \A j \in Inums, n \in Names : ent'[j][n] \in {ent[j][n], None}
    BY <1>1, <1>3 DEF ialloc, NoEntries
  <1> QED
    BY <1>2, <1>4, EmptyStep

LEMMA CreateNewEmpty ==
  ASSUME NEW p \in Procs, RefInv, EmptyInv, create_new(p)
  PROVE  EmptyInv'
  <1>1. /\ th \in [Procs -> Threads] /\ th[p] \in Threads /\ ThreadOk(p) /\ ent \in [Inums -> [Elems -> Pointers]]
        /\ LockInv
    BY ThreadAt DEF RefInv, TypeInv
  <1>2. OthersStay(p) /\ ~Unlinked(p)'
    BY <1>1 DEF create_new, Iput, OthersStay, Unlinked, Where, IputPoints, Threads
  <1>3. th[p].pc = "create_new" /\ lock[th[p].ip] = Nobody /\ th[p].dp \in Inums
    BY <1>1, ThreadAt DEF create_new, At, Locks, ThreadOk, Where, IputPoints, DpUsed, RefInv
  <1>4. lock[th[p].dp] = p
    BY <1>1, <1>3, HeldLocks DEF LocksHeld, DpLocked, Where, IputPoints
  <1>5. \A i \in Inums : i # th[p].ip /\ i # th[p].dp => ent'[i] = ent[i]
    BY <1>1 DEF create_new
  <1>6. \A i \in Inums, n \in Names : lock[i] \in Procs \ {p} => ent'[i][n] \in {ent[i][n], None}
    BY <1>3, <1>4, <1>5, Constants
  <1> QED
    BY <1>2, <1>6, EmptyStep

LEMMA DirlinkEmpty ==
  ASSUME NEW p \in Procs, RefInv, EmptyInv, dirlink(p)
  PROVE  EmptyInv'
  <1>1. /\ th \in [Procs -> Threads] /\ th[p] \in Threads /\ ent \in [Inums -> [Elems -> Pointers]]
    BY ThreadAt DEF RefInv, TypeInv
  <1>2. OthersStay(p) /\ ~Unlinked(p)'
    BY <1>1 DEF dirlink, Iput, OthersStay, Unlinked, Where, IputPoints, Threads
  <1>3. lock[th[p].dp] = Nobody /\ \A i \in Inums : i # th[p].dp => ent'[i] = ent[i]
    BY <1>1 DEF dirlink, Links, Locks
  <1>4. \A i \in Inums, n \in Names : lock[i] \in Procs \ {p} => ent'[i][n] \in {ent[i][n], None}
    BY <1>3, Constants
  <1> QED
    BY <1>2, <1>4, EmptyStep

LEMMA UnlinkIpEmpty ==
  ASSUME NEW p \in Procs, RefInv, NlinkInv, EmptyInv, unlink_ip(p)
  PROVE  EmptyInv'
  <1> DEFINE t == th[p]
  <1>1. /\ th \in [Procs -> Threads] /\ t \in Threads /\ ThreadOk(p) /\ ent \in [Inums -> [Elems -> Pointers]]
        /\ TreeInv /\ CallOk(p)
    BY ThreadAt DEF RefInv, TypeInv, NlinkInv, CallInv
  <1>2. /\ t.pc = "unlink_ip" /\ t.ip \in Inums /\ t.dp \in Inums
        /\ lock[t.ip] = Nobody /\ (IsDir(t.ip) => isdirempty(t.ip))
    BY <1>1, ThreadAt DEF unlink_ip, At, Locks, ThreadOk, Where, IputPoints, DpUsed, IpUsed, RefInv
  <1>3. OthersStay(p) /\ th'[p].ip = t.ip
    BY <1>1 DEF unlink_ip, Iput, OthersStay, Threads
  <1>4. \A i \in Inums, n \in Names : ent'[i][n] \in {ent[i][n], None}
    BY <1>1, <1>2 DEF unlink_ip, Elems, CallOk
  <1>5. isdirempty(t.ip)
    <2>1. CASE IsDir(t.ip)
      BY <1>2, <2>1
    <2>2. CASE ~IsDir(t.ip)
      <3>1. dinode[t.ip].type # "dir"
        BY <1>2, <2>2, OwnPublic, PublicContent DEF IsDir, PublicOrNone
      <3> QED
        BY <1>1, <1>2, <3>1 DEF TreeInv, NoEntries, isdirempty, Elems
    <2> QED
      BY <2>1, <2>2
  <1>6. isdirempty(th[p].ip)'
    BY <1>2, <1>3, <1>4, <1>5 DEF isdirempty
  <1> QED
    BY <1>3, <1>4, <1>6, EmptyStep

LEMMA NextEmpty == ASSUME RefInv, NlinkInv, EmptyInv, [Next]_vars PROVE EmptyInv'
  <1>1. CASE UNCHANGED vars
    BY <1>1 DEF vars, EmptyInv, Unlinked, Where, isdirempty
  <1>2. CASE Next
    <2>1. PICK p \in Procs :
            \/ \E c \in Calls[p] : syscall(p, c)
            \/ sys_close(p)
            \/ iput(p) \/ iput_last(p) \/ itrunc(p) \/ invalidate(p)
            \/ namex_next(p) \/ namex_fails(p) \/ namex_parent(p) \/ namex_end(p)
            \/ sys_open(p) \/ open_fails(p)
            \/ create_exists(p) \/ (\E i \in Inums : ialloc(p, i)) \/ ialloc_panic(p)
            \/ create_new(p) \/ created(p)
            \/ unlink_fails(p) \/ unlink_dp(p) \/ unlink_ip(p) \/ unlink_nlink(p) \/ unlink_notempty(p)
            \/ bad(p)
            \/ link_dir(p) \/ link_nlink(p) \/ dirlink(p) \/ dirlink_fails(p) \/ link_end(p) \/ undo(p)
            \/ sys_chdir(p) \/ chdir_end(p) \/ panic(p)
      BY <1>2 DEF Next
    <2>2. CASE panic(p)
      BY <2>2 DEF panic, vars, EmptyInv, Unlinked, Where, isdirempty
    <2>3. ASSUME NEW i \in Inums, ialloc(p, i) PROVE EmptyInv'
      BY <2>3, IallocEmpty
    <2>4. CASE itrunc(p) \/ create_new(p) \/ dirlink(p) \/ unlink_ip(p)
      BY <2>4, ItruncEmpty, CreateNewEmpty, DirlinkEmpty, UnlinkIpEmpty
    <2> QED
      BY <2>1, <2>2, <2>3, <2>4, MostStayEmpty
  <1> QED
    BY <1>1, <1>2

LEMMA Counted == ASSUME RefInv, NlinkInv, EmptyInv PROVE NlinkAccounted
  <1>1. ASSUME NEW i \in Inums, valid[i], lock[i] = Nobody PROVE inode[i] = dinode[i]
    <2>1. ASSUME NEW p \in Procs, th[p].pc = "invalidate", th[p].putting = i PROVE FALSE
      <3>1. lock[i] = p
        BY <2>1, HeldLocks DEF RefInv, LocksHeld
      <3> QED
        BY <1>1, <3>1, Constants
    <2> QED
      BY <1>1, <2>1 DEF NlinkInv, CacheInv, Invalidating
  <1> QED
    BY <1>1 DEF NlinkInv, LinkInv, EmptyInv, NlinkAccounted

LEMMA Typed == ASSUME RefInv, NlinkInv PROVE TypeOK
  <1>1. ASSUME NEW r \in Records, r.nlink >= 0 PROVE r \in Inodes
    BY <1>1 DEF Records, Inodes
  <1>2. \A i \in Inums : dinode[i] \in Records /\ inode[i] \in Records /\ dinode[i].nlink >= 0 /\ inode[i].nlink >= 0
    BY DiskNlink DEF RefInv, TypeInv, NlinkInv, LinkInv
  <1>3. \A i \in Inums : dinode[i] \in Inodes /\ inode[i] \in Inodes
    BY <1>1, <1>2
  <1>4. dinode \in [Inums -> Inodes] /\ inode \in [Inums -> Inodes]
    BY <1>3 DEF RefInv, TypeInv
  <1> QED
    BY <1>4 DEF RefInv, TypeInv, TypeOK

LEMMA Unpanicked == ASSUME RefInv, NlinkInv PROVE NoPanic
  <1> SUFFICES ASSUME NEW p \in Procs
               PROVE  /\ Locking(p) # None => ~NoType(Locking(p))
                      /\ th[p].pc = "unlink_ip" => Content(th[p].ip).nlink >= 1
    BY DEF NoPanic
  <1> DEFINE t == th[p]
  <1>1. TypeInv /\ ThreadInv /\ CallOk(p)
    BY DEF RefInv, NlinkInv, CallInv
  <1>2. ASSUME Locking(p) # None PROVE Alive(Locking(p))
    <2>1. CASE t.pc \in {"namei", "nameiparent"}
      <3>1. Locking(p) = t.np
        BY <1>2, <2>1 DEF Locking
      <3> QED
        BY <1>1, <1>2, <3>1, ThreadAt, OwnPublic DEF PublicOrNone, Public
    <2>2. CASE t.pc = "parent"
      <3>1. Locking(p) = t.dp
        BY <2>2 DEF Locking
      <3> QED
        BY <1>1, <1>2, <3>1, ThreadAt, OwnPublic DEF PublicOrNone, Public
    <2>3. CASE t.pc \in {"inode", "existing", "unlink_ip", "undo"}
      <3>1. Locking(p) = t.ip /\ t.pc # "create_new"
        BY <2>3 DEF Locking
      <3> QED
        BY <1>1, <1>2, <3>1, ThreadAt, OwnPublic DEF PublicOrNone, Public
    <2>4. CASE t.pc = "create_new"
      <3>1. Locking(p) = t.ip
        BY <2>4 DEF Locking
      <3>2. dinode[t.ip].type = Type(t)
        <4>1. NewOk(p)
          BY <2>4 DEF NlinkInv, NewInv
        <4> HIDE DEF t
        <4>2. dinode[th[p].ip].type = Type(th[p])
          BY <4>1 DEF NewOk
        <4> QED
          BY <4>2 DEF t
      <3>3. Type(t) # "free"
        BY <1>1, <2>4, ThreadAt DEF ThreadOk, Where, IputPoints, OpsAt, Type, Creating, Devices
      <3> QED
        BY <3>1, <3>2, <3>3 DEF Alive
    <2> QED
      BY <1>2, <2>1, <2>2, <2>3, <2>4 DEF Locking
  <1>3. ASSUME t.pc = "unlink_ip" PROVE Content(t.ip).nlink >= 1
    <2>1. t.ip \in Inums /\ t.dp \in Inums
      BY <1>1, <1>3, ThreadAt DEF ThreadOk, Where, IputPoints, IpUsed, DpUsed
    <2>2. PICK i \in Inums : i = t.ip
      BY <2>1
    <2>3. <<t.dp, Name(p)>> \in Entries(i)
      BY <1>1, <1>3, <2>1, <2>2 DEF CallOk, Entries
    <2>4. IsFiniteSet(Entries(i)) /\ Cardinality(Entries(i)) \in Nat /\ Cardinality(Entries(i)) # 0
      BY <2>3, EntriesFinite, FS_EmptySet
    <2>5. Pending(i) \in Nat /\ dropped[i] \in Nat
      BY <1>1, PendingSet DEF TypeInv
    <2>6. dinode[i].nlink = Cardinality(Entries(i)) + Pending(i) + dropped[i]
      BY DEF NlinkInv, LinkInv
    <2>7. dinode[i].nlink >= 1
      BY <2>4, <2>5, <2>6
    <2>8. Content(i) = dinode[i]
      BY <1>3, <2>2, OwnPublic, PublicContent DEF PublicOrNone
    <2> QED
      BY <2>2, <2>7, <2>8
  <1> QED
    BY <1>2, <1>3 DEF NoType, Alive

(* The link counts, the copies of the inodes in memory, and the tree.      *)
THEOREM LinkCounts == Spec /\ []DotDotNamed => [](RefInv /\ NlinkInv)
  <1>1. Init => RefInv /\ NlinkInv
    BY InitRef, InitNlink
  <1>2. RefInv /\ NlinkInv /\ DotDotNamed /\ [Next]_vars => (RefInv /\ NlinkInv)'
    BY NextRef, NextNlink
  <1> QED
    BY <1>1, <1>2, PTL DEF Spec

(* What unlink() takes out of a directory is empty until it is counted.    *)
LEMMA EmptyKept == Spec /\ []DotDotNamed => []EmptyInv
  <1>1. Init => EmptyInv
    BY DEF Init, EmptyInv, Unlinked, Where, IputPoints, Idle
  <1>2. RefInv /\ NlinkInv /\ EmptyInv /\ [Next]_vars => EmptyInv'
    BY NextEmpty
  <1> QED
    BY <1>1, <1>2, LinkCounts, PTL DEF Spec

(* "nlink" is the number of names, except within link() and unlink() and   *)
(* for names given in a directory after its removal; none vanishes with a  *)
(* directory that had it when it was removed; and a copy in memory that    *)
(* nobody has locked is the inode on the disk.                             *)
THEOREM LinksAccounted == Spec /\ []DotDotNamed => []NlinkAccounted
  <1>1. RefInv /\ NlinkInv /\ EmptyInv => NlinkAccounted
    BY Counted
  <1> QED
    BY <1>1, LinkCounts, EmptyKept, PTL

(* No panic("ilock: no type") and no panic("unlink: nlink < 1").           *)
THEOREM Panics == Spec /\ []DotDotNamed => []NoPanic
  <1>1. RefInv /\ NlinkInv => NoPanic
    BY Unpanicked
  <1> QED
    BY <1>1, LinkCounts, PTL

(* In particular nlink, a short in the code, never drops below 0.          *)
THEOREM Types == Spec /\ []DotDotNamed => []TypeOK
  <1>1. RefInv /\ NlinkInv => TypeOK
    BY Typed
  <1> QED
    BY <1>1, LinkCounts, PTL
-----------------------------------------------------------------------------
(* Without ".." in a path the condition DotDotNamed holds: what a process  *)
(* still has to look up is the end of a path of its call.                  *)
NoDotDot(elems) == \A k \in 1 .. Len(elems) : elems[k] # ".."
NoDotDotInCalls == \A p \in Procs : \A c \in Calls[p] : NoDotDot(c.path.elems) /\ NoDotDot(c.new.elems)

PathOk(p) ==
    /\ NoDotDot(th[p].rest) /\ NoDotDot(th[p].new.elems)
    /\ Where(p) = "parent" => th[p].rest # <<>>
PathInv == \A p \in Procs : PathOk(p)

SamePath(p) ==
    /\ th'[p].rest = th[p].rest /\ th'[p].new = th[p].new
    /\ Where(p)' = "parent" => Where(p) = "parent"

LEMMA PathStep ==
  ASSUME NEW p \in Procs, PathInv, OthersStay(p), PathOk(p)'
  PROVE  PathInv'
  <1> SUFFICES ASSUME NEW q \in Procs PROVE PathOk(q)'
    BY DEF PathInv
  <1>1. CASE q # p
    BY <1>1 DEF PathInv, PathOk, OthersStay, Where
  <1> QED
    BY <1>1

LEMMA IdlePath == ASSUME NEW p \in Procs, th'[p] = Idle PROVE PathOk(p)'
  BY DEF PathOk, Idle, NoPath, NoDotDot, Where, IputPoints

LEMMA KeptPath == ASSUME NEW p \in Procs, PathInv, SamePath(p) PROVE PathOk(p)'
  BY DEF PathInv, PathOk, SamePath

LEMMA MostPaths ==
  ASSUME NEW p \in Procs, TypeInv, ThreadInv, PathInv,
         \/ sys_close(p) \/ iput(p) \/ iput_last(p) \/ itrunc(p) \/ invalidate(p) \/ namex_fails(p)
         \/ namex_end(p) \/ sys_open(p) \/ open_fails(p) \/ create_exists(p) \/ (\E i \in Inums : ialloc(p, i)) \/ ialloc_panic(p)
         \/ create_new(p) \/ created(p) \/ unlink_fails(p) \/ unlink_dp(p) \/ unlink_ip(p) \/ unlink_nlink(p)
         \/ unlink_notempty(p) \/ bad(p) \/ link_dir(p) \/ dirlink(p) \/ dirlink_fails(p) \/ link_end(p)
         \/ undo(p) \/ sys_chdir(p) \/ chdir_end(p)
  PROVE  PathInv'
  <1> DEFINE t == th[p]
  <1>1. th \in [Procs -> Threads] /\ t \in Threads
    BY ThreadAt
  <1> SUFFICES OthersStay(p) /\ (SamePath(p) \/ th'[p] = Idle)
    BY PathStep, KeptPath, IdlePath
  <1>3. ASSUME sys_close(p) PROVE OthersStay(p) /\ (SamePath(p) \/ th'[p] = Idle)
    BY <1>1, <1>3 DEF sys_close, At, Iput, OthersStay, SamePath, Where, IputPoints, Threads
  <1>4. ASSUME iput(p) PROVE OthersStay(p) /\ (SamePath(p) \/ th'[p] = Idle)
    BY <1>1, <1>4 DEF iput, At, Iput, After, OthersStay, SamePath, Where, IputPoints, Threads
  <1>5. ASSUME iput_last(p) PROVE OthersStay(p) /\ (SamePath(p) \/ th'[p] = Idle)
    BY <1>1, <1>5 DEF iput_last, At, Iput, OthersStay, SamePath, Where, IputPoints, Threads
  <1>6. ASSUME itrunc(p) PROVE OthersStay(p) /\ (SamePath(p) \/ th'[p] = Idle)
    BY <1>1, <1>6 DEF itrunc, At, Iput, OthersStay, SamePath, Where, IputPoints, Threads
  <1>7. ASSUME invalidate(p) PROVE OthersStay(p) /\ (SamePath(p) \/ th'[p] = Idle)
    BY <1>1, <1>7 DEF invalidate, At, Iput, OthersStay, SamePath, Where, IputPoints, Threads
  <1>8. ASSUME namex_fails(p) PROVE OthersStay(p) /\ (SamePath(p) \/ th'[p] = Idle)
    BY <1>1, <1>8 DEF namex_fails, At, Iput, Failed, OthersStay, SamePath, Where, IputPoints, Threads
  <1>9. ASSUME namex_end(p) PROVE OthersStay(p) /\ (SamePath(p) \/ th'[p] = Idle)
    BY <1>1, <1>9 DEF namex_end, At, Iput, Failed, OthersStay, SamePath, Where, IputPoints, Threads
  <1>10. ASSUME sys_open(p) PROVE OthersStay(p) /\ (SamePath(p) \/ th'[p] = Idle)
    BY <1>1, <1>10 DEF sys_open, At, Iput, OthersStay, SamePath, Where, IputPoints, Threads
  <1>11. ASSUME open_fails(p) PROVE OthersStay(p) /\ (SamePath(p) \/ th'[p] = Idle)
    BY <1>1, <1>11 DEF open_fails, At, Iput, OthersStay, SamePath, Where, IputPoints, Threads
  <1>12. ASSUME create_exists(p) PROVE OthersStay(p) /\ (SamePath(p) \/ th'[p] = Idle)
    BY <1>1, <1>12 DEF create_exists, At, Iput, OthersStay, SamePath, Where, IputPoints, Threads
  <1>13. ASSUME NEW i \in Inums, ialloc(p, i) PROVE OthersStay(p) /\ SamePath(p)
    BY <1>1, <1>13 DEF ialloc, At, Creates, OthersStay, SamePath, Where, IputPoints, Threads
  <1>14. ASSUME ialloc_panic(p) PROVE OthersStay(p) /\ (SamePath(p) \/ th'[p] = Idle)
    BY <1>1, <1>14 DEF ialloc_panic, At, Iput, OthersStay, SamePath, Where, IputPoints, Threads
  <1>15. ASSUME create_new(p) PROVE OthersStay(p) /\ (SamePath(p) \/ th'[p] = Idle)
    BY <1>1, <1>15 DEF create_new, At, Iput, OthersStay, SamePath, Where, IputPoints, Threads
  <1>16. ASSUME created(p) PROVE OthersStay(p) /\ (SamePath(p) \/ th'[p] = Idle)
    BY <1>1, <1>16 DEF created, At, Iput, OthersStay, SamePath, Where, IputPoints, Threads
  <1>17. ASSUME unlink_fails(p) PROVE OthersStay(p) /\ (SamePath(p) \/ th'[p] = Idle)
    BY <1>1, <1>17 DEF unlink_fails, At, Iput, OthersStay, SamePath, Where, IputPoints, Threads
  <1>18. ASSUME unlink_dp(p) PROVE OthersStay(p) /\ (SamePath(p) \/ th'[p] = Idle)
    BY <1>1, <1>18 DEF unlink_dp, At, Iput, OthersStay, SamePath, Where, IputPoints, Threads
  <1>19. ASSUME unlink_ip(p) PROVE OthersStay(p) /\ (SamePath(p) \/ th'[p] = Idle)
    BY <1>1, <1>19 DEF unlink_ip, At, Iput, OthersStay, SamePath, Where, IputPoints, Threads
  <1>20. ASSUME unlink_nlink(p) PROVE OthersStay(p) /\ (SamePath(p) \/ th'[p] = Idle)
    BY <1>1, <1>20 DEF unlink_nlink, At, Iput, OthersStay, SamePath, Where, IputPoints, Threads
  <1>21. ASSUME unlink_notempty(p) PROVE OthersStay(p) /\ (SamePath(p) \/ th'[p] = Idle)
    BY <1>1, <1>21 DEF unlink_notempty, At, Iput, OthersStay, SamePath, Where, IputPoints, Threads
  <1>22. ASSUME bad(p) PROVE OthersStay(p) /\ (SamePath(p) \/ th'[p] = Idle)
    BY <1>1, <1>22 DEF bad, At, Iput, Failed, OthersStay, SamePath, Where, IputPoints, Threads
  <1>23. ASSUME link_dir(p) PROVE OthersStay(p) /\ (SamePath(p) \/ th'[p] = Idle)
    BY <1>1, <1>23 DEF link_dir, At, Iput, OthersStay, SamePath, Where, IputPoints, Threads
  <1>24. ASSUME dirlink(p) PROVE OthersStay(p) /\ (SamePath(p) \/ th'[p] = Idle)
    BY <1>1, <1>24 DEF dirlink, At, Iput, OthersStay, SamePath, Where, IputPoints, Threads
  <1>25. ASSUME dirlink_fails(p) PROVE OthersStay(p) /\ (SamePath(p) \/ th'[p] = Idle)
    BY <1>1, <1>25 DEF dirlink_fails, At, Iput, OthersStay, SamePath, Where, IputPoints, Threads
  <1>26. ASSUME link_end(p) PROVE OthersStay(p) /\ (SamePath(p) \/ th'[p] = Idle)
    BY <1>1, <1>26 DEF link_end, At, Iput, OthersStay, SamePath, Where, IputPoints, Threads
  <1>27. ASSUME undo(p) PROVE OthersStay(p) /\ (SamePath(p) \/ th'[p] = Idle)
    BY <1>1, <1>27 DEF undo, At, Iput, OthersStay, SamePath, Where, IputPoints, Threads
  <1>28. ASSUME sys_chdir(p) PROVE OthersStay(p) /\ (SamePath(p) \/ th'[p] = Idle)
    BY <1>1, <1>28 DEF sys_chdir, At, Iput, OthersStay, SamePath, Where, IputPoints, Threads
  <1>29. ASSUME chdir_end(p) PROVE OthersStay(p) /\ (SamePath(p) \/ th'[p] = Idle)
    BY <1>1, <1>29 DEF chdir_end, At, Iput, OthersStay, SamePath, Where, IputPoints, Threads
  <1> QED
    BY <1>3, <1>4, <1>5, <1>6, <1>7, <1>8, <1>9, <1>10, <1>11, <1>12, <1>13, <1>14, <1>15, <1>16, <1>17, <1>18, <1>19, <1>20, <1>21, <1>22, <1>23, <1>24, <1>25, <1>26, <1>27, <1>28, <1>29

LEMMA SysCallPaths ==
  ASSUME NEW p \in Procs, NEW c \in Calls[p], TypeInv, ThreadInv, PathInv, NoDotDotInCalls, syscall(p, c)
  PROVE  PathInv'
  <1>1. th \in [Procs -> Threads] /\ th[p] \in Threads
    BY ThreadAt
  <1>2. /\ OthersStay(p)
        /\ th'[p].rest = c.path.elems /\ th'[p].new = c.new /\ th'[p].pc \in {"namei", "nameiparent"}
    BY <1>1 DEF syscall, Walking, OthersStay, Threads
  <1>3. Where(p)' \in {"namei", "nameiparent"}
    BY <1>2 DEF Where, IputPoints
  <1>4. PathOk(p)'
    BY <1>2, <1>3 DEF NoDotDotInCalls, PathOk
  <1> QED
    BY <1>2, <1>4, PathStep

LEMMA LinkNlinkPaths ==
  ASSUME NEW p \in Procs, TypeInv, ThreadInv, PathInv, link_nlink(p)
  PROVE  PathInv'
  <1>1. th \in [Procs -> Threads] /\ th[p] \in Threads
    BY ThreadAt
  <1>2. /\ OthersStay(p)
        /\ th'[p].rest = th[p].new.elems /\ th'[p].new = th[p].new /\ th'[p].pc = "nameiparent"
    BY <1>1 DEF link_nlink, Walking, OthersStay, Threads
  <1>3. Where(p)' = "nameiparent"
    BY <1>2 DEF Where, IputPoints
  <1>4. PathOk(p)'
    BY <1>2, <1>3 DEF PathInv, PathOk
  <1> QED
    BY <1>2, <1>4, PathStep

LEMMA NamexParentPaths ==
  ASSUME NEW p \in Procs, TypeInv, ThreadInv, PathInv, namex_parent(p)
  PROVE  PathInv'
  <1>1. th \in [Procs -> Threads] /\ th[p] \in Threads
    BY ThreadAt
  <1>2. OthersStay(p) /\ th'[p].rest = th[p].rest /\ th'[p].new = th[p].new
    BY <1>1 DEF namex_parent, OthersStay, Threads
  <1>3. th[p].rest # <<>>
    BY DEF namex_parent, Walks
  <1>4. PathOk(p)'
    BY <1>2, <1>3 DEF PathInv, PathOk
  <1> QED
    BY <1>2, <1>4, PathStep

LEMMA NamexNextPaths ==
  ASSUME NEW p \in Procs, TypeInv, ThreadInv, PathInv, namex_next(p)
  PROVE  PathInv'
  <1>1. th \in [Procs -> Threads] /\ th[p] \in Threads /\ th[p].rest \in Seq(Elems)
    BY ThreadAt
  <1>2. /\ OthersStay(p)
        /\ th'[p].rest = Tail(th[p].rest) /\ th'[p].new = th[p].new
        /\ th'[p].pc = "iput" /\ th'[p].cont = th[p].pc
    BY <1>1 DEF namex_next, Iput, OthersStay, Threads
  <1>3. th[p].pc \in {"namei", "nameiparent"} /\ th[p].rest # <<>>
    BY DEF namex_next, Walks, At
  <1>4. NoDotDot(Tail(th[p].rest))
    <2> DEFINE s == th[p].rest
    <2>1. s \in Seq(Elems) /\ s # <<>> /\ NoDotDot(s)
      BY <1>1, <1>3 DEF PathInv, PathOk
    <2> HIDE DEF s
    <2>2. Len(Tail(s)) = Len(s) - 1 /\ Len(s) \in Nat /\ \A k \in 1 .. Len(Tail(s)) : Tail(s)[k] = s[k + 1]
      BY <2>1
    <2>3. NoDotDot(Tail(s))
      <3> SUFFICES ASSUME NEW k \in 1 .. Len(Tail(s)) PROVE Tail(s)[k] # ".."
        BY DEF NoDotDot
      <3>1. k + 1 \in 1 .. Len(s)
        BY <2>2
      <3> QED
        BY <2>1, <2>2, <3>1 DEF NoDotDot
    <2> QED
      BY <2>3 DEF s
  <1>5. Where(p)' # "parent"
    BY <1>2, <1>3 DEF Where, IputPoints
  <1>6. PathOk(p)'
    BY <1>2, <1>4, <1>5 DEF PathInv, PathOk
  <1> QED
    BY <1>2, <1>6, PathStep

LEMMA NextPaths ==
  ASSUME RefInv, PathInv, NoDotDotInCalls, [Next]_vars
  PROVE  PathInv'
  <1>1. TypeInv /\ ThreadInv
    BY DEF RefInv
  <1>2. CASE UNCHANGED vars
    BY <1>2 DEF vars, PathInv, PathOk, Where
  <1>3. CASE Next
    <2>1. PICK p \in Procs :
            \/ \E c \in Calls[p] : syscall(p, c)
            \/ sys_close(p)
            \/ iput(p) \/ iput_last(p) \/ itrunc(p) \/ invalidate(p)
            \/ namex_next(p) \/ namex_fails(p) \/ namex_parent(p) \/ namex_end(p)
            \/ sys_open(p) \/ open_fails(p)
            \/ create_exists(p) \/ (\E i \in Inums : ialloc(p, i)) \/ ialloc_panic(p)
            \/ create_new(p) \/ created(p)
            \/ unlink_fails(p) \/ unlink_dp(p) \/ unlink_ip(p) \/ unlink_nlink(p) \/ unlink_notempty(p)
            \/ bad(p)
            \/ link_dir(p) \/ link_nlink(p) \/ dirlink(p) \/ dirlink_fails(p) \/ link_end(p) \/ undo(p)
            \/ sys_chdir(p) \/ chdir_end(p) \/ panic(p)
      BY <1>3 DEF Next
    <2>2. CASE panic(p)
      BY <2>2 DEF panic, vars, PathInv, PathOk, Where
    <2>3. CASE \E c \in Calls[p] : syscall(p, c)
      BY <1>1, <2>3, SysCallPaths
    <2>4. CASE namex_next(p) \/ namex_parent(p) \/ link_nlink(p)
      BY <1>1, <2>4, NamexNextPaths, NamexParentPaths, LinkNlinkPaths
    <2> QED
      BY <1>1, <2>1, <2>2, <2>3, <2>4, MostPaths
  <1> QED
    BY <1>2, <1>3

LEMMA PathsNamed == ASSUME TypeInv, PathInv PROVE DotDotNamed
  <1> SUFFICES ASSUME NEW p \in Procs PROVE ~Looks(p)
    BY DEF DotDotNamed
  <1>1. SUFFICES ASSUME Looks(p) PROVE FALSE
    OBVIOUS
  <1>2. PathOk(p) /\ th[p].rest \in Seq(Elems)
    BY DEF PathInv, TypeInv, Threads
  <1>3. th[p].rest # <<>>
    BY <1>1, <1>2 DEF Looks, Searching, At, PathOk, Where, IputPoints
  <1>4. 1 \in 1 .. Len(th[p].rest) /\ Head(th[p].rest) = th[p].rest[1]
    BY <1>2, <1>3
  <1> QED
    BY <1>1, <1>2, <1>4 DEF Looks, PathOk, NoDotDot

(* Where no call has a path with a ".." element no lookup follows the ".." *)
(* of a removed directory.                                                 *)
THEOREM NoDotDotLookups == ASSUME NoDotDotInCalls PROVE Spec => []DotDotNamed
  <1>1. Init => PathInv
    BY DEF Init, PathInv, PathOk, Idle, NoPath, NoDotDot, Where, IputPoints
  <1>2. RefInv /\ PathInv /\ [Next]_vars => PathInv'
    BY NextPaths
  <1>3. RefInv /\ PathInv => DotDotNamed
    BY PathsNamed DEF RefInv
  <1> QED
    BY <1>1, <1>2, <1>3, References, PTL DEF Spec

(* Then links are accounted for and nothing panics, whatever is removed    *)
(* while another process is in it: no condition on the behaviour is left.  *)
THEOREM PlainLinkCounts == ASSUME NoDotDotInCalls PROVE Spec => [](NlinkAccounted /\ NoPanic /\ TypeOK)
  BY NoDotDotLookups, LinksAccounted, Panics, Types, PTL
=============================================================================
