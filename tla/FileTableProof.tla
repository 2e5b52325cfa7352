--------------------------- MODULE FileTableProof ---------------------------
(***************************************************************************)
(* Proofs about the file table, for any number of processes, files,        *)
(* descriptors, inodes and pages.                                          *)
(***************************************************************************)
EXTENDS FileTable, FiniteSetTheorems, WellFoundedInduction, TLAPS

-----------------------------------------------------------------------------
(* Least elements of sets of numbers.                                      *)

(* The order of the numbers.                                               *)
Less == {ss \in Nat \X Nat : ss[1] < ss[2]}

LEMMA LeastElement ==
    ASSUME NEW S \in SUBSET Nat, S # {}
    PROVE  \E m \in S : \A k \in S : m <= k
  <1>1. IsWellFoundedOn(Less, Nat)
    BY NatLessThanWellFounded DEF OpToRel, Less
  <1>2. PICK x \in S : \A y \in S : ~(<<y, x>> \in Less)
    BY <1>1, WFMin
  <1>3. ASSUME NEW k \in S PROVE x <= k
    <2>1. k \in Nat /\ x \in Nat
      OBVIOUS
    <2>2. k < x => <<k, x>> \in Less
      BY <2>1 DEF Less
    <2> QED
      BY <1>2, <2>1, <2>2
  <1> QED
    BY <1>3

-----------------------------------------------------------------------------
USE DEF vars, tableVars, procVars, objVars

-----------------------------------------------------------------------------
(* How often a function takes a value, and how one assignment changes that *)

Count(S, h, v) == Cardinality({y \in S : h[y] = v})
One(a, v) == IF a = v THEN 1 ELSE 0

LEMMA CountType ==
    ASSUME NEW S, IsFiniteSet(S), NEW h, NEW v
    PROVE  IsFiniteSet({y \in S : h[y] = v}) /\ Count(S, h, v) \in Nat
  BY FS_Subset, FS_CardinalityType DEF Count

LEMMA CountSame ==
    ASSUME NEW S, NEW h, NEW k, \A y \in S : k[y] = h[y], NEW v
    PROVE  Count(S, k, v) = Count(S, h, v)
  <1>1. {y \in S : k[y] = v} = {y \in S : h[y] = v}
    OBVIOUS
  <1> QED
    BY <1>1 DEF Count

LEMMA CountStep ==
    ASSUME NEW S, IsFiniteSet(S), NEW h, NEW k, NEW x \in S, \A y \in S \ {x} : k[y] = h[y], NEW v
    PROVE  Count(S, k, v) = Count(S, h, v) + One(k[x], v) - One(h[x], v)
  <1> DEFINE H == {y \in S : h[y] = v}
             K == {y \in S : k[y] = v}
             R == H \ {x}
  <1>0. IsFiniteSet(H) /\ (x \in H <=> h[x] = v)
    <2>1. H \in SUBSET S /\ (x \in H <=> h[x] = v)
      OBVIOUS
    <2> HIDE DEF H
    <2> QED
      BY <2>1, FS_Subset
  <1>1. IsFiniteSet(R) /\ Cardinality(R) \in Nat /\ Cardinality(H) \in Nat
    <2> HIDE DEF H
    <2> QED
      BY <1>0, FS_RemoveElement, FS_CardinalityType
  <1>2. Cardinality(H) = Cardinality(R) + One(h[x], v)
    <2> HIDE DEF H
    <2>1. Cardinality(R) = IF x \in H THEN Cardinality(H) - 1 ELSE Cardinality(H)
      BY <1>0, FS_RemoveElement
    <2> QED
      BY <1>0, <1>1, <2>1 DEF One
  <1>3. CASE k[x] = v
    <2>1. K = R \cup {x} /\ x \notin R
      BY <1>3
    <2>2. Cardinality(K) = Cardinality(R) + 1
      BY <1>1, <2>1, FS_AddElement
    <2> QED
      BY <1>1, <1>2, <1>3, <2>2 DEF Count, One
  <1>4. CASE k[x] # v
    <2>1. K = R
      BY <1>4
    <2>2. One(k[x], v) = 0 /\ One(h[x], v) \in Nat
      BY <1>4 DEF One
    <2>3. Count(S, k, v) = Cardinality(R) /\ Count(S, h, v) = Cardinality(H)
      BY <2>1 DEF Count
    <2> HIDE DEF H, R
    <2> QED
      BY <1>1, <1>2, <2>2, <2>3
  <1> QED
    BY <1>3, <1>4

LEMMA CountOne ==
    ASSUME NEW S, IsFiniteSet(S), NEW h, NEW x \in S, NEW v, h[x] = v
    PROVE  Count(S, h, v) >= 1
  <1> DEFINE H == {y \in S : h[y] = v}
  <1>1. IsFiniteSet(H) /\ x \in H
    BY CountType
  <1> HIDE DEF H
  <1>2. Cardinality(H) \in Nat /\ Cardinality(H) # 0
    BY <1>1, FS_EmptySet, FS_CardinalityType
  <1> QED
    BY <1>2 DEF Count, H

LEMMA CountTwo ==
    ASSUME NEW S, IsFiniteSet(S), NEW h, NEW x \in S, NEW z \in S, x # z, NEW v, h[x] = v, h[z] = v
    PROVE  Count(S, h, v) >= 2
  <1> DEFINE H == {y \in S : h[y] = v}
             R == H \ {x}
  <1>1. IsFiniteSet(H) /\ x \in H /\ z \in R
    BY CountType
  <1> HIDE DEF H
  <1>2. IsFiniteSet(R) /\ Cardinality(R) = Cardinality(H) - 1 /\ Cardinality(H) \in Nat
    BY <1>1, FS_RemoveElement, FS_CardinalityType
  <1> HIDE DEF R
  <1>3. Cardinality(R) \in Nat /\ Cardinality(R) # 0
    BY <1>1, <1>2, FS_EmptySet, FS_CardinalityType
  <1> QED
    BY <1>2, <1>3 DEF Count, H

-----------------------------------------------------------------------------
(* What is counted, as functions                                           *)

Cells == Procs \X FDs
Locs == Procs \X (1..2)

(* The file that a descriptor counts for, and the one a local variable     *)
(* does; 0 if none.                                                        *)
Held == [x \in Cells |-> IF Uncounted(x[1], x[2]) THEN 0 ELSE ofile[x[1]][x[2]]]
Kept == [x \in Locs |-> IF x[2] <= Len(local[x[1]]) THEN local[x[1]][x[2]] ELSE 0]

(* The inode, or the end of a pipe, that a struct file counts for.         *)
InoOf(x) == IF x.type \in {"FD_INODE", "FD_DEVICE"} THEN x.obj ELSE None
PipeOf(x) == IF x.type = "FD_PIPE" THEN <<x.obj, x.end>> ELSE <<None, "r">>
FileIno == [f \in Files |-> InoOf(file[f])]
FilePipe == [f \in Files |-> PipeOf(file[f])]
CloseIno == [p \in Procs |-> IF ff[p] = None THEN None ELSE InoOf(ff[p])]
ClosePipe == [p \in Procs |-> IF ff[p] = None THEN <<None, "r">> ELSE PipeOf(ff[p])]

LEMMA Consts ==
    /\ NFILE \in Int /\ NOFILE \in Nat /\ Root \in Inodes /\ Devices \subseteq Inodes /\ init \in Procs
    /\ None \notin Procs /\ None \notin Inodes /\ None \notin Pages /\ None \notin File
  BY FileTableAssumption

LEMMA Finite == IsFiniteSet(Procs) /\ IsFiniteSet(Files) /\ IsFiniteSet(Cells) /\ IsFiniteSet(Locs)
  <1>1. IsFiniteSet(Procs)
    BY FileTableAssumption
  <1>2. IsFiniteSet(Files)
    BY Consts, FS_Interval DEF Files
  <1>3. \A a, b \in Int : IsFiniteSet(a..b)
    BY FS_Interval
  <1>4. 0 \in Int /\ 1 \in Int /\ 2 \in Int /\ NOFILE - 1 \in Int
    BY Consts
  <1>5. IsFiniteSet(FDs) /\ IsFiniteSet(1..2)
    BY <1>3, <1>4, Zenon DEF FDs
  <1> QED
    BY <1>1, <1>2, <1>5, FS_Product DEF Cells, Locs

RefCounts == \A f \in Files : ref[f] = Count(Cells, Held, f) + Count(Locs, Kept, f)
InoCounts ==
    \A i \in Inodes : iref[i] = Count(Files, FileIno, i) + Count(Procs, CloseIno, i) + Count(Procs, ip, i) + Count(Procs, cwd, i)
PipeCounts ==
    \A g \in Pages, e \in Ends :
        Count(Files, FilePipe, <<g, e>>) + Count(Procs, ClosePipe, <<g, e>>) = IF e \in pipe[g] THEN 1 ELSE 0

LEMMA RefForm == (FileRefExact <=> RefCounts) /\ (FileRefExact' <=> RefCounts')
  <1>0. \A f \in Files : f # 0
    BY DEF Files
  <1>1. ASSUME NEW f \in Files
        PROVE  Descriptors(f) = {x \in Cells : Held[x] = f} /\ Locals(f) = {x \in Locs : Kept[x] = f}
    BY <1>0 DEF Descriptors, Locals, Cells, Locs, Held, Kept
  <1>2. ASSUME NEW f \in Files
        PROVE  Descriptors(f)' = {x \in Cells : Held'[x] = f} /\ Locals(f)' = {x \in Locs : Kept'[x] = f}
    BY <1>0 DEF Descriptors, Locals, Cells, Locs, Held, Kept
  <1>3. FileRefExact <=> RefCounts
    BY <1>1 DEF FileRefExact, RefCounts, Count
  <1>4. FileRefExact' <=> RefCounts'
    BY <1>2 DEF FileRefExact, RefCounts, Count
  <1> QED
    BY <1>3, <1>4

LEMMA ObjectForm ==
    ASSUME ref \in [Files -> Nat], FileInv
    PROVE  ObjectsExact <=> InoCounts /\ PipeCounts
  <1>1. ASSUME NEW f \in Files PROVE ref[f] > 0 \/ file[f].type = "FD_NONE"
    BY DEF FileInv
  <1>2. ASSUME NEW i \in Inodes
        PROVE  /\ OpenFiles({"FD_INODE", "FD_DEVICE"}, i) = {f \in Files : FileIno[f] = i}
               /\ Closing({"FD_INODE", "FD_DEVICE"}, i) = {p \in Procs : CloseIno[p] = i}
    BY <1>1, Consts DEF OpenFiles, Closing, Refers, FileIno, CloseIno, InoOf
  <1>3. ASSUME NEW g \in Pages, NEW e \in Ends
        PROVE  /\ {f \in OpenFiles({"FD_PIPE"}, g) : file[f].end = e} = {f \in Files : FilePipe[f] = <<g, e>>}
               /\ {p \in Closing({"FD_PIPE"}, g) : ff[p].end = e} = {p \in Procs : ClosePipe[p] = <<g, e>>}
    BY <1>1, Consts DEF OpenFiles, Closing, Refers, FilePipe, ClosePipe, PipeOf
  <1> QED
    BY <1>2, <1>3, ZenonT(60) DEF ObjectsExact, InoCounts, PipeCounts, Count

LEMMA ObjectFormNext ==
    ASSUME ref' \in [Files -> Nat], FileInv'
    PROVE  ObjectsExact' <=> InoCounts' /\ PipeCounts'
  <1>1. ASSUME NEW f \in Files PROVE ref'[f] > 0 \/ file'[f].type = "FD_NONE"
    BY DEF FileInv
  <1>2. ASSUME NEW i \in Inodes
        PROVE  /\ OpenFiles({"FD_INODE", "FD_DEVICE"}, i)' = {f \in Files : FileIno'[f] = i}
               /\ Closing({"FD_INODE", "FD_DEVICE"}, i)' = {p \in Procs : CloseIno'[p] = i}
    BY <1>1, Consts DEF OpenFiles, Closing, Refers, FileIno, CloseIno, InoOf
  <1>3. ASSUME NEW g \in Pages, NEW e \in Ends
        PROVE  /\ {f \in OpenFiles({"FD_PIPE"}, g) : file[f].end = e}' = {f \in Files : FilePipe'[f] = <<g, e>>}
               /\ {p \in Closing({"FD_PIPE"}, g) : ff[p].end = e}' = {p \in Procs : ClosePipe'[p] = <<g, e>>}
    BY <1>1, Consts DEF OpenFiles, Closing, Refers, FilePipe, ClosePipe, PipeOf
  <1> QED
    BY <1>2, <1>3, ZenonT(60) DEF ObjectsExact, InoCounts, PipeCounts, Count

-----------------------------------------------------------------------------
(* The invariant, in the parts the steps below need                        *)

Typed ==
    /\ ref \in [Files -> Nat] /\ file \in [Files -> File]
    /\ ofile \in [Procs -> [FDs -> Files \cup {0}]]
    /\ cwd \in [Procs -> Inodes \cup {None}]
    /\ pipe \in [Pages -> SUBSET Ends] /\ iref \in [Inodes -> Int]
    /\ pc \in [Procs -> Points]
    /\ fd \in [Procs -> 0..NOFILE]
    /\ local \in [Procs -> Seq(Files)]
    /\ ff \in [Procs -> File \cup {None}]
    /\ ip \in [Procs -> Inodes \cup {None}] /\ np \in [Procs -> Procs \cup {None}]

Shape == Typed /\ PointInv /\ ForkInv /\ FileInv /\ FreshInv

LEMMA Split == IInv => Shape /\ RefCounts /\ InoCounts /\ PipeCounts
  BY RefForm, ObjectForm DEF IInv, Shape, TypeOK, Typed

LEMMA Join ==
    ASSUME Shape', RefCounts', InoCounts', PipeCounts'
    PROVE  IInv'
  <1>1. ref' \in [Files -> Nat] /\ FileInv'
    BY DEF Shape, Typed
  <1>2. ASSUME NEW i \in Inodes PROVE iref'[i] \in Nat
    <2>1. /\ Count(Files, FileIno', i) \in Nat /\ Count(Procs, CloseIno', i) \in Nat
          /\ Count(Procs, ip', i) \in Nat /\ Count(Procs, cwd', i) \in Nat
      BY Finite, CountType
    <2> QED
      BY <2>1 DEF InoCounts
  <1>3. TypeOK'
    BY <1>2 DEF Shape, Typed, TypeOK
  <1> QED
    BY <1>1, <1>3, RefForm, ObjectFormNext DEF IInv, Shape

LEMMA HeldAt ==
    ASSUME NEW q \in Procs, NEW d \in FDs
    PROVE  /\ Held[<<q, d>>] = IF Uncounted(q, d) THEN 0 ELSE ofile[q][d]
           /\ Held'[<<q, d>>] = IF Uncounted(q, d)' THEN 0 ELSE ofile'[q][d]
           /\ <<q, d>> \in Cells
  BY DEF Held, Cells, Uncounted

LEMMA KeptAt ==
    ASSUME NEW q \in Procs, NEW k \in 1..2
    PROVE  /\ Kept[<<q, k>>] = IF k <= Len(local[q]) THEN local[q][k] ELSE 0
           /\ Kept'[<<q, k>>] = IF k <= Len(local'[q]) THEN local'[q][k] ELSE 0
           /\ <<q, k>> \in Locs
  BY DEF Kept, Locs

LEMMA Pairs ==
    /\ \A x \in Cells : x = <<x[1], x[2]>> /\ x[1] \in Procs /\ x[2] \in FDs
    /\ \A x \in Locs : x = <<x[1], x[2]>> /\ x[1] \in Procs /\ x[2] \in 1..2
  BY DEF Cells, Locs

(* A step of p leaves the other processes as they are.                     *)
Others(p) ==
    \A q \in Procs \ {p} :
        /\ pc'[q] = pc[q] /\ fd'[q] = fd[q] /\ local'[q] = local[q] /\ ff'[q] = ff[q]
        /\ ip'[q] = ip[q] /\ cwd'[q] = cwd[q] /\ ofile'[q] = ofile[q] /\ np'[q] = np[q]

LEMMA OthersPoint ==
    ASSUME PointInv, NEW p \in Procs, Others(p), Point(p)'
    PROVE  PointInv'
  <1>1. ASSUME NEW q \in Procs \ {p} PROVE Point(q)'
    BY DEF PointInv, Point, Others
  <1> QED
    BY <1>1 DEF PointInv

LEMMA OthersFork ==
    ASSUME Typed, ForkInv, NEW p \in Procs, Others(p), np' = np, pc[p] \notin {"fork", "embryo"}, pc'[p] # "fork"
    PROVE  ForkInv'
  <1>1. \A q \in Procs : np[q] # None => q # p /\ np[q] # p /\ np[q] \in Procs \ {p}
    BY DEF Typed, ForkInv
  <1>2. \A q \in Procs : pc'[q] = "fork" <=> np'[q] # None
    BY <1>1 DEF ForkInv, Others
  <1> QED
    BY <1>1, <1>2 DEF ForkInv, Others

LEMMA OthersHeld ==
    ASSUME NEW p \in Procs, Others(p), NEW x \in Cells, x[1] # p
    PROVE  Held'[x] = Held[x]
  BY Pairs DEF Held, Others, Uncounted

LEMMA OthersKept ==
    ASSUME NEW p \in Procs, Others(p), NEW x \in Locs, x[1] # p
    PROVE  Kept'[x] = Kept[x]
  BY Pairs DEF Kept, Others

LEMMA SameHeld ==
    ASSUME NEW p \in Procs, Others(p), \A d \in FDs : Held'[<<p, d>>] = Held[<<p, d>>]
    PROVE  \A x \in Cells : Held'[x] = Held[x]
  BY OthersHeld, Pairs

LEMMA SameRefs ==
    ASSUME RefCounts, ref' = ref, local' = local, \A x \in Cells : Held'[x] = Held[x]
    PROVE  RefCounts'
  <1>1. \A x \in Locs : Kept'[x] = Kept[x]
    BY DEF Kept
  <1>2. ASSUME NEW f PROVE Count(Cells, Held', f) = Count(Cells, Held, f) /\ Count(Locs, Kept', f) = Count(Locs, Kept, f)
    BY <1>1, CountSame
  <1> QED
    BY <1>2 DEF RefCounts

LEMMA SameObjects ==
    ASSUME InoCounts, PipeCounts, UNCHANGED <<file, ff, iref, pipe, ip, cwd>>
    PROVE  InoCounts' /\ PipeCounts'
  <1>1. FileIno' = FileIno /\ CloseIno' = CloseIno /\ FilePipe' = FilePipe /\ ClosePipe' = ClosePipe
    BY DEF FileIno, CloseIno, FilePipe, ClosePipe
  <1> QED
    BY <1>1 DEF InoCounts, PipeCounts

LEMMA OthersFresh ==
    ASSUME FreshInv, NEW p \in Procs, Others(p), ~Fresh(p)',
           \A q \in Procs \ {p} : Fresh(q) =>
              \A k \in 1..Len(local[q]) : ref'[local[q][k]] = 1 /\ file'[local[q][k]].type = "FD_NONE"
    PROVE  FreshInv'
  <1>1. ASSUME NEW q \in Procs, Fresh(q)'
        PROVE  /\ \A k \in 1..Len(local'[q]) : ref'[local'[q][k]] = 1 /\ file'[local'[q][k]].type = "FD_NONE"
               /\ Len(local'[q]) = 2 => local'[q][1] # local'[q][2]
    <2>1. q # p /\ local'[q] = local[q] /\ Fresh(q)
      BY <1>1 DEF Others, Fresh
    <2> QED
      BY <2>1 DEF FreshInv
  <1> QED
    BY <1>1 DEF FreshInv

LEMMA SameFresh ==
    ASSUME FreshInv, NEW p \in Procs, Others(p), ~Fresh(p)', ref' = ref, file' = file
    PROVE  FreshInv'
  <1>1. ASSUME NEW q \in Procs \ {p}, Fresh(q), NEW k \in 1..Len(local[q])
        PROVE  ref'[local[q][k]] = 1 /\ file'[local[q][k]].type = "FD_NONE"
    BY <1>1 DEF FreshInv
  <1> QED
    BY <1>1, OthersFresh

OthersObjects(p) == \A q \in Procs \ {p} : ff'[q] = ff[q] /\ ip'[q] = ip[q] /\ cwd'[q] = cwd[q]

(* How the totals change when only p, one file f and one cell x do.        *)
LEMMA InoSum ==
    ASSUME Typed, InoCounts, NEW p \in Procs, OthersObjects(p), NEW f \in Files, \A h \in Files \ {f} : file'[h] = file[h],
           NEW i \in Inodes
    PROVE  Count(Files, FileIno', i) + Count(Procs, CloseIno', i) + Count(Procs, ip', i) + Count(Procs, cwd', i)
           = iref[i] + One(FileIno'[f], i) - One(FileIno[f], i) + One(CloseIno'[p], i) - One(CloseIno[p], i)
                     + One(ip'[p], i) - One(ip[p], i) + One(cwd'[p], i) - One(cwd[p], i)
  <1>1. \A h \in Files \ {f} : FileIno'[h] = FileIno[h]
    BY DEF FileIno
  <1>2. /\ \A q \in Procs \ {p} : CloseIno'[q] = CloseIno[q]
        /\ \A q \in Procs \ {p} : ip'[q] = ip[q]
        /\ \A q \in Procs \ {p} : cwd'[q] = cwd[q]
    BY DEF CloseIno, OthersObjects
  <1>3. Count(Files, FileIno', i) = Count(Files, FileIno, i) + One(FileIno'[f], i) - One(FileIno[f], i)
    BY <1>1, Finite, CountStep
  <1>4. Count(Procs, CloseIno', i) = Count(Procs, CloseIno, i) + One(CloseIno'[p], i) - One(CloseIno[p], i)
    BY <1>2, Finite, CountStep
  <1>5. Count(Procs, ip', i) = Count(Procs, ip, i) + One(ip'[p], i) - One(ip[p], i)
    BY <1>2, Finite, CountStep
  <1>6. Count(Procs, cwd', i) = Count(Procs, cwd, i) + One(cwd'[p], i) - One(cwd[p], i)
    BY <1>2, Finite, CountStep
  <1>7. /\ Count(Files, FileIno, i) \in Nat /\ Count(Procs, CloseIno, i) \in Nat
        /\ Count(Procs, ip, i) \in Nat /\ Count(Procs, cwd, i) \in Nat
    BY Finite, CountType
  <1>8. \A a, v : One(a, v) \in {0, 1}
    BY DEF One
  <1>9. iref[i] = Count(Files, FileIno, i) + Count(Procs, CloseIno, i) + Count(Procs, ip, i) + Count(Procs, cwd, i)
    BY DEF InoCounts
  <1> QED
    BY <1>3, <1>4, <1>5, <1>6, <1>7, <1>8, <1>9

LEMMA PipeSum ==
    ASSUME Typed, PipeCounts, NEW p \in Procs, OthersObjects(p), NEW f \in Files, \A h \in Files \ {f} : file'[h] = file[h],
           NEW g \in Pages, NEW e \in Ends
    PROVE  Count(Files, FilePipe', <<g, e>>) + Count(Procs, ClosePipe', <<g, e>>)
           = (IF e \in pipe[g] THEN 1 ELSE 0) + One(FilePipe'[f], <<g, e>>) - One(FilePipe[f], <<g, e>>)
                     + One(ClosePipe'[p], <<g, e>>) - One(ClosePipe[p], <<g, e>>)
  <1> DEFINE v == <<g, e>>
  <1>1. \A h \in Files \ {f} : FilePipe'[h] = FilePipe[h]
    BY DEF FilePipe
  <1>2. \A q \in Procs \ {p} : ClosePipe'[q] = ClosePipe[q]
    BY DEF ClosePipe, OthersObjects
  <1>3. Count(Files, FilePipe, v) + Count(Procs, ClosePipe, v) = IF e \in pipe[g] THEN 1 ELSE 0
    BY DEF PipeCounts
  <1> HIDE DEF v
  <1>4. Count(Files, FilePipe', v) = Count(Files, FilePipe, v) + One(FilePipe'[f], v) - One(FilePipe[f], v)
    BY <1>1, Finite, CountStep
  <1>5. Count(Procs, ClosePipe', v) = Count(Procs, ClosePipe, v) + One(ClosePipe'[p], v) - One(ClosePipe[p], v)
    BY <1>2, Finite, CountStep
  <1>6. Count(Files, FilePipe, v) \in Nat /\ Count(Procs, ClosePipe, v) \in Nat
    BY Finite, CountType
  <1>7. \A a : One(a, v) \in {0, 1}
    BY DEF One
  <1>8. Count(Files, FilePipe', v) + Count(Procs, ClosePipe', v)
        = (IF e \in pipe[g] THEN 1 ELSE 0) + One(FilePipe'[f], v) - One(FilePipe[f], v) + One(ClosePipe'[p], v) - One(ClosePipe[p], v)
    BY <1>3, <1>4, <1>5, <1>6, <1>7
  <1> QED
    BY <1>8 DEF v

LEMMA CellsTwo ==
    ASSUME NEW x \in Cells, NEW z \in Cells, x # z, \A y \in Cells \ {x, z} : Held'[y] = Held[y], NEW f
    PROVE  Count(Cells, Held', f) = Count(Cells, Held, f) + One(Held'[x], f) + One(Held'[z], f) - One(Held[x], f) - One(Held[z], f)
  <1> DEFINE m == [y \in Cells |-> IF y = x THEN Held'[x] ELSE Held[y]]
  <1>1. (\A y \in Cells \ {x} : m[y] = Held[y]) /\ m[x] = Held'[x] /\ m[z] = Held[z]
    OBVIOUS
  <1>2. \A y \in Cells \ {z} : Held'[y] = m[y]
    OBVIOUS
  <1>3. IsFiniteSet(Cells)
    BY Finite
  <1> HIDE DEF m
  <1>4. Count(Cells, m, f) = Count(Cells, Held, f) + One(m[x], f) - One(Held[x], f)
    BY <1>1, <1>3, CountStep
  <1>5. Count(Cells, Held', f) = Count(Cells, m, f) + One(Held'[z], f) - One(m[z], f)
    BY <1>2, <1>3, CountStep
  <1>6. Count(Cells, Held, f) \in Nat /\ Count(Cells, m, f) \in Nat
    BY <1>3, CountType
  <1>7. \A a, v : One(a, v) \in {0, 1}
    BY DEF One
  <1> QED
    BY <1>1, <1>4, <1>5, <1>6, <1>7

LEMMA LocsTwo ==
    ASSUME NEW x \in Locs, NEW z \in Locs, x # z, \A y \in Locs \ {x, z} : Kept'[y] = Kept[y], NEW f
    PROVE  Count(Locs, Kept', f) = Count(Locs, Kept, f) + One(Kept'[x], f) + One(Kept'[z], f) - One(Kept[x], f) - One(Kept[z], f)
  <1> DEFINE m == [y \in Locs |-> IF y = x THEN Kept'[x] ELSE Kept[y]]
  <1>1. (\A y \in Locs \ {x} : m[y] = Kept[y]) /\ m[x] = Kept'[x] /\ m[z] = Kept[z]
    OBVIOUS
  <1>2. \A y \in Locs \ {z} : Kept'[y] = m[y]
    OBVIOUS
  <1>3. IsFiniteSet(Locs)
    BY Finite
  <1> HIDE DEF m
  <1>4. Count(Locs, m, f) = Count(Locs, Kept, f) + One(m[x], f) - One(Kept[x], f)
    BY <1>1, <1>3, CountStep
  <1>5. Count(Locs, Kept', f) = Count(Locs, m, f) + One(Kept'[z], f) - One(m[z], f)
    BY <1>2, <1>3, CountStep
  <1>6. Count(Locs, Kept, f) \in Nat /\ Count(Locs, m, f) \in Nat
    BY <1>3, CountType
  <1>7. \A a, v : One(a, v) \in {0, 1}
    BY DEF One
  <1> QED
    BY <1>1, <1>4, <1>5, <1>6, <1>7

LEMMA FilesTwo ==
    ASSUME NEW x \in Files, NEW z \in Files, x # z, \A y \in Files \ {x, z} : FilePipe'[y] = FilePipe[y], NEW f
    PROVE  Count(Files, FilePipe', f) = Count(Files, FilePipe, f) + One(FilePipe'[x], f) + One(FilePipe'[z], f) - One(FilePipe[x], f) - One(FilePipe[z], f)
  <1> DEFINE m == [y \in Files |-> IF y = x THEN FilePipe'[x] ELSE FilePipe[y]]
  <1>1. (\A y \in Files \ {x} : m[y] = FilePipe[y]) /\ m[x] = FilePipe'[x] /\ m[z] = FilePipe[z]
    OBVIOUS
  <1>2. \A y \in Files \ {z} : FilePipe'[y] = m[y]
    OBVIOUS
  <1>3. IsFiniteSet(Files)
    BY Finite
  <1> HIDE DEF m
  <1>4. Count(Files, m, f) = Count(Files, FilePipe, f) + One(m[x], f) - One(FilePipe[x], f)
    BY <1>1, <1>3, CountStep
  <1>5. Count(Files, FilePipe', f) = Count(Files, m, f) + One(FilePipe'[z], f) - One(m[z], f)
    BY <1>2, <1>3, CountStep
  <1>6. Count(Files, FilePipe, f) \in Nat /\ Count(Files, m, f) \in Nat
    BY <1>3, CountType
  <1>7. \A a, v : One(a, v) \in {0, 1}
    BY DEF One
  <1> QED
    BY <1>1, <1>4, <1>5, <1>6, <1>7

LEMMA RefSum ==
    ASSUME Typed, RefCounts, NEW p \in Procs, \A q \in Procs \ {p} : local'[q] = local[q],
           NEW x \in Cells, \A y \in Cells \ {x} : Held'[y] = Held[y], NEW f \in Files
    PROVE  Count(Cells, Held', f) + Count(Locs, Kept', f)
           = ref[f] + One(Held'[x], f) - One(Held[x], f)
                    + One(Kept'[<<p, 1>>], f) + One(Kept'[<<p, 2>>], f) - One(Kept[<<p, 1>>], f) - One(Kept[<<p, 2>>], f)
  <1> DEFINE a == <<p, 1>>
             b == <<p, 2>>
  <1>1. a \in Locs /\ b \in Locs /\ a # b /\ \A y \in Locs \ {a, b} : y[1] \in Procs \ {p}
    BY DEF Locs
  <1>2. \A y \in Locs \ {a, b} : Kept'[y] = Kept[y]
    BY <1>1 DEF Kept
  <1> HIDE DEF a, b
  <1>3. Count(Cells, Held', f) = Count(Cells, Held, f) + One(Held'[x], f) - One(Held[x], f)
    BY Finite, CountStep
  <1>4. Count(Locs, Kept', f) = Count(Locs, Kept, f) + One(Kept'[a], f) + One(Kept'[b], f) - One(Kept[a], f) - One(Kept[b], f)
    BY <1>1, <1>2, LocsTwo
  <1>5. Count(Cells, Held, f) \in Nat /\ Count(Locs, Kept, f) \in Nat
    BY Finite, CountType
  <1>6. \A y : One(y, f) \in {0, 1}
    BY DEF One
  <1>7. ref[f] = Count(Cells, Held, f) + Count(Locs, Kept, f)
    BY DEF RefCounts
  <1>8. Count(Cells, Held', f) + Count(Locs, Kept', f)
        = ref[f] + One(Held'[x], f) - One(Held[x], f) + One(Kept'[a], f) + One(Kept'[b], f) - One(Kept[a], f) - One(Kept[b], f)
    BY <1>3, <1>4, <1>5, <1>6, <1>7
  <1> QED
    BY <1>8 DEF a, b

(* Whether the totals still agree is then a question about p, f and x.     *)
LEMMA OneFacts ==
    /\ \A a, v : One(a, v) \in {0, 1}
    /\ \A v : One(v, v) = 1
    /\ \A a, v : a # v => One(a, v) = 0
  BY DEF One

LEMMA InoStep ==
    ASSUME Typed, InoCounts, NEW p \in Procs, OthersObjects(p), NEW f \in Files, \A h \in Files \ {f} : file'[h] = file[h],
           \A i \in Inodes : iref'[i]
              = iref[i] + One(FileIno'[f], i) - One(FileIno[f], i) + One(CloseIno'[p], i) - One(CloseIno[p], i)
                        + One(ip'[p], i) - One(ip[p], i) + One(cwd'[p], i) - One(cwd[p], i)
    PROVE  InoCounts'
  <1>1. ASSUME NEW i \in Inodes
        PROVE  iref'[i] = Count(Files, FileIno', i) + Count(Procs, CloseIno', i) + Count(Procs, ip', i) + Count(Procs, cwd', i)
    <2>1. Count(Files, FileIno', i) + Count(Procs, CloseIno', i) + Count(Procs, ip', i) + Count(Procs, cwd', i)
          = iref[i] + One(FileIno'[f], i) - One(FileIno[f], i) + One(CloseIno'[p], i) - One(CloseIno[p], i)
                    + One(ip'[p], i) - One(ip[p], i) + One(cwd'[p], i) - One(cwd[p], i)
      BY InoSum
    <2> QED
      BY <2>1
  <1> QED
    BY <1>1 DEF InoCounts

LEMMA PipeStep ==
    ASSUME Typed, PipeCounts, NEW p \in Procs, OthersObjects(p), NEW f \in Files, \A h \in Files \ {f} : file'[h] = file[h],
           \A g \in Pages, e \in Ends : (IF e \in pipe'[g] THEN 1 ELSE 0)
              = (IF e \in pipe[g] THEN 1 ELSE 0) + One(FilePipe'[f], <<g, e>>) - One(FilePipe[f], <<g, e>>)
                     + One(ClosePipe'[p], <<g, e>>) - One(ClosePipe[p], <<g, e>>)
    PROVE  PipeCounts'
  <1>1. ASSUME NEW g \in Pages, NEW e \in Ends
        PROVE  Count(Files, FilePipe', <<g, e>>) + Count(Procs, ClosePipe', <<g, e>>) = IF e \in pipe'[g] THEN 1 ELSE 0
    <2>1. Count(Files, FilePipe', <<g, e>>) + Count(Procs, ClosePipe', <<g, e>>)
          = (IF e \in pipe[g] THEN 1 ELSE 0) + One(FilePipe'[f], <<g, e>>) - One(FilePipe[f], <<g, e>>)
                     + One(ClosePipe'[p], <<g, e>>) - One(ClosePipe[p], <<g, e>>)
      BY PipeSum
    <2> QED
      BY <2>1
  <1> QED
    BY <1>1 DEF PipeCounts

LEMMA RefStep ==
    ASSUME Typed, RefCounts, NEW p \in Procs, \A q \in Procs \ {p} : local'[q] = local[q],
           NEW x \in Cells, \A y \in Cells \ {x} : Held'[y] = Held[y],
           \A f \in Files : ref'[f]
              = ref[f] + One(Held'[x], f) - One(Held[x], f)
                       + One(Kept'[<<p, 1>>], f) + One(Kept'[<<p, 2>>], f) - One(Kept[<<p, 1>>], f) - One(Kept[<<p, 2>>], f)
    PROVE  RefCounts'
  <1>1. ASSUME NEW f \in Files PROVE ref'[f] = Count(Cells, Held', f) + Count(Locs, Kept', f)
    <2>1. Count(Cells, Held', f) + Count(Locs, Kept', f)
           = ref[f] + One(Held'[x], f) - One(Held[x], f)
                    + One(Kept'[<<p, 1>>], f) + One(Kept'[<<p, 2>>], f) - One(Kept[<<p, 1>>], f) - One(Kept[<<p, 2>>], f)
      BY RefSum
    <2> QED
      BY <2>1
  <1> QED
    BY <1>1 DEF RefCounts

-----------------------------------------------------------------------------
(* Steps that only move on                                                 *)

LEMMA MoveInv ==
    ASSUME IInv, NEW p \in Procs,
           open_refused(p) \/ pipe_bad(p) \/ pipe_fail(p) \/ exit(p) \/ freeproc(p)
    PROVE  IInv'
  <1>0. Shape /\ RefCounts /\ InoCounts /\ PipeCounts
    BY Split
  <1>1. UNCHANGED <<ref, file, ofile, cwd, pipe, iref, fd, local, ff, ip, np>>
    BY DEF open_refused, pipe_bad, pipe_fail, exit, freeproc
  <1>2. \E x \in Points : pc' = [pc EXCEPT ![p] = x]
    BY DEF open_refused, pipe_bad, pipe_fail, exit, freeproc, Goto, Points
  <1>3. Others(p)
    BY <1>0, <1>1, <1>2 DEF Others, Shape, Typed
  <1>4. \/ pc[p] = "open" /\ pc'[p] = "open_put"
        \/ pc[p] \in {"pipe_f1", "pipe_page", "pipe_fd"} /\ pc'[p] = "user"
        \/ pc[p] = "user" /\ local[p] = <<>> /\ ff[p] = None /\ pc'[p] = "exit"
        \/ pc[p] = "zombie" /\ pc'[p] = "unused"
    BY <1>0 DEF Shape, Typed, open_refused, pipe_bad, pipe_fail, exit, freeproc, Goto, Idle, Closed
  <1>5. Point(p)
    BY <1>0 DEF Shape, PointInv
  <1>6. Point(p)'
    <2>1. CASE pc[p] = "open" /\ pc'[p] = "open_put"
      BY <1>1, <1>5, <2>1 DEF Point, Closers
    <2>2. CASE pc[p] \in {"pipe_f1", "pipe_page", "pipe_fd"} /\ pc'[p] = "user"
      <3>1. Len(local[p]) \in 0..2
        BY <1>5, <2>2 DEF Point
      <3>2. cwd[p] # None /\ fd[p] = 0 /\ ip[p] = None
        BY <1>5, <2>2 DEF Point
      <3> QED
        BY <1>1, <2>2, <3>1, <3>2 DEF Point, Closers
    <2>3. CASE pc[p] = "user" /\ local[p] = <<>> /\ ff[p] = None /\ pc'[p] = "exit"
      <3>1. fd[p] = 0 /\ \A d \in FDs : ~(d < 0)
        BY <1>5, <2>3, Consts DEF Point, FDs
      <3> QED
        BY <1>1, <1>5, <2>3, <3>1 DEF Point, Closers
    <2>4. CASE pc[p] = "zombie" /\ pc'[p] = "unused"
      BY <1>1, <1>5, <2>4 DEF Point, Closers
    <2> QED
      BY <1>4, <2>1, <2>2, <2>3, <2>4
  <1>7. Typed'
    BY <1>0, <1>1, <1>2 DEF Shape, Typed
  <1>8. PointInv' /\ ForkInv'
    BY <1>0, <1>1, <1>3, <1>4, <1>6, OthersPoint, OthersFork DEF Shape
  <1>9. FileInv'
    BY <1>0, <1>1 DEF Shape, FileInv
  <1>10. FreshInv'
    BY <1>0, <1>1, <1>3, <1>4, OthersFresh DEF Shape, FreshInv, Fresh
  <1>11. RefCounts'
    <2>1. \A d \in FDs : Held'[<<p, d>>] = Held[<<p, d>>]
      BY <1>1, <1>4, HeldAt DEF Uncounted
    <2> QED
      BY <1>0, <1>1, <1>3, <2>1, SameHeld, SameRefs
  <1>12. InoCounts' /\ PipeCounts'
    BY <1>0, <1>1, SameObjects
  <1> QED
    BY <1>7, <1>8, <1>9, <1>10, <1>11, <1>12, Join DEF Shape

-----------------------------------------------------------------------------
(* References to pipes and inodes                                          *)

LEMMA OneFile == 1 \in Files
  BY FileTableAssumption DEF Files

(* Where nothing but iref and one of the places that count it changes      *)
LEMMA InoOnly ==
    ASSUME Typed, InoCounts, PipeCounts, NEW p \in Procs, Others(p), file' = file, pipe' = pipe,
           ClosePipe'[p] = ClosePipe[p],
           \A i \in Inodes : iref'[i] = iref[i] + One(CloseIno'[p], i) - One(CloseIno[p], i)
                        + One(ip'[p], i) - One(ip[p], i) + One(cwd'[p], i) - One(cwd[p], i)
    PROVE  InoCounts' /\ PipeCounts'
  <1>0. OthersObjects(p) /\ FileIno' = FileIno /\ FilePipe' = FilePipe
    BY DEF Others, OthersObjects, FileIno, FilePipe
  <1>1. InoCounts'
    <2>1. ASSUME NEW i \in Inodes
          PROVE  iref'[i] = iref[i] + One(FileIno'[1], i) - One(FileIno[1], i) + One(CloseIno'[p], i) - One(CloseIno[p], i)
                        + One(ip'[p], i) - One(ip[p], i) + One(cwd'[p], i) - One(cwd[p], i)
      <3>1. One(FileIno'[1], i) = One(FileIno[1], i) /\ One(FileIno[1], i) \in Int /\ iref[i] \in Int
        BY <1>0, OneFacts DEF Typed
      <3>2. iref'[i] = iref[i] + One(CloseIno'[p], i) - One(CloseIno[p], i)
                        + One(ip'[p], i) - One(ip[p], i) + One(cwd'[p], i) - One(cwd[p], i)
        OBVIOUS
      <3> QED
        BY <3>1, <3>2
    <2> QED
      BY <1>0, <2>1, OneFile, InoStep
  <1>2. PipeCounts'
    <2>1. \A q \in Procs : ClosePipe'[q] = ClosePipe[q]
      BY DEF ClosePipe, Others
    <2>2. \A v : Count(Procs, ClosePipe', v) = Count(Procs, ClosePipe, v)
      BY <2>1, CountSame
    <2> QED
      BY <1>0, <2>2 DEF PipeCounts
  <1> QED
    BY <1>1, <1>2

LEMMA ReleaseInv ==
    ASSUME IInv, NEW p \in Procs, pipeclose(p) \/ iput(p)
    PROVE  IInv'
  <1>0. Shape /\ RefCounts /\ InoCounts /\ PipeCounts
    BY Split
  <1>1. UNCHANGED <<ref, file, ofile, cwd, pc, fd, local, ip, np>> /\ ff' = [ff EXCEPT ![p] = None] /\ ff[p] # None
    BY DEF pipeclose, iput
  <1>2. Others(p) /\ ff'[p] = None /\ ff' \in [Procs -> File \cup {None}]
    BY <1>0, <1>1 DEF Others, Shape, Typed
  <1>3. ff[p] \in File /\ WellTyped(ff[p]) /\ ff[p].type # "FD_NONE"
    BY <1>0, <1>1 DEF Shape, Typed, FileInv
  <1>4. Point(p)'
    BY <1>0, <1>1, <1>2 DEF Shape, PointInv, Point
  <1>5. PointInv'
    BY <1>0, <1>2, <1>4, OthersPoint DEF Shape
  <1>6. ForkInv' /\ FreshInv' /\ FileInv'
    BY <1>0, <1>1, <1>2 DEF Shape, ForkInv, FreshInv, Fresh, FileInv, Others
  <1>7. RefCounts'
    <2>1. \A x \in Cells : Held'[x] = Held[x]
      BY <1>1 DEF Held, Uncounted
    <2> QED
      BY <1>0, <1>1, <2>1, SameRefs
  <1>8. CloseIno'[p] = None /\ ClosePipe'[p] = <<None, "r">> /\ ip'[p] = ip[p] /\ cwd'[p] = cwd[p]
        /\ FileIno' = FileIno /\ FilePipe' = FilePipe
    BY <1>1, <1>2 DEF CloseIno, ClosePipe, FileIno, FilePipe
  <1>9. ASSUME NEW v PROVE One(v, v) = 1 /\ \A a : One(a, v) \in {0, 1} /\ (a # v => One(a, v) = 0)
    BY DEF One
  <1>10. CASE pipeclose(p)
    <2>1. PICK g \in Pages, e \in Ends : ff[p].type = "FD_PIPE" /\ ff[p].obj = g /\ ff[p].end = e
      BY <1>3, <1>10 DEF pipeclose, WellTyped, File
    <2>2. pipe' = [pipe EXCEPT ![g] = @ \ {e}] /\ iref' = iref
      BY <1>10, <2>1 DEF pipeclose
    <2>3. ClosePipe[p] = <<g, e>> /\ CloseIno[p] = None
      BY <1>1, <2>1 DEF ClosePipe, CloseIno, PipeOf, InoOf
    <2>4. Typed'
      BY <1>0, <1>1, <1>2, <2>2 DEF Shape, Typed
    <2>5. InoCounts'
      <3>1. \A q \in Procs : CloseIno'[q] = CloseIno[q]
        BY <1>2, <1>8, <2>3 DEF CloseIno, Others
      <3>2. \A v : Count(Procs, CloseIno', v) = Count(Procs, CloseIno, v)
        BY <3>1, CountSame
      <3> QED
        BY <1>0, <1>1, <1>8, <2>2, <3>2 DEF InoCounts
    <2>6. ASSUME NEW h \in Pages, NEW d \in Ends
          PROVE  Count(Files, FilePipe', <<h, d>>) + Count(Procs, ClosePipe', <<h, d>>) = IF d \in pipe'[h] THEN 1 ELSE 0
      <3> DEFINE v == <<h, d>>
      <3>1. v # <<None, "r">> /\ (v = <<g, e>> <=> h = g /\ d = e)
        BY Consts
      <3>2. pipe[h] \subseteq Ends /\ pipe'[h] = IF h = g THEN pipe[h] \ {e} ELSE pipe[h]
        BY <1>0, <2>2 DEF Shape, Typed
      <3>3. Count(Files, FilePipe', v) + Count(Procs, ClosePipe', v)
            = (IF d \in pipe[h] THEN 1 ELSE 0) + One(FilePipe'[1], v) - One(FilePipe[1], v)
                    + One(ClosePipe'[p], v) - One(ClosePipe[p], v)
        BY <1>0, <1>1, <1>2, OneFile, PipeSum DEF Shape, Others, OthersObjects
      <3>4. Count(Procs, ClosePipe', v) \in Nat /\ Count(Files, FilePipe', v) \in Nat
        BY Finite, CountType
      <3> HIDE DEF v
      <3>5. Count(Files, FilePipe', v) + Count(Procs, ClosePipe', v)
            = (IF d \in pipe[h] THEN 1 ELSE 0) - One(<<g, e>>, v)
        <4>1. One(<<None, "r">>, v) = 0 /\ One(FilePipe[1], v) \in {0, 1} /\ One(<<g, e>>, v) \in {0, 1}
          BY <1>9, <3>1
        <4> QED
          BY <1>8, <2>3, <3>3, <4>1
      <3>6. CASE h = g /\ d = e
        <4>1. One(<<g, e>>, v) = 1
          BY <1>9, <3>1, <3>6
        <4>2. d \notin pipe'[h]
          BY <3>2, <3>6
        <4>3. Count(Files, FilePipe', v) + Count(Procs, ClosePipe', v) = 0
          BY <3>4, <3>5, <4>1
        <4> QED
          BY <4>2, <4>3 DEF v
      <3>7. CASE ~(h = g /\ d = e)
        <4>1. One(<<g, e>>, v) = 0
          BY <1>9, <3>1, <3>7
        <4>2. d \in pipe'[h] <=> d \in pipe[h]
          BY <3>2, <3>7
        <4>3. Count(Files, FilePipe', v) + Count(Procs, ClosePipe', v) = IF d \in pipe[h] THEN 1 ELSE 0
          BY <3>4, <3>5, <4>1
        <4> QED
          BY <4>2, <4>3 DEF v
      <3> QED
        BY <3>6, <3>7
    <2>7. PipeCounts'
      BY <2>6 DEF PipeCounts
    <2> QED
      BY <1>5, <1>6, <1>7, <2>4, <2>5, <2>7, Join DEF Shape
  <1>11. CASE iput(p)
    <2>1. PICK j \in Inodes : ff[p].type \in {"FD_INODE", "FD_DEVICE"} /\ ff[p].obj = j
      BY <1>3, <1>11 DEF iput, WellTyped
    <2>2. iref' = [iref EXCEPT ![j] = @ - 1] /\ pipe' = pipe
      BY <1>11, <2>1 DEF iput
    <2>3. ClosePipe[p] = <<None, "r">> /\ CloseIno[p] = j
      BY <1>1, <2>1 DEF ClosePipe, CloseIno, PipeOf, InoOf
    <2>4. Typed'
      BY <1>0, <1>1, <1>2, <2>2 DEF Shape, Typed
    <2>5. ASSUME NEW i \in Inodes
          PROVE  iref'[i] = iref[i] + One(CloseIno'[p], i) - One(CloseIno[p], i)
                        + One(ip'[p], i) - One(ip[p], i) + One(cwd'[p], i) - One(cwd[p], i)
      <3>1. One(CloseIno'[p], i) = 0 /\ One(CloseIno[p], i) = One(j, i)
        BY <1>8, <2>3, Consts, OneFacts
      <3>2. iref[i] \in Int /\ One(ip[p], i) \in Int /\ One(cwd[p], i) \in Int /\ One(j, i) \in Int
        BY <1>0, OneFacts DEF Shape, Typed
      <3>3. iref'[i] = iref[i] - One(j, i)
        BY <1>0, <2>2 DEF Shape, Typed, One
      <3> QED
        BY <1>1, <3>1, <3>2, <3>3
    <2>6. InoCounts' /\ PipeCounts'
      BY <1>0, <1>1, <1>2, <1>8, <2>2, <2>3, <2>5, InoOnly DEF Shape
    <2> QED
      BY <1>5, <1>6, <1>7, <2>4, <2>6, Join DEF Shape
  <1> QED
    BY <1>10, <1>11

LEMMA InodeInv ==
    ASSUME IInv, NEW p \in Procs, (\E i \in Inodes : open(p, i)) \/ open_put(p) \/ exit_cwd(p)
    PROVE  IInv'
  <1>0. Shape /\ RefCounts /\ InoCounts /\ PipeCounts
    BY Split
  <1>t. Typed /\ Point(p)
    BY <1>0 DEF Shape, PointInv
  <1>1. UNCHANGED <<ref, file, ofile, pipe, local, ff, np>>
    BY DEF open, open_put, exit_cwd
  <1>2. \/ \E i \in Inodes : /\ pc[p] = "user" /\ local[p] = <<>> /\ ff[p] = None /\ UNCHANGED <<fd, cwd>>
                             /\ pc' = [pc EXCEPT ![p] = "open"] /\ ip' = [ip EXCEPT ![p] = i]
                             /\ iref' = [iref EXCEPT ![i] = @ + 1]
        \/ /\ pc[p] = "open_put" /\ local[p] = <<>> /\ ff[p] = None /\ UNCHANGED <<fd, cwd>>
           /\ pc' = [pc EXCEPT ![p] = "user"] /\ ip' = [ip EXCEPT ![p] = None]
           /\ iref' = [iref EXCEPT ![ip[p]] = @ - 1]
        \/ /\ pc[p] = "exit" /\ fd[p] = NOFILE /\ UNCHANGED ip
           /\ pc' = [pc EXCEPT ![p] = "zombie"] /\ cwd' = [cwd EXCEPT ![p] = None] /\ fd' = [fd EXCEPT ![p] = 0]
           /\ iref' = [iref EXCEPT ![cwd[p]] = @ - 1]
    BY DEF open, open_put, exit_cwd, Goto, Idle, Closed
  <1>3. /\ pc[p] = "user" => ip[p] = None
        /\ pc[p] = "open_put" => ip[p] \in Inodes
        /\ pc[p] = "exit" => cwd[p] \in Inodes
    BY <1>t DEF Typed, Point
  <1>4. Typed' /\ Others(p)
    <2>1. pc' \in [Procs -> Points] /\ \A q \in Procs \ {p} : pc'[q] = pc[q]
      BY <1>t, <1>2 DEF Typed, Points
    <2>2. ip' \in [Procs -> Inodes \cup {None}] /\ \A q \in Procs \ {p} : ip'[q] = ip[q]
      <3>1. ip' = ip \/ \E j \in Inodes \cup {None} : ip' = [ip EXCEPT ![p] = j]
        BY <1>2
      <3> QED
        BY <1>t, <3>1 DEF Typed
    <2>3. cwd' \in [Procs -> Inodes \cup {None}] /\ \A q \in Procs \ {p} : cwd'[q] = cwd[q]
      <3>1. cwd' = cwd \/ cwd' = [cwd EXCEPT ![p] = None]
        BY <1>2
      <3> QED
        BY <1>t, <3>1 DEF Typed
    <2>4. fd' \in [Procs -> 0..NOFILE] /\ \A q \in Procs \ {p} : fd'[q] = fd[q]
      <3>1. 0 \in 0..NOFILE
        BY Consts
      <3>2. fd' = fd \/ fd' = [fd EXCEPT ![p] = 0]
        BY <1>2
      <3> QED
        BY <1>t, <3>1, <3>2 DEF Typed
    <2>5. iref' \in [Inodes -> Int]
      BY <1>t, <1>2, <1>3 DEF Typed
    <2> QED
      BY <1>t, <1>1, <2>1, <2>2, <2>3, <2>4, <2>5 DEF Typed, Others
  <1>5. Point(p)'
    <2>1. CASE pc[p] = "user"
      BY <1>t, <1>1, <1>2, <2>1, Consts DEF Typed, Point, Closers
    <2>2. CASE pc[p] = "open_put"
      BY <1>t, <1>1, <1>2, <2>2 DEF Typed, Point, Closers
    <2>3. CASE pc[p] = "exit"
      <3>1. \A d \in FDs : ofile[p][d] = 0
        BY <1>t, <1>2, <2>3, Consts DEF Point, FDs
      <3>2. pc'[p] = "zombie" /\ fd'[p] = 0 /\ cwd'[p] = None /\ ip'[p] = None /\ local'[p] = <<>> /\ ff'[p] = None
        BY <1>t, <1>1, <1>2, <2>3 DEF Typed, Point, Closers
      <3> QED
        BY <1>1, <3>1, <3>2 DEF Point, Closers
    <2> QED
      BY <1>2, <2>1, <2>2, <2>3
  <1>6. PointInv' /\ ForkInv'
    <2>1. pc[p] \notin {"fork", "embryo"} /\ pc'[p] # "fork"
      BY <1>t, <1>2 DEF Typed
    <2> QED
      BY <1>0, <1>1, <1>4, <1>5, <2>1, OthersPoint, OthersFork DEF Shape
  <1>7. FileInv'
    BY <1>0, <1>1 DEF Shape, FileInv
  <1>8. FreshInv'
    <2>1. ~Fresh(p)'
      BY <1>t, <1>2 DEF Typed, Fresh
    <2> QED
      BY <1>0, <1>1, <1>4, <2>1, SameFresh DEF Shape
  <1>9. RefCounts'
    <2>1. \A d \in FDs : Held'[<<p, d>>] = Held[<<p, d>>]
      <3>1. pc[p] \notin {"dup", "exit_close"} /\ pc'[p] \notin {"dup", "exit_close"}
        BY <1>t, <1>2 DEF Typed
      <3> QED
        BY <1>1, <3>1, HeldAt DEF Uncounted
    <2> QED
      BY <1>0, <1>1, <1>4, <2>1, SameHeld, SameRefs
  <1>10. ASSUME NEW i \in Inodes
         PROVE  iref'[i] = iref[i] + One(CloseIno'[p], i) - One(CloseIno[p], i)
                        + One(ip'[p], i) - One(ip[p], i) + One(cwd'[p], i) - One(cwd[p], i)
    <2>1. One(CloseIno'[p], i) = One(CloseIno[p], i) /\ One(CloseIno[p], i) \in {0, 1} /\ One(ip[p], i) \in {0, 1} /\ One(cwd[p], i) \in {0, 1}
      BY <1>1, OneFacts DEF CloseIno
    <2>2. One(None, i) = 0 /\ iref[i] \in Int
      BY <1>t, OneFacts, Consts DEF Typed
    <2>3. iref'[i] = iref[i] + One(ip'[p], i) - One(ip[p], i) + One(cwd'[p], i) - One(cwd[p], i)
      <3>1. CASE pc[p] = "user"
        <4>1. PICK j \in Inodes : ip' = [ip EXCEPT ![p] = j] /\ iref' = [iref EXCEPT ![j] = @ + 1] /\ cwd' = cwd
          BY <1>2, <3>1
        <4>2. iref'[i] = iref[i] + One(j, i) /\ One(j, i) \in {0, 1}
          BY <1>t, <4>1 DEF Typed, One
        <4>3. ip'[p] = j /\ ip[p] = None
          BY <1>t, <1>3, <3>1, <4>1 DEF Typed
        <4> QED
          BY <2>1, <2>2, <4>1, <4>2, <4>3
      <3>2. CASE pc[p] = "open_put"
        <4>1. iref'[i] = iref[i] - One(ip[p], i)
          BY <1>t, <1>2, <1>3, <3>2 DEF Typed, One
        <4>2. ip'[p] = None /\ cwd' = cwd
          BY <1>t, <1>2, <3>2 DEF Typed
        <4> QED
          BY <2>1, <2>2, <4>1, <4>2
      <3>3. CASE pc[p] = "exit"
        <4>1. iref'[i] = iref[i] - One(cwd[p], i)
          BY <1>t, <1>2, <1>3, <3>3 DEF Typed, One
        <4>2. cwd'[p] = None /\ ip' = ip
          BY <1>t, <1>2, <3>3 DEF Typed
        <4> QED
          BY <2>1, <2>2, <4>1, <4>2
      <3> QED
        BY <1>2, <3>1, <3>2, <3>3
    <2>4. One(ip'[p], i) \in {0, 1} /\ One(cwd'[p], i) \in {0, 1}
      BY OneFacts
    <2> QED
      BY <2>1, <2>2, <2>3, <2>4
  <1>11. InoCounts' /\ PipeCounts'
    <2>1. ClosePipe'[p] = ClosePipe[p]
      BY <1>1 DEF ClosePipe
    <2> QED
      BY <1>0, <1>t, <1>1, <1>4, <1>10, <2>1, InoOnly
  <1> QED
    BY <1>4, <1>6, <1>7, <1>8, <1>9, <1>11, Join DEF Shape

-----------------------------------------------------------------------------
(* Files are allocated                                                     *)

LEMMA Least ==
    ASSUME NEW S \in SUBSET Nat, S # {}
    PROVE  Min(S) \in S
  BY LeastElement DEF Min

LEMMA Alloc ==
    ASSUME Shape, filealloc
    PROVE  \E f \in Files : /\ f = NewFile /\ ref[f] = 0 /\ ref' = [ref EXCEPT ![f] = 1]
                            /\ file[f] \in File /\ file[f].type = "FD_NONE"
                            /\ \A q \in Procs : Fresh(q) => \A k \in 1..Len(local[q]) : local[q][k] # f
  <1>1. FreeFiles \in SUBSET Nat /\ FreeFiles # {}
    BY DEF filealloc, FreeFiles, Files
  <1>2. NewFile \in FreeFiles
    BY <1>1, Least DEF NewFile
  <1>3. NewFile \in Files /\ ref[NewFile] = 0
    BY <1>2 DEF FreeFiles
  <1>4. file[NewFile] \in File /\ file[NewFile].type = "FD_NONE"
    BY <1>3 DEF Shape, Typed, FileInv
  <1>5. ASSUME NEW q \in Procs, Fresh(q), NEW k \in 1..Len(local[q]) PROVE local[q][k] # NewFile
    <2>1. ref[local[q][k]] = 1
      BY <1>5 DEF Shape, FreshInv
    <2> QED
      BY <1>3, <2>1
  <1> QED
    BY <1>3, <1>4, <1>5 DEF filealloc

LEMMA FdAlloc ==
    ASSUME NEW p \in Procs, FreeFDs(p) # {}
    PROVE  fdalloc(p) \in FDs /\ ofile[p][fdalloc(p)] = 0
  <1>1. FreeFDs(p) \in SUBSET Nat
    BY DEF FreeFDs, FDs
  <1>2. fdalloc(p) \in FreeFDs(p)
    BY <1>1, Least DEF fdalloc
  <1> QED
    BY <1>2 DEF FreeFDs

LEMMA FirstCell == ASSUME NEW p \in Procs PROVE <<p, 0>> \in Cells
  BY FileTableAssumption DEF Cells, FDs

LEMMA AllocInv ==
    ASSUME IInv, NEW p \in Procs, open_nofd(p) \/ pipe_f0(p) \/ pipe_f1(p)
    PROVE  IInv'
  <1>0. Shape /\ RefCounts /\ InoCounts /\ PipeCounts
    BY Split
  <1>t. Typed /\ Point(p)
    BY <1>0 DEF Shape, PointInv
  <1>1. UNCHANGED <<file, ofile, cwd, pipe, iref, fd, ff, ip, np>> /\ filealloc
    BY DEF open_nofd, pipe_f0, pipe_f1
  <1>2. PICK f \in Files : /\ f = NewFile /\ ref[f] = 0 /\ ref' = [ref EXCEPT ![f] = 1]
                           /\ file[f] \in File /\ file[f].type = "FD_NONE"
                           /\ \A q \in Procs : Fresh(q) => \A k \in 1..Len(local[q]) : local[q][k] # f
    BY <1>0, <1>1, Alloc
  <1>3. \/ /\ pc[p] = "open" /\ pc' = [pc EXCEPT ![p] = "open_put"]
           /\ local' = [local EXCEPT ![p] = <<f>>]
        \/ /\ pc[p] = "user" /\ local[p] = <<>> /\ ff[p] = None
           /\ pc' = [pc EXCEPT ![p] = "pipe_f1"] /\ local' = [local EXCEPT ![p] = <<f>>]
        \/ /\ pc[p] = "pipe_f1" /\ pc' = [pc EXCEPT ![p] = "pipe_page"]
           /\ local' = [local EXCEPT ![p] = Append(local[p], f)]
    BY <1>2 DEF open_nofd, pipe_f0, pipe_f1, Goto, Idle, Closed
  <1>4. /\ pc[p] \in {"open", "user"} => local[p] = <<>> /\ Len(local[p]) = 0 /\ local'[p] = <<f>>
        /\ pc[p] = "pipe_f1" => \E a \in Files : local[p] = <<a>> /\ local'[p] = <<a, f>>
    <2>1. pc[p] = "open" => local[p] = <<>>
      BY <1>t DEF Point, Closers
    <2>2. CASE pc[p] = "pipe_f1"
      <3>1. Len(local[p]) = 1 /\ local[p] \in Seq(Files)
        BY <1>t, <2>2 DEF Point, Typed
      <3>2. PICK a \in Files : local[p] = <<a>>
        <4>1. local[p][1] \in Files /\ local[p] = <<local[p][1]>>
          BY <3>1
        <4> QED
          BY <4>1
      <3> QED
        BY <1>t, <1>3, <2>2, <3>2 DEF Typed
    <2>3. CASE pc[p] \in {"open", "user"}
      BY <1>t, <1>3, <2>1, <2>3 DEF Typed
    <2> QED
      BY <1>3, <2>2, <2>3
  <1>5. Typed' /\ Others(p)
    <2>1. pc' \in [Procs -> Points] /\ \A q \in Procs \ {p} : pc'[q] = pc[q]
      BY <1>t, <1>3 DEF Typed, Points
    <2>2. ref' \in [Files -> Nat]
      BY <1>t, <1>2 DEF Typed
    <2>3. local' \in [Procs -> Seq(Files)] /\ \A q \in Procs \ {p} : local'[q] = local[q]
      <3>1. <<f>> \in Seq(Files) /\ Append(local[p], f) \in Seq(Files)
        BY <1>t DEF Typed
      <3>2. \E s \in Seq(Files) : local' = [local EXCEPT ![p] = s]
        BY <1>3, <3>1
      <3> QED
        BY <1>t, <3>2 DEF Typed
    <2> QED
      BY <1>t, <1>1, <2>1, <2>2, <2>3 DEF Typed, Others
  <1>6. Point(p)'
    <2>1. CASE pc[p] = "open"
      <3>1. Len(local'[p]) = 1 /\ pc'[p] = "open_put" /\ ff[p] = None
        BY <1>t, <1>3, <1>4, <2>1 DEF Typed, Point, Closers
      <3> QED
        BY <1>t, <1>1, <2>1, <3>1 DEF Point, Closers
    <2>2. CASE pc[p] = "user"
      <3>1. Len(local'[p]) = 1 /\ pc'[p] = "pipe_f1" /\ ff[p] = None
        BY <1>t, <1>3, <1>4, <2>2 DEF Typed
      <3> QED
        BY <1>t, <1>1, <2>2, <3>1 DEF Point, Closers
    <2>3. CASE pc[p] = "pipe_f1"
      <3>1. Len(local'[p]) = 2 /\ pc'[p] = "pipe_page" /\ ff[p] = None
        BY <1>t, <1>3, <1>4, <2>3 DEF Typed, Point, Closers
      <3> QED
        BY <1>t, <1>1, <2>3, <3>1 DEF Point, Closers
    <2> QED
      BY <1>3, <2>1, <2>2, <2>3
  <1>7. PointInv' /\ ForkInv'
    <2>1. pc[p] \notin {"fork", "embryo"} /\ pc'[p] # "fork"
      BY <1>t, <1>3 DEF Typed
    <2> QED
      BY <1>0, <1>t, <1>1, <1>5, <1>6, <2>1, OthersPoint, OthersFork DEF Shape
  <1>8. FileInv'
    BY <1>0, <1>t, <1>1, <1>2 DEF Shape, Typed, FileInv
  <1>9. FreshInv'
    <2>1. ASSUME NEW q \in Procs, Fresh(q), NEW k \in 1..Len(local[q])
          PROVE  ref'[local[q][k]] = 1 /\ file'[local[q][k]].type = "FD_NONE"
      <3>1. ref[local[q][k]] = 1 /\ file[local[q][k]].type = "FD_NONE" /\ local[q][k] \in Files /\ local[q][k] # f
        BY <1>0, <1>2, <2>1 DEF Shape, Typed, FreshInv
      <3> QED
        BY <1>t, <1>1, <1>2, <3>1 DEF Typed
    <2>2. CASE ~Fresh(p)'
      BY <1>0, <1>5, <2>1, <2>2, OthersFresh DEF Shape
    <2>3. CASE Fresh(p)'
      <3>1. ref'[f] = 1 /\ file'[f].type = "FD_NONE"
        BY <1>t, <1>1, <1>2 DEF Typed
      <3>2. /\ \A k \in 1..Len(local'[p]) : ref'[local'[p][k]] = 1 /\ file'[local'[p][k]].type = "FD_NONE"
            /\ Len(local'[p]) = 2 => local'[p][1] # local'[p][2]
        <4>1. CASE pc[p] \in {"open", "user"}
          BY <1>4, <3>1, <4>1
        <4>2. CASE pc[p] = "pipe_f1"
          <5>1. PICK a \in Files : local[p] = <<a>> /\ local'[p] = <<a, f>>
            BY <1>4, <4>2
          <5>2. Fresh(p) /\ 1 \in 1..Len(local[p]) /\ local[p][1] = a
            BY <4>2, <5>1 DEF Fresh
          <5>3. ref'[a] = 1 /\ file'[a].type = "FD_NONE" /\ a # f
            BY <1>2, <2>1, <5>2
          <5> QED
            BY <3>1, <5>1, <5>3
        <4> QED
          BY <1>3, <4>1, <4>2
      <3>3. ASSUME NEW q \in Procs \ {p}, Fresh(q)'
            PROVE  /\ \A k \in 1..Len(local'[q]) : ref'[local'[q][k]] = 1 /\ file'[local'[q][k]].type = "FD_NONE"
                   /\ Len(local'[q]) = 2 => local'[q][1] # local'[q][2]
        <4>1. local'[q] = local[q] /\ Fresh(q)
          BY <1>5, <3>3 DEF Others, Fresh
        <4> QED
          BY <1>0, <2>1, <4>1 DEF Shape, FreshInv
      <3> QED
        BY <3>2, <3>3 DEF FreshInv
    <2> QED
      BY <2>2, <2>3
  <1>10. RefCounts'
    <2>1. \A d \in FDs : Held'[<<p, d>>] = Held[<<p, d>>]
      <3>1. pc[p] \notin {"dup", "exit_close"} /\ pc'[p] \notin {"dup", "exit_close"}
        BY <1>t, <1>3 DEF Typed
      <3> QED
        BY <1>1, <3>1, HeldAt DEF Uncounted
    <2>2. \A x \in Cells : Held'[x] = Held[x]
      BY <1>5, <2>1, SameHeld
    <2>3. \/ Kept[<<p, 1>>] = 0 /\ Kept[<<p, 2>>] = 0 /\ Kept'[<<p, 1>>] = f /\ Kept'[<<p, 2>>] = 0
          \/ Kept[<<p, 1>>] = Kept'[<<p, 1>>] /\ Kept[<<p, 2>>] = 0 /\ Kept'[<<p, 2>>] = f
      <3>1. CASE pc[p] \in {"open", "user"}
        BY <1>4, <3>1, KeptAt
      <3>2. CASE pc[p] = "pipe_f1"
        <4>1. PICK a \in Files : local[p] = <<a>> /\ local'[p] = <<a, f>>
          BY <1>4, <3>2
        <4>2. Len(local[p]) = 1 /\ local[p][1] = a /\ Len(local'[p]) = 2 /\ local'[p][1] = a /\ local'[p][2] = f
          BY <4>1
        <4>3. Kept[<<p, 1>>] = a /\ Kept[<<p, 2>>] = 0 /\ Kept'[<<p, 1>>] = a /\ Kept'[<<p, 2>>] = f
          BY <4>2, KeptAt
        <4> QED
          BY <4>2, <4>3
      <3> QED
        BY <1>3, <3>1, <3>2
    <2>4. ASSUME NEW g \in Files
          PROVE  ref'[g] = ref[g] + One(Held'[<<p, 0>>], g) - One(Held[<<p, 0>>], g)
                       + One(Kept'[<<p, 1>>], g) + One(Kept'[<<p, 2>>], g) - One(Kept[<<p, 1>>], g) - One(Kept[<<p, 2>>], g)
      <3>1. ref'[g] = ref[g] + One(f, g) /\ ref[g] \in Int
        BY <1>t, <1>2 DEF Typed, One
      <3>2. One(Held'[<<p, 0>>], g) = One(Held[<<p, 0>>], g)
        BY <2>2, FirstCell
      <3>3. One(0, g) = 0
        BY OneFacts DEF Files
      <3>4. /\ One(f, g) \in {0, 1} /\ One(Kept[<<p, 1>>], g) \in {0, 1} /\ One(Held[<<p, 0>>], g) \in {0, 1}
        BY OneFacts
      <3>5. One(Kept'[<<p, 1>>], g) + One(Kept'[<<p, 2>>], g) - One(Kept[<<p, 1>>], g) - One(Kept[<<p, 2>>], g) = One(f, g)
        BY <2>3, <3>3, <3>4
      <3>6. One(Kept'[<<p, 1>>], g) \in {0, 1} /\ One(Kept'[<<p, 2>>], g) \in {0, 1} /\ One(Kept[<<p, 2>>], g) \in {0, 1}
        BY OneFacts
      <3> QED
        BY <3>1, <3>2, <3>4, <3>5, <3>6
    <2> QED
      BY <1>0, <1>t, <1>5, <2>2, <2>4, FirstCell, RefStep DEF Others
  <1>11. InoCounts' /\ PipeCounts'
    BY <1>0, <1>1, SameObjects
  <1> QED
    BY <1>5, <1>7, <1>8, <1>9, <1>10, <1>11, Join DEF Shape

LEMMA OpenFileInv ==
    ASSUME IInv, NEW p \in Procs, open_file(p)
    PROVE  IInv'
  <1>0. Shape /\ RefCounts /\ InoCounts /\ PipeCounts
    BY Split
  <1>t. Typed /\ Point(p)
    BY <1>0 DEF Shape, PointInv
  <1>1. UNCHANGED <<cwd, pipe, iref, fd, local, ff, np>> /\ filealloc /\ FreeFDs(p) # {} /\ pc[p] = "open"
    BY DEF open_file
  <1>2. PICK f \in Files : /\ f = NewFile /\ ref[f] = 0 /\ ref' = [ref EXCEPT ![f] = 1]
                           /\ file[f] \in File /\ file[f].type = "FD_NONE"
                           /\ \A q \in Procs : Fresh(q) => \A k \in 1..Len(local[q]) : local[q][k] # f
    BY <1>0, <1>1, Alloc
  <1>3. PICK d \in FDs : d = fdalloc(p) /\ ofile[p][d] = 0
    BY <1>1, FdAlloc
  <1>4. PICK j \in Inodes : j = ip[p]
    BY <1>t, <1>1 DEF Typed, Point
  <1>5. PICK y \in File : /\ y.type \in {"FD_INODE", "FD_DEVICE"} /\ y.obj = j
                          /\ file' = [file EXCEPT ![f] = y]
    <2> DEFINE z == [type |-> IF ip[p] \in Devices THEN "FD_DEVICE" ELSE "FD_INODE", obj |-> ip[p], end |-> "r"]
    <2>1. z \in File /\ z.type \in {"FD_INODE", "FD_DEVICE"} /\ z.obj = j
      BY <1>4 DEF File, Types, Ends
    <2>2. file' = [file EXCEPT ![f] = z]
      BY <1>2 DEF open_file
    <2> HIDE DEF z
    <2> QED
      BY <2>1, <2>2
  <1>6. /\ ofile' = [ofile EXCEPT ![p][d] = f] /\ ip' = [ip EXCEPT ![p] = None]
        /\ pc' = [pc EXCEPT ![p] = "user"]
    BY <1>2, <1>3 DEF open_file, Goto
  <1>7. Typed' /\ Others(p)
    <2>1. pc' \in [Procs -> Points] /\ \A q \in Procs \ {p} : pc'[q] = pc[q]
      BY <1>t, <1>6 DEF Typed, Points
    <2>2. ref' \in [Files -> Nat] /\ file' \in [Files -> File]
      BY <1>t, <1>2, <1>5 DEF Typed
    <2>3. ofile' \in [Procs -> [FDs -> Files \cup {0}]] /\ \A q \in Procs \ {p} : ofile'[q] = ofile[q]
      BY <1>t, <1>6 DEF Typed
    <2>4. ip' \in [Procs -> Inodes \cup {None}] /\ \A q \in Procs \ {p} : ip'[q] = ip[q]
      BY <1>t, <1>6 DEF Typed
    <2> QED
      BY <1>t, <1>1, <2>1, <2>2, <2>3, <2>4 DEF Typed, Others
  <1>8. pc'[p] = "user" /\ ip'[p] = None /\ local[p] = <<>> /\ ff[p] = None
    BY <1>t, <1>1, <1>6 DEF Typed, Point, Closers
  <1>9. Point(p)'
    BY <1>t, <1>1, <1>8 DEF Point, Closers
  <1>10. PointInv' /\ ForkInv'
    BY <1>0, <1>t, <1>1, <1>7, <1>8, <1>9, OthersPoint, OthersFork DEF Shape
  <1>11. FileInv'
    <2>1. ASSUME NEW h \in Files PROVE WellTyped(file'[h]) /\ (ref'[h] = 0 => file'[h].type = "FD_NONE")
      <3>1. CASE h = f
        BY <1>t, <1>2, <1>5, <3>1 DEF Typed, WellTyped
      <3>2. CASE h # f
        BY <1>0, <1>t, <1>2, <1>5, <3>2 DEF Shape, FileInv, Typed
      <3> QED
        BY <3>1, <3>2
    <2> QED
      BY <1>0, <1>1, <2>1 DEF Shape, FileInv, WellTyped
  <1>12. FreshInv'
    <2>1. ASSUME NEW q \in Procs, Fresh(q), NEW k \in 1..Len(local[q])
          PROVE  ref'[local[q][k]] = 1 /\ file'[local[q][k]].type = "FD_NONE"
      <3>1. ref[local[q][k]] = 1 /\ file[local[q][k]].type = "FD_NONE" /\ local[q][k] \in Files /\ local[q][k] # f
        BY <1>0, <1>2, <2>1 DEF Shape, Typed, FreshInv
      <3> QED
        BY <1>t, <1>2, <1>5, <3>1 DEF Typed
    <2>2. ~Fresh(p)'
      BY <1>8 DEF Fresh
    <2> QED
      BY <1>0, <1>7, <2>1, <2>2, OthersFresh DEF Shape
  <1>13. RefCounts'
    <2> DEFINE x == <<p, d>>
    <2>1. x \in Cells /\ Held[x] = 0 /\ Held'[x] = f
      <3>1. ~Uncounted(p, d) /\ ~Uncounted(p, d)' /\ ofile'[p][d] = f
        BY <1>t, <1>1, <1>6, <1>8 DEF Uncounted, Typed
      <3> QED
        BY <1>3, <3>1, HeldAt
    <2>2. ASSUME NEW c \in FDs, c # d PROVE Held'[<<p, c>>] = Held[<<p, c>>]
      <3>1. ~Uncounted(p, c) /\ ~Uncounted(p, c)' /\ ofile'[p][c] = ofile[p][c]
        BY <1>t, <1>1, <1>6, <1>8, <2>2 DEF Uncounted, Typed
      <3> QED
        BY <3>1, HeldAt
    <2>3. \A w \in Cells \ {x} : Held'[w] = Held[w]
      BY <1>7, <2>2, OthersHeld, Pairs
    <2>4. \A w \in Locs : Kept'[w] = Kept[w]
      BY <1>1 DEF Kept
    <2>5. ASSUME NEW g \in Files
          PROVE  ref'[g] = ref[g] + One(Held'[x], g) - One(Held[x], g)
                       + One(Kept'[<<p, 1>>], g) + One(Kept'[<<p, 2>>], g) - One(Kept[<<p, 1>>], g) - One(Kept[<<p, 2>>], g)
      <3>1. ref'[g] = ref[g] + One(f, g) /\ ref[g] \in Int
        BY <1>t, <1>2 DEF Typed, One
      <3>2. One(Kept'[<<p, 1>>], g) = One(Kept[<<p, 1>>], g) /\ One(Kept'[<<p, 2>>], g) = One(Kept[<<p, 2>>], g)
        BY <2>4, KeptAt
      <3>3. One(0, g) = 0
        BY OneFacts DEF Files
      <3>4. One(f, g) \in {0, 1} /\ One(Kept[<<p, 1>>], g) \in {0, 1} /\ One(Kept[<<p, 2>>], g) \in {0, 1}
        BY OneFacts
      <3> HIDE DEF x
      <3> QED
        BY <2>1, <3>1, <3>2, <3>3, <3>4
    <2> HIDE DEF x
    <2> QED
      BY <1>0, <1>t, <1>1, <2>1, <2>3, <2>5, RefStep
  <1>14. OthersObjects(p) /\ \A h \in Files \ {f} : file'[h] = file[h]
    BY <1>t, <1>5, <1>7 DEF Typed, Others, OthersObjects
  <1>15. FileIno[f] = None /\ FileIno'[f] = j /\ FilePipe[f] = <<None, "r">> /\ FilePipe'[f] = <<None, "r">>
    BY <1>t, <1>2, <1>5 DEF Typed, FileIno, FilePipe, InoOf, PipeOf
  <1>16. InoCounts'
    <2>1. ASSUME NEW i \in Inodes
          PROVE  iref'[i] = iref[i] + One(FileIno'[f], i) - One(FileIno[f], i) + One(CloseIno'[p], i) - One(CloseIno[p], i)
                        + One(ip'[p], i) - One(ip[p], i) + One(cwd'[p], i) - One(cwd[p], i)
      <3>1. One(CloseIno'[p], i) = One(CloseIno[p], i) /\ One(cwd'[p], i) = One(cwd[p], i)
        BY <1>1 DEF CloseIno
      <3>2. One(CloseIno[p], i) \in {0, 1} /\ One(cwd[p], i) \in {0, 1} /\ One(j, i) \in {0, 1}
        BY OneFacts
      <3>3. One(None, i) = 0 /\ iref[i] \in Int /\ iref' = iref
        BY <1>t, <1>1, OneFacts, Consts DEF Typed
      <3> QED
        BY <1>4, <1>8, <1>15, <3>1, <3>2, <3>3
    <2> QED
      BY <1>0, <1>t, <1>14, <2>1, InoStep
  <1>17. PipeCounts'
    <2>1. \A h \in Files : FilePipe'[h] = FilePipe[h]
      BY <1>14, <1>15 DEF FilePipe
    <2>2. ClosePipe' = ClosePipe
      BY <1>1 DEF ClosePipe
    <2>3. \A v : Count(Files, FilePipe', v) = Count(Files, FilePipe, v)
      BY <2>1, CountSame
    <2> QED
      BY <1>0, <1>1, <2>2, <2>3 DEF PipeCounts
  <1> QED
    BY <1>7, <1>10, <1>11, <1>12, <1>13, <1>16, <1>17, Join DEF Shape

-----------------------------------------------------------------------------
(* Descriptors                                                             *)

(* References change hands within p: no count, no file and no object does. *)
LEMMA CellOnly ==
    ASSUME IInv, NEW p \in Procs, UNCHANGED <<ref, file, cwd, pipe, iref, ff, ip, np>>, Typed', Others(p), Point(p)',
           pc[p] \notin {"fork", "embryo"}, pc'[p] # "fork", ~Fresh(p)', RefCounts'
    PROVE  IInv'
  <1>0. Shape /\ RefCounts /\ InoCounts /\ PipeCounts
    BY Split
  <1>1. PointInv' /\ ForkInv'
    BY <1>0, OthersPoint, OthersFork DEF Shape
  <1>2. FileInv'
    BY <1>0 DEF Shape, FileInv
  <1>3. FreshInv'
    BY <1>0, SameFresh DEF Shape
  <1>4. InoCounts' /\ PipeCounts'
    BY <1>0, SameObjects
  <1> QED
    BY <1>1, <1>2, <1>3, <1>4, Join DEF Shape

LEMMA CellStep ==
    ASSUME Typed, RefCounts, NEW p \in Procs, Others(p), ref' = ref, NEW d \in FDs,
           \A c \in FDs \ {d} : Held'[<<p, c>>] = Held[<<p, c>>],
           \/ Held'[<<p, d>>] = Held[<<p, d>>] /\ local' = local
           \/ /\ Held'[<<p, d>>] = 0 /\ local[p] = <<>>
              /\ local'[p] = <<Held[<<p, d>>]>>
    PROVE  RefCounts'
  <1> DEFINE x == <<p, d>>
  <1>1. x \in Cells
    BY DEF Cells
  <1>2. \A y \in Cells \ {x} : Held'[y] = Held[y]
    BY OthersHeld, Pairs
  <1>3. \A q \in Procs \ {p} : local'[q] = local[q]
    BY DEF Others
  <1>4. \/ Held'[x] = Held[x] /\ Kept'[<<p, 1>>] = Kept[<<p, 1>>] /\ Kept'[<<p, 2>>] = Kept[<<p, 2>>]
        \/ /\ Held'[x] = 0 /\ Kept[<<p, 1>>] = 0 /\ Kept'[<<p, 1>>] = Held[x]
           /\ Kept'[<<p, 2>>] = 0 /\ Kept[<<p, 2>>] = 0
    <2>1. CASE Held'[<<p, d>>] = Held[<<p, d>>] /\ local' = local
      BY <2>1 DEF Kept
    <2>2. CASE /\ Held'[<<p, d>>] = 0 /\ local[p] = <<>>
               /\ local'[p] = <<Held[<<p, d>>]>>
      <3>1. Len(local[p]) = 0 /\ Len(local'[p]) = 1 /\ local'[p][1] = Held[x]
        BY <2>2
      <3> QED
        BY <2>2, <3>1, KeptAt
    <2> QED
      BY <2>1, <2>2
  <1> HIDE DEF x
  <1>5. ASSUME NEW g \in Files
        PROVE  ref'[g] = ref[g] + One(Held'[x], g) - One(Held[x], g)
                     + One(Kept'[<<p, 1>>], g) + One(Kept'[<<p, 2>>], g) - One(Kept[<<p, 1>>], g) - One(Kept[<<p, 2>>], g)
    <2>1. One(0, g) = 0 /\ ref[g] \in Int
      BY OneFacts DEF Files, Typed
    <2>2. /\ One(Held[x], g) \in {0, 1} /\ One(Held'[x], g) \in {0, 1}
          /\ One(Kept[<<p, 1>>], g) \in {0, 1} /\ One(Kept'[<<p, 1>>], g) \in {0, 1}
          /\ One(Kept[<<p, 2>>], g) \in {0, 1} /\ One(Kept'[<<p, 2>>], g) \in {0, 1}
      BY OneFacts
    <2> QED
      BY <1>4, <2>1, <2>2
  <1> QED
    BY <1>1, <1>2, <1>3, <1>5, RefStep

LEMMA DupInv ==
    ASSUME IInv, NEW p \in Procs, NEW c \in FDs, dup(p, c)
    PROVE  IInv'
  <1>0. Shape /\ RefCounts /\ InoCounts /\ PipeCounts
    BY Split
  <1>t. Typed /\ Point(p)
    BY <1>0 DEF Shape, PointInv
  <1>1. /\ UNCHANGED <<ref, file, cwd, pipe, iref, local, ff, ip, np>> /\ FreeFDs(p) # {}
        /\ pc[p] = "user" /\ ofile[p][c] # 0 /\ local[p] = <<>> /\ ff[p] = None
    BY DEF dup, Idle, Closed
  <1>2. PICK d \in FDs : d = fdalloc(p) /\ ofile[p][d] = 0
    BY <1>1, FdAlloc
  <1>3. /\ ofile' = [ofile EXCEPT ![p][d] = ofile[p][c]] /\ fd' = [fd EXCEPT ![p] = d]
        /\ pc' = [pc EXCEPT ![p] = "dup"]
    BY <1>2 DEF dup, Goto
  <1>4. c # d /\ ofile'[p][d] = ofile[p][c] /\ (\A e \in FDs \ {d} : ofile'[p][e] = ofile[p][e]) /\ fd'[p] = d /\ pc'[p] = "dup"
    BY <1>t, <1>1, <1>2, <1>3 DEF Typed
  <1>5. Typed' /\ Others(p)
    <2>1. pc' \in [Procs -> Points] /\ \A q \in Procs \ {p} : pc'[q] = pc[q]
      BY <1>t, <1>3 DEF Typed, Points
    <2>2. ofile' \in [Procs -> [FDs -> Files \cup {0}]] /\ \A q \in Procs \ {p} : ofile'[q] = ofile[q]
      BY <1>t, <1>3 DEF Typed
    <2>3. fd' \in [Procs -> 0..NOFILE] /\ \A q \in Procs \ {p} : fd'[q] = fd[q]
      <3>1. d \in 0..NOFILE
        BY Consts DEF FDs
      <3> QED
        BY <1>t, <1>3, <3>1 DEF Typed
    <2> QED
      BY <1>t, <1>1, <2>1, <2>2, <2>3 DEF Typed, Others
  <1>6. Point(p)'
    <2>1. \E e \in FDs \ {fd'[p]} : ofile'[p][e] = ofile'[p][fd'[p]]
      BY <1>4
    <2> QED
      BY <1>t, <1>1, <1>4, <2>1 DEF Point, Closers
  <1>7. RefCounts'
    <2>1. ASSUME NEW e \in FDs PROVE Held'[<<p, e>>] = Held[<<p, e>>]
      <3>1. Held[<<p, e>>] = ofile[p][e]
        BY <1>1, HeldAt DEF Uncounted
      <3>2. Held'[<<p, e>>] = IF e = d THEN 0 ELSE ofile'[p][e]
        BY <1>4, HeldAt DEF Uncounted
      <3> QED
        BY <1>2, <1>4, <3>1, <3>2
    <2> QED
      BY <1>0, <1>1, <1>5, <2>1, SameHeld, SameRefs
  <1>8. ~Fresh(p)'
    BY <1>4 DEF Fresh
  <1> QED
    BY <1>1, <1>4, <1>5, <1>6, <1>7, <1>8, CellOnly

LEMMA CloseInv ==
    ASSUME IInv, NEW p \in Procs, NEW d \in FDs, close(p, d)
    PROVE  IInv'
  <1>0. Shape /\ RefCounts /\ InoCounts /\ PipeCounts
    BY Split
  <1>t. Typed /\ Point(p)
    BY <1>0 DEF Shape, PointInv
  <1>1. /\ UNCHANGED <<ref, file, cwd, pipe, iref, pc, fd, ff, ip, np>>
        /\ pc[p] = "user" /\ ofile[p][d] # 0 /\ local[p] = <<>> /\ ff[p] = None
        /\ ofile' = [ofile EXCEPT ![p][d] = 0] /\ local' = [local EXCEPT ![p] = <<ofile[p][d]>>]
    BY DEF close, Idle, Closed
  <1>2. PICK f \in Files : ofile[p][d] = f
    BY <1>t, <1>1 DEF Typed
  <1>3. local'[p] = <<f>> /\ ofile'[p][d] = 0 /\ \A e \in FDs \ {d} : ofile'[p][e] = ofile[p][e]
    BY <1>t, <1>1, <1>2 DEF Typed
  <1>4. Typed' /\ Others(p)
    <2>1. ofile' \in [Procs -> [FDs -> Files \cup {0}]] /\ \A q \in Procs \ {p} : ofile'[q] = ofile[q]
      BY <1>t, <1>1 DEF Typed
    <2>2. local' \in [Procs -> Seq(Files)] /\ \A q \in Procs \ {p} : local'[q] = local[q]
      <3>1. <<f>> \in Seq(Files)
        OBVIOUS
      <3> QED
        BY <1>t, <1>1, <1>2, <3>1 DEF Typed
    <2> QED
      BY <1>t, <1>1, <2>1, <2>2 DEF Typed, Others
  <1>5. Point(p)'
    <2>1. Len(local'[p]) = 1
      BY <1>3
    <2> QED
      BY <1>t, <1>1, <2>1 DEF Point, Closers
  <1>6. RefCounts'
    <2>1. ASSUME NEW e \in FDs PROVE Held'[<<p, e>>] = ofile'[p][e] /\ Held[<<p, e>>] = ofile[p][e]
      BY <1>1, HeldAt DEF Uncounted
    <2>2. \A e \in FDs \ {d} : Held'[<<p, e>>] = Held[<<p, e>>]
      BY <1>3, <2>1
    <2>3. Held'[<<p, d>>] = 0 /\ Held[<<p, d>>] = f
      BY <1>2, <1>3, <2>1
    <2> QED
      BY <1>0, <1>t, <1>1, <1>3, <1>4, <2>2, <2>3, CellStep
  <1>7. ~Fresh(p)'
    BY <1>1 DEF Fresh
  <1> QED
    BY <1>1, <1>4, <1>5, <1>6, <1>7, CellOnly

LEMMA ExitInv ==
    ASSUME IInv, NEW p \in Procs, exit_close(p) \/ exit_clear(p)
    PROVE  IInv'
  <1>0. Shape /\ RefCounts /\ InoCounts /\ PipeCounts
    BY Split
  <1>t. Typed /\ Point(p)
    BY <1>0 DEF Shape, PointInv
  <1>1. UNCHANGED <<ref, file, cwd, pipe, iref, ff, ip, np>> /\ pc[p] \in {"exit", "exit_close"}
    BY DEF exit_close, exit_clear
  <1>2. PICK d \in FDs : d = fd[p]
    <2>1. fd[p] \in 0..NOFILE /\ NOFILE \in Nat
      BY <1>t, Consts DEF Typed
    <2>2. CASE exit_close(p)
      BY <2>1, <2>2 DEF exit_close, FDs
    <2>3. CASE exit_clear(p)
      BY <1>t, <2>3 DEF exit_clear, Point
    <2> QED
      BY <2>2, <2>3
  <1>3. CASE exit_close(p) /\ ofile[p][d] = 0
    <2>1. fd' = [fd EXCEPT ![p] = d + 1] /\ UNCHANGED <<local, pc, ofile>> /\ pc[p] = "exit"
      BY <1>2, <1>3 DEF exit_close
    <2>2. Typed' /\ Others(p)
      <3>1. d + 1 \in 0..NOFILE
        BY Consts DEF FDs
      <3> QED
        BY <1>t, <1>1, <2>1, <3>1 DEF Typed, Others
    <2>3. Point(p)'
      <3>1. fd'[p] = d + 1
        BY <1>t, <2>1 DEF Typed
      <3>2. \A e \in FDs : e < d + 1 => ofile[p][e] = 0
        <4>1. \A e \in FDs : e < d + 1 => e = d \/ e < d
          BY Consts DEF FDs
        <4> QED
          BY <1>t, <1>2, <1>3, <2>1, <4>1 DEF Point
      <3> QED
        BY <1>t, <1>1, <2>1, <3>1, <3>2 DEF Point, Closers
    <2>4. RefCounts'
      <3>1. \A e \in FDs : Held'[<<p, e>>] = Held[<<p, e>>]
        BY <2>1, HeldAt DEF Uncounted
      <3> QED
        BY <1>0, <1>1, <2>1, <2>2, <3>1, SameHeld, SameRefs
    <2>5. ~Fresh(p)'
      BY <2>1 DEF Fresh
    <2> QED
      BY <1>1, <2>1, <2>2, <2>3, <2>4, <2>5, CellOnly
  <1>4. CASE exit_close(p) /\ ofile[p][d] # 0
    <2>1. /\ local' = [local EXCEPT ![p] = <<ofile[p][d]>>] /\ pc' = [pc EXCEPT ![p] = "exit_close"]
          /\ UNCHANGED <<fd, ofile>> /\ pc[p] = "exit"
      BY <1>2, <1>4 DEF exit_close, Goto
    <2>2. PICK f \in Files : ofile[p][d] = f
      BY <1>t, <1>4 DEF Typed
    <2>3. local'[p] = <<f>> /\ pc'[p] = "exit_close" /\ local[p] = <<>> /\ ff[p] = None
      BY <1>t, <2>1, <2>2 DEF Typed, Point, Closers
    <2>4. Typed' /\ Others(p)
      <3>1. <<f>> \in Seq(Files) /\ "exit_close" \in Points
        BY DEF Points
      <3> QED
        BY <1>t, <1>1, <2>1, <2>2, <3>1 DEF Typed, Others
    <2>5. Point(p)'
      <3>1. Len(local'[p]) = 1
        BY <2>3
      <3> QED
        BY <1>t, <1>1, <1>2, <1>4, <2>1, <2>3, <3>1 DEF Point, Closers
    <2>6. RefCounts'
      <3>1. \A e \in FDs \ {d} : Held'[<<p, e>>] = Held[<<p, e>>]
        BY <1>2, <2>1, <2>3, HeldAt DEF Uncounted
      <3>2. Held'[<<p, d>>] = 0 /\ Held[<<p, d>>] = f
        BY <1>2, <2>1, <2>2, <2>3, HeldAt DEF Uncounted
      <3> QED
        BY <1>0, <1>t, <1>1, <2>3, <2>4, <3>1, <3>2, CellStep
    <2>7. ~Fresh(p)'
      BY <2>3 DEF Fresh
    <2> QED
      BY <1>1, <2>1, <2>3, <2>4, <2>5, <2>6, <2>7, CellOnly
  <1>5. CASE exit_clear(p)
    <2>1. /\ ofile' = [ofile EXCEPT ![p][d] = 0] /\ pc' = [pc EXCEPT ![p] = "exit"]
          /\ UNCHANGED <<fd, local>> /\ pc[p] = "exit_close" /\ local[p] = <<>> /\ ff[p] = None
      BY <1>2, <1>5 DEF exit_clear, Goto, Closed
    <2>2. pc'[p] = "exit" /\ ofile'[p][d] = 0 /\ \A e \in FDs \ {d} : ofile'[p][e] = ofile[p][e]
      BY <1>t, <2>1 DEF Typed
    <2>3. Typed' /\ Others(p)
      <3>1. ofile' \in [Procs -> [FDs -> Files \cup {0}]] /\ \A q \in Procs \ {p} : ofile'[q] = ofile[q]
        BY <1>t, <2>1 DEF Typed
      <3>2. pc' \in [Procs -> Points] /\ \A q \in Procs \ {p} : pc'[q] = pc[q]
        BY <1>t, <2>1 DEF Typed, Points
      <3> QED
        BY <1>t, <1>1, <2>1, <3>1, <3>2 DEF Typed, Others
    <2>4. Point(p)'
      <3>1. \A e \in FDs : e < fd[p] => ofile'[p][e] = 0
        BY <1>t, <2>1, <2>2 DEF Point
      <3> QED
        BY <1>t, <1>1, <2>1, <2>2, <3>1 DEF Point, Closers
    <2>5. RefCounts'
      <3>1. ASSUME NEW e \in FDs PROVE Held'[<<p, e>>] = Held[<<p, e>>]
        <4>1. Held'[<<p, e>>] = ofile'[p][e]
          BY <2>2, HeldAt DEF Uncounted
        <4>2. Held[<<p, e>>] = IF e = d THEN 0 ELSE ofile[p][e]
          BY <1>2, <2>1, HeldAt DEF Uncounted
        <4> QED
          BY <2>2, <4>1, <4>2
      <3> QED
        BY <1>0, <1>1, <2>1, <2>3, <3>1, SameHeld, SameRefs
    <2>6. ~Fresh(p)'
      BY <2>2 DEF Fresh
    <2> QED
      BY <1>1, <2>1, <2>2, <2>3, <2>4, <2>5, <2>6, CellOnly
  <1> QED
    BY <1>3, <1>4, <1>5

LEMMA TwoFree ==
    ASSUME NEW p \in Procs, Cardinality(FreeFDs(p)) >= 2
    PROVE  /\ fdalloc(p) \in FDs /\ ofile[p][fdalloc(p)] = 0
           /\ Min(FreeFDs(p) \ {fdalloc(p)}) \in FDs \ {fdalloc(p)}
           /\ ofile[p][Min(FreeFDs(p) \ {fdalloc(p)})] = 0
  <1> DEFINE S == FreeFDs(p)
  <1>1. S \in SUBSET Nat /\ S \in SUBSET FDs /\ \A d \in S : ofile[p][d] = 0
    BY DEF FreeFDs, FDs
  <1>2. IsFiniteSet(S)
    <2>1. \A a, b \in Int : IsFiniteSet(a..b)
      BY FS_Interval
    <2>2. 0 \in Int /\ NOFILE - 1 \in Int
      BY Consts
    <2>3. IsFiniteSet(FDs)
      BY <2>1, <2>2, Zenon DEF FDs
    <2> HIDE DEF S
    <2> QED
      BY <1>1, <2>3, FS_Subset
  <1>3. S # {}
    BY FS_EmptySet
  <1>4. PICK c \in S : c = fdalloc(p)
    BY <1>1, <1>3, Least DEF fdalloc
  <1>5. S \ {c} # {}
    <2> HIDE DEF S
    <2>1. IsFiniteSet(S \ {c}) /\ Cardinality(S \ {c}) = Cardinality(S) - 1 /\ Cardinality(S) \in Nat
      BY <1>2, FS_RemoveElement, FS_CardinalityType
    <2>2. Cardinality(S) >= 2
      BY DEF S
    <2>3. Cardinality(S \ {c}) # 0
      BY <2>1, <2>2
    <2> QED
      BY <2>3, FS_EmptySet
  <1>6. Min(S \ {c}) \in S \ {c}
    <2>1. S \ {c} \in SUBSET Nat
      BY <1>1
    <2> QED
      BY <1>5, <2>1, Least
  <1> QED
    BY <1>1, <1>4, <1>6

LEMMA TwoLocals ==
    ASSUME Typed, NEW p \in Procs, Point(p), pc[p] \in {"pipe_page", "pipe_fd"}
    PROVE  \E a, b \in Files : local[p] = <<a, b>> /\ Len(local[p]) = 2 /\ local[p][1] = a /\ local[p][2] = b
  <1>1. local[p] \in Seq(Files) /\ Len(local[p]) = 2
    BY DEF Typed, Point
  <1>2. local[p][1] \in Files /\ local[p][2] \in Files /\ local[p] = <<local[p][1], local[p][2]>>
    BY <1>1
  <1> QED
    BY <1>1, <1>2

LEMMA PipeOkInv ==
    ASSUME IInv, NEW p \in Procs, pipe_ok(p)
    PROVE  IInv'
  <1>0. Shape /\ RefCounts /\ InoCounts /\ PipeCounts
    BY Split
  <1>t. Typed /\ Point(p)
    BY <1>0 DEF Shape, PointInv
  <1>1. /\ UNCHANGED <<ref, file, cwd, pipe, iref, fd, ff, ip, np>> /\ pc[p] = "pipe_fd"
        /\ local' = [local EXCEPT ![p] = <<>>] /\ pc' = [pc EXCEPT ![p] = "user"]
    BY DEF pipe_ok, Goto
  <1>2. PICK a, b \in Files : local[p] = <<a, b>> /\ Len(local[p]) = 2 /\ local[p][1] = a /\ local[p][2] = b
    BY <1>t, <1>1, TwoLocals
  <1>3. PICK c, d \in FDs : /\ c = fdalloc(p) /\ d = Min(FreeFDs(p) \ {fdalloc(p)}) /\ c # d
                            /\ ofile[p][c] = 0 /\ ofile[p][d] = 0
    BY TwoFree DEF pipe_ok
  <1>4. ofile' = [ofile EXCEPT ![p] = [ofile[p] EXCEPT ![c] = a, ![d] = b]]
    BY <1>2, <1>3 DEF pipe_ok, WithPipe
  <1>5. /\ ofile'[p][c] = a /\ ofile'[p][d] = b /\ \A e \in FDs \ {c, d} : ofile'[p][e] = ofile[p][e]
        /\ pc'[p] = "user" /\ local'[p] = <<>>
    BY <1>t, <1>1, <1>3, <1>4 DEF Typed
  <1>6. Typed' /\ Others(p)
    <2>1. ofile' \in [Procs -> [FDs -> Files \cup {0}]] /\ \A q \in Procs \ {p} : ofile'[q] = ofile[q]
      <3>1. [ofile[p] EXCEPT ![c] = a, ![d] = b] \in [FDs -> Files \cup {0}]
        BY <1>t DEF Typed
      <3> QED
        BY <1>t, <1>4, <3>1 DEF Typed
    <2>2. pc' \in [Procs -> Points] /\ \A q \in Procs \ {p} : pc'[q] = pc[q]
      BY <1>t, <1>1 DEF Typed, Points
    <2>3. local' \in [Procs -> Seq(Files)] /\ \A q \in Procs \ {p} : local'[q] = local[q]
      <3>1. <<>> \in Seq(Files)
        OBVIOUS
      <3> QED
        BY <1>t, <1>1, <3>1 DEF Typed
    <2> QED
      BY <1>t, <1>1, <2>1, <2>2, <2>3 DEF Typed, Others
  <1>7. Point(p)'
    BY <1>t, <1>1, <1>5 DEF Point, Closers
  <1>8. RefCounts'
    <2> DEFINE x == <<p, c>>
               z == <<p, d>>
               k == <<p, 1>>
               l == <<p, 2>>
    <2>1. ASSUME NEW e \in FDs PROVE Held'[<<p, e>>] = ofile'[p][e] /\ Held[<<p, e>>] = ofile[p][e]
      BY <1>1, <1>5, HeldAt DEF Uncounted
    <2>2. \A y \in Cells \ {x, z} : Held'[y] = Held[y]
      BY <1>5, <1>6, <2>1, OthersHeld, Pairs
    <2>3. Held'[x] = a /\ Held[x] = 0 /\ Held'[z] = b /\ Held[z] = 0 /\ x \in Cells /\ z \in Cells /\ x # z
      BY <1>3, <1>5, <2>1 DEF Cells
    <2>4. Kept'[k] = 0 /\ Kept[k] = a /\ Kept'[l] = 0 /\ Kept[l] = b /\ k \in Locs /\ l \in Locs /\ k # l
      <3>1. Len(local'[p]) = 0
        BY <1>5
      <3> QED
        BY <1>2, <3>1, KeptAt
    <2>5. \A y \in Locs \ {k, l} : Kept'[y] = Kept[y]
      <3>1. \A y \in Locs \ {k, l} : y[1] # p
        BY Pairs
      <3> QED
        BY <1>6, <3>1, OthersKept
    <2> HIDE DEF x, z, k, l
    <2>6. ASSUME NEW f \in Files PROVE ref'[f] = Count(Cells, Held', f) + Count(Locs, Kept', f)
      <3>1. Count(Cells, Held', f) = Count(Cells, Held, f) + One(Held'[x], f) + One(Held'[z], f) - One(Held[x], f) - One(Held[z], f)
        BY <2>2, <2>3, CellsTwo
      <3>2. Count(Locs, Kept', f) = Count(Locs, Kept, f) + One(Kept'[k], f) + One(Kept'[l], f) - One(Kept[k], f) - One(Kept[l], f)
        BY <2>4, <2>5, LocsTwo
      <3>3. Count(Cells, Held, f) \in Nat /\ Count(Locs, Kept, f) \in Nat
        BY Finite, CountType
      <3>4. One(a, f) \in {0, 1} /\ One(b, f) \in {0, 1} /\ One(0, f) = 0
        BY OneFacts DEF Files
      <3>5. ref'[f] = Count(Cells, Held, f) + Count(Locs, Kept, f)
        BY <1>0, <1>1 DEF RefCounts
      <3> QED
        BY <2>3, <2>4, <3>1, <3>2, <3>3, <3>4, <3>5
    <2> QED
      BY <2>6 DEF RefCounts
  <1>9. ~Fresh(p)'
    BY <1>5 DEF Fresh
  <1> QED
    BY <1>1, <1>5, <1>6, <1>7, <1>8, <1>9, CellOnly

-----------------------------------------------------------------------------
(* Counts of files                                                         *)

(* Of a file that a pipe() has just allocated there is no other reference. *)
LEMMA Exclusive ==
    ASSUME Shape, RefCounts, NEW q \in Procs, Fresh(q), NEW k \in 1..Len(local[q])
    PROVE  /\ local[q][k] \in Files /\ ref[local[q][k]] = 1 /\ file[local[q][k]].type = "FD_NONE"
           /\ \A x \in Cells : Held[x] # local[q][k]
           /\ \A x \in Locs : Kept[x] = local[q][k] => x = <<q, k>>
  <1>0. Typed /\ Point(q)
    BY DEF Shape, PointInv
  <1>1. k \in 1..2 /\ k <= Len(local[q])
    <2> DEFINE n == Len(local[q])
    <2>1. (n = 1 \/ n = 2) /\ k \in 1..n
      BY <1>0 DEF Point, Fresh
    <2> HIDE DEF n
    <2>2. k \in 1..2 /\ k <= n
      BY <2>1
    <2> QED
      BY <2>2 DEF n
  <1>2. PICK g \in Files : g = local[q][k]
    BY <1>0 DEF Typed
  <1>3. ref[g] = 1 /\ file[g].type = "FD_NONE"
    BY <1>2 DEF Shape, FreshInv
  <1>4. Kept[<<q, k>>] = g /\ <<q, k>> \in Locs
    BY <1>1, <1>2, KeptAt
  <1>5. /\ Count(Cells, Held, g) \in Nat /\ Count(Locs, Kept, g) \in Nat
        /\ 1 = Count(Cells, Held, g) + Count(Locs, Kept, g)
    BY <1>3, Finite, CountType DEF RefCounts
  <1>6. Count(Locs, Kept, g) >= 1
    BY <1>4, Finite, CountOne
  <1>7. ASSUME NEW x \in Cells PROVE Held[x] # g
    <2>1. Held[x] = g => Count(Cells, Held, g) >= 1
      BY Finite, CountOne
    <2> QED
      BY <1>5, <1>6, <2>1
  <1>8. ASSUME NEW x \in Locs, Kept[x] = g PROVE x = <<q, k>>
    <2>1. x # <<q, k>> => Count(Locs, Kept, g) >= 2
      BY <1>4, <1>8, Finite, CountTwo
    <2> QED
      BY <1>5, <2>1
  <1> QED
    BY <1>2, <1>3, <1>7, <1>8

LEMMA DupRefInv ==
    ASSUME IInv, NEW p \in Procs, dup_ref(p)
    PROVE  IInv'
  <1>0. Shape /\ RefCounts /\ InoCounts /\ PipeCounts
    BY Split
  <1>t. Typed /\ Point(p)
    BY <1>0 DEF Shape, PointInv
  <1>1. /\ UNCHANGED <<file, ofile, cwd, pipe, iref, local, ff, ip, np>> /\ pc[p] = "dup"
        /\ fd' = [fd EXCEPT ![p] = 0] /\ pc' = [pc EXCEPT ![p] = "user"]
    BY DEF dup_ref, Goto
  <1>2. PICK d \in FDs : d = fd[p] /\ ofile[p][d] # 0
    BY <1>t, <1>1 DEF Point
  <1>3. PICK f \in Files : f = ofile[p][d]
    BY <1>t, <1>2 DEF Typed
  <1>4. PICK e \in FDs : e # d /\ ofile[p][e] = f
    BY <1>t, <1>1, <1>2, <1>3 DEF Point
  <1>5. ref' = [ref EXCEPT ![f] = @ + 1]
    BY <1>2, <1>3 DEF dup_ref, filedup
  <1>6. pc'[p] = "user" /\ fd'[p] = 0 /\ local[p] = <<>> /\ ff[p] = None
    BY <1>t, <1>1 DEF Typed, Point, Closers
  <1>7. Typed' /\ Others(p)
    <2>1. pc' \in [Procs -> Points] /\ \A q \in Procs \ {p} : pc'[q] = pc[q]
      BY <1>t, <1>1 DEF Typed, Points
    <2>2. ref' \in [Files -> Nat]
      BY <1>t, <1>5 DEF Typed
    <2>3. fd' \in [Procs -> 0..NOFILE] /\ \A q \in Procs \ {p} : fd'[q] = fd[q]
      <3>1. 0 \in 0..NOFILE
        BY Consts
      <3> QED
        BY <1>t, <1>1, <3>1 DEF Typed
    <2> QED
      BY <1>t, <1>1, <2>1, <2>2, <2>3 DEF Typed, Others
  <1>8. Point(p)'
    BY <1>t, <1>1, <1>6 DEF Point, Closers
  <1>9. PointInv' /\ ForkInv'
    BY <1>0, <1>t, <1>1, <1>6, <1>7, <1>8, OthersPoint, OthersFork DEF Shape
  <1>10. FileInv'
    <2>1. \A h \in Files : ref'[h] = 0 => ref[h] = 0
      BY <1>t, <1>5 DEF Typed
    <2> QED
      BY <1>0, <1>1, <2>1 DEF Shape, FileInv
  <1>11. FreshInv'
    <2>1. ASSUME NEW q \in Procs, Fresh(q), NEW k \in 1..Len(local[q])
          PROVE  ref'[local[q][k]] = 1 /\ file'[local[q][k]].type = "FD_NONE"
      <3>1. Held[<<p, e>>] = f /\ <<p, e>> \in Cells
        BY <1>1, <1>2, <1>4, HeldAt DEF Uncounted
      <3>2. local[q][k] \in Files /\ local[q][k] # f /\ ref[local[q][k]] = 1 /\ file[local[q][k]].type = "FD_NONE"
        BY <1>0, <2>1, <3>1, Exclusive
      <3> QED
        BY <1>t, <1>1, <1>5, <3>2 DEF Typed
    <2>2. ~Fresh(p)'
      BY <1>6 DEF Fresh
    <2> QED
      BY <1>0, <1>7, <2>1, <2>2, OthersFresh DEF Shape
  <1>12. RefCounts'
    <2> DEFINE x == <<p, d>>
    <2>1. x \in Cells /\ Held[x] = 0 /\ Held'[x] = f
      BY <1>1, <1>2, <1>3, <1>6, HeldAt DEF Uncounted
    <2>2. ASSUME NEW c \in FDs, c # d PROVE Held'[<<p, c>>] = Held[<<p, c>>]
      BY <1>1, <1>2, <1>6, <2>2, HeldAt DEF Uncounted
    <2>3. \A y \in Cells \ {x} : Held'[y] = Held[y]
      BY <1>7, <2>2, OthersHeld, Pairs
    <2>4. Kept' = Kept
      BY <1>1 DEF Kept
    <2> HIDE DEF x
    <2>5. ASSUME NEW g \in Files
          PROVE  ref'[g] = ref[g] + One(Held'[x], g) - One(Held[x], g)
                       + One(Kept'[<<p, 1>>], g) + One(Kept'[<<p, 2>>], g) - One(Kept[<<p, 1>>], g) - One(Kept[<<p, 2>>], g)
      <3>1. ref'[g] = ref[g] + One(f, g) /\ ref[g] \in Int
        BY <1>t, <1>5 DEF Typed, One
      <3>2. One(0, g) = 0
        BY OneFacts DEF Files
      <3>3. One(f, g) \in {0, 1} /\ One(Kept[<<p, 1>>], g) \in {0, 1} /\ One(Kept[<<p, 2>>], g) \in {0, 1}
        BY OneFacts
      <3> QED
        BY <2>1, <2>4, <3>1, <3>2, <3>3
    <2> QED
      BY <1>0, <1>t, <1>1, <2>1, <2>3, <2>5, RefStep
  <1>13. InoCounts' /\ PipeCounts'
    BY <1>0, <1>1, SameObjects
  <1> QED
    BY <1>7, <1>9, <1>10, <1>11, <1>12, <1>13, Join DEF Shape

LEMMA PipePageInv ==
    ASSUME IInv, NEW p \in Procs, NEW g \in Pages, pipe_page(p, g)
    PROVE  IInv'
  <1>0. Shape /\ RefCounts /\ InoCounts /\ PipeCounts
    BY Split
  <1>t. Typed /\ Point(p)
    BY <1>0 DEF Shape, PointInv
  <1>1. /\ UNCHANGED <<ref, ofile, cwd, iref, fd, local, ff, ip, np>> /\ pc[p] = "pipe_page" /\ pipe[g] = {}
        /\ pipe' = [pipe EXCEPT ![g] = Ends] /\ pc' = [pc EXCEPT ![p] = "pipe_fd"]
    BY DEF pipe_page, Goto
  <1>2. PICK a, b \in Files : local[p] = <<a, b>> /\ Len(local[p]) = 2 /\ local[p][1] = a /\ local[p][2] = b
    BY <1>t, <1>1, TwoLocals
  <1>3. /\ a # b /\ ref[a] = 1 /\ ref[b] = 1 /\ file[a].type = "FD_NONE" /\ file[b].type = "FD_NONE"
        /\ \A x \in Locs : Kept[x] \in {a, b} => x[1] = p
    <2>1. Fresh(p) /\ 1 \in 1..Len(local[p]) /\ 2 \in 1..Len(local[p])
      BY <1>1, <1>2 DEF Fresh
    <2>2. a # b
      BY <1>0, <1>2, <2>1 DEF Shape, FreshInv
    <2>3. /\ ref[a] = 1 /\ file[a].type = "FD_NONE"
          /\ \A x \in Locs : Kept[x] = a => x = <<p, 1>>
      BY <1>0, <1>2, <2>1, Exclusive
    <2>4. /\ ref[b] = 1 /\ file[b].type = "FD_NONE"
          /\ \A x \in Locs : Kept[x] = b => x = <<p, 2>>
      BY <1>0, <1>2, <2>1, Exclusive, SMTT(30)
    <2> QED
      BY <2>2, <2>3, <2>4
  <1>4. PICK y, z \in File : /\ y.type = "FD_PIPE" /\ y.obj = g /\ y.end = "r"
                             /\ z.type = "FD_PIPE" /\ z.obj = g /\ z.end = "w"
                             /\ file' = [file EXCEPT ![a] = y, ![b] = z]
    <2>1. PipeEnd(g, "r") \in File /\ PipeEnd(g, "w") \in File
      BY DEF PipeEnd, File, Types, Ends
    <2>2. file' = [file EXCEPT ![a] = PipeEnd(g, "r"), ![b] = PipeEnd(g, "w")]
      BY <1>2 DEF pipe_page
    <2>3. /\ PipeEnd(g, "r").type = "FD_PIPE" /\ PipeEnd(g, "r").obj = g /\ PipeEnd(g, "r").end = "r"
          /\ PipeEnd(g, "w").type = "FD_PIPE" /\ PipeEnd(g, "w").obj = g /\ PipeEnd(g, "w").end = "w"
      BY DEF PipeEnd
    <2> QED
      BY <2>1, <2>2, <2>3
  <1>5. file'[a] = y /\ file'[b] = z /\ \A h \in Files \ {a, b} : file'[h] = file[h]
    BY <1>t, <1>3, <1>4 DEF Typed
  <1>6. pc'[p] = "pipe_fd" /\ ff[p] = None
    BY <1>t, <1>1 DEF Typed, Point, Closers
  <1>7. Typed' /\ Others(p)
    <2>1. pc' \in [Procs -> Points] /\ \A q \in Procs \ {p} : pc'[q] = pc[q]
      BY <1>t, <1>1 DEF Typed, Points
    <2>2. file' \in [Files -> File]
      BY <1>t, <1>4 DEF Typed
    <2>3. pipe' \in [Pages -> SUBSET Ends]
      BY <1>t, <1>1 DEF Typed
    <2> QED
      BY <1>t, <1>1, <2>1, <2>2, <2>3 DEF Typed, Others
  <1>8. Point(p)'
    BY <1>t, <1>1, <1>2, <1>6 DEF Point, Closers
  <1>9. PointInv' /\ ForkInv'
    BY <1>0, <1>t, <1>1, <1>6, <1>7, <1>8, OthersPoint, OthersFork DEF Shape
  <1>10. FileInv'
    <2>1. ASSUME NEW h \in Files PROVE WellTyped(file'[h]) /\ (ref'[h] = 0 => file'[h].type = "FD_NONE")
      <3>1. CASE h \in {a, b}
        BY <1>1, <1>3, <1>4, <1>5, <3>1 DEF WellTyped
      <3>2. CASE h \notin {a, b}
        BY <1>0, <1>1, <1>5, <3>2 DEF Shape, FileInv
      <3> QED
        BY <3>1, <3>2
    <2> QED
      BY <1>0, <1>1, <2>1 DEF Shape, FileInv, WellTyped
  <1>11. FreshInv'
    <2>1. ASSUME NEW q \in Procs \ {p}, Fresh(q), NEW k \in 1..Len(local[q])
          PROVE  ref'[local[q][k]] = 1 /\ file'[local[q][k]].type = "FD_NONE"
      <3>1. /\ local[q][k] \in Files /\ ref[local[q][k]] = 1 /\ file[local[q][k]].type = "FD_NONE"
            /\ \A x \in Locs : Kept[x] = local[q][k] => x = <<q, k>>
        BY <1>0, <2>1, Exclusive
      <3>2. Kept[<<p, 1>>] = a /\ Kept[<<p, 2>>] = b /\ <<p, 1>> \in Locs /\ <<p, 2>> \in Locs
        BY <1>2, KeptAt
      <3>3. local[q][k] \notin {a, b}
        BY <3>1, <3>2
      <3> QED
        BY <1>1, <1>5, <3>1, <3>3
    <2>2. ~Fresh(p)'
      BY <1>6 DEF Fresh
    <2> QED
      BY <1>0, <1>7, <2>1, <2>2, OthersFresh DEF Shape
  <1>12. RefCounts'
    <2>1. \A d \in FDs : Held'[<<p, d>>] = Held[<<p, d>>]
      BY <1>1, <1>6, HeldAt DEF Uncounted
    <2> QED
      BY <1>0, <1>1, <1>7, <2>1, SameHeld, SameRefs
  <1>13. InoCounts'
    <2>1. \A h \in Files : FileIno'[h] = FileIno[h]
      <3>1. FileIno'[a] = FileIno[a] /\ FileIno'[b] = FileIno[b]
        BY <1>3, <1>4, <1>5 DEF FileIno, InoOf
      <3>2. \A h \in Files \ {a, b} : FileIno'[h] = FileIno[h]
        BY <1>5 DEF FileIno
      <3> QED
        BY <3>1, <3>2
    <2>2. CloseIno' = CloseIno
      BY <1>1 DEF CloseIno
    <2>3. \A v : Count(Files, FileIno', v) = Count(Files, FileIno, v)
      BY <2>1, CountSame
    <2> QED
      BY <1>0, <1>1, <2>2, <2>3 DEF InoCounts
  <1>14. PipeCounts'
    <2>1. FilePipe[a] = <<None, "r">> /\ FilePipe[b] = <<None, "r">> /\ FilePipe'[a] = <<g, "r">> /\ FilePipe'[b] = <<g, "w">>
      BY <1>3, <1>4, <1>5 DEF FilePipe, PipeOf
    <2>2. \A h \in Files \ {a, b} : FilePipe'[h] = FilePipe[h]
      BY <1>5 DEF FilePipe
    <2>3. ClosePipe' = ClosePipe
      BY <1>1 DEF ClosePipe
    <2>4. ASSUME NEW h \in Pages, NEW e \in Ends
          PROVE  Count(Files, FilePipe', <<h, e>>) + Count(Procs, ClosePipe', <<h, e>>) = IF e \in pipe'[h] THEN 1 ELSE 0
      <3> DEFINE v == <<h, e>>
      <3>1. v # <<None, "r">> /\ (v = <<g, "r">> <=> h = g /\ e = "r") /\ (v = <<g, "w">> <=> h = g /\ e = "w")
        BY Consts
      <3>2. Count(Files, FilePipe, v) + Count(Procs, ClosePipe, v) = IF e \in pipe[h] THEN 1 ELSE 0
        BY <1>0 DEF PipeCounts
      <3>3. e \in pipe'[h] <=> h = g \/ e \in pipe[h]
        BY <1>t, <1>1 DEF Typed
      <3>4. h = g => e \notin pipe[h]
        BY <1>1
      <3>5. e = "r" \/ e = "w"
        BY DEF Ends
      <3> HIDE DEF v
      <3>6. Count(Files, FilePipe', v) = Count(Files, FilePipe, v) + One(FilePipe'[a], v) + One(FilePipe'[b], v) - One(FilePipe[a], v) - One(FilePipe[b], v)
        BY <1>3, <2>2, FilesTwo
      <3>7. One(<<None, "r">>, v) = 0
        BY <3>1, OneFacts
      <3>8. One(<<g, "r">>, v) + One(<<g, "w">>, v) = IF h = g THEN 1 ELSE 0
        BY <3>1, <3>5 DEF One
      <3>9. /\ Count(Files, FilePipe, v) \in Nat /\ Count(Procs, ClosePipe, v) \in Nat
            /\ One(<<g, "r">>, v) \in {0, 1} /\ One(<<g, "w">>, v) \in {0, 1}
        BY Finite, CountType, OneFacts
      <3>10. Count(Files, FilePipe', v) = Count(Files, FilePipe, v) + IF h = g THEN 1 ELSE 0
        BY <2>1, <3>6, <3>7, <3>8, <3>9
      <3>11. Count(Files, FilePipe', v) + Count(Procs, ClosePipe', v) = IF e \in pipe'[h] THEN 1 ELSE 0
        BY <2>3, <3>2, <3>3, <3>4, <3>9, <3>10
      <3> QED
        BY <3>11 DEF v
    <2> QED
      BY <2>4 DEF PipeCounts
  <1> QED
    BY <1>7, <1>9, <1>10, <1>11, <1>12, <1>13, <1>14, Join DEF Shape

(* fileclose() takes the first reference; the second one moves up.         *)
LEMMA TakeFirst ==
    ASSUME Typed, NEW p \in Procs, Point(p), pc[p] \in Closers, local[p] # <<>>,
           local' = [local EXCEPT ![p] = Tail(@)]
    PROVE  \E f \in Files, b \in Files \cup {0} :
              /\ f = Head(local[p]) /\ Len(local'[p]) \in 0..2 /\ local'[p] \in Seq(Files)
              /\ Kept[<<p, 1>>] = f /\ Kept[<<p, 2>>] = b /\ Kept'[<<p, 1>>] = b /\ Kept'[<<p, 2>>] = 0
  <1> DEFINE s == local[p]
             t == local'[p]
  <1>1. s \in Seq(Files) /\ Len(s) \in 0..2 /\ s # <<>> /\ t = Tail(s)
    BY DEF Typed, Point
  <1>2. /\ Kept[<<p, 1>>] = IF 1 <= Len(s) THEN s[1] ELSE 0
        /\ Kept[<<p, 2>>] = IF 2 <= Len(s) THEN s[2] ELSE 0
        /\ Kept'[<<p, 1>>] = IF 1 <= Len(t) THEN t[1] ELSE 0
        /\ Kept'[<<p, 2>>] = IF 2 <= Len(t) THEN t[2] ELSE 0
    BY KeptAt
  <1> HIDE DEF s, t
  <1>3. Len(s) = 1 \/ Len(s) = 2
    BY <1>1
  <1>4. Head(s) = s[1] /\ s[1] \in Files
    BY <1>1, <1>3
  <1>5. CASE Len(s) = 1
    <2>1. Len(t) = 0 /\ t \in Seq(Files)
      BY <1>1, <1>5
    <2> QED
      BY <1>2, <1>4, <1>5, <2>1 DEF s, t
  <1>6. CASE Len(s) = 2
    <2>0. PICK a, c \in Files : s = <<a, c>>
      <3>1. s[1] \in Files /\ s[2] \in Files /\ s = <<s[1], s[2]>>
        BY <1>1, <1>6
      <3> QED
        BY <3>1
    <2>1. t = <<c>> /\ s[2] = c
      BY <1>1, <2>0
    <2>2. Len(t) = 1 /\ t \in Seq(Files) /\ s[2] \in Files /\ t[1] = s[2]
      BY <2>1
    <2> QED
      BY <1>2, <1>4, <1>6, <2>1, <2>2 DEF s, t
  <1> QED
    BY <1>3, <1>5, <1>6

LEMMA FilecloseInv ==
    ASSUME IInv, NEW p \in Procs, fileclose(p)
    PROVE  IInv'
  <1>0. Shape /\ RefCounts /\ InoCounts /\ PipeCounts
    BY Split
  <1>t. Typed /\ Point(p)
    BY <1>0 DEF Shape, PointInv
  <1>1. /\ UNCHANGED <<ofile, cwd, pipe, iref, pc, fd, ip, np>> /\ pc[p] \in Closers /\ local[p] # <<>> /\ ff[p] = None
        /\ local' = [local EXCEPT ![p] = Tail(@)]
    BY DEF fileclose
  <1>2. PICK f \in Files, b \in Files \cup {0} :
              /\ f = Head(local[p]) /\ Len(local'[p]) \in 0..2 /\ local'[p] \in Seq(Files)
              /\ Kept[<<p, 1>>] = f /\ Kept[<<p, 2>>] = b /\ Kept'[<<p, 1>>] = b /\ Kept'[<<p, 2>>] = 0
    BY <1>t, <1>1, TakeFirst
  <1>3. /\ ref[f] >= 1 /\ ref' = [ref EXCEPT ![f] = @ - 1]
        /\ \/ ref[f] > 1 /\ file' = file /\ ff' = ff
           \/ /\ ref[f] = 1 /\ file' = [file EXCEPT ![f].type = "FD_NONE"]
              /\ ff' = IF file[f].type = "FD_NONE" THEN ff ELSE [ff EXCEPT ![p] = file[f]]
    BY <1>t, <1>2 DEF fileclose, Typed
  <1>4. /\ \A h \in Files \ {f} : file'[h] = file[h]
        /\ file' \in [Files -> File]
        /\ ref[f] = 1 => file'[f].type = "FD_NONE"
        /\ ref[f] > 1 => file'[f] = file[f]
    <2>1. file[f] \in File
      BY <1>t DEF Typed
    <2>2. [file[f] EXCEPT !.type = "FD_NONE"] \in File
      BY <2>1 DEF File, Types
    <2>3. CASE ref[f] = 1
      <3>1. file' = [file EXCEPT ![f] = [file[f] EXCEPT !.type = "FD_NONE"]]
        BY <1>3, <2>3
      <3>2. [file[f] EXCEPT !.type = "FD_NONE"].type = "FD_NONE"
        BY <2>1 DEF File
      <3> QED
        BY <1>t, <2>2, <2>3, <3>1, <3>2 DEF Typed
    <2>4. CASE ref[f] > 1
      BY <1>t, <1>3, <2>4 DEF Typed
    <2> QED
      BY <1>3, <2>3, <2>4
  <1>5. /\ ff' \in [Procs -> File \cup {None}] /\ \A q \in Procs \ {p} : ff'[q] = ff[q]
        /\ ff'[p] = IF ref[f] > 1 \/ file[f].type = "FD_NONE" THEN None ELSE file[f]
    <2>1. CASE ref[f] > 1
      BY <1>t, <1>1, <1>3, <2>1 DEF Typed
    <2>2. CASE ref[f] = 1 /\ file[f].type = "FD_NONE"
      BY <1>t, <1>1, <1>3, <2>2 DEF Typed
    <2>3. CASE ref[f] = 1 /\ file[f].type # "FD_NONE"
      <3>1. ff' = [ff EXCEPT ![p] = file[f]] /\ file[f] \in File
        BY <1>t, <1>3, <2>3 DEF Typed
      <3> QED
        BY <1>t, <2>3, <3>1 DEF Typed
    <2> QED
      BY <1>3, <2>1, <2>2, <2>3
  <1>6. Typed' /\ Others(p)
    <2>1. ref' \in [Files -> Nat]
      BY <1>t, <1>3 DEF Typed
    <2>2. local' \in [Procs -> Seq(Files)] /\ \A q \in Procs \ {p} : local'[q] = local[q]
      BY <1>t, <1>1, <1>2 DEF Typed
    <2> QED
      BY <1>t, <1>1, <1>4, <1>5, <2>1, <2>2 DEF Typed, Others
  <1>7. Point(p)'
    <2>1. pc'[p] \in Closers /\ Len(local'[p]) \in 0..2
      BY <1>1, <1>2
    <2> QED
      BY <1>t, <1>1, <2>1 DEF Point, Closers
  <1>8. PointInv' /\ ForkInv'
    <2>1. pc[p] \notin {"fork", "embryo"} /\ pc'[p] # "fork"
      BY <1>1 DEF Closers
    <2> QED
      BY <1>0, <1>t, <1>1, <1>6, <1>7, <2>1, OthersPoint, OthersFork DEF Shape
  <1>9. FileInv'
    <2>0. (\A h \in Files : WellTyped(file[h]) /\ (ref[h] = 0 => file[h].type = "FD_NONE"))
          /\ (\A q \in Procs : ff[q] # None => WellTyped(ff[q]) /\ ff[q].type # "FD_NONE")
      BY <1>0 DEF Shape, FileInv
    <2>1. ASSUME NEW h \in Files PROVE WellTyped(file'[h]) /\ (ref'[h] = 0 => file'[h].type = "FD_NONE")
      <3>1. CASE h # f
        BY <1>t, <1>3, <1>4, <2>0, <3>1 DEF Typed
      <3>2. CASE h = f /\ ref[f] > 1
        BY <1>t, <1>3, <1>4, <2>0, <3>2 DEF Typed
      <3>3. CASE h = f /\ ref[f] = 1
        BY <1>4, <3>3 DEF WellTyped
      <3> QED
        BY <1>3, <3>1, <3>2, <3>3
    <2>2. ASSUME NEW q \in Procs, ff'[q] # None PROVE WellTyped(ff'[q]) /\ ff'[q].type # "FD_NONE"
      BY <1>5, <2>0, <2>2
    <2> QED
      BY <2>1, <2>2 DEF FileInv, WellTyped
  <1>10. FreshInv'
    <2>1. ASSUME NEW q \in Procs \ {p}, Fresh(q), NEW k \in 1..Len(local[q])
          PROVE  ref'[local[q][k]] = 1 /\ file'[local[q][k]].type = "FD_NONE"
      <3>1. /\ local[q][k] \in Files /\ ref[local[q][k]] = 1 /\ file[local[q][k]].type = "FD_NONE"
            /\ \A x \in Locs : Kept[x] = local[q][k] => x = <<q, k>>
        BY <1>0, <2>1, Exclusive
      <3>2. <<p, 1>> \in Locs
        BY DEF Locs
      <3>3. local[q][k] # f
        BY <1>2, <3>1, <3>2
      <3> QED
        BY <1>t, <1>3, <1>4, <3>1, <3>3 DEF Typed
    <2>2. ~Fresh(p)'
      BY <1>1 DEF Fresh, Closers
    <2> QED
      BY <1>0, <1>6, <2>1, <2>2, OthersFresh DEF Shape
  <1>11. RefCounts'
    <2>1. \A x \in Cells : Held'[x] = Held[x]
      BY <1>1 DEF Held, Uncounted
    <2>2. ASSUME NEW h \in Files
          PROVE  ref'[h] = ref[h] + One(Held'[<<p, 0>>], h) - One(Held[<<p, 0>>], h)
                       + One(Kept'[<<p, 1>>], h) + One(Kept'[<<p, 2>>], h) - One(Kept[<<p, 1>>], h) - One(Kept[<<p, 2>>], h)
      <3>1. ref'[h] = ref[h] - One(f, h) /\ ref[h] \in Int
        BY <1>t, <1>3 DEF Typed, One
      <3>2. One(Held'[<<p, 0>>], h) = One(Held[<<p, 0>>], h) /\ One(Held[<<p, 0>>], h) \in {0, 1}
        BY <2>1, FirstCell, OneFacts
      <3>3. One(0, h) = 0 /\ One(f, h) \in {0, 1} /\ One(b, h) \in {0, 1}
        BY OneFacts DEF Files
      <3> QED
        BY <1>2, <3>1, <3>2, <3>3
    <2> QED
      BY <1>0, <1>t, <1>6, <2>1, <2>2, FirstCell, RefStep DEF Others
  <1>12. /\ OthersObjects(p)
         /\ CloseIno[p] = None /\ ClosePipe[p] = <<None, "r">>
         /\ \/ FileIno'[f] = FileIno[f] /\ CloseIno'[p] = None /\ FilePipe'[f] = FilePipe[f] /\ ClosePipe'[p] = <<None, "r">>
            \/ /\ FileIno'[f] = None /\ CloseIno'[p] = FileIno[f]
               /\ FilePipe'[f] = <<None, "r">> /\ ClosePipe'[p] = FilePipe[f]
    <2>1. OthersObjects(p) /\ CloseIno[p] = None /\ ClosePipe[p] = <<None, "r">>
      BY <1>1, <1>6 DEF Others, OthersObjects, CloseIno, ClosePipe
    <2>2. CASE ref[f] > 1
      BY <1>4, <1>5, <2>1, <2>2 DEF FileIno, CloseIno, FilePipe, ClosePipe
    <2>3. CASE ref[f] = 1 /\ file[f].type = "FD_NONE"
      <3>1. FileIno[f] = None /\ FilePipe[f] = <<None, "r">> /\ FileIno'[f] = None /\ FilePipe'[f] = <<None, "r">>
        BY <1>4, <2>3 DEF FileIno, FilePipe, InoOf, PipeOf
      <3>2. CloseIno'[p] = None /\ ClosePipe'[p] = <<None, "r">>
        BY <1>5, <2>3 DEF CloseIno, ClosePipe
      <3> QED
        BY <2>1, <3>1, <3>2
    <2>4. CASE ref[f] = 1 /\ file[f].type # "FD_NONE"
      <3>1. FileIno'[f] = None /\ FilePipe'[f] = <<None, "r">>
        BY <1>4, <2>4 DEF FileIno, FilePipe, InoOf, PipeOf
      <3>2. ff'[p] = file[f] /\ ff'[p] # None
        BY <1>t, <1>5, <2>4, Consts DEF Typed
      <3>3. CloseIno'[p] = FileIno[f] /\ ClosePipe'[p] = FilePipe[f]
        BY <3>2 DEF CloseIno, ClosePipe, FileIno, FilePipe
      <3> QED
        BY <2>1, <3>1, <3>3
    <2> QED
      BY <1>3, <2>2, <2>3, <2>4
  <1>13. InoCounts'
    <2>1. ASSUME NEW i \in Inodes
          PROVE  iref'[i] = iref[i] + One(FileIno'[f], i) - One(FileIno[f], i) + One(CloseIno'[p], i) - One(CloseIno[p], i)
                        + One(ip'[p], i) - One(ip[p], i) + One(cwd'[p], i) - One(cwd[p], i)
      <3>1. One(FileIno[f], i) \in {0, 1} /\ One(cwd[p], i) \in {0, 1} /\ One(ip[p], i) \in {0, 1}
        BY OneFacts
      <3>2. One(None, i) = 0 /\ iref[i] \in Int
        BY <1>t, OneFacts, Consts DEF Typed
      <3> QED
        BY <1>1, <1>12, <3>1, <3>2
    <2> QED
      BY <1>0, <1>t, <1>4, <1>12, <2>1, InoStep
  <1>14. PipeCounts'
    <2>1. ASSUME NEW g \in Pages, NEW e \in Ends
          PROVE  (IF e \in pipe'[g] THEN 1 ELSE 0)
              = (IF e \in pipe[g] THEN 1 ELSE 0) + One(FilePipe'[f], <<g, e>>) - One(FilePipe[f], <<g, e>>)
                     + One(ClosePipe'[p], <<g, e>>) - One(ClosePipe[p], <<g, e>>)
      <3>1. One(FilePipe[f], <<g, e>>) \in {0, 1} /\ One(<<None, "r">>, <<g, e>>) = 0
        BY OneFacts, Consts
      <3> QED
        BY <1>1, <1>12, <3>1
    <2> QED
      BY <1>0, <1>t, <1>4, <1>12, <2>1, PipeStep
  <1> QED
    BY <1>6, <1>8, <1>9, <1>10, <1>11, <1>13, <1>14, Join DEF Shape

-----------------------------------------------------------------------------
(* fork() changes its caller p and its child c                             *)

Apart(p, c) ==
    \A q \in Procs \ {p, c} :
        /\ pc'[q] = pc[q] /\ fd'[q] = fd[q] /\ local'[q] = local[q] /\ ff'[q] = ff[q]
        /\ ip'[q] = ip[q] /\ cwd'[q] = cwd[q] /\ ofile'[q] = ofile[q] /\ np'[q] = np[q]

LEMMA ApartPoint ==
    ASSUME PointInv, NEW p \in Procs, NEW c \in Procs, Apart(p, c), Point(p)', Point(c)'
    PROVE  PointInv'
  <1>1. ASSUME NEW q \in Procs \ {p, c} PROVE Point(q)'
    BY DEF PointInv, Point, Apart
  <1> QED
    BY <1>1 DEF PointInv

LEMMA ApartFresh ==
    ASSUME FreshInv, NEW p \in Procs, NEW c \in Procs, Apart(p, c), ~Fresh(p)', ~Fresh(c)',
           \A q \in Procs \ {p, c} : Fresh(q) =>
              \A k \in 1..Len(local[q]) : ref'[local[q][k]] = 1 /\ file'[local[q][k]].type = "FD_NONE"
    PROVE  FreshInv'
  <1>1. ASSUME NEW q \in Procs, Fresh(q)'
        PROVE  /\ \A k \in 1..Len(local'[q]) : ref'[local'[q][k]] = 1 /\ file'[local'[q][k]].type = "FD_NONE"
               /\ Len(local'[q]) = 2 => local'[q][1] # local'[q][2]
    <2>1. q \notin {p, c} /\ local'[q] = local[q] /\ Fresh(q)
      BY <1>1 DEF Apart, Fresh
    <2> QED
      BY <2>1 DEF FreshInv
  <1> QED
    BY <1>1 DEF FreshInv

LEMMA ForkStartInv ==
    ASSUME IInv, NEW p \in Procs, NEW c \in Procs, fork(p, c)
    PROVE  IInv'
  <1>0. Shape /\ RefCounts /\ InoCounts /\ PipeCounts
    BY Split
  <1>t. Typed /\ Point(p) /\ Point(c)
    BY <1>0 DEF Shape, PointInv
  <1>1. /\ UNCHANGED <<ref, file, ofile, cwd, pipe, iref, fd, local, ff, ip>> /\ pc[p] = "user" /\ pc[c] = "unused"
        /\ local[p] = <<>> /\ ff[p] = None
        /\ np' = [np EXCEPT ![p] = c] /\ pc' = [pc EXCEPT ![p] = "fork", ![c] = "embryo"]
    BY DEF fork, Idle, Closed
  <1>2. /\ p # c /\ pc'[p] = "fork" /\ pc'[c] = "embryo" /\ np'[p] = c
        /\ \A q \in Procs \ {p, c} : pc'[q] = pc[q]
        /\ \A q \in Procs \ {p} : np'[q] = np[q]
    BY <1>t, <1>1 DEF Typed
  <1>3. Typed'
    <2>1. pc' \in [Procs -> Points] /\ np' \in [Procs -> Procs \cup {None}]
      BY <1>t, <1>1 DEF Typed, Points
    <2> QED
      BY <1>t, <1>1, <2>1 DEF Typed
  <1>4. Apart(p, c)
    BY <1>1, <1>2 DEF Apart
  <1>5. Point(p)'
    BY <1>t, <1>1, <1>2 DEF Point, Closers
  <1>6. Point(c)'
    BY <1>t, <1>1, <1>2 DEF Point, Closers
  <1>7. ForkInv'
    <2>1. ASSUME NEW q \in Procs \ {p}
          PROVE  /\ pc[q] = "fork" <=> np[q] # None
                 /\ np[q] # None => /\ np[q] \in Procs \ {p, c} /\ pc[np[q]] = "embryo" /\ np[q] # c
                                    /\ \A d \in FDs : d >= fd[q] => ofile[np[q]][d] = 0
                                    /\ \A r \in Procs : np[r] = np[q] => r = q
      <3>1. /\ pc[q] = "fork" <=> np[q] # None
            /\ np[q] # None => /\ pc[np[q]] = "embryo"
                               /\ \A d \in FDs : d >= fd[q] => ofile[np[q]][d] = 0
                               /\ \A r \in Procs : np[r] = np[q] => r = q
        BY <1>0 DEF Shape, ForkInv
      <3>2. np[q] # None => np[q] \in Procs
        BY <1>t DEF Typed
      <3> QED
        BY <1>1, <3>1, <3>2
    <2>2. ASSUME NEW q \in Procs \ {p}
          PROVE  /\ pc'[q] = "fork" <=> np'[q] # None
                 /\ np'[q] # None => /\ pc'[np'[q]] = "embryo"
                                     /\ \A d \in FDs : d >= fd'[q] => ofile'[np'[q]][d] = 0
                                     /\ \A r \in Procs : np'[r] = np'[q] => r = q
      <3>1. pc'[q] = "fork" <=> np'[q] # None
        <4>1. q = c => np[q] = None
          BY <1>1, <2>1
        <4> QED
          BY <1>1, <1>2, <2>1, <4>1, ZenonT(60)
      <3>2. ASSUME np[q] # None
            PROVE  /\ pc'[np[q]] = "embryo"
                   /\ \A d \in FDs : d >= fd[q] => ofile[np[q]][d] = 0
                   /\ \A r \in Procs : np'[r] = np[q] => r = q
        BY <1>2, <2>1, <3>2
      <3> QED
        BY <1>1, <1>2, <3>1, <3>2
    <2>3. /\ pc'[p] = "fork" <=> np'[p] # None
          /\ np'[p] # None => /\ pc'[np'[p]] = "embryo"
                              /\ \A d \in FDs : d >= fd'[p] => ofile'[np'[p]][d] = 0
                              /\ \A r \in Procs : np'[r] = np'[p] => r = p
      <3>1. \A d \in FDs : ofile[c][d] = 0
        BY <1>t, <1>1 DEF Point
      <3>2. \A r \in Procs : np'[r] = c => r = p
        BY <1>2, <2>1, Consts
      <3>3. c # None
        BY Consts
      <3> QED
        BY <1>1, <1>2, <3>1, <3>2, <3>3
    <2> QED
      BY <2>2, <2>3 DEF ForkInv
  <1>8. FileInv' /\ PointInv'
    BY <1>0, <1>1, <1>4, <1>5, <1>6, ApartPoint DEF Shape, FileInv
  <1>9. FreshInv'
    <2>1. ASSUME NEW q \in Procs \ {p, c}, Fresh(q), NEW k \in 1..Len(local[q])
          PROVE  ref'[local[q][k]] = 1 /\ file'[local[q][k]].type = "FD_NONE"
      BY <1>0, <1>1, <2>1 DEF Shape, FreshInv
    <2>2. ~Fresh(p)' /\ ~Fresh(c)'
      BY <1>2 DEF Fresh
    <2> QED
      BY <1>0, <1>4, <2>1, <2>2, ApartFresh DEF Shape
  <1>10. RefCounts'
    <2>1. ASSUME NEW x \in Cells PROVE Held'[x] = Held[x]
      <3>1. x[1] \in Procs /\ x = <<x[1], x[2]>>
        BY Pairs
      <3>2. Uncounted(x[1], x[2])' <=> Uncounted(x[1], x[2])
        BY <1>1, <1>2, <3>1 DEF Uncounted
      <3> QED
        BY <1>1, <3>2 DEF Held
    <2> QED
      BY <1>0, <1>1, <2>1, SameRefs
  <1>11. InoCounts' /\ PipeCounts'
    BY <1>0, <1>1, SameObjects
  <1> QED
    BY <1>3, <1>7, <1>8, <1>9, <1>10, <1>11, Join DEF Shape

(* The child of a fork() under way                                         *)
LEMMA Child ==
    ASSUME Shape, NEW p \in Procs, pc[p] = "fork"
    PROVE  \E c \in Procs : /\ c = np[p] /\ c # p /\ c # None /\ pc[c] = "embryo"
                            /\ \A d \in FDs : d >= fd[p] => ofile[c][d] = 0
                            /\ \A q \in Procs \ {p} : np[q] # None =>
                                  /\ np[q] \in Procs \ {p, c} /\ pc[np[q]] = "embryo"
                                  /\ \A d \in FDs : d >= fd[q] => ofile[np[q]][d] = 0
                                  /\ \A r \in Procs : np[r] = np[q] => r = q
                            /\ \A q \in Procs : pc[q] = "fork" <=> np[q] # None
  <1>1. np[p] # None /\ np[p] \in Procs
    BY DEF Shape, Typed, ForkInv
  <1>2. PICK c \in Procs : c = np[p]
    BY <1>1
  <1>3. /\ pc[c] = "embryo" /\ \A d \in FDs : d >= fd[p] => ofile[c][d] = 0
        /\ \A q \in Procs : np[q] = c => q = p
    BY <1>1, <1>2 DEF Shape, ForkInv
  <1>4. ASSUME NEW q \in Procs \ {p}, np[q] # None
        PROVE  /\ np[q] \in Procs \ {p, c} /\ pc[np[q]] = "embryo"
               /\ \A d \in FDs : d >= fd[q] => ofile[np[q]][d] = 0
               /\ \A r \in Procs : np[r] = np[q] => r = q
    <2>1. /\ np[q] \in Procs /\ pc[np[q]] = "embryo"
          /\ \A d \in FDs : d >= fd[q] => ofile[np[q]][d] = 0
          /\ \A r \in Procs : np[r] = np[q] => r = q
      BY <1>4 DEF Shape, Typed, ForkInv
    <2> QED
      BY <1>3, <2>1
  <1>5. \A q \in Procs : pc[q] = "fork" <=> np[q] # None
    BY DEF Shape, ForkInv
  <1> QED
    BY <1>1, <1>2, <1>3, <1>4, <1>5

LEMMA ForkDupInv ==
    ASSUME IInv, NEW p \in Procs, fork_dup(p)
    PROVE  IInv'
  <1>0. Shape /\ RefCounts /\ InoCounts /\ PipeCounts
    BY Split
  <1>1. /\ UNCHANGED <<file, cwd, pipe, iref, pc, local, ff, ip, np>> /\ pc[p] = "fork" /\ fd[p] < NOFILE
        /\ fd' = [fd EXCEPT ![p] = @ + 1]
    BY DEF fork_dup
  <1>2. PICK c \in Procs : /\ c = np[p] /\ c # p /\ c # None /\ pc[c] = "embryo"
                           /\ \A d \in FDs : d >= fd[p] => ofile[c][d] = 0
                           /\ \A q \in Procs \ {p} : np[q] # None =>
                                 /\ np[q] \in Procs \ {p, c} /\ pc[np[q]] = "embryo"
                                 /\ \A d \in FDs : d >= fd[q] => ofile[np[q]][d] = 0
                                 /\ \A r \in Procs : np[r] = np[q] => r = q
                           /\ \A q \in Procs : pc[q] = "fork" <=> np[q] # None
    BY <1>0, <1>1, Child
  <1>t. Typed /\ Point(p) /\ Point(c)
    BY <1>0 DEF Shape, PointInv
  <1>3. PICK d \in FDs : d = fd[p]
    BY <1>t, <1>1, Consts DEF Typed, FDs
  <1>4. PICK f \in Files \cup {0} : f = ofile[p][d]
    BY <1>t DEF Typed
  <1>5. /\ f = 0 => ref' = ref /\ ofile' = ofile
        /\ f # 0 => f \in Files /\ ref' = [ref EXCEPT ![f] = @ + 1] /\ ofile' = [ofile EXCEPT ![c][d] = f]
    BY <1>2, <1>3, <1>4 DEF fork_dup, filedup
  <1>6. /\ ofile[c][d] = 0 /\ ofile'[c][d] = f /\ \A e \in FDs \ {d} : ofile'[c][e] = ofile[c][e]
        /\ \A q \in Procs \ {c} : ofile'[q] = ofile[q]
        /\ ofile' \in [Procs -> [FDs -> Files \cup {0}]]
    <2>1. ofile[c][d] = 0
      BY <1>2, <1>3, Consts DEF FDs
    <2>2. CASE f = 0
      BY <1>t, <1>5, <2>1, <2>2 DEF Typed
    <2>3. CASE f # 0
      <3>1. f \in Files /\ ofile' = [ofile EXCEPT ![c] = [ofile[c] EXCEPT ![d] = f]]
        BY <1>5, <2>3
      <3>2. ofile[c] \in [FDs -> Files \cup {0}] /\ ofile \in [Procs -> [FDs -> Files \cup {0}]]
        BY <1>t DEF Typed
      <3>3. [ofile[c] EXCEPT ![d] = f] \in [FDs -> Files \cup {0}]
        BY <3>1, <3>2
      <3>4. ofile'[c] = [ofile[c] EXCEPT ![d] = f]
        BY <3>1, <3>2
      <3> QED
        BY <2>1, <3>1, <3>2, <3>3, <3>4
    <2> QED
      BY <2>2, <2>3
  <1>7. ref' \in [Files -> Nat] /\ \A h \in Files : ref'[h] = ref[h] + One(f, h)
    <2>1. \A h \in Files : h # 0
      BY DEF Files
    <2>2. CASE f = 0
      BY <1>t, <1>5, <2>1, <2>2 DEF Typed, One
    <2>3. CASE f # 0
      BY <1>t, <1>5, <2>3 DEF Typed, One
    <2> QED
      BY <2>2, <2>3
  <1>8. fd'[p] = d + 1 /\ (\A q \in Procs \ {p} : fd'[q] = fd[q]) /\ fd' \in [Procs -> 0..NOFILE]
    <2>1. d + 1 \in 0..NOFILE /\ fd' = [fd EXCEPT ![p] = d + 1]
      BY <1>1, <1>3, Consts DEF FDs
    <2> QED
      BY <1>t, <2>1 DEF Typed
  <1>9. Typed'
    BY <1>t, <1>1, <1>6, <1>7, <1>8 DEF Typed
  <1>10. Apart(p, c)
    BY <1>1, <1>6, <1>8 DEF Apart
  <1>11. Point(p)' /\ Point(c)'
    <2>1. Point(p)'
      BY <1>t, <1>1, <1>2, <1>6 DEF Point, Closers
    <2>2. Point(c)'
      BY <1>t, <1>1, <1>2, <1>8 DEF Point, Closers
    <2> QED
      BY <2>1, <2>2
  <1>12. ForkInv'
    <2>1. ASSUME NEW q \in Procs \ {p}, np[q] # None
          PROVE  /\ pc'[np[q]] = "embryo" /\ \A e \in FDs : e >= fd'[q] => ofile'[np[q]][e] = 0
                 /\ \A r \in Procs : np[r] = np[q] => r = q
      BY <1>1, <1>2, <1>6, <1>8, <2>1
    <2>2. \A e \in FDs : e >= d + 1 => ofile'[c][e] = 0
      <3>1. \A e \in FDs : e >= d + 1 => e # d /\ e >= d
        BY Consts DEF FDs
      <3> QED
        BY <1>2, <1>3, <1>6, <3>1
    <2>3. \A r \in Procs : np[r] = np[p] => r = p
      BY <1>2
    <2>4. /\ pc'[np[p]] = "embryo" /\ \A e \in FDs : e >= fd'[p] => ofile'[np[p]][e] = 0
          /\ \A r \in Procs : np[r] = np[p] => r = p
      BY <1>1, <1>2, <1>8, <2>2, <2>3
    <2>5. \A q \in Procs : pc'[q] = "fork" <=> np[q] # None
      BY <1>1, <1>2
    <2> QED
      BY <1>1, <2>1, <2>4, <2>5 DEF ForkInv
  <1>13. PointInv'
    BY <1>0, <1>10, <1>11, ApartPoint DEF Shape
  <1>14. FileInv'
    <2>1. ASSUME NEW h \in Files PROVE ref'[h] = 0 => ref[h] = 0
      <3>1. ref[h] \in Nat /\ One(f, h) \in {0, 1} /\ ref'[h] = ref[h] + One(f, h)
        BY <1>t, <1>7, OneFacts DEF Typed
      <3> QED
        BY <3>1
    <2> QED
      BY <1>0, <1>1, <2>1 DEF Shape, FileInv
  <1>15. FreshInv'
    <2>1. ASSUME NEW q \in Procs \ {p, c}, Fresh(q), NEW k \in 1..Len(local[q])
          PROVE  ref'[local[q][k]] = 1 /\ file'[local[q][k]].type = "FD_NONE"
      <3>1. Held[<<p, d>>] = f /\ <<p, d>> \in Cells
        BY <1>1, <1>4, HeldAt DEF Uncounted
      <3>2. local[q][k] \in Files /\ local[q][k] # f /\ ref[local[q][k]] = 1 /\ file[local[q][k]].type = "FD_NONE"
        BY <1>0, <2>1, <3>1, Exclusive
      <3>3. One(f, local[q][k]) = 0
        BY <3>2, OneFacts
      <3> QED
        BY <1>1, <1>7, <3>2, <3>3
    <2>2. ~Fresh(p)' /\ ~Fresh(c)'
      BY <1>1, <1>2 DEF Fresh
    <2> QED
      BY <1>0, <1>10, <2>1, <2>2, ApartFresh DEF Shape
  <1>16. RefCounts'
    <2> DEFINE x == <<c, d>>
    <2>1. x \in Cells /\ Held[x] = 0 /\ Held'[x] = f
      BY <1>1, <1>2, <1>6, HeldAt DEF Uncounted
    <2>2. ASSUME NEW q \in Procs, NEW e \in FDs, q # c \/ e # d PROVE Held'[<<q, e>>] = Held[<<q, e>>]
      <3>1. Uncounted(q, e)' <=> Uncounted(q, e)
        BY <1>1, <1>8 DEF Uncounted
      <3>2. ofile'[q][e] = ofile[q][e]
        BY <1>6, <2>2
      <3> QED
        BY <3>1, <3>2, HeldAt
    <2>3. \A y \in Cells \ {x} : Held'[y] = Held[y]
      BY <2>2, Pairs
    <2>4. Kept' = Kept
      BY <1>1 DEF Kept
    <2> HIDE DEF x
    <2>5. ASSUME NEW g \in Files
          PROVE  ref'[g] = ref[g] + One(Held'[x], g) - One(Held[x], g)
                       + One(Kept'[<<p, 1>>], g) + One(Kept'[<<p, 2>>], g) - One(Kept[<<p, 1>>], g) - One(Kept[<<p, 2>>], g)
      <3>1. ref'[g] = ref[g] + One(f, g) /\ ref[g] \in Int
        BY <1>t, <1>7 DEF Typed
      <3>2. One(0, g) = 0
        BY OneFacts DEF Files
      <3>3. One(f, g) \in {0, 1} /\ One(Kept[<<p, 1>>], g) \in {0, 1} /\ One(Kept[<<p, 2>>], g) \in {0, 1}
        BY OneFacts
      <3> QED
        BY <2>1, <2>4, <3>1, <3>2, <3>3
    <2> QED
      BY <1>0, <1>t, <1>1, <2>1, <2>3, <2>5, RefStep
  <1>17. InoCounts' /\ PipeCounts'
    BY <1>0, <1>1, SameObjects
  <1> QED
    BY <1>9, <1>12, <1>13, <1>14, <1>15, <1>16, <1>17, Join DEF Shape

LEMMA ForkCwdInv ==
    ASSUME IInv, NEW p \in Procs, fork_cwd(p)
    PROVE  IInv'
  <1>0. Shape /\ RefCounts /\ InoCounts /\ PipeCounts
    BY Split
  <1>1. UNCHANGED <<ref, file, ofile, pipe, local, ff, ip>> /\ pc[p] = "fork" /\ fd' = [fd EXCEPT ![p] = 0]
    BY DEF fork_cwd
  <1>2. PICK c \in Procs : /\ c = np[p] /\ c # p /\ c # None /\ pc[c] = "embryo"
                           /\ \A d \in FDs : d >= fd[p] => ofile[c][d] = 0
                           /\ \A q \in Procs \ {p} : np[q] # None =>
                                 /\ np[q] \in Procs \ {p, c} /\ pc[np[q]] = "embryo"
                                 /\ \A d \in FDs : d >= fd[q] => ofile[np[q]][d] = 0
                                 /\ \A r \in Procs : np[r] = np[q] => r = q
                           /\ \A q \in Procs : pc[q] = "fork" <=> np[q] # None
    BY <1>0, <1>1, Child
  <1>t. Typed /\ Point(p) /\ Point(c)
    BY <1>0 DEF Shape, PointInv
  <1>3. PICK i \in Inodes : i = cwd[p]
    BY <1>t, <1>1 DEF Typed, Point
  <1>4. /\ cwd' = [cwd EXCEPT ![c] = i] /\ iref' = [iref EXCEPT ![i] = @ + 1]
        /\ pc' = [pc EXCEPT ![p] = "user", ![c] = "user"] /\ np' = [np EXCEPT ![p] = None]
    BY <1>2, <1>3 DEF fork_cwd
  <1>5. /\ pc'[p] = "user" /\ pc'[c] = "user" /\ np'[p] = None /\ fd'[p] = 0 /\ cwd'[c] = i /\ cwd[c] = None
        /\ \A q \in Procs \ {p, c} : pc'[q] = pc[q]
        /\ \A q \in Procs \ {p} : np'[q] = np[q] /\ fd'[q] = fd[q]
        /\ \A q \in Procs \ {c} : cwd'[q] = cwd[q]
    BY <1>t, <1>1, <1>2, <1>4 DEF Typed, Point
  <1>6. Typed'
    <2>1. pc' \in [Procs -> Points] /\ np' \in [Procs -> Procs \cup {None}] /\ cwd' \in [Procs -> Inodes \cup {None}]
      BY <1>t, <1>4 DEF Typed, Points
    <2>2. fd' \in [Procs -> 0..NOFILE]
      <3>1. 0 \in 0..NOFILE
        BY Consts
      <3> QED
        BY <1>t, <1>1, <3>1 DEF Typed
    <2>3. iref' \in [Inodes -> Int]
      BY <1>t, <1>4 DEF Typed
    <2> QED
      BY <1>t, <1>1, <2>1, <2>2, <2>3 DEF Typed
  <1>7. Apart(p, c)
    BY <1>1, <1>5 DEF Apart
  <1>8. Point(p)' /\ Point(c)'
    <2>1. Point(p)'
      BY <1>t, <1>1, <1>2, <1>5 DEF Point, Closers
    <2>2. i # None
      BY Consts
    <2>3. Point(c)'
      BY <1>t, <1>1, <1>2, <1>5, <2>2 DEF Point, Closers
    <2> QED
      BY <2>1, <2>3
  <1>9. PointInv' /\ FileInv'
    BY <1>0, <1>1, <1>7, <1>8, ApartPoint DEF Shape, FileInv
  <1>10. ForkInv'
    <2>1. ASSUME NEW q \in Procs \ {p}, np[q] # None
          PROVE  /\ pc'[np[q]] = "embryo" /\ \A e \in FDs : e >= fd'[q] => ofile'[np[q]][e] = 0
                 /\ \A r \in Procs : np'[r] = np[q] => r = q
      BY <1>1, <1>2, <1>5, <2>1
    <2>2. np[c] = None
      BY <1>2
    <2>3. \A q \in Procs : pc'[q] = "fork" <=> np'[q] # None
      BY <1>2, <1>5, <2>2
    <2> QED
      BY <1>5, <2>1, <2>3 DEF ForkInv
  <1>11. FreshInv'
    <2>1. ASSUME NEW q \in Procs \ {p, c}, Fresh(q), NEW k \in 1..Len(local[q])
          PROVE  ref'[local[q][k]] = 1 /\ file'[local[q][k]].type = "FD_NONE"
      BY <1>0, <1>1, <2>1 DEF Shape, FreshInv
    <2>2. ~Fresh(p)' /\ ~Fresh(c)'
      BY <1>5 DEF Fresh
    <2> QED
      BY <1>0, <1>7, <2>1, <2>2, ApartFresh DEF Shape
  <1>12. RefCounts'
    <2>1. ASSUME NEW x \in Cells PROVE Held'[x] = Held[x]
      <3>1. x[1] \in Procs /\ x = <<x[1], x[2]>>
        BY Pairs
      <3>2. Uncounted(x[1], x[2])' <=> Uncounted(x[1], x[2])
        BY <1>1, <1>2, <1>5, <3>1 DEF Uncounted
      <3> QED
        BY <1>1, <3>2 DEF Held
    <2> QED
      BY <1>0, <1>1, <2>1, SameRefs
  <1>13. OthersObjects(c) /\ FileIno' = FileIno /\ CloseIno' = CloseIno
    BY <1>1, <1>5 DEF OthersObjects, FileIno, CloseIno
  <1>14. InoCounts'
    <2>1. ASSUME NEW j \in Inodes
          PROVE  iref'[j] = iref[j] + One(FileIno'[1], j) - One(FileIno[1], j) + One(CloseIno'[c], j) - One(CloseIno[c], j)
                        + One(ip'[c], j) - One(ip[c], j) + One(cwd'[c], j) - One(cwd[c], j)
      <3>1. iref'[j] = iref[j] + One(i, j) /\ iref[j] \in Int
        BY <1>t, <1>4 DEF Typed, One
      <3>2. One(None, j) = 0
        BY OneFacts, Consts
      <3>3. /\ One(FileIno[1], j) \in {0, 1} /\ One(CloseIno[c], j) \in {0, 1} /\ One(ip[c], j) \in {0, 1}
            /\ One(i, j) \in {0, 1}
        BY OneFacts
      <3> QED
        BY <1>1, <1>5, <1>13, <3>1, <3>2, <3>3
    <2>2. \A h \in Files \ {1} : file'[h] = file[h]
      BY <1>1
    <2> QED
      BY <1>0, <1>t, <1>13, <2>1, <2>2, OneFile, InoStep
  <1>15. PipeCounts'
    <2>1. FilePipe' = FilePipe /\ ClosePipe' = ClosePipe
      BY <1>1 DEF FilePipe, ClosePipe
    <2> QED
      BY <1>0, <1>1, <2>1 DEF PipeCounts
  <1> QED
    BY <1>6, <1>9, <1>10, <1>11, <1>12, <1>14, <1>15, Join DEF Shape

-----------------------------------------------------------------------------
LEMMA InitInv == Init => IInv
  <1> SUFFICES ASSUME Init PROVE IInv
    OBVIOUS
  <1>0. Cardinality({}) = 0
    BY FS_EmptySet
  <1>1. TypeOK
    <2>1. [type |-> "FD_NONE", obj |-> None, end |-> "r"] \in File /\ 0 \in 0..NOFILE /\ <<>> \in Seq(Files)
      BY Consts DEF File, Types, Ends
    <2> QED
      BY <2>1, Consts DEF Init, TypeOK, Points
  <1>2. \A p \in Procs : local[p] = <<>> /\ ff[p] = None /\ ip[p] = None /\ np[p] = None /\ fd[p] = 0
    BY DEF Init
  <1>3. PointInv
    <2>1. ASSUME NEW p \in Procs PROVE Point(p)
      <3>1. \A d \in FDs : ofile[p][d] = 0
        BY DEF Init
      <3>2. \/ pc[p] = "user" /\ cwd[p] = Root
            \/ pc[p] = "unused" /\ cwd[p] = None
        BY DEF Init
      <3>3. Root # None
        BY Consts
      <3> QED
        BY <1>2, <3>1, <3>2, <3>3 DEF Point, Closers
    <2> QED
      BY <2>1 DEF PointInv
  <1>4. ForkInv
    BY <1>2 DEF ForkInv, Init
  <1>5. FileInv
    BY <1>2 DEF FileInv, WellTyped, Init
  <1>6. FreshInv
    BY DEF FreshInv, Fresh, Init
  <1>7. FileRefExact
    <2>1. ASSUME NEW f \in Files PROVE ref[f] = Cardinality(Descriptors(f)) + Cardinality(Locals(f))
      <3>1. f # 0
        BY DEF Files
      <3>2. Descriptors(f) = {}
        BY <3>1 DEF Descriptors, Init
      <3>3. Locals(f) = {}
        BY DEF Locals, Init
      <3> QED
        BY <1>0, <3>2, <3>3 DEF Init
    <2> QED
      BY <2>1 DEF FileRefExact
  <1>8. ASSUME NEW types, NEW o PROVE OpenFiles(types, o) = {} /\ Closing(types, o) = {}
    BY <1>2 DEF OpenFiles, Closing, Init
  <1>9. ASSUME NEW g \in Pages, NEW e \in Ends
        PROVE  Cardinality({f \in OpenFiles({"FD_PIPE"}, g) : file[f].end = e})
             + Cardinality({p \in Closing({"FD_PIPE"}, g) : ff[p].end = e})
             = IF e \in pipe[g] THEN 1 ELSE 0
    <2>1. {f \in OpenFiles({"FD_PIPE"}, g) : file[f].end = e} = {} /\ {p \in Closing({"FD_PIPE"}, g) : ff[p].end = e} = {}
      BY <1>8
    <2>2. e \notin pipe[g]
      BY DEF Init
    <2>3. /\ Cardinality({f \in OpenFiles({"FD_PIPE"}, g) : file[f].end = e}) = 0
          /\ Cardinality({p \in Closing({"FD_PIPE"}, g) : ff[p].end = e}) = 0
      BY <1>0, <2>1
    <2> QED
      BY <2>2, <2>3
  <1>10. ASSUME NEW i \in Inodes
         PROVE  iref[i] = Cardinality(OpenFiles({"FD_INODE", "FD_DEVICE"}, i))
                        + Cardinality(Closing({"FD_INODE", "FD_DEVICE"}, i))
                        + Cardinality({p \in Procs : ip[p] = i}) + Cardinality({p \in Procs : cwd[p] = i})
    <2>1. OpenFiles({"FD_INODE", "FD_DEVICE"}, i) = {} /\ Closing({"FD_INODE", "FD_DEVICE"}, i) = {}
      BY <1>8
    <2>2. {p \in Procs : ip[p] = i} = {}
      BY <1>2, Consts
    <2>3. {p \in Procs : cwd[p] = i} = IF i = Root THEN {init} ELSE {}
      BY Consts DEF Init
    <2>4. Cardinality({init}) = 1
      BY FS_Singleton
    <2>5. iref[i] = IF i = Root THEN 1 ELSE 0
      BY DEF Init
    <2>6. CASE i = Root
      <3>1. Cardinality({p \in Procs : cwd[p] = i}) = 1
        BY <2>3, <2>4, <2>6
      <3> QED
        BY <1>0, <2>1, <2>2, <2>5, <2>6, <3>1
    <2>7. CASE i # Root
      <3>1. Cardinality({p \in Procs : cwd[p] = i}) = 0
        BY <1>0, <2>3, <2>7
      <3> QED
        BY <1>0, <2>1, <2>2, <2>5, <2>7, <3>1
    <2> QED
      BY <2>6, <2>7
  <1>11. ObjectsExact
    BY <1>9, <1>10 DEF ObjectsExact
  <1> QED
    BY <1>1, <1>3, <1>4, <1>5, <1>6, <1>7, <1>11 DEF IInv

LEMMA NextInv == IInv /\ [Next]_vars => IInv'
  <1> SUFFICES ASSUME IInv, [Next]_vars PROVE IInv'
    OBVIOUS
  <1>1. CASE UNCHANGED vars
    <2>1. Shape /\ RefCounts /\ InoCounts /\ PipeCounts
      BY Split
    <2>2. Shape'
      BY <1>1, <2>1 DEF Shape, Typed, PointInv, Point, ForkInv, FileInv, FreshInv, Fresh
    <2>3. \A x \in Cells : Held'[x] = Held[x]
      BY <1>1 DEF Held, Uncounted
    <2>4. RefCounts' /\ InoCounts' /\ PipeCounts'
      BY <1>1, <2>1, <2>3, SameRefs, SameObjects
    <2> QED
      BY <2>2, <2>4, Join
  <1>2. ASSUME NEW p \in Procs, Step(p) PROVE IInv'
    <2>1. CASE fileclose(p)
      BY <2>1, FilecloseInv
    <2>2. CASE pipeclose(p) \/ iput(p)
      BY <2>2, ReleaseInv
    <2>3. CASE \E d \in FDs : dup(p, d) \/ close(p, d)
      BY <2>3, DupInv, CloseInv
    <2>4. CASE dup_ref(p)
      BY <2>4, DupRefInv
    <2>5. CASE (\E i \in Inodes : open(p, i)) \/ open_put(p) \/ exit_cwd(p)
      BY <2>5, InodeInv
    <2>6. CASE open_file(p)
      BY <2>6, OpenFileInv
    <2>7. CASE open_nofd(p) \/ pipe_f0(p) \/ pipe_f1(p)
      BY <2>7, AllocInv
    <2>8. CASE open_refused(p) \/ pipe_bad(p) \/ pipe_fail(p) \/ exit(p) \/ freeproc(p)
      BY <2>8, MoveInv
    <2>9. CASE \E g \in Pages : pipe_page(p, g)
      BY <2>9, PipePageInv
    <2>10. CASE pipe_ok(p)
      BY <2>10, PipeOkInv
    <2>11. CASE \E c \in Procs : fork(p, c)
      BY <2>11, ForkStartInv
    <2>12. CASE fork_dup(p)
      BY <2>12, ForkDupInv
    <2>13. CASE fork_cwd(p)
      BY <2>13, ForkCwdInv
    <2>14. CASE exit_close(p) \/ exit_clear(p)
      BY <2>14, ExitInv
    <2> QED
      BY <1>2, <2>1, <2>2, <2>3, <2>4, <2>5, <2>6, <2>7, <2>8, <2>9, <2>10, <2>11, <2>12, <2>13, <2>14 DEF Step
  <1> QED
    BY <1>1, <1>2 DEF Next

(* What every reachable state of the file table satisfies.                 *)
THEOREM Invariance == Spec => []IInv
  BY InitInv, NextInv, PTL DEF Spec

(* Every variable stays within its type.                                   *)
THEOREM TypeCorrect == Spec => []TypeOK
  <1>1. IInv => TypeOK
    BY DEF IInv
  <1> QED
    BY <1>1, Invariance, PTL

(* f->ref is at all times the number of descriptors and of local variables *)
(* that refer to f, whatever open(), dup(), pipe(), fork(), close() and    *)
(* exit() do at the same time and wherever they fail: fileclose() frees a  *)
(* file with its last reference, and filedup() never finds a free one.     *)
THEOREM RefsExact == Spec => []FileRefExact
  <1>1. IInv => FileRefExact
    BY DEF IInv
  <1> QED
    BY <1>1, Invariance, PTL

(* Each end of a pipe and each reference to an inode that a file holds is  *)
(* given back exactly once, by the fileclose() that drops the last         *)
(* reference to the file.                                                  *)
THEOREM ReleasedOnce == Spec => []ObjectsExact
  <1>1. IInv => ObjectsExact
    BY DEF IInv
  <1> QED
    BY <1>1, Invariance, PTL
=============================================================================
