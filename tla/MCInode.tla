------------------------------ MODULE MCInode -------------------------------
(* Inode for TLC: the calls the processes make.                            *)
EXTENDS Inode, TLC

CONSTANTS p1, p2

(* ialloc() may find any free inode.                                       *)
Symmetry == Permutations(Inums \ {ROOTINO})

Abs(e) == [abs |-> TRUE, elems |-> e]
Rel(e) == [abs |-> FALSE, elems |-> e]
Do(op, path) == [op |-> op, path |-> path, new |-> NoPath, arg |-> "none"]
Mknod(path, arg) == [op |-> "mknod", path |-> path, new |-> NoPath, arg |-> arg]
Open(path, mode) == [op |-> "open", path |-> path, new |-> NoPath, arg |-> mode]
Link(path, new) == [op |-> "link", path |-> path, new |-> new, arg |-> "none"]

A == Abs(<<"a">>)
B == Abs(<<"b">>)
AB == Abs(<<"a", "b">>)

(* One process fills and removes a directory; the other looks into it,     *)
(* lives in it, and works on a name of the root that both use.             *)
TreeCalls ==
    p1 :> {Do("mkdir", A), Do("create", AB), Do("unlink", AB), Do("unlink", A), Link(AB, B)}
    @@ p2 :> {Open(AB, "O_RDWR"), Open(A, "O_RDWR"), Open(Rel(<<"..">>), "O_RDONLY"), Open(Rel(<<"b">>), "O_RDWR"),
              Do("create", AB), Do("chdir", A), Do("chdir", NoPath), Do("unlink", B), Do("unlink", NoPath),
              Mknod(B, "nodevice"), Link(B, B), Link(A, B)}

(* A process leaves its current directory without a name, and that one's   *)
(* parent too.                                                             *)
DotDotCalls ==
    p1 :> {Do("mkdir", A), Do("mkdir", AB), Do("unlink", AB), Do("unlink", A)}
    @@ p2 :> {Do("chdir", AB), Open(Rel(<<"..", "b">>), "O_RDONLY")}

(* Both create and remove a file of the same name.                         *)
FileCalls == [p \in Procs |-> {Do("create", B), Do("unlink", B)}]

(* The same, and one process removes a directory in which the other        *)
(* creates a file.                                                         *)
LostCalls ==
    p1 :> {Do("mkdir", A), Do("unlink", A), Do("create", B), Do("unlink", B)}
    @@ p2 :> {Do("create", AB), Do("create", B), Do("unlink", B)}

(* One process removes a directory in which the other makes a directory.   *)
MkdirCalls == p1 :> {Do("mkdir", A), Do("unlink", A)} @@ p2 :> {Do("mkdir", AB)}
=============================================================================
