----------------------------- MODULE FileTable -----------------------------
(***************************************************************************)
(* The open files of xv6-riscv: the table of struct file (kernel/file.c),  *)
(* each process's descriptors (kernel/sysfile.c, kernel/proc.c) and what   *)
(* the files hold on to: the ends of pipes and references to inodes.       *)
(*                                                                         *)
(* filealloc(), filedup() and the first half of fileclose() each run under *)
(* ftable.lock, so each is one step; pipeclose() runs later, under the     *)
(* pipe's lock, and iput() under the inode's (module Inode looks inside    *)
(* it).  A process's descriptors are its own, so no step is needed between *)
(* fdalloc() and the assignments that follow it.                           *)
(***************************************************************************)
EXTENDS Integers, Sequences, FiniteSets, FiniteSetsExt

CONSTANTS
    Procs,      \* slots of the process table
    init,       \* initproc, which never exits
    NFILE,      \* open files in the system
    NOFILE,     \* descriptors of a process
    Inodes,
    Devices,    \* the inodes with ip->type = T_DEVICE
    Root,       \* everybody's current directory
    Pages,      \* memory that kalloc() may give to a pipe
    None        \* the null pointer

Files == 1..NFILE
FDs == 0..NOFILE - 1
Ends == {"r", "w"}
Types == {"FD_NONE", "FD_PIPE", "FD_INODE", "FD_DEVICE"}
(* struct file without its count; obj is the pipe or ip that type selects, *)
(* end is f->writable as fileclose() passes it to pipeclose(): of a file   *)
(* that is no pipe nobody asks for it, and it is left at "r".              *)
File == [type : Types, obj : Pages \cup Inodes \cup {None}, end : Ends]

ASSUME FileTableAssumption ==
    /\ IsFiniteSet(Procs) /\ init \in Procs
    /\ NFILE \in Nat \ {0} /\ NOFILE \in Nat \ {0}
    /\ Devices \subseteq Inodes /\ Root \in Inodes
    /\ None \notin Procs \cup Inodes \cup Pages \cup File

VARIABLES
    ref, file,  \* ftable.file
    ofile,      \* p->ofile; 0 is the null pointer
    cwd,        \* p->cwd
    pipe,       \* the open ends of each page's pipe, {} for a free page
    iref,       \* ip->ref of each inode, as far as files and processes go
    pc,         \* where each process is
    fd,         \* a descriptor that the system call works on
    local,      \* files whose reference is in a local variable
    ff,         \* fileclose()'s copy of a file it must still release
    ip,         \* sys_open()'s inode
    np          \* fork()'s child

tableVars == <<ref, file>>
procVars == <<ofile, cwd>>
objVars == <<pipe, iref>>
vars == <<ref, file, ofile, cwd, pipe, iref, pc, fd, local, ff, ip, np>>

Points == {"unused", "embryo", "user", "dup", "open", "open_put", "pipe_f1", "pipe_page",
           "pipe_fd", "fork", "exit", "exit_close", "zombie"}

TypeOK ==
    /\ ref \in [Files -> Nat] /\ file \in [Files -> File]
    /\ ofile \in [Procs -> [FDs -> Files \cup {0}]]
    /\ cwd \in [Procs -> Inodes \cup {None}]
    /\ pipe \in [Pages -> SUBSET Ends] /\ iref \in [Inodes -> Nat]
    /\ pc \in [Procs -> Points]
    /\ fd \in [Procs -> 0..NOFILE]
    /\ local \in [Procs -> Seq(Files)]
    /\ ff \in [Procs -> File \cup {None}]
    /\ ip \in [Procs -> Inodes \cup {None}] /\ np \in [Procs -> Procs \cup {None}]

(* fileinit(), and init before it opens its console.                       *)
Init ==
    /\ ref = [f \in Files |-> 0]
    /\ file = [f \in Files |-> [type |-> "FD_NONE", obj |-> None, end |-> "r"]]
    /\ ofile = [p \in Procs |-> [d \in FDs |-> 0]]
    /\ cwd = [p \in Procs |-> IF p = init THEN Root ELSE None]
    /\ pipe = [g \in Pages |-> {}]
    /\ iref = [i \in Inodes |-> IF i = Root THEN 1 ELSE 0]
    /\ pc = [p \in Procs |-> IF p = init THEN "user" ELSE "unused"]
    /\ fd = [p \in Procs |-> 0]
    /\ local = [p \in Procs |-> <<>>]
    /\ ff = [p \in Procs |-> None]
    /\ ip = [p \in Procs |-> None] /\ np = [p \in Procs |-> None]

-----------------------------------------------------------------------------
Goto(p, point) == pc' = [pc EXCEPT ![p] = point]

(* filealloc() takes the first file that nobody refers to                  *)
FreeFiles == {f \in Files : ref[f] = 0}
NewFile == Min(FreeFiles)
filealloc == FreeFiles # {} /\ ref' = [ref EXCEPT ![NewFile] = 1]

(* fdalloc() takes the first free descriptor                               *)
FreeFDs(p) == {d \in FDs : ofile[p][d] = 0}
fdalloc(p) == Min(FreeFDs(p))

filedup(f) ==
    /\ ref[f] >= 1      \* else panic("filedup")
    /\ ref' = [ref EXCEPT ![f] = @ + 1]

(* Calls of fileclose() are pending in local[p] when p has come to one of  *)
(* these points; ff[p] is the call that has let go of ftable.lock.         *)
Closers == {"user", "open_put", "exit_close"}
Closed(p) == local[p] = <<>> /\ ff[p] = None
Idle(p) == pc[p] = "user" /\ Closed(p)

fileclose_keeps_type(p) ==
    /\ pc[p] \in Closers /\ local[p] # <<>> /\ ff[p] = None
    /\ LET f == Head(local[p]) IN
        /\ ref[f] >= 1
        /\ ref' = [ref EXCEPT ![f] = @ - 1]
        /\ ff' = IF ref[f] > 1 \/ file[f].type = "FD_NONE" THEN ff
                  ELSE [ff EXCEPT ![p] = file[f]]
    /\ local' = [local EXCEPT ![p] = Tail(@)]
    /\ UNCHANGED <<file, procVars, objVars, pc, fd, ip, np>>
(* A file of type FD_NONE has nothing to release: the call returns.        *)
fileclose(p) ==
    /\ pc[p] \in Closers /\ local[p] # <<>> /\ ff[p] = None
    /\ LET f == Head(local[p]) IN
        /\ ref[f] >= 1      \* else panic("fileclose")
        /\ ref' = [ref EXCEPT ![f] = @ - 1]
        /\ IF ref[f] > 1 THEN UNCHANGED <<file, ff>>
           ELSE /\ ff' = IF file[f].type = "FD_NONE" THEN ff ELSE [ff EXCEPT ![p] = file[f]]
                /\ file' = [file EXCEPT ![f].type = "FD_NONE"]
    /\ local' = [local EXCEPT ![p] = Tail(@)]
    /\ UNCHANGED <<procVars, objVars, pc, fd, ip, np>>

(* The page is free again once both ends are closed.                       *)
pipeclose(p) ==
    /\ ff[p] # None /\ ff[p].type = "FD_PIPE"
    /\ pipe' = [pipe EXCEPT ![ff[p].obj] = @ \ {ff[p].end}]
    /\ ff' = [ff EXCEPT ![p] = None]
    /\ UNCHANGED <<tableVars, procVars, iref, pc, fd, local, ip, np>>

iput(p) ==
    /\ ff[p] # None /\ ff[p].type \in {"FD_INODE", "FD_DEVICE"}
    /\ iref' = [iref EXCEPT ![ff[p].obj] = @ - 1]
    /\ ff' = [ff EXCEPT ![p] = None]
    /\ UNCHANGED <<tableVars, procVars, pipe, pc, fd, local, ip, np>>

-----------------------------------------------------------------------------
(* sys_dup(), sys_close() and sys_open()                                   *)

dup(p, d) ==
    /\ Idle(p) /\ ofile[p][d] # 0 /\ FreeFDs(p) # {}
    /\ ofile' = [ofile EXCEPT ![p][fdalloc(p)] = ofile[p][d]]
    /\ fd' = [fd EXCEPT ![p] = fdalloc(p)]
    /\ Goto(p, "dup")
    /\ UNCHANGED <<tableVars, cwd, objVars, local, ff, ip, np>>

dup_ref(p) ==
    /\ pc[p] = "dup"
    /\ filedup(ofile[p][fd[p]])
    /\ fd' = [fd EXCEPT ![p] = 0]
    /\ Goto(p, "user")
    /\ UNCHANGED <<file, procVars, objVars, local, ff, ip, np>>

close(p, d) ==
    /\ Idle(p) /\ ofile[p][d] # 0
    /\ ofile' = [ofile EXCEPT ![p][d] = 0]
    /\ local' = [local EXCEPT ![p] = <<ofile[p][d]>>]
    /\ UNCHANGED <<tableVars, cwd, objVars, pc, fd, ff, ip, np>>

(* create() or namei() has found inode i.                                  *)
open(p, i) ==
    /\ Idle(p)
    /\ iref' = [iref EXCEPT ![i] = @ + 1]
    /\ ip' = [ip EXCEPT ![p] = i]
    /\ Goto(p, "open")
    /\ UNCHANGED <<tableVars, procVars, pipe, fd, local, ff, np>>

open_file(p) ==
    /\ pc[p] = "open"
    /\ FreeFDs(p) # {}
    /\ filealloc
    /\ file' = [file EXCEPT ![NewFile] =
            [type |-> IF ip[p] \in Devices THEN "FD_DEVICE" ELSE "FD_INODE",
             obj |-> ip[p], end |-> "r"]]
    /\ ofile' = [ofile EXCEPT ![p][fdalloc(p)] = NewFile]
    /\ ip' = [ip EXCEPT ![p] = None]
    /\ Goto(p, "user")
    /\ UNCHANGED <<cwd, objVars, fd, local, ff, np>>

(* No descriptor is free: the new file is closed, then the inode is put.   *)
open_nofd(p) ==
    /\ pc[p] = "open"
    /\ FreeFDs(p) = {}
    /\ filealloc
    /\ local' = [local EXCEPT ![p] = <<NewFile>>]
    /\ Goto(p, "open_put")
    /\ UNCHANGED <<file, procVars, objVars, fd, ff, ip, np>>

(* No file is free; or, before filealloc(), the inode may not be opened: a *)
(* directory for writing, a device with no driver.                         *)
open_refused(p) ==
    /\ pc[p] = "open"
    /\ Goto(p, "open_put")
    /\ UNCHANGED <<tableVars, procVars, objVars, fd, local, ff, ip, np>>

open_put(p) ==
    /\ pc[p] = "open_put" /\ Closed(p)
    /\ iref' = [iref EXCEPT ![ip[p]] = @ - 1]
    /\ ip' = [ip EXCEPT ![p] = None]
    /\ Goto(p, "user")
    /\ UNCHANGED <<tableVars, procVars, pipe, fd, local, ff, np>>

-----------------------------------------------------------------------------
(* sys_pipe() and pipealloc(); an error closes whatever has been allocated *)

pipe_f0(p) ==
    /\ Idle(p)
    /\ filealloc
    /\ local' = [local EXCEPT ![p] = <<NewFile>>]
    /\ Goto(p, "pipe_f1")
    /\ UNCHANGED <<file, procVars, objVars, fd, ff, ip, np>>

pipe_f1(p) ==
    /\ pc[p] = "pipe_f1"
    /\ filealloc
    /\ local' = [local EXCEPT ![p] = Append(@, NewFile)]
    /\ Goto(p, "pipe_page")
    /\ UNCHANGED <<file, procVars, objVars, fd, ff, ip, np>>

(* bad: no second file, or kalloc() fails, which it may at any time        *)
pipe_bad(p) ==
    /\ \/ pc[p] = "pipe_f1" /\ FreeFiles = {}
       \/ pc[p] = "pipe_page"
    /\ Goto(p, "user")
    /\ UNCHANGED <<tableVars, procVars, objVars, fd, local, ff, ip, np>>

PipeEnd(g, e) == [type |-> "FD_PIPE", obj |-> g, end |-> e]

pipe_page(p, g) ==
    /\ pc[p] = "pipe_page"
    /\ pipe[g] = {}
    /\ pipe' = [pipe EXCEPT ![g] = Ends]
    /\ file' = [file EXCEPT ![local[p][1]] = PipeEnd(g, "r"),
                            ![local[p][2]] = PipeEnd(g, "w")]
    /\ Goto(p, "pipe_fd")
    /\ UNCHANGED <<ref, procVars, iref, fd, local, ff, ip, np>>

(* fd0 is the first free descriptor, fd1 the next.                         *)
WithPipe(p) ==
    LET fd0 == fdalloc(p)
        fd1 == Min(FreeFDs(p) \ {fd0})
    IN  [ofile[p] EXCEPT ![fd0] = local[p][1], ![fd1] = local[p][2]]

pipe_ok(p) ==
    /\ pc[p] = "pipe_fd" /\ Cardinality(FreeFDs(p)) >= 2
    /\ ofile' = [ofile EXCEPT ![p] = WithPipe(p)]
    /\ local' = [local EXCEPT ![p] = <<>>]
    /\ Goto(p, "user")
    /\ UNCHANGED <<tableVars, cwd, objVars, fd, ff, ip, np>>

pipe_fail_keeps_fd0(p) ==
    /\ pc[p] = "pipe_fd"
    /\ Goto(p, "user")
    /\ ofile' = IF FreeFDs(p) = {} THEN ofile
                ELSE [ofile EXCEPT ![p][fdalloc(p)] = local[p][1]]
    /\ UNCHANGED <<tableVars, cwd, objVars, fd, local, ff, ip, np>>
(* A descriptor is missing or a copyout() fails: the descriptors that were *)
(* set are cleared again and both files are closed.                        *)
pipe_fail(p) ==
    /\ pc[p] = "pipe_fd"
    /\ Goto(p, "user")
    /\ UNCHANGED <<tableVars, procVars, objVars, fd, local, ff, ip, np>>

-----------------------------------------------------------------------------
(* fork(), exit() and wait(), as far as they touch files                   *)

(* A fork() that fails does so before it has touched a file.               *)
fork(p, c) ==
    /\ Idle(p) /\ pc[c] = "unused"
    /\ np' = [np EXCEPT ![p] = c]
    /\ pc' = [pc EXCEPT ![p] = "fork", ![c] = "embryo"]
    /\ UNCHANGED <<tableVars, procVars, objVars, fd, local, ff, ip>>

(* One round of fork()'s loop over the descriptors                         *)
fork_dup(p) ==
    /\ pc[p] = "fork" /\ fd[p] < NOFILE
    /\ fd' = [fd EXCEPT ![p] = @ + 1]
    /\ LET f == ofile[p][fd[p]] IN
        IF f = 0 THEN UNCHANGED <<ref, ofile>>
        ELSE filedup(f) /\ ofile' = [ofile EXCEPT ![np[p]][fd[p]] = f]
    /\ UNCHANGED <<file, cwd, objVars, pc, local, ff, ip, np>>

(* idup(p->cwd); the child becomes RUNNABLE.                               *)
fork_cwd(p) ==
    /\ pc[p] = "fork" /\ fd[p] = NOFILE
    /\ fd' = [fd EXCEPT ![p] = 0]
    /\ cwd' = [cwd EXCEPT ![np[p]] = cwd[p]]
    /\ iref' = [iref EXCEPT ![cwd[p]] = @ + 1]
    /\ pc' = [pc EXCEPT ![p] = "user", ![np[p]] = "user"]
    /\ np' = [np EXCEPT ![p] = None]
    /\ UNCHANGED <<tableVars, ofile, pipe, local, ff, ip>>

exit(p) ==
    /\ Idle(p) /\ p # init
    /\ Goto(p, "exit")
    /\ UNCHANGED <<tableVars, procVars, objVars, fd, local, ff, ip, np>>

(* One round of exit()'s loop: fileclose(), with the descriptor still set  *)
exit_close(p) ==
    /\ pc[p] = "exit" /\ fd[p] < NOFILE
    /\ IF ofile[p][fd[p]] = 0
       THEN fd' = [fd EXCEPT ![p] = @ + 1] /\ UNCHANGED <<local, pc>>
       ELSE /\ local' = [local EXCEPT ![p] = <<ofile[p][fd[p]]>>]
            /\ Goto(p, "exit_close")
            /\ UNCHANGED fd
    /\ UNCHANGED <<tableVars, procVars, objVars, ff, ip, np>>

(* p->ofile[fd] = 0                                                        *)
exit_clear(p) ==
    /\ pc[p] = "exit_close" /\ Closed(p)
    /\ ofile' = [ofile EXCEPT ![p][fd[p]] = 0]
    /\ Goto(p, "exit")
    /\ UNCHANGED <<tableVars, cwd, objVars, fd, local, ff, ip, np>>

exit_cwd(p) ==
    /\ pc[p] = "exit" /\ fd[p] = NOFILE
    /\ iref' = [iref EXCEPT ![cwd[p]] = @ - 1]
    /\ cwd' = [cwd EXCEPT ![p] = None]
    /\ fd' = [fd EXCEPT ![p] = 0]
    /\ Goto(p, "zombie")
    /\ UNCHANGED <<tableVars, ofile, pipe, local, ff, ip, np>>

(* freeproc() does not look at ofile: exit() has cleared it.               *)
freeproc(p) ==
    /\ pc[p] = "zombie"
    /\ Goto(p, "unused")
    /\ UNCHANGED <<tableVars, procVars, objVars, fd, local, ff, ip, np>>

Step(p) ==
    \/ fileclose(p) \/ pipeclose(p) \/ iput(p)
    \/ \E d \in FDs : dup(p, d) \/ close(p, d)
    \/ dup_ref(p)
    \/ \E i \in Inodes : open(p, i)
    \/ open_file(p) \/ open_nofd(p) \/ open_refused(p) \/ open_put(p)
    \/ pipe_f0(p) \/ pipe_f1(p) \/ pipe_bad(p)
    \/ \E g \in Pages : pipe_page(p, g)
    \/ pipe_ok(p) \/ pipe_fail(p)
    \/ \E c \in Procs : fork(p, c)
    \/ fork_dup(p) \/ fork_cwd(p)
    \/ exit(p) \/ exit_close(p) \/ exit_clear(p) \/ exit_cwd(p) \/ freeproc(p)

Next == \E p \in Procs : Step(p)

Spec == Init /\ [][Next]_vars

-----------------------------------------------------------------------------
(* A descriptor whose reference is elsewhere: dup() sets it before it      *)
(* calls filedup(), exit() clears it after fileclose() has taken it.       *)
Uncounted(p, d) == pc[p] \in {"dup", "exit_close"} /\ fd[p] = d

Descriptors(f) == {x \in Procs \X FDs : ofile[x[1]][x[2]] = f /\ ~Uncounted(x[1], x[2])}
Locals(f) == {x \in Procs \X (1..2) : x[2] <= Len(local[x[1]]) /\ local[x[1]][x[2]] = f}

(* f->ref is the number of descriptors of all processes and of local       *)
(* variables of system calls that refer to f, at every step of every error *)
(* path of open(), dup(), pipe(), fork() and exit(), in the slots of dead  *)
(* processes too: so no file is closed under a descriptor, none stays      *)
(* allocated with nobody to close it, and the panics of filedup() and      *)
(* fileclose() are not reached.                                            *)
FileRefExact ==
    \A f \in Files : ref[f] = Cardinality(Descriptors(f)) + Cardinality(Locals(f))

Refers(x, types, o) == x.type \in types /\ x.obj = o

OpenFiles(types, o) == {f \in Files : ref[f] > 0 /\ Refers(file[f], types, o)}
Closing(types, o) == {p \in Procs : ff[p] # None /\ Refers(ff[p], types, o)}

(* Whatever a file refers to is given back once, by the call of            *)
(* fileclose() that drops the last reference, and by nobody else: an end   *)
(* of a pipe is open exactly while one open file, or one fileclose() that  *)
(* has yet to call pipeclose(), stands for it, and ip->ref counts the open *)
(* files, the fileclose()s yet to call iput(), the open()s under way and   *)
(* the current directories.  It rests on fileclose() leaving FD_NONE       *)
(* behind, for the error paths close files that were never set up.         *)
ObjectsExact ==
    /\ \A g \in Pages, e \in Ends :
          Cardinality({f \in OpenFiles({"FD_PIPE"}, g) : file[f].end = e})
        + Cardinality({p \in Closing({"FD_PIPE"}, g) : ff[p].end = e})
        = IF e \in pipe[g] THEN 1 ELSE 0
    /\ \A i \in Inodes : iref[i] =
          Cardinality(OpenFiles({"FD_INODE", "FD_DEVICE"}, i))
        + Cardinality(Closing({"FD_INODE", "FD_DEVICE"}, i))
        + Cardinality({p \in Procs : ip[p] = i}) + Cardinality({p \in Procs : cwd[p] = i})

-----------------------------------------------------------------------------
(* The parts of an inductive invariant.                                    *)

(* What a system call holds at each point: files in local variables, a     *)
(* descriptor, an inode; and what a process that is not running has left.  *)
Point(p) ==
    /\ pc[p] \in Closers => Len(local[p]) \in 0..2
    /\ pc[p] = "pipe_f1" => Len(local[p]) = 1
    /\ pc[p] \in {"pipe_page", "pipe_fd"} => Len(local[p]) = 2
    /\ pc[p] \notin Closers \cup {"pipe_f1", "pipe_page", "pipe_fd"} => local[p] = <<>>
    /\ ff[p] # None => pc[p] \in Closers
    /\ pc[p] \notin {"dup", "fork", "exit", "exit_close"} => fd[p] = 0
    /\ pc[p] \in {"dup", "exit_close"} => fd[p] \in FDs /\ ofile[p][fd[p]] # 0
    /\ pc[p] = "dup" => \E d \in FDs \ {fd[p]} : ofile[p][d] = ofile[p][fd[p]]
    /\ pc[p] \in {"open", "open_put"} <=> ip[p] # None
    /\ pc[p] \in {"unused", "embryo", "zombie"} <=> cwd[p] = None
    /\ pc[p] \in {"unused", "zombie"} => \A d \in FDs : ofile[p][d] = 0
    /\ pc[p] \in {"exit", "exit_close"} => \A d \in FDs : d < fd[p] => ofile[p][d] = 0
PointInv == \A p \in Procs : Point(p)

(* The child that a fork() is making, and that nobody else makes.          *)
ForkInv ==
    \A p \in Procs :
        /\ pc[p] = "fork" <=> np[p] # None
        /\ np[p] # None => /\ pc[np[p]] = "embryo"
                           /\ \A d \in FDs : d >= fd[p] => ofile[np[p]][d] = 0
                           /\ \A q \in Procs : np[q] = np[p] => q = p

(* The type of a file tells what obj is.                                   *)
WellTyped(x) ==
    /\ x.type = "FD_PIPE" => x.obj \in Pages
    /\ x.type \in {"FD_INODE", "FD_DEVICE"} => x.obj \in Inodes
FileInv ==
    /\ \A f \in Files : WellTyped(file[f]) /\ (ref[f] = 0 => file[f].type = "FD_NONE")
    /\ \A p \in Procs : ff[p] # None => WellTyped(ff[p]) /\ ff[p].type # "FD_NONE"

(* The files of a pipe() that has no pipe yet: nobody else has them.       *)
Fresh(p) == pc[p] \in {"pipe_f1", "pipe_page"}
FreshInv ==
    \A p \in Procs : Fresh(p) =>
        /\ \A k \in 1..Len(local[p]) : ref[local[p][k]] = 1 /\ file[local[p][k]].type = "FD_NONE"
        /\ Len(local[p]) = 2 => local[p][1] # local[p][2]

IInv == /\ TypeOK /\ PointInv /\ ForkInv /\ FileInv /\ FreshInv
        /\ FileRefExact /\ ObjectsExact
=============================================================================
