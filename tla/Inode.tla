-------------------------------- MODULE Inode -------------------------------
(***************************************************************************)
(* Inodes, directories and path names of xv6-riscv (kernel/fs.c) and the   *)
(* system calls on them (kernel/sysfile.c), by several processes.          *)
(*                                                                         *)
(* An action is what happens between two points where another process can  *)
(* interfere: it starts with the ilock() of one inode, or is one critical  *)
(* section under itable.lock.  An inode that stays locked, or referenced   *)
(* by a local variable, between two actions does so in the model.  The     *)
(* calls run inside transactions, whose atomicity is the subject of Log.   *)
(* The inode table has room for every inode in use.                        *)
(***************************************************************************)
EXTENDS Integers, Sequences, FiniteSets

CONSTANTS
    Procs,
    Names,      \* names of directory entries
    Inums,      \* inode numbers on the disk
    ROOTINO,
    None,       \* the null pointer, and de.inum of a free entry
    Calls,      \* the system calls each process makes
    Nobody      \* a sleep lock nobody holds

Elems == Names \cup {".", ".."}
Paths == [abs : BOOLEAN, elems : Seq(Elems)]
Creating == {"create", "mkdir", "mknod"}      \* "create": open() with O_CREATE
Ops == {"open", "link", "unlink", "chdir", "close"} \cup Creating
(* The rest of link() after nlink++, and of unlink() after the entry has   *)
(* been cleared.                                                           *)
Phases == {"link2", "unlink2"}

(* A device whose major number is not below NDEV is a "nodevice".          *)
Devices == {"device", "nodevice"}
(* The mode of open(), the device of mknod().                              *)
Args == {"none", "O_RDONLY", "O_RDWR"} \cup Devices

ASSUME InodeAssumption ==
    /\ IsFiniteSet(Inums) /\ IsFiniteSet(Names) /\ IsFiniteSet(Procs)
    /\ None \notin Inums /\ ROOTINO \in Inums
    /\ Names \cap {".", ".."} = {} /\ Nobody \notin Procs
    /\ \A p \in Procs : \A c \in Calls[p] :
          /\ c.op \in Ops /\ c.path \in Paths /\ c.new \in Paths /\ c.arg \in Args
          /\ c.op = "mknod" => c.arg \in Devices

VARIABLES
    dinode,     \* struct dinode: type and nlink
    ent,        \* the contents of each directory
    inode,      \* the in-memory copy, where valid
    valid, ref, lock,
    cwd, ofile, \* p->cwd, and an open file (a process has one descriptor)
    th,         \* each process: position, call and local variables
    dropped     \* history: how many names of an inode went with their directory

diskVars == <<dinode, ent, dropped>>
vars == <<diskVars, inode, valid, ref, lock, cwd, ofile, th>>

FreeInode == [type |-> "free", nlink |-> 0]
NoEntries == [n \in Elems |-> None]
NoPath == [abs |-> TRUE, elems |-> <<>>]

(* np is namex()'s ip; ip and dp are the system call's; putting is iput()'s *)
(* argument and cont where to go on after it.                              *)
Idle == [pc |-> "user", op |-> "none", arg |-> "none", rest |-> <<>>, new |-> NoPath,
         np |-> None, ip |-> None, dp |-> None, putting |-> None, cont |-> "user"]

Points == {"user", "namei", "nameiparent", "inode", "parent", "existing", "create_new", "created",
           "unlink_ip", "unlink_bad", "unlink_nlink", "link_bad", "link_end", "undo", "chdir_end",
           "iput", "itrunc", "invalidate", "ref", "panic"}
Inodes == [type : {"free", "file", "dir"} \cup Devices, nlink : Nat]
Pointers == Inums \cup {None}
Threads == [pc : Points, op : Ops \cup Phases \cup {"none"}, arg : Args, rest : Seq(Elems), new : Paths,
            np : Pointers, ip : Pointers, dp : Pointers, putting : Pointers, cont : Points]

TypeOK ==
    /\ dinode \in [Inums -> Inodes] /\ inode \in [Inums -> Inodes]
    /\ ent \in [Inums -> [Elems -> Pointers]]
    /\ valid \in [Inums -> BOOLEAN] /\ ref \in [Inums -> Nat]
    /\ lock \in [Inums -> Procs \cup {Nobody}]
    /\ dropped \in [Inums -> Nat]
    /\ cwd \in [Procs -> Inums] /\ ofile \in [Procs -> Pointers]
    /\ th \in [Procs -> Threads]

(* The file system as mkfs leaves it, and every process at its root.       *)
Init ==
    /\ dinode = [i \in Inums |-> IF i = ROOTINO THEN [type |-> "dir", nlink |-> 1] ELSE FreeInode]
    /\ ent = [i \in Inums |-> IF i = ROOTINO THEN [NoEntries EXCEPT !["."] = ROOTINO, ![".."] = ROOTINO]
                              ELSE NoEntries]
    /\ inode = [i \in Inums |-> FreeInode]
    /\ valid = [i \in Inums |-> FALSE]
    /\ ref = [i \in Inums |-> IF i = ROOTINO THEN Cardinality(Procs) ELSE 0]
    /\ lock = [i \in Inums |-> Nobody]
    /\ cwd = [p \in Procs |-> ROOTINO]
    /\ ofile = [p \in Procs |-> None]
    /\ th = [p \in Procs |-> Idle]
    /\ dropped = [i \in Inums |-> 0]

-----------------------------------------------------------------------------
(* Inodes                                                                  *)

At(p, point) == th[p].pc = point

(* iget() and idup().  The entry of an inode that was not in the table has *)
(* ip->valid = 0 already: iput() resets what nobody looks at before iget() *)
(* does.                                                                   *)
iget(i) == ref' = [ref EXCEPT ![i] = @ + 1]

(* ilock() waits for the lock, reads the inode if it has to, and panics if *)
(* that is free ("ilock: no type", see NoPanic).                           *)
NoType(i) == ~valid[i] /\ dinode[i].type = "free"
Locks(i) == lock[i] = Nobody /\ ~NoType(i)
Content(i) == IF valid[i] THEN inode[i] ELSE dinode[i]
Read(i) ==
    /\ inode' = [inode EXCEPT ![i] = Content(i)]
    /\ valid' = [valid EXCEPT ![i] = TRUE]

(* Change a locked inode and iupdate() it.                                 *)
Update(i, c) ==
    /\ inode' = [inode EXCEPT ![i] = c]
    /\ dinode' = [dinode EXCEPT ![i] = c]
Linked(i, k) == [Content(i) EXCEPT !.nlink = @ + k]

(* Where th[p] stands in iput(i), to go on at k after it.                  *)
Iput(t, i, k) == [t EXCEPT !.pc = "iput", !.putting = i, !.cont = k]
After(t) == IF t.cont = "user" THEN Idle
            ELSE [t EXCEPT !.pc = t.cont, !.putting = None, !.cont = "user"]

-----------------------------------------------------------------------------
(* iput()                                                                  *)

LastLinkAnyRef(i) == valid[i] /\ inode[i].nlink = 0
LastRef(i) == ref[i] = 1
LastLink(i) == ref[i] = 1 /\ valid[i] /\ inode[i].nlink = 0

iput(p) ==
    LET i == th[p].putting IN
    /\ \/ At(p, "iput") /\ ~LastLink(i)
       \/ At(p, "ref")
    /\ ref' = [ref EXCEPT ![i] = @ - 1]
    /\ inode' = IF ref[i] = 1 THEN [inode EXCEPT ![i] = FreeInode] ELSE inode
    /\ valid' = IF ref[i] = 1 THEN [valid EXCEPT ![i] = FALSE] ELSE valid
    /\ th' = [th EXCEPT ![p] = After(@)]
    /\ UNCHANGED <<diskVars, lock, cwd, ofile>>

(* The last reference to an inode without links: lock it, truncate and     *)
(* free it, unlock it.  The reference is still there when it is free.      *)
iput_last(p) ==
    LET i == th[p].putting IN
    /\ At(p, "iput") /\ LastLink(i)
    /\ lock[i] = Nobody
    /\ lock' = [lock EXCEPT ![i] = p]
    /\ th' = [th EXCEPT ![p].pc = "itrunc"]
    /\ UNCHANGED <<diskVars, inode, valid, ref, cwd, ofile>>

itrunc(p) ==
    LET i == th[p].putting IN
    /\ At(p, "itrunc")
    /\ Update(i, FreeInode)
    /\ ent' = [ent EXCEPT ![i] = NoEntries]
    /\ dropped' = [j \in Inums |-> dropped[j] + Cardinality({n \in Names : ent[i][n] = j})]
    /\ th' = [th EXCEPT ![p].pc = "invalidate"]
    /\ UNCHANGED <<valid, ref, lock, cwd, ofile>>

invalidate(p) ==
    LET i == th[p].putting IN
    /\ At(p, "invalidate")
    /\ valid' = [valid EXCEPT ![i] = FALSE]
    /\ lock' = [lock EXCEPT ![i] = Nobody]
    /\ th' = [th EXCEPT ![p].pc = "ref"]
    /\ UNCHANGED <<diskVars, inode, ref, cwd, ofile>>

-----------------------------------------------------------------------------
(* namei(), nameiparent()                                                  *)

(* A call starts at the root or at the current directory.                  *)
Walking(t, pc, i, elems) == [t EXCEPT !.pc = pc, !.np = i, !.rest = elems]
Start(p, path) == IF path.abs THEN ROOTINO ELSE cwd[p]

syscall(p, c) ==
    LET i == Start(p, c.path) IN
    /\ At(p, "user") /\ c.op # "close"
    /\ iget(i)
    /\ th' = [th EXCEPT ![p] =
          [Walking(@, IF c.op \in {"open", "link", "chdir"} THEN "namei" ELSE "nameiparent", i, c.path.elems)
              EXCEPT !.op = c.op, !.arg = c.arg, !.new = c.new]]
    /\ UNCHANGED <<diskVars, inode, valid, lock, cwd, ofile>>

dirlookup(d, n) == ent[d][n]

(* One iteration of namex() locks np, looks and unlocks it.                *)
Walks(p) == (At(p, "namei") \/ At(p, "nameiparent")) /\ th[p].rest # <<>> /\ Locks(th[p].np)
IsDir(i) == Content(i).type = "dir"
LastElem(t) == t.pc = "nameiparent" /\ Len(t.rest) = 1

Failed(t) == IF t.op = "link2" THEN "undo" ELSE "user"

namex_next(p) ==
    LET t == th[p]
        next == dirlookup(t.np, Head(t.rest))
    IN
    /\ Walks(p) /\ IsDir(t.np) /\ ~LastElem(t)
    /\ next # None
    /\ Read(t.np)
    /\ iget(next)
    /\ th' = [th EXCEPT ![p] = [Iput(t, t.np, t.pc) EXCEPT !.np = next, !.rest = Tail(@)]]
    /\ UNCHANGED <<diskVars, lock, cwd, ofile>>

(* Not a directory, or no such name.                                       *)
namex_fails(p) ==
    LET t == th[p] IN
    /\ Walks(p)
    /\ ~IsDir(t.np) \/ (~LastElem(t) /\ dirlookup(t.np, Head(t.rest)) = None)
    /\ Read(t.np)
    /\ th' = [th EXCEPT ![p] = [Iput(t, t.np, Failed(t)) EXCEPT !.np = None]]
    /\ UNCHANGED <<diskVars, ref, lock, cwd, ofile>>

(* nameiparent() returns the directory unlocked.                           *)
namex_parent(p) ==
    LET t == th[p] IN
    /\ Walks(p) /\ IsDir(t.np) /\ LastElem(t)
    /\ Read(t.np)
    /\ th' = [th EXCEPT ![p] = [t EXCEPT !.pc = "parent", !.dp = t.np, !.np = None]]
    /\ UNCHANGED <<diskVars, ref, lock, cwd, ofile>>

(* The end of the path; "/" has no parent.                                 *)
namex_end(p) ==
    LET t == th[p] IN
    /\ At(p, "namei") \/ At(p, "nameiparent")
    /\ t.rest = <<>>
    /\ th' = [th EXCEPT ![p] =
          IF t.pc = "namei" THEN [t EXCEPT !.pc = "inode", !.ip = t.np, !.np = None]
          ELSE [Iput(t, t.np, Failed(t)) EXCEPT !.np = None]]
    /\ UNCHANGED <<diskVars, inode, valid, ref, lock, cwd, ofile>>
-----------------------------------------------------------------------------
(* open(): without O_CREATE, or of a file that create() has found          *)

Openable(t) ==
    LET type == Content(t.ip).type IN
    /\ \/ t.pc = "inode" /\ (type = "dir" => t.arg = "O_RDONLY")
       \/ t.pc = "existing" /\ t.op = "create" /\ type \in {"file"} \cup Devices
    /\ type # "nodevice"
Opens(p) == (At(p, "inode") /\ th[p].op = "open") \/ At(p, "existing")

sys_open(p) ==
    LET t == th[p] IN
    /\ Opens(p) /\ Locks(t.ip)
    /\ Openable(t) /\ ofile[p] = None
    /\ Read(t.ip)
    /\ ofile' = [ofile EXCEPT ![p] = t.ip]
    /\ th' = [th EXCEPT ![p] = Idle]
    /\ UNCHANGED <<diskVars, ref, lock, cwd>>

(* A directory opened for writing, a name that mkdir() or mknod() finds    *)
(* taken, a device that does not exist, or no descriptor left.             *)
open_fails_leaks(p) ==
    LET t == th[p] IN
    /\ Opens(p) /\ Locks(t.ip)
    /\ ~(Openable(t) /\ ofile[p] = None)
    /\ Read(t.ip)
    /\ th' = [th EXCEPT ![p] = Idle]
    /\ UNCHANGED <<diskVars, ref, lock, cwd, ofile>>
open_fails(p) ==
    LET t == th[p] IN
    /\ Opens(p) /\ Locks(t.ip)
    /\ ~(Openable(t) /\ ofile[p] = None)
    /\ Read(t.ip)
    /\ th' = [th EXCEPT ![p] = [Iput(t, t.ip, "user") EXCEPT !.ip = None]]
    /\ UNCHANGED <<diskVars, ref, lock, cwd, ofile>>

sys_close(p) ==
    /\ At(p, "user") /\ ofile[p] # None
    /\ th' = [th EXCEPT ![p] = Iput(@, ofile[p], "user")]
    /\ ofile' = [ofile EXCEPT ![p] = None]
    /\ UNCHANGED <<diskVars, inode, valid, ref, lock, cwd>>

-----------------------------------------------------------------------------
(* create(), of open(O_CREATE), mkdir() and mknod()                        *)

Type(t) == CASE t.op = "create" -> "file" [] t.op = "mkdir" -> "dir" [] t.op = "mknod" -> t.arg
Name(p) == th[p].rest[1]
Creates(p) == At(p, "parent") /\ th[p].op \in Creating /\ Locks(th[p].dp)

(* The name exists: go on with its inode, without dp.                      *)
create_exists_unref(p) ==
    LET t == th[p]
        i == dirlookup(t.dp, Name(p))
    IN
    /\ Creates(p) /\ i # None
    /\ Read(t.dp)
    /\ th' = [th EXCEPT ![p] = [Iput(t, t.dp, "existing") EXCEPT !.ip = i, !.dp = None]]
    /\ UNCHANGED <<diskVars, ref, lock, cwd, ofile>>
create_exists(p) ==
    LET t == th[p]
        i == dirlookup(t.dp, Name(p))
    IN
    /\ Creates(p) /\ i # None
    /\ Read(t.dp)
    /\ iget(i)
    /\ th' = [th EXCEPT ![p] = [Iput(t, t.dp, "existing") EXCEPT !.ip = i, !.dp = None]]
    /\ UNCHANGED <<diskVars, lock, cwd, ofile>>

(* ialloc() with dp locked.  Its scan of the disk is not atomic, so that   *)
(* any free inode may be the one it finds.                                 *)
ialloc(p, i) ==
    LET t == th[p] IN
    /\ Creates(p) /\ dirlookup(t.dp, Name(p)) = None
    /\ dinode[i].type = "free"
    /\ dinode' = [dinode EXCEPT ![i] = [type |-> Type(t), nlink |-> 0]]
    /\ ent' = [ent EXCEPT ![i] = NoEntries]
    /\ Read(t.dp)
    /\ iget(i)
    /\ lock' = [lock EXCEPT ![t.dp] = p]
    /\ th' = [th EXCEPT ![p].pc = "create_new", ![p].ip = i]
    /\ UNCHANGED <<dropped, cwd, ofile>>

(* panic("ialloc: no inodes")                                              *)
ialloc_panic(p) ==
    /\ Creates(p) /\ dirlookup(th[p].dp, Name(p)) = None
    /\ \A i \in Inums : dinode[i].type # "free"
    /\ Read(th[p].dp)
    /\ lock' = [lock EXCEPT ![th[p].dp] = p]
    /\ th' = [th EXCEPT ![p].pc = "panic"]
    /\ UNCHANGED <<diskVars, ref, cwd, ofile>>

(* Fill in the inode, then dirlink() it and unlock dp.  ip stays locked.   *)
create_new(p) ==
    LET t == th[p]
        isdir == Content(t.ip).type = "dir"
        new == [Content(t.ip) EXCEPT !.nlink = 1]
        dir == Linked(t.dp, IF isdir THEN 1 ELSE 0)
        dots == [NoEntries EXCEPT !["."] = t.ip, ![".."] = t.dp]
    IN
    /\ At(p, "create_new") /\ Locks(t.ip)
    /\ inode' = [inode EXCEPT ![t.ip] = new, ![t.dp] = dir]
    /\ dinode' = [dinode EXCEPT ![t.ip] = new, ![t.dp] = dir]
    /\ valid' = [valid EXCEPT ![t.ip] = TRUE]
    /\ ent' = [ent EXCEPT ![t.ip] = IF isdir THEN dots ELSE @, ![t.dp][Name(p)] = t.ip]
    /\ lock' = [lock EXCEPT ![t.ip] = p, ![t.dp] = Nobody]
    /\ th' = [th EXCEPT ![p] = [Iput(t, t.dp, "created") EXCEPT !.dp = None]]
    /\ UNCHANGED <<dropped, ref, cwd, ofile>>

(* open() keeps the inode if it has a descriptor; the others iput() it.    *)
created(p) ==
    LET t == th[p]
        keep == t.op = "create" /\ ofile[p] = None
    IN
    /\ At(p, "created")
    /\ lock' = [lock EXCEPT ![t.ip] = Nobody]
    /\ ofile' = IF keep THEN [ofile EXCEPT ![p] = t.ip] ELSE ofile
    /\ th' = [th EXCEPT ![p] = IF keep THEN Idle ELSE [Iput(t, t.ip, "user") EXCEPT !.ip = None]]
    /\ UNCHANGED <<diskVars, inode, valid, ref, cwd>>
-----------------------------------------------------------------------------
(* unlink()                                                                *)

Unlinks(p) == At(p, "parent") /\ th[p].op = "unlink" /\ Locks(th[p].dp)
Removable(p) == Name(p) \notin {".", ".."} /\ dirlookup(th[p].dp, Name(p)) # None

unlink_fails(p) ==
    LET t == th[p] IN
    /\ Unlinks(p) /\ ~Removable(p)
    /\ Read(t.dp)
    /\ th' = [th EXCEPT ![p] = [Iput(t, t.dp, "user") EXCEPT !.dp = None]]
    /\ UNCHANGED <<diskVars, ref, lock, cwd, ofile>>

unlink_dp(p) ==
    LET t == th[p]
        i == dirlookup(t.dp, Name(p))
    IN
    /\ Unlinks(p) /\ Removable(p)
    /\ Read(t.dp)
    /\ iget(i)
    /\ lock' = [lock EXCEPT ![t.dp] = p]
    /\ th' = [th EXCEPT ![p].pc = "unlink_ip", ![p].ip = i]
    /\ UNCHANGED <<diskVars, cwd, ofile>>

isdirempty(d) == \A n \in Names : ent[d][n] = None

(* Clear the entry and unlock dp; ip stays locked.                         *)
unlink_ip(p) ==
    LET t == th[p] IN
    /\ At(p, "unlink_ip") /\ Locks(t.ip)
    /\ IsDir(t.ip) => isdirempty(t.ip)
    /\ LET dir == Linked(t.dp, IF IsDir(t.ip) THEN -1 ELSE 0) IN
          /\ inode' = [inode EXCEPT ![t.ip] = Content(t.ip), ![t.dp] = dir]
          /\ dinode' = [dinode EXCEPT ![t.dp] = dir]
    /\ valid' = [valid EXCEPT ![t.ip] = TRUE]
    /\ ent' = [ent EXCEPT ![t.dp][Name(p)] = None]
    /\ lock' = [lock EXCEPT ![t.ip] = p, ![t.dp] = Nobody]
    /\ th' = [th EXCEPT ![p] = [Iput(t, t.dp, "unlink_nlink") EXCEPT !.dp = None, !.op = "unlink2"]]
    /\ UNCHANGED <<dropped, ref, cwd, ofile>>

unlink_nlink(p) ==
    LET t == th[p] IN
    /\ At(p, "unlink_nlink")
    /\ Update(t.ip, Linked(t.ip, -1))
    /\ lock' = [lock EXCEPT ![t.ip] = Nobody]
    /\ th' = [th EXCEPT ![p] = [Iput(t, t.ip, "user") EXCEPT !.ip = None, !.op = "unlink"]]
    /\ UNCHANGED <<ent, dropped, valid, ref, cwd, ofile>>

(* A directory that is not empty: iunlockput(ip), then iunlockput(dp).     *)
unlink_notempty(p) ==
    LET t == th[p] IN
    /\ At(p, "unlink_ip") /\ Locks(t.ip)
    /\ IsDir(t.ip) /\ ~isdirempty(t.ip)
    /\ Read(t.ip)
    /\ th' = [th EXCEPT ![p] = [Iput(t, t.ip, "unlink_bad") EXCEPT !.ip = None]]
    /\ UNCHANGED <<diskVars, ref, lock, cwd, ofile>>

(* iunlockput(dp), of unlink() and of link() when dirlink() has failed.    *)
bad(p) ==
    LET t == th[p] IN
    /\ At(p, "unlink_bad") \/ At(p, "link_bad")
    /\ lock' = [lock EXCEPT ![t.dp] = Nobody]
    /\ th' = [th EXCEPT ![p] = [Iput(t, t.dp, Failed(t)) EXCEPT !.dp = None]]
    /\ UNCHANGED <<diskVars, inode, valid, ref, cwd, ofile>>

-----------------------------------------------------------------------------
(* link()                                                                  *)

link_dir(p) ==
    LET t == th[p] IN
    /\ At(p, "inode") /\ t.op = "link" /\ Locks(t.ip)
    /\ IsDir(t.ip)
    /\ Read(t.ip)
    /\ th' = [th EXCEPT ![p] = [Iput(t, t.ip, "user") EXCEPT !.ip = None]]
    /\ UNCHANGED <<diskVars, ref, lock, cwd, ofile>>

(* nlink++, before the entry exists; then look up the new name's parent.   *)
link_nlink(p) ==
    LET t == th[p]
        i == Start(p, t.new)
    IN
    /\ At(p, "inode") /\ t.op = "link" /\ Locks(t.ip)
    /\ ~IsDir(t.ip)
    /\ Update(t.ip, Linked(t.ip, 1))
    /\ valid' = [valid EXCEPT ![t.ip] = TRUE]
    /\ iget(i)
    /\ th' = [th EXCEPT ![p] = [Walking(t, "nameiparent", i, t.new.elems) EXCEPT !.op = "link2"]]
    /\ UNCHANGED <<ent, dropped, lock, cwd, ofile>>

Links(p) == At(p, "parent") /\ th[p].op = "link2" /\ Locks(th[p].dp)

dirlink(p) ==
    LET t == th[p] IN
    /\ Links(p) /\ dirlookup(t.dp, Name(p)) = None
    /\ Read(t.dp)
    /\ ent' = [ent EXCEPT ![t.dp][Name(p)] = t.ip]
    /\ th' = [th EXCEPT ![p] = [Iput(t, t.dp, "link_end") EXCEPT !.dp = None, !.op = "link"]]
    /\ UNCHANGED <<dinode, dropped, ref, lock, cwd, ofile>>

link_end(p) ==
    LET t == th[p] IN
    /\ At(p, "link_end")
    /\ th' = [th EXCEPT ![p] = [Iput(t, t.ip, "user") EXCEPT !.ip = None]]
    /\ UNCHANGED <<diskVars, inode, valid, ref, lock, cwd, ofile>>

(* The name is taken: dirlink() drops the inode it found, dp still locked. *)
dirlink_fails(p) ==
    LET t == th[p]
        i == dirlookup(t.dp, Name(p))
    IN
    /\ Links(p) /\ i # None
    /\ Read(t.dp)
    /\ iget(i)
    /\ lock' = [lock EXCEPT ![t.dp] = p]
    /\ th' = [th EXCEPT ![p] = Iput(t, i, "link_bad")]
    /\ UNCHANGED <<diskVars, cwd, ofile>>

(* bad: nlink--                                                            *)
undo_forgotten(p) ==
    LET t == th[p] IN
    /\ At(p, "undo") /\ Locks(t.ip)
    /\ Read(t.ip)
    /\ th' = [th EXCEPT ![p] = [Iput(t, t.ip, "user") EXCEPT !.ip = None, !.op = "link"]]
    /\ UNCHANGED <<diskVars, ref, lock, cwd, ofile>>
undo(p) ==
    LET t == th[p] IN
    /\ At(p, "undo") /\ Locks(t.ip)
    /\ Update(t.ip, Linked(t.ip, -1))
    /\ valid' = [valid EXCEPT ![t.ip] = TRUE]
    /\ th' = [th EXCEPT ![p] = [Iput(t, t.ip, "user") EXCEPT !.ip = None, !.op = "link"]]
    /\ UNCHANGED <<ent, dropped, ref, lock, cwd, ofile>>

-----------------------------------------------------------------------------
(* chdir()                                                                 *)

sys_chdir(p) ==
    LET t == th[p] IN
    /\ At(p, "inode") /\ t.op = "chdir" /\ Locks(t.ip)
    /\ Read(t.ip)
    /\ th' = [th EXCEPT ![p] = IF IsDir(t.ip) THEN Iput(t, cwd[p], "chdir_end")
                               ELSE [Iput(t, t.ip, "user") EXCEPT !.ip = None]]
    /\ UNCHANGED <<diskVars, ref, lock, cwd, ofile>>

chdir_end(p) ==
    /\ At(p, "chdir_end")
    /\ cwd' = [cwd EXCEPT ![p] = th[p].ip]
    /\ th' = [th EXCEPT ![p] = Idle]
    /\ UNCHANGED <<diskVars, inode, valid, ref, lock, ofile>>

(* panic() does not return; the other CPUs go on.                          *)
panic(p) == At(p, "panic") /\ UNCHANGED vars

-----------------------------------------------------------------------------
Next ==
    \E p \in Procs :
        \/ \E c \in Calls[p] : syscall(p, c)
        \/ sys_close(p)
        \/ iput(p) \/ iput_last(p) \/ itrunc(p) \/ invalidate(p)
        \/ namex_next(p) \/ namex_fails(p) \/ namex_parent(p) \/ namex_end(p)
        \/ sys_open(p) \/ open_fails(p)
        \/ create_exists(p) \/ (\E i \in Inums : ialloc(p, i)) \/ ialloc_panic(p)
        \/ create_new(p) \/ created(p)
        \/ unlink_fails(p) \/ unlink_dp(p) \/ unlink_ip(p) \/ unlink_nlink(p) \/ unlink_notempty(p)
        \/ bad(p)
        \/ link_dir(p) \/ link_nlink(p) \/ dirlink(p) \/ dirlink_fails(p) \/ link_end(p) \/ undo(p)
        \/ sys_chdir(p) \/ chdir_end(p) \/ panic(p)

Spec == Init /\ [][Next]_vars

-----------------------------------------------------------------------------
(* ip->ref counts the pointers to the inode: current directories, open     *)
(* files and local variables.  While chdir() drops the old directory,      *)
(* p->cwd still names it.                                                  *)
Leaving(p) == "chdir_end" \in {th[p].pc, th[p].cont}
Pointer(p, f) ==
    CASE f = "cwd" -> IF Leaving(p) THEN None ELSE cwd[p]
      [] f = "ofile" -> ofile[p]
      [] f = "np" -> th[p].np
      [] f = "ip" -> th[p].ip
      [] f = "dp" -> th[p].dp
      [] f = "putting" -> th[p].putting
Fields == {"cwd", "ofile", "np", "ip", "dp", "putting"}
Holders(i) == {x \in Procs \X Fields : Pointer(x[1], x[2]) = i}
RefExact == \A i \in Inums : ref[i] = Cardinality(Holders(i))

(* iput() never waits for the sleep lock it takes under itable.lock: "no   *)
(* other process can have ip locked" (fs.c:341).                           *)
IputNeverBlocks ==
    \A p \in Procs : At(p, "iput") /\ LastLink(th[p].putting) => lock[th[p].putting] = Nobody

(* No panic("ilock: no type"), whatever is unlinked between the lookup of  *)
(* a name and the ilock() of its inode, and no panic("unlink: nlink < 1"). *)
Locking(p) ==
    LET t == th[p] IN
    CASE t.pc \in {"namei", "nameiparent"} /\ t.rest # <<>> -> t.np
      [] t.pc \in {"inode", "existing", "create_new", "unlink_ip", "undo"} -> t.ip
      [] t.pc = "parent" -> t.dp
      [] OTHER -> None
NoPanic ==
    \A p \in Procs :
        /\ Locking(p) # None => ~NoType(Locking(p))
        /\ th[p].pc = "unlink_ip" => Content(th[p].ip).nlink >= 1

(* "A potential risk is that a lookup may be searching a directory that    *)
(* has been deleted ... Xv6 avoids such races" (xv6-riscv-book/fs.tex:1276,*)
(* 1280): namex() only searches inodes that are in use.                    *)
Searching(p) == th[p].pc \in {"namei", "nameiparent"} /\ th[p].rest # <<>>
NoDeletedLookup == \A p \in Procs : Searching(p) => dinode[th[p].np].type # "free"

(* The entries that refer to i.  That of the root is its own; the ".." of  *)
(* a directory counts as long as the directory has a name.                 *)
NamedIn(i) == \E d \in Inums, n \in Names : ent[d][n] = i
Named(d) == d = ROOTINO \/ NamedIn(d)
Entries(i) ==
    {x \in Inums \X Names : ent[x[1]][x[2]] = i}
        \cup {x \in Inums \X {".."} : ent[x[1]][".."] = i /\ Named(x[1])}

(* Where a process is in its call, whether or not it is in iput() there.   *)
IputPoints == {"iput", "itrunc", "invalidate", "ref"}
Where(p) == IF th[p].pc \in IputPoints THEN th[p].cont ELSE th[p].pc

(* nlink is the number of entries, except within link() and unlink();      *)
(* unlink() takes no name off a directory that has names in it, and keeps  *)
(* it locked until it is counted; and the copy in memory of an inode that  *)
(* is not locked is that on the disk.  What nlink counts too much are the  *)
(* names that create() and link() put into a directory after its removal   *)
(* and that vanish with it (`dropped`); NoLostInodes is false for them.    *)
Pending(i) == Cardinality({p \in Procs : th[p].op \in {"link2", "unlink2"} /\ th[p].ip = i})
Unlinked(p) == Where(p) = "unlink_nlink"
NlinkAccounted ==
    /\ \A i \in Inums :
          /\ dinode[i].nlink = Cardinality(Entries(i)) + Pending(i) + dropped[i]
          /\ valid[i] /\ ref[i] > 0 /\ lock[i] = Nobody => inode[i] = dinode[i]
    /\ \A p \in Procs : Unlinked(p) => isdirempty(th[p].ip)

(* "If that was the last reference and the inode has no links to it, free  *)
(* the inode" (fs.c:328): one that no directory names and nobody uses is   *)
(* free.                                                                   *)
NoLostInodes ==
    \A i \in Inums \ {ROOTINO} : dinode[i].type # "free" => NamedIn(i) \/ ref[i] > 0

-----------------------------------------------------------------------------
(* The inductive invariant behind RefExact and IputNeverBlocks             *)

(* Which local variables are in use, and which call it is, at each point.  *)
NpUsed == {"namei", "nameiparent"}
DpUsed == {"parent", "create_new", "unlink_ip", "unlink_bad", "link_bad", "panic"}
IpUsed == {"inode", "existing", "create_new", "created", "unlink_ip", "unlink_nlink", "link_bad", "link_end",
           "undo", "chdir_end"}
OpsAt(w) ==
    CASE w \in {"namei", "inode"} -> {"open", "link", "chdir"}
      [] w \in {"nameiparent", "parent"} -> Creating \cup {"unlink", "link2"}
      [] w \in {"existing", "create_new", "created", "panic"} -> Creating
      [] w \in {"unlink_ip", "unlink_bad"} -> {"unlink"}
      [] w = "unlink_nlink" -> {"unlink2"}
      [] w \in {"link_bad", "undo"} -> {"link2"}
      [] w = "link_end" -> {"link"}
      [] w = "chdir_end" -> {"chdir"}
      [] OTHER -> Ops \cup {"none"}
ThreadOk(p) ==
    LET t == th[p]
        w == Where(p)
    IN
    /\ w \notin IputPoints
    /\ t.pc \in IputPoints <=> t.putting # None
    /\ t.pc \notin IputPoints => t.cont = "user"
    /\ w \in NpUsed <=> t.np # None
    /\ w \in DpUsed <=> t.dp # None
    /\ w \in IpUsed \/ (w \in {"nameiparent", "parent"} /\ t.op = "link2") <=> t.ip # None
    /\ t.op \in OpsAt(w)
    /\ w \in {"parent", "create_new", "unlink_ip"} => Len(t.rest) = 1
    /\ t.op = "mknod" => t.arg \in Devices
ThreadInv == \A p \in Procs : ThreadOk(p)

(* The sleep locks a process holds from one action to the next.            *)
DpLocked == {"create_new", "unlink_ip", "unlink_bad", "link_bad", "panic"}
IpLocked == {"created", "unlink_nlink"}
LocksHeld(p) ==
    {i \in Inums : \/ Where(p) \in DpLocked /\ i = th[p].dp
                   \/ Where(p) \in IpLocked /\ i = th[p].ip
                   \/ th[p].pc \in {"itrunc", "invalidate"} /\ i = th[p].putting}
LockInv ==
    /\ \A p \in Procs, i \in Inums : lock[i] = p <=> i \in LocksHeld(p)
    /\ \A p \in Procs : th[p].pc \in {"itrunc", "invalidate"} =>
          ~(Where(p) \in DpLocked /\ th[p].putting = th[p].dp) /\ ~(Where(p) \in IpLocked /\ th[p].putting = th[p].ip)

(* TypeOK but for the sign of nlink.                                       *)
Records == [type : {"free", "file", "dir"} \cup Devices, nlink : Int]
TypeInv ==
    /\ dinode \in [Inums -> Records] /\ inode \in [Inums -> Records]
    /\ ent \in [Inums -> [Elems -> Pointers]]
    /\ valid \in [Inums -> BOOLEAN] /\ ref \in [Inums -> Nat]
    /\ lock \in [Inums -> Procs \cup {Nobody}]
    /\ dropped \in [Inums -> Nat]
    /\ cwd \in [Procs -> Inums] /\ ofile \in [Procs -> Pointers]
    /\ th \in [Procs -> Threads]

RefInv == TypeInv /\ ThreadInv /\ RefExact /\ LockInv

-----------------------------------------------------------------------------
(* The inductive invariant behind NlinkAccounted and NoPanic.  A removed    *)
(* directory keeps its ".." but no longer the parent, which may be gone or  *)
(* be another inode by then (see NoDeletedLookup): the invariant holds as   *)
(* long as no lookup follows such an entry.                                *)
Looks(p) == (Searching(p) \/ At(p, "parent")) /\ Head(th[p].rest) = ".."
DotDotNamed ==
    \A p \in Procs : Looks(p) =>
        LET i == ent[IF At(p, "parent") THEN th[p].dp ELSE th[p].np][".."] IN i = None \/ Named(i)

Alive(i) == dinode[i].type # "free"
Creator(p, i) == th[p].pc = "create_new" /\ th[p].ip = i
Putter(x) == x[2] = "putting" /\ th[x[1]].pc \in {"invalidate", "ref"}

(* A pointer refers to an inode in use, unless iput() has just freed it.   *)
PointerInv ==
    \A i \in Inums : \A x \in Holders(i) : Alive(i) \/ Putter(x)

(* The only pointer to an inode that iput() is about to truncate.          *)
TruncInv ==
    \A p \in Procs : th[p].pc = "itrunc" =>
        ref[th[p].putting] = 1 /\ valid[th[p].putting] /\ inode[th[p].putting].nlink = 0

(* Once it is free it has no user, until create() allocates it again.      *)
FreedInv ==
    \A p \in Procs : th[p].pc = "invalidate" =>
        ~Alive(th[p].putting) \/ \E q \in Procs : Creator(q, th[p].putting)

(* A valid copy in memory is that on the disk, of an inode in use.         *)
Invalidating(i) == \E p \in Procs : th[p].pc = "invalidate" /\ th[p].putting = i
CacheInv ==
    \A i \in Inums : valid[i] => (Alive(i) /\ inode[i] = dinode[i]) \/ Invalidating(i)

(* What create() has allocated is known to nobody else.                    *)
NewOk(p) ==
    LET i == th[p].ip IN
    /\ dinode[i] = [type |-> Type(th[p]), nlink |-> 0] /\ ent[i] = NoEntries
    /\ \A x \in Holders(i) : x = <<p, "ip">> \/ Putter(x)
    /\ ent[th[p].dp][Name(p)] = None
NewInv == \A p \in Procs : th[p].pc = "create_new" => NewOk(p)

(* The shape of the directory tree: only directories have entries, a name  *)
(* of a directory is its only one and is in the directory's parent.        *)
TreeInv ==
    /\ \A i \in Inums : dinode[i].type # "dir" => ent[i] = NoEntries
    /\ \A i \in Inums : dinode[i].type = "dir" =>
          \/ ent[i]["."] = i /\ ent[i][".."] # None
          \/ \E p \in Procs : Creator(p, i)
    /\ \A d \in Inums, n \in Names : ent[d][n] # None /\ dinode[ent[d][n]].type = "dir" =>
          /\ ent[d][n] # ROOTINO /\ ent[ent[d][n]][".."] = d
          /\ \A e \in Inums, m \in Names : ent[e][m] = ent[d][n] => e = d /\ m = n
    /\ dinode[ROOTINO].type = "dir" /\ ent[ROOTINO][".."] = ROOTINO

(* What each call knows of its inodes.                                     *)
CallOk(p) ==
    LET t == th[p] IN
    /\ Where(p) \in {"parent", "create_new", "unlink_ip"} => dinode[t.dp].type = "dir"
    /\ t.op = "link2" => dinode[t.ip].type # "dir"
    /\ t.pc = "unlink_ip" => Name(p) \in Names /\ ent[t.dp][Name(p)] = t.ip
    /\ t.cont \notin {"create_new", "unlink_ip"}
CallInv == \A p \in Procs : CallOk(p)

LinkInv ==
    /\ \A i \in Inums : dinode[i].nlink = Cardinality(Entries(i)) + Pending(i) + dropped[i]
    /\ \A i \in Inums : inode[i].nlink >= 0 /\ (dinode[i].type = "free" => dinode[i].nlink = 0)

(* What unlink() has found empty stays so while it holds the lock.         *)
EmptyInv == \A p \in Procs : Unlinked(p) => isdirempty(th[p].ip)

NlinkInv ==
    PointerInv /\ TruncInv /\ FreedInv /\ CacheInv /\ NewInv /\ TreeInv /\ CallInv /\ LinkInv
=============================================================================
