# Verification of the xv6-riscv kernel

The repository collects historical and teaching Unixes: v6, v7, a v7 port to
the PC, Plan 9, xv6 for x86 and for RISC-V with its book, and some derivatives
(xv7, xv6-rust, core-os-riscv).  They share no code at run time.  This project
is about the one that is most alive, `src/xv6-riscv/kernel`, a multiprocessor
kernel of about 6300 lines; the other trees are listed in `PROJECT.json` as not
modelled.  Paths below are relative to `src/xv6-riscv/kernel`.

## The system's parts

| component | state | operations | interacts through |
|---|---|---|---|
| logging (`log.c`) | in-memory header, outstanding calls, committing flag; header and data blocks on disk | `begin_op`, `log_write`, `end_op`, `commit`, recovery | sleeps on `&log`; pins buffers; every file-system call |
| buffer cache (`bio.c`) | `NBUF` buffers in LRU order, reference counts, sleep locks | `bread`, `bwrite`, `brelse`, `bpin`, `bunpin` | disk driver below, log and inodes above |
| disk driver (`virtio_disk.c`) | 8 descriptors, avail and used rings | `virtio_disk_rw`, `virtio_disk_intr` | device by shared memory and interrupts |
| processes (`proc.c`) | `proc[]`, per-CPU `proc`, `p->lock`, `wait_lock` | `fork`, `exit`, `wait`, `kill`, `sleep`, `wakeup`, `yield`, `sched`, `scheduler` | everything that sleeps; timer traps |
| pipes (`pipe.c`) | ring buffer, two counters, two open flags | `pipewrite`, `piperead`, `pipeclose` | sleeps on `&nread`, `&nwrite`; `file.c` |
| file table (`file.c`, `sysfile.c`) | `ftable`, `ofile[]` | open, dup, close, read, write, pipe | pipes, inodes, console |
| inodes, directories, paths (`fs.c`, `sysfile.c`) | `itable`, inodes and bitmap on disk | `iget`, `ilock`, `iput`, `itrunc`, link, unlink, create | log, buffer cache |
| console and UART (`console.c`, `uart.c`) | input line buffer, transmit ring | `consoleread`, `consoleintr`, `uartputc`, `uartstart` | interrupts |
| memory (`kalloc.c`, `vm.c`, `exec.c`) | free list, page tables | allocate, copy, map | processes |
| traps, system calls, boot | registers | dispatch | all |

What is hard in this code: several CPUs and interrupt handlers interleave
everywhere; a process sleeps with a condition it tested under a lock and must
not miss the wakeup; locks are handed from a process to the scheduler across a
stack switch; power fails between any two disk writes and again during
recovery; tables and rings run full; counters wrap; a process can be killed at
any point of a system call.  `PROJECT.json` lists these hazards line by line,
each with the property that would catch it.

## Modules

| module | models | abstract specification |
|---|---|---|
| `Log` | `log.c`, and of `bio.c` what the log relies on | `AtomicDisk` |
| `Proc` | `proc.c`, with the locking of `spinlock.c` and the traps of `trap.c` | `ProcTree` |
| `Pipe` | `pipe.c` and `fileclose()` of a pipe end | `PipeQueue` |
| `VirtioDisk` | `virtio_disk.c` and the device | `BlockDevice` |
| `BufCache` | `bio.c` and `sleeplock.c`, used as the log uses them | `BlockStore` |
| `Inode` | `fs.c` without file contents, and the calls of `sysfile.c` on names | |
| `FileTable` | `file.c`, the descriptors of `sysfile.c`, `pipealloc()`, and what `fork()` and `exit()` do to open files | |
| `Console` | `console.c`, `uart.c` and the UART | `Terminal` |
| `MCLog`, `MCPipe`, `MCVirtioDisk`, `MCBufCache`, `MCInode`, `MCConsole` | symmetry sets and workloads for TLC and properties that only TLC evaluates | |
| `LogProof`, `ProcProof`, `PipeProof`, `VirtioDiskProof`, `BufCacheProof`, `FileTableProof`, `InodeProof`, `ConsoleProof` | theorems about these components and their proofs | |

Definitions keep the C names.  Some operations are preceded by a deliberately
broken variant of themselves (`PROJECT.json` pairs them), used to see that a
property notices the bug.  The modules are layers of one stack: `Log` assumes
the promises of `BlockStore` (one current copy of each block) and of
`BlockDevice` (a transfer is atomic and done when the call returns), which
`BufCache` and `VirtioDisk` are shown to keep.  `FileTable` stands between the
calls of a process and `Pipe`, `Inode` and `Console`: it shows that an object is
released once and by the last to use it, which those modules take as given
(`Pipe` has an end per process, `Inode` a descriptor).

### Log

The disk is three variables: home blocks, the log's data blocks and the header.
The cache maps a block to its contents or to `NotCached`; `refcnt` counts pins
only, because the references of `bread()`/`brelse()` pairs never span two
actions.  An action is one critical section under `log.lock` or one disk write
of `commit()` or `recover_from_log()`; the disk writes a block atomically.
`Recycle` may evict any unpinned block at any time, which covers every LRU
order.  `Crash` may come between any two actions, recovery included, and keeps
only the disk.  A system call writes at most `MAXOPBLOCKS` distinct blocks
(`WithinBudget`), which is the callers' side of the contract (`filewrite`
splits long writes for it).

`AtomicDisk` has what a reader sees now (`view`), what he would see after a
crash (`stable`), and the calls under way; `Commit` makes all writes durable at
once and only when no call is under way.  The refinement mapping takes for
`stable` the disk with the log replayed over it.

### Proc

A CPU scans for work, is in the middle of a switch, runs a process, or spins
for a lock with interrupts off.  `p->lock` and `wait_lock` are held by CPUs, as
in the code, where the scheduler acquires a lock that the process releases.
`fork()`, `exit()` and `wait()` are cut at each lock acquisition.  `exit()`'s
closing of files and directories is one step (`FileTable` looks inside it).  The
pids given to `kill()` are the constant `KillArgs`.  1 is left out of the run,
because `init` then panics the kernel by design (`proc.c:344`).  0 is in it:
`kill()` compares pids without looking at the state (`proc.c:585`) and a free slot
has pid 0, so that `kill(0)` marks a slot before it has a process (see findings).
`PidNamesOwner` says that this is the only way: a slot has a pid other than 0 from
`allocproc()` to `freeproc()` and shares it with none.  `MaxPid` bounds the number
of forks.

`ProcTree` has live and dead processes and parents.  `exit()` takes effect when
it hands over its children, `fork()` when it sets the parent.

### Pipe

An action is one loop iteration, because `p->killed` is read without a lock and
may change between two of them.  The counters are `uint`s: arithmetic is modulo
`UINT`, which the code's 2^32 instantiates; what matters is that `PIPESIZE`
divides it, and the runs make it small so that the counters wrap (the book,
`sched.tex:996`, says that they do not; they do after 4 GB, harmlessly).
`copyin()` and `copyout()` may fail.

### VirtioDisk

Three parties: processes in `virtio_disk_rw()`, the interrupt handler, and the
device.  A process's critical section under `vdisk_lock` is one action, since
the device looks at nothing before `avail->idx` moves.  The handler holds the
same lock but races with the device, so the acknowledgement, each entry of the
used ring and the exit test are actions of their own.  The device fetches
requests in order, follows the chain of descriptors to the buffer, completes
requests in any order, and raises its interrupt some time after it has moved
`used->idx`.  `kill()` may wake a sleeper at any time.  The indices are
`uint16`s (modulo `IDX`).  Ring entries that have been consumed, the header of a
request that is over and the buffer of a finished call are reset, where the code
leaves garbage that nobody reads.

`BlockDevice` has a call, one transfer of the whole block, and a return.

### BufCache

An action is one critical section under `bcache.lock` or under the spinlock of a
sleep lock, or one disk transfer.  A process holds one buffer at a time, and
uses it the way `log.c` makes the whole file system use buffers: a modified
buffer is pinned before it is released and unpinned when it has been written.
The list of buffers starts in any order, which makes the buffers
interchangeable.  `bget()` may find every buffer in use and panic, as the book
says it does (`fs.tex`); the kernel then stops.

`BlockStore` has one current version of each block and at most one holder.

### Inode

State per inode number: type and `nlink` on the disk, the copy in memory with
`valid`, `ref` and the sleep lock, and for directories a function from names to
inode numbers, "." and ".." included.  A process is a record with its position,
the pointers it holds and its remaining path.  An action begins with an
`ilock()` or is one critical section under `itable.lock`; `iput()` is four
actions, because it lets go of `itable.lock` while it frees an inode and of the
inode's lock before it drops its reference.  `namex()` takes one action per path
element, plus the `iput()` of each directory it leaves.  A process has one
descriptor, so that `open()` also fails for want of one.  Which calls a process
makes is the constant `Calls`.  The table is indexed by inode number, so an inode
that leaves it is forgotten there rather than at the next `iget()`; the limit
`NINODE` is not modelled.

A directory can be removed between `nameiparent()`, which returns it unlocked,
and the `ilock()` of `create()` or `link()` (`sysfile.c:250`).  The name that is
then added to it goes with it when its last user puts it, without the link count
of the inode it names being lowered: that inode is lost to everybody (see
findings).  The history variable `dropped` counts such names.  `nlink` is
therefore not what the book says it is, the number of entries; what
`NlinkAccounted` says is weaker: it is that number plus the half-done calls plus
`dropped`.  So that `dropped` cannot hide anything else, `NlinkAccounted` also says
that `unlink()` takes no name off a directory that has names in it, up to the
moment it lowers its count: a name that vanishes was put there after the removal.
That no inode is lost, `NoLostInodes`, is a property of its own, and false.

### FileTable

State: the table of files with their counts and what they refer to, each
process's descriptors and current directory, the open ends of pipes and the
reference counts of inodes.  `filealloc()`, `filedup()` and the part of
`fileclose()` under `ftable.lock` are one action each; `pipeclose()` and `iput()`
come later, from `fileclose()`'s private copy.  `sys_pipe()` is cut at each
allocation, `fork()` and `exit()` at each descriptor.  Every failure is there: no
file, no descriptor, no page, a failing `copyout()`.  References that are only in
local variables are kept in `local` and counted by `FileRefExact`, which thereby
covers the error paths step by step; `dup()` sets a descriptor before it counts
it and `exit()` clears one after it has been closed, and `Uncounted` names these
two windows.  `freeproc()` leaves `ofile[]` as it is, as in the code.

### Console

Threads are processes in `read()` and `write()` and the interrupt handler; a step
goes up to the next lock, test of `p->killed` or UART register.  `cons.lock` and
`uart_tx_lock` are variables, since a process holding one races with the UART and
with `uartputc_sync()`, which takes no lock.  Of the characters only those that
the code tells apart are kept.  The UART is external: it has a FIFO of `FIFO`
characters, says idle when that is empty, interrupts when it becomes so and when
a key arrives, and drops what is written to a full FIFO.  `uartinit()` enables
the FIFO; `NoOverrun` depends on it, because `uartstart()` and `uartputc_sync()`
may both see the UART idle and both write (with a FIFO of one character TLC shows
the loss).  The indices wrap (`UINT`, `UINT64`), and `Typed` starts the input ring
near the wrap.  What a second CPU prints with `printf()` is left out.

`Terminal` has the output not yet sent, the line being edited and the characters
ready for `read()`.

## Runs

| run | bounds | shows |
|---|---|---|
| `log_crash` | 2 processes, 2 blocks, 2 contents, 2 blocks per call, log of 4 | `CrashAtomic` (refinement of `AtomicDisk`), `QuiescentDurable`, `NoLostWakeup`, `ReservationFits`; `SleepersWake` under fairness |
| `log_full` | 3 processes, log of 3 | `NoPanic` fails: see findings |
| `proc` | 2 CPUs, init and 2 slots, pids up to 3, kills of pid 0 and 2 | `OneCPU`, `FreedOffCPU`, `NoLostExit`, `SchedNeverPanics`, `PidNamesOwner`, refinement of `ProcTree`; `OrphansReaped` under fairness |
| `pipe_queue` | 3 processes, 2 bytes, buffer of 2, counters modulo 4 | refinement of `PipeQueue`, `NoUseAfterFree`, `NoStuckSleeper` |
| `pipe_killed` | 3 processes, one may be killed | `ReadReturns` fails: see findings |
| `disk_rings` | 3 processes, 3 blocks, 2 contents, 7 descriptors | refinement of `BlockDevice`, `DescriptorsOwned`, `UsedEntriesValid`, `NoIdleDescriptors`, `NoLostCompletion` |
| `buf_store` | 3 processes, 3 buffers, 4 blocks, 1 pin | refinement of `BlockStore`, `RefcntExact`, `NoSleepOnFree` |
| `inode_tree` | 2 processes, root and 3 inodes, 2 names | `RefExact`, `IputNeverBlocks`, `NoPanic`, `NlinkAccounted`, no deadlock |
| `inode_lost` | 2 processes, root and 2 inodes, 2 names | `NoLostInodes` fails: see findings |
| `inode_dotdot` | 2 processes, root and 3 inodes, 2 names | `NoDeletedLookup` fails: see findings |
| `files` | 2 processes, 3 files, 2 descriptors each, 2 inodes, 1 page | `FileRefExact`, `ObjectsExact`, no deadlock |
| `console` | 2 processes, 4 workloads of up to 3 keys, rings of 2, indices modulo 4, FIFO of 2 | refinement of `Terminal`, `NeverWedged`, `NoOverrun`, `NoStuckSleeper`; `OutputProgress` under fairness |

Why the bounds are enough.  Two calls share a transaction or exclude each other,
each on its own block or both on one; a log of 4 takes two reservations of 2, so
that admission, refusal, absorption and commits of one and of two blocks all
happen; `NLOG` is small enough that a full log is reached too.  Two CPUs and three
slots contain a parent, a child and a grandchild, and each pair of operations on
two CPUs; two forks make two processes that live at once, an orphan, or one process
after the other in a slot, and what needs more of them is left to the theorems.  A pipe of 2 bytes with counters modulo
4 is empty, partly full and full at every phase of the counters.  Seven
descriptors hold two requests and leave one over, so that a third caller takes
one, fails, gives it back and sleeps; the indices wrap after seven requests.
Three processes and one pin against three buffers reach sharing, waiting,
recycling and the panic.  In `inode_tree` one process fills and removes a
directory and the other walks through it, has it as its current directory and
works on a name of the root; three inodes besides the root run out, are freed
and are reused while `iput()` is still busy with them.  Both add names to the
directory while one removes it.  Three files are fewer than two processes with
two descriptors each can ask for, so that each table can be the one that is full;
a child's slot is used again after it has exited.  Two characters in a ring whose
indices count modulo 4 are empty, partly full and full at every phase, and a FIFO
of 2 is what `NoOverrun` needs at least.  The workloads of `console` are two
writers with an echo, two readers of one line, every kind of key with a reader,
and a reader beside a writer; together they are too many for one run.

Programs may all stop using a pipe, the user may stop typing while everybody
reads, and a panic stops the kernel, so the pipe runs, `console` and `buf_store`
do not check deadlock; the others do.  In `inode_tree` that is also the check of
the order in which the sleep locks of directories and inodes are taken.

Three more configurations reproduce findings that the runs do not show by
themselves: `KillZero.cfg` of `Proc`, and `InodeReused.cfg` and `InodeMkdir.cfg` of
`MCInode`.  TLC reports a violation for each, in a second.

Fairness.  In `Log`: the scheduler runs every runnable process, a file-system
call ends, a disk write completes (weak fairness of each).  No call, read or
crash is forced.  In `Proc`: a CPU in the middle of a switch goes on (weak
fairness), the timer interrupts what runs, a process inside the kernel wins a
spin lock that is free again and again, and the scheduler's scan of `proc[]`
reaches `init` (strong fairness, since interrupts may be off and the slot locked
when the scan passes); `init` calls `wait()` for ever (`user/init.c:39-52`).  No
other program is obliged to do anything.  In `Console`: the UART sends what it
has been given and its interrupt is taken (weak and strong fairness), and
processes inside `read()` and `write()` go on.  Nobody has to type, read or write.
In `Pipe`: a process inside the kernel goes on and gets `pi->lock` when it is free
infinitely often; a killed process exits, which closes its ends.

## Findings

* `log_full`: `log_write()` tests for a full log before it looks for the block
  in the log (`log.c:220`).  Calls that keep their reservation can fill the log
  exactly; the next absorbed write then panics although it needs no space.  The
  second half of the test, `log.size - 1`, depends on the superblock, which
  `mkfs` writes; `mkfs` is not in this tree, so `NLOG` is a constant.  The run
  gives it room for the header besides `LOGSIZE` blocks, the harmless value.
* `pipe_killed`: a writer killed in the middle of a write leaves bytes in the
  buffer and does not wake the reader (`pipe.c:84`).
* `proc`: the pid of a free slot is 0 (`PidNamesOwner`), and `kill()` does not look
  at the state of the slot it finds (`proc.c:585`).  `kill(0)` therefore returns 0,
  where the book (`unix.tex:141`) promises -1 for a process that is not there, and
  the next process in that slot is dead as it first enters the kernel.  The run
  makes these calls and everything else it checks still holds; `KillZero.cfg` checks
  that no free slot is marked (`FreshSlots`), which fails after three steps.
* `inode_lost`, in two ways, both possible in its instance.  The shortest is the
  one TLC prints: `create()` adds its name to a directory that has been removed
  since `nameiparent()` found it (`sysfile.c:250`); the name vanishes with the
  directory, `nlink` stays 1, and the file is never freed.  The book (`fs.tex:659`)
  says that `nlink` counts the entries that refer to an inode, in order to
  recognize when to free it.  `link()` loses a link in the same way.  `mkdir()` loses
  the directory itself: it raises its `nlink` again for the new ".."
  (`sysfile.c:271`), so that it stays on the disk with the new one in it, and no
  path leads to either (`InodeMkdir.cfg`).
* `inode_lost`, the other way (`InodeReused.cfg` has only this one): `iput()` marks
  an inode free and unlocks it before it takes `itable.lock` again to drop its
  reference (`fs.c:351-356`).  If the number is reused, unlinked and closed in
  between, the other process's `iput()` sees two references and this one does not
  look at `nlink` again: the inode is never freed.
* `inode_dotdot`: a removed directory keeps its "..", and a process may still be
  in it.  When the parent has been removed as well, `namex()` follows ".." to an
  inode that is free, where `ilock()` panics, or that is by then something else
  (`fs.c:649`); the book (`fs.tex:1275-1280`) says that xv6 avoids this.

## Proofs

TLC looks at one small instance of each module; the theorems below hold for all
values of the constants that satisfy the module's assumption.  Each component has
an inductive invariant `IInv`, stated as named parts at the end of its module,
checked with TLC and then proved with one lemma per action (`NextInv` puts them
together); `Invariance` is `Spec => []IInv`.  The properties that the runs check
follow from it; none of them is inductive by itself.  `Inode` has two such
invariants, `RefInv` and, on top of it, `NlinkInv` and `EmptyInv`; `Log` a second one for its
reservations, `SInv`, which is in `LogProof`.

| module | theorems | refinement |
|---|---|---|
| `LogProof` | `TypeCorrect`, `WakeupNeverLost` (`NoLostWakeup`), `Durable` (`QuiescentDurable`), `ReservationSound` (`ReservationFits`), `NextBlockFits` | `Atomicity`: `AtomicDisk` |
| `ProcProof` | `TypeCorrect`, `NeverTwice` (`OneCPU`), `FreedAfterSwitch` (`FreedOffCPU`), `SchedSafe` (`SchedNeverPanics`), `ExitsNoticed` (`NoLostExit`), `PidsUnique` (`PidNamesOwner`) | `ProcIsTree`: `ProcTree` |
| `PipeProof` | `TypeCorrect`, `FreedLast` (`NoUseAfterFree`), `SleepersWoken` (`NoStuckSleeper`) | `PipeIsQueue`: `PipeQueue` |
| `VirtioDiskProof` | `TypeCorrect`, `ChainsOwned` (`DescriptorsOwned`), `EntriesValid` (`UsedEntriesValid`), `DescriptorSleepersWoken` (`NoIdleDescriptors`), `CompletionsNoticed` (`NoLostCompletion`) | `DriverIsDevice`: `BlockDevice` |
| `BufCacheProof` | `CountsExact` (`RefcntExact`), `SleepersWoken` (`NoSleepOnFree`) | `CacheIsStore`: `BlockStore` |
| `FileTableProof` | `TypeCorrect`, `RefsExact` (`FileRefExact`), `ReleasedOnce` (`ObjectsExact`) | |
| `InodeProof` | `ReferenceCounts` (`RefExact`), `IputDoesNotWait` (`IputNeverBlocks`); under a condition `LinksAccounted` (`NlinkAccounted`), `Panics` (`NoPanic`), `Types` (`TypeOK`); without it for plain paths `PlainLinkCounts` | |
| `ConsoleProof` | `TypeCorrect`, `InputNeverWedged` (`NeverWedged`), `FifoNeverOverrun` (`NoOverrun`), `SleepersWoken` (`NoStuckSleeper`) | `ConsoleIsTerminal`: `Terminal` |

Assumptions.  Where references or requests are counted the sets that are counted
are finite (`Procs`, `Bufs`); sizes are positive; null values are outside the
sets they extend.  The width of a counter is a multiple of the ring it indexes,
which powers of two are (`PipeAssumption`, `DiskAssumption`,
`ConsoleAssumption`).  A disk ring has at least 3 descriptors, one request.  The
transmit FIFO has room for two characters: `uartinit()` enables the 16 of the
16550, and with one the theorem is false.  An echo is told apart from what
programs write.  `Proc` is proved for any pids that programs may kill, 0 included.
Only what is said of link counts has a hypothesis of its own, `[]DotDotNamed`; see
`Inode` below.

Along which argument:

* **Log.**  Durability needs to know that a logged
block stays pinned until it is home and that every other block is the same in
the cache and on the disk (`PinInv`); that needs the progress of `commit()`
(`CommitInv`: which log blocks are written, which header is on the disk), which
needs that there is one committer and no call beside it (`ControlInv`:
`outstanding` is the number of calls under way).  Crashes need the same for
recovery (`BootInv`, `RecoverInv`), and that no block is twice in a header, or
replaying would depend on the order (`Distinct`).  In the refinement
`log_write` is `Write`, `write_head` is `Commit`, `Crash` is `Crash`,
`begin_op` and `end_op` are `Begin` and `End`, and everything else, installing
and erasing included, is a stutter, because replaying the log over a partly
installed disk gives the same blocks.  `ReservationFits` adds to the blocks in
the log those that the calls under way may still log: a pair of a call and a
number for each, so that the sum over the calls is a cardinality, and a call that
logs a block trades one pair for one block.  It needs `BudgetInv` (a call's
blocks are at most `MAXOPBLOCKS` and in the header) and, at `begin_op()`, that
the admission test counts whole reservations.  `NextBlockFits` is what a call gets
from it.
* **Proc.**  `CpuInv` says which CPU holds which lock: `p->lock` is held exactly
across the two halves of a switch and `wait_lock` exactly at the points of
`exit()` and `wait()` between its acquisition and its release.  `PlaceInv` says
where a process in each state has stopped, `ForkInv` that a child in the making
belongs to one `fork()`.  `TreeInv` keeps parents alive.  `WaitInv` carries what
`wait()` has seen under `wait_lock` across the switch, with the one window in
which `exit()` has given a zombie to `init` and not yet woken it.  `PidInv` adds to
`PidNamesOwner` that the next pid is larger than all that are in use.
* **Pipe.**  `LockInv` ties `pi->lock` to the points of the loops, `SeenInv` keeps
what was tested under it, `OpenInv` says that an end is open until its one
`pipeclose()`; `SleepInv` that whoever has changed a counter is still to call
`wakeup()`.  For the queue, the lemmas on arithmetic at the head of the module show
that a counter that has wrapped still points to the right place.
* **VirtioDisk.**  `RingInv` says that a request is in the avail ring, in the device
or in the used ring, in one of them and once, and `CountInv` counts both the
descriptors and the requests: three descriptors each is why no ring can overflow
and why no index overtakes another.  `ChainInv` gives what the device finds when
it follows a chain.
* **BufCache.**  `HoldInv` says who has a buffer and its lock, `ValidInv` and
`CleanInv` that only a pinned buffer may differ from the disk: so recycling an
unused one loses nothing.
* **FileTable.**  The two counts are preserved because each step moves, makes or
drops single references; the lemmas `RefSum`, `InoSum` and `PipeSum` say how the
totals change when one descriptor, one process and one file do.  `PointInv` says
what a call holds at each point and `ForkInv` that a child's descriptors are still
empty where `fork()` has not been.  `FileInv` makes a free file one of type
`FD_NONE`, without which an error path of `pipe()` would release a stranger's
object.  `FreshInv` is needed for `pipe_page`, which overwrites two files: nobody
else refers to them (lemma `Exclusive`, from the exact count).
* **Inode.**  `RefInv` is `TypeInv`, `ThreadInv` (which local variables are in use at
each point of each call), `RefExact` and `LockInv` (who has which sleep lock).
The pointers of a process are six fields, so a step's effect on a count is the sum
of what it does to six of them (lemmas `Counting`, `RefStep`), and each action's
`...Moves` lemma says what it does to them.  `RefInv` holds whatever the calls and
wherever a lookup leads.  Link counts do not: `LinkCounts` has the hypothesis
`[]DotDotNamed`, that no lookup follows the ".." of a directory that has no name
any more.  The code does not guarantee this (finding `inode_dotdot`), and without
it a lookup may end in a free inode or in another process's half-made one, where
`NoPanic` and `NlinkAccounted` are false.  It holds of the calls of `inode_tree`, and
`NoDotDotLookups` proves it for all calls whose paths have no "..", those of
`inode_lost` among them, so that `PlainLinkCounts` is without a condition.
`NlinkInv` is: every pointer is to an inode in use, except that of an `iput()` which
has freed it and not yet dropped its reference (`PointerInv`, the window of the
second finding of `inode_lost`); an inode about to be truncated has that one pointer
and no links (`TruncInv`); one just allocated is empty and nobody else's
(`NewInv`); a valid copy is the one on the disk (`CacheInv`); a directory has one
name, which is in its parent (`TreeInv`); and `nlink` is the number of entries, of
calls between the change of the count and the change of the entry, and of
`dropped` names (`LinkInv`).  Truncation counts the entries that go in one step
(lemma `DroppedEntries`).  `EmptyInv` comes last: a directory that `unlink()` has
found empty stays so, because whoever adds a name to it must have its lock.
* **Console.**  `FifoInv`: two threads at most have seen the UART idle, and when
neither has written it still is.  `TxInv` types the characters under way, `SeenInv`
keeps `consoleread()`'s test until it sleeps.  For the refinement of `Terminal`,
`SentInv` says that at most one character of a program is in the UART, and none
while `uartstart()` has one in its hands: what `uartputc_sync()` writes without
the lock can only be an echo, which `Terminal` does not count, so the order is kept.
`LineInv` says that the line being edited holds no end of a line, so that what `^U`
erases is all of it.  The sequences of `Terminal` are stretches of the two rings
(`RingOf`), and the lemmas `RingConcat`, `RingFirst`, `RingAppend`, `RingApart`,
`RingShorter` and `RingTurn` say what happens to such a stretch when it is cut,
when a character is put behind it or taken from its front, when another place is
overwritten, and when its index wraps around.

Only model-checked: liveness (`SleepersWake`, `OrphansReaped`, `OutputProgress`),
as the prover has no fairness.

## Not modelled

The CPU's memory ordering and the atomic instructions of `acquire()`; the
contents of files and their blocks (`balloc`, `bmap`, `readi`, `writei`), the
size of the inode table; `exec()`, the free list and page tables, which are
address arithmetic by one process at a time; the clock and `sys_sleep()`;
formatting and printing; booting.  `PROJECT.json` gives the reason for each
component.

## Plan

Done: the eight components and their proofs; every invariant that a passing run
checks is a theorem, with the condition above for three of `Inode`'s, and so is
every refinement.  Left: file contents (`bmap`, `readi`, `writei`) with the
bitmap.
