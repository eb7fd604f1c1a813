# Models and proofs of the CS444 operating-systems repository

The repository holds four variants of the xv6 teaching kernel and a few
stand-alone programs of the course:

| directory | what it adds to xv6 |
|---|---|
| `src/xv6-public` | the base kernel |
| `src/xv6-fs` | `lseek`, append mode, `O_TRUNC` |
| `src/assignment5/xv6-symlink` | all of `xv6-fs` plus symbolic links |
| `src/lab3/xv6-lottery` | lottery scheduler, `renice`, process times |
| `src/lab4/wei/xv6-kthreads` | kernel threads, process times, several CPUs |
| `src/lab2/Lab2` | `beavalloc`, a user-level memory allocator |
| `src/inclass5` | parallel matrix multiplication with POSIX threads |
| `src/inclass6` | dining philosophers with POSIX semaphores |

The kernels share most of their files. A component that is the same in
all of them is modelled once, from the variant that adds to it.

## 1. Inventory

**Write-ahead log** (`log.c`). State: the in-memory header `log.lh`, the number
of open file system calls, the committing flag; the header and the log blocks on
disk. Operations: `begin_op`, `log_write`, `end_op` (which commits), and
`initlog`, which recovers. Called by every file system call; uses the buffer
cache for its disk blocks. Hard: a crash between any two block writes, calls that
overlap, calls that sleep for log space. Correct when overlapping calls become
durable together or not at all and nobody is forgotten in `begin_op`.

**Processes, scheduling and kernel threads** (`proc.c`, `trap.c`, `kalloc.c`,
`benny_thread.c`). State: the process table, the free list of pages (the kernel
stacks are taken from it), what each CPU runs. Operations: `fork`, `exit`, `wait`,
`kill`, `sleep`, `wakeup`, the scheduler, `kthread_create`, `kthread_exit`,
`kthread_join`. Hard: the stack of an exiting thread is freed by another CPU; lost
wakeups; children that are orphaned. Correct when no CPU runs on a page another
owner has, no process is lost and the locks are not taken in a cycle.

**Lottery scheduler** (`lab3` `proc.c`). State: the ticket (nice) count of each
process and the winning ticket of the round. Correct when every runnable process
can win, with as many of the tickets as it has.

**Pipes** (`pipe.c`). State: a ring buffer with free-running 32-bit counters, two
open flags, the sleepers. Operations: `pipewrite`, `piperead`, `pipeclose`, and
`kill` from outside. Correct when bytes arrive once and in order, and a reader or
a writer sleeps only while it must.

**Sleep locks and spin locks** (`sleeplock.c`, `spinlock.c`, `sleep`/`wakeup`).
State: the holder of a sleep lock, the spin lock that guards it, `ptable.lock`, and
who sleeps. Correct when they exclude and no wakeup falls between the test and the
sleep.

**Buffer cache and disk driver** (`bio.c`, `ide.c`). State: the LRU list of
buffers with flags and reference counts, the request queue, the disk. Operations:
`bread`, `bwrite`, `brelse`, `iderw`, and the interrupt handler `ideintr`, which
shares the queue with all processes. Each buffer has a sleep lock. Correct when a
block has one buffer that is never stale, no buffer is lost, and the answer of the
disk goes to the buffer that asked.

**Inodes, directories, files, symbolic links** (`fs.c`, `file.c`, `sysfile.c`,
`exec.c`). State: the inode cache with reference counts, link counts on disk and in
the cache, the file table, descriptors, current directories. Operations: `open`
(which follows symbolic links), `link`, `unlink`, `symlink`, `mkdir`, `chdir`,
`dup`, `close`, `exec`, `fork`, `exit`. Runs inside transactions of the log. Hard:
each call takes and gives up several inode locks, in different orders, and fails
half way. Correct when references and links are counted exactly and no name
outlives its inode, also after a crash.

**Reading, writing and seeking** (`file.c`, `fs.c`). State: the offset of each
`struct file`, the size of the inode. Operations: `fileread`, `filewrite` and
`fileseek`, the last without any lock. A read or write of the console goes on in
`console.c`, which gives the inode up meanwhile.

**Console input** (`console.c`): a ring with read, write and edit indices shared
by the interrupt handler, which edits a line, and the readers, which take finished
lines. Correct when edits take back only what no reader can have.

**beavalloc** (`lab2`): a list of blocks in the heap, split and merged.

**Dining philosophers** (`inclass6`): four protocols over semaphores. **Matrix
multiplication** (`inclass5`): row distribution among threads; `mm5.c` has a
re-entrant lock.

## 2. Plan

Done, in this order:

1. `Log` implements `AtomicStore`: crash recovery, checked and proved (`LogProofs`).
2. `KThreads`: processes, kernel threads and the kernel stacks they run on; checked
   and proved (`KThreadsProofs`).
3. `Pipe` implements `ByteStream`: the ring buffer, `sleep`, `wakeup` and `kill`,
   checked and proved (`PipeProofs`).
4. `Lottery`: the draw and the scan of the table that changes meanwhile.
5. `FileSystem`: references, links, names and descriptors down to the inode locks,
   over the transactions of `AtomicStore`; checked and proved (`FileSystemProofs`).
6. `SleepLock` over spin locks, and `Disk`, which extends it with the buffer cache
   and the driver and implements `BlockDevice`; checked and proved (`DiskProofs`).
7. `Console` implements `LineDiscipline`, and `FileIO`, which extends it with
   reading, writing and seeking; checked and proved (`ConsoleProofs`,
   `FileIOProofs`).

Left:

8. `LockOrder` for `tickslock` and `ptable.lock`, which `suptime()` and the timer
   interrupt take in opposite orders.
9. `Beavalloc` and `Umalloc` (sequential, against a map of disjoint blocks),
   `Philosophers` (four protocols).

How the modules build on each other: `Log` relies on blocks that one process has for
itself and on writes that are on disk when `bwrite` returns, which is what
`BlockDevice` promises and `Disk` implements. `FileSystem` relies on calls that become
durable together, which is what `AtomicStore` promises and `Log` implements.
`FileIO` contains `Console` as it is: `FileIORunsConsole` proves that every behaviour
of the one is a behaviour of the other.

## 3. The modules

### Log: `AtomicStore`, `Log`, `MCLog`, `LogProofs`

Source: `src/assignment5/xv6-symlink/log.c`.

`Log` keeps the header in memory (`log.lh`), `outstanding` and `committing`; the
buffer cache as the block contents the kernel sees; the disk as home blocks, log
blocks and the header on disk; and where every process is in its file system call.
A block content is a model value. `begin_op`, `log_write` and `end_op` are actions;
`log_write` is two of them, because the check of the size (log.c:218) comes before
`acquire(&log.lock)`. The commit runs without the lock and is cut at each disk
write: `write_log`, `write_head`, `install_trans`, `clear_head`, then
`end_op_finish`. `Crash` may fall between any two steps; it keeps the disk and
nothing else, and recovery (`read_head`, `recover_install`, `recover_clear`) can be
cut by the next crash. A single block write is atomic, as the code assumes of the
disk. `kill` appears only as an early wakeup of a process asleep in `begin_op`.

`AtomicStore` is what the file system is promised: the calls of a group change a
current contents, `Commit` makes all of them durable in one step while no call is
open, a crash falls back to the durable contents. `Log` maps the durable contents to
the home blocks, overlaid by the log blocks the header on disk names, and the current
contents to what is read through the buffer cache.

| run | shows |
|---|---|
| `log_atomic` | two processes with overlapping calls and two crashes anywhere, recovery included: the log implements `AtomicStore` (`CrashAtomic`), and a transaction whose commit has ended is on its home blocks with the log empty (`CommitDurable`) |
| `log_live` | under fairness and one crash: no panic of `log.c` (`NoPanic`), the log area is not overrun (`LogFits`), a sleeper in `begin_op` is woken when it may go on (`BeginOpWakes`), every call returns (`CallReturns`) |

Bounds: `log_atomic` has two home blocks with two values and calls of up to two
blocks, enough for absorption, for overlapping calls and for a half-installed
transaction. `log_live` has `LOGSIZE` 5 with `MAXOPBLOCKS` 2: two calls fit into an empty
log, and a call that starts while another one is open must wait once two blocks are
logged, so that the test of `begin_op` at log.c:132 decides. Five home blocks keep
absorption from hiding a log that is too small.

A limit the code lives with: the header block occupies one of the `LOGSIZE` blocks
on disk and `log_write` panics at `log.lh.n >= log.size - 1`, while `begin_op`
reserves against `LOGSIZE`. The reservation is therefore one block too generous when
calls log the full `MAXOPBLOCKS`. The runs and the theorems
assume `OPBLOCKS < MAXOPBLOCKS`; this is where the assumption comes from.

Fairness: weak fairness of recovery, of the commit and of a process that has been
woken in `begin_op`: a runnable process runs, the disk answers. Strong fairness of
`end_op`: a call logs finitely many blocks and gets to its end although it may log
another one first. Nothing makes a process start a call. `BeginOpWakes` claims that a
sleeper is woken, not that it gets in: `log.c` has no queue and other calls may take
the room first.

### Processes and kernel threads: `KThreads`, `MCKThreads`, `KThreadsProofs`

Source: `src/lab4/wei/xv6-kthreads/proc.c` and `trap.c`, built for several CPUs.

State: the fields of `struct proc` that decide something, by slot; what
`p->context` resumes (`saved`); the free list of pages; and for each CPU the
process it has, the kernel stack it *executes on* and what it executes. The
separation of `kstack[s]` from `page[c]` is what makes a stack freed under a
running thread visible. A critical section of `ptable.lock` is one step. Code
outside it is cut at each access another CPU can see: `fork` and `kthread_create`
take a slot, a page, memory, then publish; `kthread_create` reads and writes
`next_tid` in two steps; `kthread_exit` marks itself `ZOMBIE` and only later takes
the lock. A timer interrupt can fall between any two steps. The memory of a
process is abstracted to "`copyuvm` or `kalloc` fails or does not", which may happen
at any time. `exit`, `wait` and `kill` have placeholders that panic when called by or
with threads; the model stops there as the kernel does. `kill` reaches free
slots too: the pid of a free slot is 0 or -1, so `kill(0)` marks the first one, and
`allocproc` does not clear `killed`.

| run | shows |
|---|---|
| `k_processes` | no threads, two CPUs, four slots, four pages, four forks, one kill: `StackExclusive`, `PagesConserved`, `NoOrphan`, `NoLostWakeup` |
| `k_threads` | threads created and joined by the main thread, threads that fork, one CPU: no panic of `sched()`, `exit()` or `kthread_exit()` (`NoSchedPanic`), threads are counted (`ThreadCountExact`), their tids differ (`UniqueTids`), whoever is orphaned is left behind by a thread that exits (`OnlyThreadsOrphan`), a join of a thread that has exited returns (`JoinReturns`), a zombie whose parent lives is reaped (`ZombieReaped`) |

`Threads` says whether there are kernel threads and `ThreadsCall` which of `fork`,
`kthread_create` and `kthread_join` they call themselves; the kernel forbids none.
With threads on two CPUs `StackExclusive` and `NoSchedPanic` do not hold; with threads
that fork `NoOrphan` does not; with threads that create and join threads neither do
`UniqueTids` and `ThreadCountExact`; see "Known behaviour". `k_threads` has one CPU for
the first reason, checks `OnlyThreadsOrphan` for the second, which is what is left of
`NoOrphan` when a thread may fork, and leaves creating and joining to the main thread for
the third. What holds on any number of CPUs, and what whatever threads call, is proved in
`KThreadsProofs`.

Bounds: two CPUs give every pair of concurrent kernel paths, since a step involves
at most two of them. Four slots hold init, a parent, its child and a
grandchild: with fewer, the parent of whoever leaves a zombie behind is init itself,
which is woken anyway, and the wakeup of the adopting init is never needed. Pages run
out exactly when the table does, and `kalloc` fails earlier at will. Four creations
fill the table and reuse slots and stacks. `k_threads` has three slots and pages and three
creations, enough for a thread that forks and exits before its child, and for the
next creation to meet a full table. With one CPU preemption still interleaves any two
kernel paths at every step.
`MaxCreate` and `MaxKills` bound the calls of `fork`, `kthread_create` and `kill`;
slots are freed and used again within them. Deadlock is not checked because a
process may wait for ever for children that run, and a panic stops the kernel.

Fairness: the timer ticks and preempts; a runnable process is not passed over for
ever, because `scheduler()` scans the table round and round; a process that is
scheduled again and again gets on with its system call (one instruction per slice
suffices); init calls `wait()` in a loop (`init.c`); a killed process exits at the
next trap. Nothing is assumed of ordinary programs.

### Pipes: `ByteStream`, `Pipe`, `MCPipe`, `PipeProofs`

Source: `src/lab4/wei/xv6-kthreads/pipe.c`, with `fileclose` of `file.c` and
`sleep`, `wakeup`, `kill` of `proc.c`.

`Pipe` keeps `data`, `nread` and `nwrite` modulo `Width` (2^32 in the kernel; the
capacity divides it, as 512 does), the two open flags, the lock, whether the page is
allocated, the open ends of each process and where it is in its call. The loops of
`pipewrite` and `piperead` take one step per byte. `sleep` is a step of its own after
the test of `killed`: `kill` of another CPU may fall between. `fileclose`
drops the last reference before `pipeclose` takes the lock of the pipe.

`ByteStream` is the promise: a bounded sequence; writes append, reads take the
head, a read reports end of file only when the stream is empty and nobody holds the
write end, a write fails only when nobody can read or the writer is killed. `Pipe`
maps the bytes between `nread` and `nwrite` to it, across the wrap of the counters.

| run | shows |
|---|---|
| `p_stream` | two processes, two byte values, capacity 2, counters modulo 4, kills: `IsByteStream`, `NoUseAfterFree` |
| `p_live` | capacity 1, nobody is killed: `NoLostWakeup`, and blocked calls return once they can (`CallReturns`) |

Bounds: capacity 2 with counters modulo 4 wraps both the index and the counters
within a few calls; calls of two bytes fill and drain the buffer and are split by
it; capacity 1 makes every second byte block. `p_live` has no kills because a kill can
be lost; see "Known behaviour".

Fairness: a process inside the kernel goes on; one that waits for a lock that
becomes free again and again gets it (a spin lock held for a bounded time); a killed
process closes its files and exits. No fairness for starting calls, so the
liveness properties do not rely on anyone reading or writing.

Deadlock is checked in `p_stream`, where a kill is always possible. In `p_live` the
system may really stop: a process reads a pipe whose only write end is its own.

### Lottery: `Lottery`, `MCLottery`

Source: `src/lab3/xv6-lottery/proc.c`, built for one CPU.

The scheduler draws a ticket (`draw`), passes over slots (`pass_over`) and runs
every slot whose count exceeds the ticket (`select`). While the chosen process runs
the lock is free: it forks, renices anybody, sleeps, wakes others. Then the scan goes
on behind it with the ticket and the count of the old draw. The random generator is
the choice of `r`.

| run | shows |
|---|---|
| `lottery` (violation) | with the legal ticket counts 1 and 2 a runnable process with one ticket, alone or first in the table, never runs, whatever is drawn (`NoStarvation`); finding 3 |

`NoStarvation` is what a lottery is for, and the comparison of proc.c:387 breaks it: with
tickets 1 to `total_nice`, `count <= rand_val` makes a process win with its tickets but
the last, and with the last one of its predecessor. A process behind others gets as many
winning tickets as it has, the first one gets one less than it has. So with ticket counts
of two and more nobody starves, and with one the first process does. With
`count < rand_val` in `pass_over` and `select` TLC finds no violation of the same run.

Bounds: two slots suffice: the run to be seen has a single process, init, that calls
`renice` for itself with the value 1. Fairness: the scheduler and the timer go on,
and every ticket that can be drawn again and again is drawn again and again. The latter is
more than `rand.c` promises, since the period of a generator says nothing of a total that
changes; it is assumed in favour of the code, so that the starvation it shows is not
one of bad luck.

### Files and directories: `FileSystem`, `MCFileSystem`, `FileSystemProofs`

Source: `fs.c`, `file.c`, `sysfile.c` and the lookup of `exec.c` in
`src/assignment5/xv6-symlink`.

State: the file system on disk and as the buffer cache has it (`disk`, `cur`), the
inode cache (`ic`), the holder of each inode lock, the file table, descriptors,
current directories, and the locals of the call each process executes (`st`). A step
runs from one acquisition of an inode lock to the next. `iput` is two steps, `put` and
`drop`: it decides with the reference count it reads and drops its own reference after
it has released the lock. `namex` takes one step per element of the path, `create`,
`link`, `unlink` and `open` one per lock they take, each failing path with its undoing.
`begin` and `end_op` are the transaction as `AtomicStore` has it; `Crash` goes back to
what is durable. `lost` counts the references that `open` and `exec` drop without
`iput` when they follow links, so that `RefExact` can say that nothing else is lost.

| run | shows |
|---|---|
| `files` | two processes, a crash, all calls: the reference count of an inode is the number of pointers to it (`RefExact`), of a struct file the number of descriptors (`FileRefExact`), nobody locks a freed inode or removes a name of an inode without links (`NoPanic`), link counts cover the names (`NamesCovered`), also after a crash, where those of directories are exact (`DiskNamed`), and the cached copies are those of the disk inode (`CacheCoherent`) |
| `f_deadlock` (violation) | two calls wait for each other's inodes; finding 1 |
| `f_reclaim` (violation) | an unlinked inode is never freed; finding 2 |

Abstractions: a directory is a map from names to inodes, a symbolic link holds one
path, an inode has a cache slot of its own (the limit of `NINODE` slots shows only in
`lost`), and what a file contains is left to `FileIO`. Directories are one level deep
and no link or directory is made with the name `.` or `..`: `link(f, ".")` locks the
directory twice in `dirlink`, and deeper directories meet
"chdir to a removed directory" in "Known behaviour" at once. For that `call` gives `mkdir`
only paths of one element, in a process whose current directory is the root, where the code
takes every path; all other calls take paths of every kind. `mknod` is `mkdir` with
another type. A behaviour begins with one of `Images`, of which `ImagesAssumption` asks
what `mkfs` and completed calls leave behind (`Sound`): the root is a directory,
directories are in the root and have one name, links hold a path, and link counts cover
the entries, for directories exactly.

Bounds: three inodes (the root, a directory in it and one to create), three calls in
a behaviour with the processes' steps interleaved at every lock, two struct files and
two descriptors, so that a call can run out of either. Three calls are enough for two
that overlap after one that has prepared their conflict. Deadlock is not checked:
finding 1 is one, and the calls are bounded.

### Sleep locks, buffer cache and disk: `SleepLock`, `BlockDevice`, `Disk`, `MCDisk`, `DiskProofs`

Source: `sleeplock.c`, `bio.c`, `ide.c` and `sleep`/`wakeup` of `proc.c` in
`src/assignment5/xv6-symlink`.

`SleepLock` cuts `acquiresleep` and `releasesleep` wherever a spin lock changes hands,
inside `sleep` and `wakeup` too: whether a wakeup is lost depends on `sleep` taking
`ptable.lock` before it gives `lk->lk` back. `Disk` extends it: a buffer is a sleep
lock. `bget` is what happens under `bcache.lock` and the call of `acquiresleep`;
`iderw`, `iderw_done`, `iderw_sleep`, `iderw_sched` and `iderw_woken` are the driver,
`ideintr` and `ideintr_wakeup` the interrupt handler, which must get `ptable.lock` in
between; `complete` is the disk (external), which writes and raises its interrupt at
any time after it has been given a request.

`BlockDevice` is the promise: blocks that one process at a time has for itself, reads
that return the last write, writes that are on disk when `bwrite` returns. `Disk` maps
the contents of a block to its valid buffer, or to the disk when there is none, and a
process's block and view to the buffer it has locked.

| run | shows |
|---|---|
| `disk` | a process that uses two buffers at a time, one that uses one, and the interrupt handler over two buffers and four blocks: `SleepLockExclusive`, `LockWakesUp` (nobody sleeps for a lock that is free), `OneCopy` (a block is in one buffer), `RefExact`, `PanicsWhenFull` (`bget` panics only when every buffer is used or kept for the log), `QueueExact` (the disk works on the head of the queue, who sleeps is in it), `IsBlockDevice` |

A member of `Proc` is one *use* of a buffer, from `bread` to `brelse`, and `process` says whose
it is. A process has two when it works on two blocks at once: `bmap` (fs.c:389-395)
keeps the indirect block while `balloc` reads the bitmap, `itrunc` (fs.c:430-436) keeps it
while `bfree` does, and `log.c` (69-82, 177-190) copies between a log block and its home.
`Nested` has the pairs of blocks that are taken together, in the order in which they are
taken; a process is inside one call at a time (`Calls`).

`bget` panics when all buffers are used or dirty (bio.c:92), and nothing in the kernel
excludes that: `param.h` has `NBUF` and `LOGSIZE` 30 and `NPROC` 64. The model assumes no relation
between the number of buffers and anything else; `bget_panic` is an action of it, which
keeps `bcache.lock` for ever as `panic` does, and in `disk` it is reached: two buffers, of which the
log keeps any number, and up to three uses. `PanicsWhenFull` says that it is never a
buffer that was lost that is missing, and all other properties hold up to the panic and
after it.

Bounds: two buffers and four blocks make every other access recycle one; three uses of two
processes and the handler contend for every lock; the queue gets two deep, since two
buffers cannot be three requests. The block `w` is the second of every pair, as the bitmap
block is. A process that waits for the second buffer of a pair with the other process in
it is among the behaviours. Deadlock is checked: after a panic the model spins.
Left out: disk errors (`ide.c:118` ignores them, see "Known behaviour") and the second
disk.

### Console and file access: `LineDiscipline`, `Console`, `FileIO`, `MCFileIO`, `ConsoleProofs`, `FileIOProofs`

Source: `console.c`, `file.c`, `fs.c` and `open` of `sysfile.c` in
`src/assignment5/xv6-symlink`.

`Console` has the ring with its three free-running indices modulo `Width`, and the
readers. The interrupt handler is one step for each character: `type`, `backspace`,
`killline`. A reader is cut after each character and between its test of `killed` and
`sleep`, because `kill` does not need `cons.lock`. `LineDiscipline` is the promise:
whole lines, edited as they were typed, each character to one reader, no read past a
line end, and an end of file that is an empty read also when `^D` came after other
characters and was put back.

`FileIO` extends it with `fileread`, `filewrite` and `fileseek` on struct files that
processes share, over one inode that is a regular file or the console. `f->off` and
`ip->size` are accessed one step at a time, since `fileseek` holds no lock. A read of
the console gives the inode lock up and takes it again at the end; a write to it does so
for each piece of a transaction. Ghost variables: `moved` is where the bytes moved have
brought the offset since the last `lseek`; `sought` has the files in an `lseek`, or in a
call that an `lseek` has overlapped, until the last call on the file ends; `rough` has the
files that one of four things may have left with an offset behind the end, until the
last call on the file ends with the offset inside it. The four are those the code does
not handle, see `file.c:177-220` in "Known behaviour": two seeks at once, a seek that sets
the offset between another call's data and its `f->off += r`, a truncation, and a hole
that could not be filled because the file would get too long.

| run | shows |
|---|---|
| `io` | two processes, two struct files, one of them appending, with truncations, or the console: `RingOrder`, `ReaderAwake` (nobody sleeps over a finished line), `IsLineDiscipline`, `SharedOffset` (processes that share a struct file go on where the last one ended), `AppendKeeps` (what is appended goes behind what is there), `OffsetInFile` (after `lseek` beyond the end the hole is filled, also when the file is read, written and extended meanwhile) |

`LineDiscipline` knows which processes are in a `read()`: nothing is delivered to
others, and an end of file makes the `read()` that takes it return with nothing.

Bounds: a ring of two characters with indices modulo 4 wraps in a few characters and
is filled by a short line; files of up to two bytes, written one byte per transaction,
so that a write of two bytes gives the inode up in between and a hole takes two
writes. One struct file for writing and one for appending, each shared by both
processes. `lseek` and `O_TRUNC` on the console and the offset of a console file,
which nothing reads, are left out. Deadlock is checked in `io`: a reader can always be
killed and a character typed.

## 4. Findings

1. `sysfile.c:290` (`f_deadlock`). `create` puts the parent directory while it holds the
   lock of the new inode, and `iput` of this kernel locks what it puts. `unlink` of the
   same name holds the parent and waits for the new inode. `usertests.c:855` has a test
   "to look for deadlocks" of just these calls.
2. `fs.c:338` (`f_reclaim`). `iput` reads `ip->ref` and drops its own reference later.
   Two processes that put the same unlinked inode at once both see the other's
   reference; nobody frees it, although `fs.c:327` says that the last one does.
3. `lab3 proc.c:387` (`lottery`). `count <= rand_val` passes over the holder of the drawn
   ticket when it is its last one. A process with one ticket, the least that `proc.h:15`
   allows and that the text of the lab says is scheduled with lower probability, never runs
   when it is the only one or the first of the table.

### Known behaviour

What the code does that the properties exclude by an assumption, a bound or a guard,
with the place where the model has or would have it:

- **`kthreads proc.c:402`**. `kthread_exit` sets `ZOMBIE` before it takes `ptable.lock`.
  On a second CPU (lab4's Makefile starts four) `kthread_join` frees the stack and the
  slot; both are reused, the thread's `sched()` saves its context into the new owner,
  which later returns from `sched()` into `panic("kthread_exit")`. `KThreads` has the two
  steps; with two CPUs and `Threads = TRUE` TLC finds the run. `exit()` does it under the
  lock, and `k_processes` shows that it has no such fault.
- **`kthreads proc.c:381`**. A thread may `fork`, but `kthread_exit` does not pass its
  children on to init, unlike `exit` (proc.c:454). `k_threads` has such threads;
  `OnlyThreadsOrphan` says that nothing else orphans anybody.
- **`kthreads proc.c:314`**. A thread may call `kthread_create` too; two that read
  `next_tid` before either stores it create threads with the same tid, also on one CPU.
  `kthread_join` then finds the first of them for both, and two callers that poll the
  same slot count it out twice. With `kthread_create` and `kthread_join` in `ThreadsCall`
  TLC finds `UniqueTids` and `ThreadCountExact` violated.
- **`pipe.c:107`**. `killed` is tested before `sleep()` takes `ptable.lock`; a `kill`
  between the two finds the process running and wakes nobody. The process stays asleep,
  killed, as long as the pipe is empty. At `:86` a writer that has filled the pipe and is
  then found killed returns without waking the readers.
- **`lab3 proc.c:381-404`**. The scan does not stop at the winner: it goes on behind it with
  the same ticket, and every runnable process there runs too, since the count only grows.
  `lab3 proc.c:635`: the range test of `renice` is `< MIN_NICE_VALUE && > MAX_NICE_VALUE`,
  which is never true; every value is accepted, also 0, with which a process behind others
  wins nothing of its own. The text of the lab (p. 5) has `renice` return 1 for values out of
  bounds.
- **`bio.c:92`**. `bget` panics when all buffers are used or kept for the log, and the
  kernel's own numbers allow it: the calls of a transaction may have 29 of the 30 buffers
  waiting in the log, and two readers outside of it need one each. `Disk` goes through
  the panic.
- **`lab4 proc.c:570`**. `suptime` takes `tickslock` under `ptable.lock`, the timer
  interrupt the other way round.
- **`sysfile.c:368`, `:558`**. `open` and `exec` unlock the links they follow, and `exec`
  the program, without `iput`: each keeps its cache slot (`lost`). `sysfile.c:349`:
  `omode & O_RDONLY` is 0, so directories can be opened in every mode.
- **`sysfile.c:219`**. `link(f, ".")` makes `dirlink` put the directory it has locked.
  `chdir("..")` out of a directory that has been removed can reach an inode that has been
  freed, which is a panic in `ilock`.
- **`sysfile.c:259`**. A directory that `create` or `link` has looked up may be removed
  before they lock it; the new name goes into the removed directory and its inode is
  never freed. `NamesCovered` therefore allows link counts that are too large.
- **`fs.c:332`**. A crash between `unlink` and the last `iput` leaves an inode without
  links that no recovery looks for.
- **`file.c:177-220`**. `fileseek` holds no lock, does not check `kalloc`, and ignores the
  result of the `filewrite` that fills the hole, which overwrites what others have
  written behind the end meanwhile. An offset behind the end, also after a truncation,
  makes every later read and write fail. On a pipe it uses an inode that is not there.
- **`ide.c:118`**. The interrupt handler ignores disk errors; the buffer becomes valid
  with whatever it holds.
- **`beavalloc.c:77`**. The comparison is unsigned. **`inclass6`**: the first of the four
  protocols for the philosophers can deadlock, by design of the exercise.

## 5. Proofs

`LogProofs` proves, for every set of processes, every number of blocks, values and
crashes:

| theorem | statement | assumes |
|---|---|---|
| `TypeCorrect` | `Spec => []TypeOK` | nothing more than `Log` |
| `SleepersAreAttended` | `Spec => []Attended` | nothing more than `Log` |
| `NeverPanics` | `Spec => []NoPanic` | `Slack` |
| `TransactionFits` | `Spec => []LogFits` | `Slack` |
| `CommitIsDurable` | `Spec => []CommitDurable` | `Slack` |
| `LogImplementsAtomicStore` | `Spec => CrashAtomic` | `Slack` |

`Slack` is `OPBLOCKS < MAXOPBLOCKS /\ OPBLOCKS + 2 <= LOGSIZE`: a call logs fewer
blocks than it reserves, and a single call fits with room to spare. The kernel's
constants (`MAXOPBLOCKS` 10, `LOGSIZE` 30) satisfy it for every call that logs at most
nine distinct blocks.

`Attended` is the safety half of `BeginOpWakes`: whoever sleeps in `begin_op` has an open
call or a commit in flight, and each of these ends in `wakeup(&log)`. It is inductive
together with `ControlInv`: with no call open and no commit the log is empty, so
`begin_op` does not sleep. That the call does end is left to TLC.

None of the properties is inductive. The argument has three layers, each
inductive together with those before it:

- `ControlInv` ties the control state together: `outstanding` is the number of
  processes inside a call, at most one process commits, nobody is inside a call while
  it does, and a process that commits is at a position consistent with the header.
- `SpaceInv` is the credit argument: the blocks in the log plus `MAXOPBLOCKS` for
  each call in progress, less what the calls have logged already, stay within
  `LOGSIZE`. A call never uses its last credit (`Slack`), so the log stays one block
  shorter than that, which is what the tests of `log_write` demand, also of a writer
  that has passed them and has not appended yet.
- `DiskInv` relates disk and memory at each position of the commit and of the
  recovery: which log blocks are copied, which home blocks are installed, and that
  the header is empty and exactly the logged blocks are dirty otherwise.

The refinement (`AbsStep`) maps `write_head` to `Commit`, `begin_op`, `log_write` and
the last step of `end_op` to `Begin`, `Write` and `End`, `Crash` to `Crash`, and every
other block write, in the commit and in the recovery, to a stuttering step.

`PipeProofs` proves, for every set of processes, every capacity and every `Width` that
the capacity divides, with processes killed at any time unless a row says otherwise:

| theorem | statement | assumes |
|---|---|---|
| `PipeTypeCorrect` | `Spec => []TypeOK` | nothing more than `Pipe` |
| `PipeNoUseAfterFree` | `Spec => []NoUseAfterFree` | nothing more than `Pipe` |
| `PipeImplementsByteStream` | `Spec => IsByteStream` | nothing more than `Pipe` |
| `PipeWakeupsAreNotLost` | `Spec => []NoLostWakeup` | `~Kills` |

- `Ends` ties the open flags to the processes: a flag is set exactly while somebody
  has that end open or is between `fileclose()` and `pipeclose()` with it, at most one
  process is there, the process that holds the lock is the only one inside, and
  whoever is in a call has a file open. `NoUseAfterFree` alone says nothing of those
  that are on their way to `pipeclose()`, which is why it is not inductive.
- `Ring` bounds the bytes between the counters by the capacity. With
  it `RingNumbers` shows what the tests for full and empty mean across a wrap, and that
  the next byte goes to a place of the ring no unread byte has (`ModDistinct`);
  `PutStream` and `GetStream` then show that a byte written is appended and a byte
  read is the head.
- `Wakers`: a process asleep for a condition that is gone is about to be woken, by the
  holder of the lock, a writer in its loop or a reader that has copied a byte. A writer
  that returns because nobody reads any more wakes no reader and need not: who sleeps in
  `piperead()` has the read end open (`Opened`). Kills break it ("Known behaviour").

That the capacity divides the width is necessary: with any other capacity the index
`nwrite % PIPESIZE` jumps when the counter wraps. In the kernel 512 divides 2^32.

`KThreadsProofs` proves, for every set of CPUs, every size of the process table, every
number of pages and of calls, with kernel threads or without:

| theorem | statement | assumes |
|---|---|---|
| `OrphansComeFromThreads` | `Spec => OnlyThreadsOrphan` | nothing more than `KThreads` |
| `NobodyIsOrphaned` | `Spec => []NoOrphan` | `NoThreadForks` |
| `PagesAreConserved` | `Spec => []PagesConserved` | `NoThreadCalls` |
| `WakeupsAreNotLost` | `Spec => []NoLostWakeup` | `NoThreadCalls` |
| `ThreadCountsAreExact` | `Spec => []ThreadCountExact` | `NoThreadCalls` |
| `TidsAreUnique` | `Spec => []UniqueTids` | `NoThreadCalls` |
| `StacksAreExclusive` | `Spec => []StackExclusive` | `NoThreadCalls`, `OneStack` |
| `SchedNeverPanics` | `Spec => []NoSchedPanic` | `NoThreadCalls`, `OneStack` |

`NoThreadForks` is that threads do not fork, `NoThreadCalls` that they do not create or join
threads either, `OneStack` is `~Threads`, or one CPU. Without the assumptions TLC finds the
runs described under "Known behaviour": a thread that forks orphans its child; threads that
create and join violate `UniqueTids` and `ThreadCountExact`; threads on two CPUs violate
`StackExclusive` and `NoSchedPanic`. The proofs say nothing of `PagesConserved` and
`NoLostWakeup` with threads that call; TLC has found no counterexample there within some
ten million states, which is not all of them.

`LineageInv` is inductive whatever threads call, on any number of CPUs: each filler of a
slot has it for itself and finds it as it left it (`Crew`), and init, the parents of threads and,
when threads do not fork, everybody's parent live and are no threads (`Kin`). A step that
takes a living parent away is then an exit of a thread: `exit` passes its children on
before it becomes a zombie, and what `wait` and `kthread_join` reap has none any more,
also when the slot has been filled again in between.

`ThreadInv` is inductive without `OneStack`. What it has to cope with is that on two CPUs
a slot may be executed twice: a thread that is a zombie but still on its CPU can be joined,
and its slot filled and run again, before it gets to `sched()`. Its parts:

- `OneMain`: beside such remains of an exit a slot has at most one *main* execution, on a
  CPU or preempted, and the slot is then `RUNNING` or `RUNNABLE`, or asleep. What a CPU
  does with the rest of an exit changes nothing that the other parts mention.
- `Calls`: every `fork()` and `kthread_create()` under way has its own `EMBRYO` slot, filled
  as far as it has got, and the `next_tid` it has read is still the one of its caller; a
  join has a thread of its caller in view; who waits has no threads. Only the main execution
  of a process makes calls, which is where `NoThreadCalls` is needed.
- `Family`: whoever has children lives and is no thread; only threads have a tid, and it is
  below the parent's `next_tid`.
- `Tallies`: `thread_count` is the number of created and unjoined threads, and the tids
  differ.
- `Stacks`: a page is in the free list or the stack of one slot, and who has a stack.

Two invariants rest on it. `WakeInv` is `NoLostWakeup` with what it needs: who sleeps in
`wait()` has no threads, so that no child of his can become a zombie in `kthread_exit()`,
which wakes nobody; and nobody is his own parent. `StacksInUse` needs `OneStack`: a CPU is
on the stack of the process it runs, which is `RUNNING` or a thread in `kthread_exit()`, and
whatever the scheduler may resume is the context of a main execution, never one that
`exit()` or `kthread_exit()` has saved.

`DiskProofs` proves, for every set of processes with any number of uses each, every number
of buffers and blocks and all pairs of blocks that are taken together:

| theorem | statement |
|---|---|
| `SleepLocksExclude`, `SleepersAreWoken` | `SLSpec => []SleepLockExclusive`, `SLSpec => []LockWakesUp` |
| `DiskLocksExclude`, `DiskLocksWake` | the same of `Spec` of `Disk` |
| `DiskOneCopy`, `DiskRefExact`, `DiskPanicsWhenFull`, `DiskQueueExact` | `Spec => []` of each property |
| `DiskImplementsBlockDevice` | `Spec => IsBlockDevice` |

- `SLInv` says who holds the spin locks: who is inside `sleep()` or `wakeup()` has
  `lk->lk` (`SpinExact`), who is on the way to the scheduler has `ptable.lock`
  (`SchedHolds`), and who has found the lock taken and not slept yet still finds it taken
  (`StillTaken`). The last one is what `LockWakesUp` needs, and only `SpinExact` keeps it.
- `CacheInv` is about buffers and counts and stands alone. `DiskPanicsWhenFull` counts with
  it: after a panic no buffer can be recycled (`NoneFree`, since `bcache.lock` is gone), and
  each of them then is used by somebody, by `RefExact`, or dirty in the log.
  `CacheInv` makes each step of `Disk` a step of `SleepLock` (a use is never inside two
  sleep locks), which gives `SLInv`.
- `LockInv` and `QueueInv` tie the driver to the locks: each buffer is in the queue once,
  for a process that has it and waits, and the disk works on the head.
- `DataInv`: a clean buffer equals the disk, and data are on disk when the interrupt is
  pending. In the refinement, `bread` of valid data and the end of a read are `Take`,
  `log_write` and `bwrite` are `Write`, `complete` of a write is `Sync`, `brelse` is `Drop`.

`FileSystemProofs` proves, for every set of processes, names and paths, every number of
inodes, struct files and descriptors, every `MAX_DEPTH` and every bound on calls, crashes
and lost references, from `FSAssumption` and `ImagesAssumption`:

| theorem | statement |
|---|---|
| `References`, `FileReferences` | `Spec => []RefExact`, `Spec => []FileRefExact` |
| `WriteThrough` | `Spec => []CacheCoherent` |
| `NamesHaveInodes` | `Spec => []NamesCovered` |
| `NoPanics` | `Spec => []NoPanic` |
| `DiskSound` | `Spec => []DiskNamed` |

None of the six is inductive, and they need each other: a link count is right only while
nobody writes to an inode that was freed, and an inode is not freed only while the counts
are right. `IInv` has these parts, each a named conjunct:

- `Types` with `LocalOK`: what a call holds at each of its labels, for instance that
  `unlink_ip` has a directory, an inode and a path of one element that is a name.
- `Refs`, `Files`: `RefExact` and `FileRefExact`, and that a struct file in use has an
  inode. A step moves pointers between the locals of one call, the current directory and
  the struct files; `RefsMove`, `RefsShift` and `FilesMove` count that.
- `Alive`: a process that has gone, or is in its last `iput`, has no directory and no
  file. `Locked`: an inode lock is held by exactly the call that is between two steps with
  it, and the slot of a locked inode is valid.
- `Coherent`: `CacheCoherent` also for slots nobody refers to, and a valid slot is not of
  a free inode; so `create` may take over a slot that somebody is still dropping.
- `InUse`: whatever a call points to is not free, what it searches is a directory, and
  the name `unlink` has found stays while the directory is locked. It is kept because
  `put` frees an inode only with a reference count of one, which by `Refs` is the
  reference of the process that puts it.
- `Linked`: the links of an inode are at least its entries plus the links that calls have
  counted and not named yet, or unnamed and not uncounted yet (`Owes`); exactly these for
  a directory. This is what makes an inode with no links one without names.
- `Targets`: a symbolic link holds a path unless the call that makes it still has it
  locked; otherwise `open` would follow an empty link.
- `InOps`, `Sound(disk)`: `inop` is the set of calls inside a transaction, so that the
  last `end_op` commits when no call owes a link (`QuietSound`).

`Keep`, `Move`, `Write`, `Shift` say once what a step of one process has to show for the
rest of the invariant; there is one lemma `...Inv` for each action. The references that
`open` and `exec` lose do no harm to the others (`LoseInv`): they only keep the inode from
being freed. The theorems are about directories one level deep, as the model is.

`ConsoleProofs` proves, for every number of readers, every ring and every `Width` that
the ring divides; `FileIOProofs` for every set of processes and files, every transaction
size and file limit:

| theorem | statement |
|---|---|
| `ConsoleRingOrder`, `ConsoleReaderAwake` | `ConsoleSpec => []RingOrder`, `ConsoleSpec => []ReaderAwake` |
| `ConsoleImplementsLineDiscipline` | `ConsoleSpec => IsLineDiscipline` |
| `FileIORunsConsole`, `FileIOConsole` | `Spec => ConsoleSpec`, and so the three properties above under `Spec` |
| `FileIOTypeCorrect` | `Spec => []TypeOK` |
| `FileIOSharedOffset`, `FileIOAppendKeeps` | `Spec => SharedOffset`, `Spec => AppendKeeps` |
| `FileIOOffsetInFile` | `Spec => []OffsetInFile` |

- `Awake`: `cons.lock` is held from the test of the ring to `sleep()`, and while anybody
  sleeps nothing can be read.
- `LineInv`: the line being typed has no `'\n'`, so that `^U`, which stops at one, erases
  the whole line, as `KillLine` says. `Reads`: what a `read()` has copied is what is
  missing in its count and has no `'\n'` while it goes on. `CutWrite`, `CutConcat` and
  `CutTail` say what a write, a move of an index and a read do to the characters between
  two indices across a wrap; they rest on `ModDistinct` in `Remainders`, as the pipe does.
- `Calls` says what a process inside each call has and holds; the one between `ilock` and
  `iunlock` is alone there (`Alone`). `Appends`: between looking up the end and writing
  there the end stays. `Moves`: `moved` is the offset plus what the process that has moved
  data has not added to it yet; `SharedOffset` is not inductive without it.
- `Holes`: for a seek that is under way, the offset, the piece being written and the rest
  of the hole together reach the target. It needs one seek at a time and that the size only
  grows, which is why a second seek and a truncation make a file `rough`.

Only model-checked: the liveness properties (the provers do not handle fairness and
`ENABLED`), `BeginOpWakes` among them. `NoDeadlock` and `Reclaimed` of `FileSystem` and
`NoStarvation` of `Lottery` do not hold (findings 1 to 3). Induction over data is out of the provers'
reach, so nothing is said of what a recursive definition computes; the models have none.

## 6. Not modelled

- The interrupt state that `pushcli` and `popcli` keep for each CPU and the memory order
  of the processor: `acquire` disables interrupts and contains a full barrier. The
  modules take `acquire` and `release` as the borders of their steps.
- Page tables, the loading of `exec`, trap entry, boot, drivers of screen and keyboard:
  hardware structures or pure input and output. What the processes need of them is in
  `KThreads`.
- Block allocation (`balloc`, `bmap`) and path names of any depth; see `FileSystem`.
- `beavalloc` and `umalloc`: sequential code, left for the plan. `suptime` and `renice`'s
  range, the philosophers and the matrix multiplication: section 4 says what is known.
- User programs and tests: clients of the kernel.
- `xv6-public` and `xv6-fs`: subsets of the kernels that are modelled.
