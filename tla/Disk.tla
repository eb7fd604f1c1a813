-------------------------------- MODULE Disk --------------------------------
(***************************************************************************)
(* The buffer cache (bio.c) over the interrupt-driven disk (ide.c), with   *)
(* the sleep lock of each buffer (SleepLock): shown to be a BlockDevice.   *)
(*                                                                         *)
(* Granularity.  A step is what a process or the interrupt handler does    *)
(* under bcache.lock or under idelock up to the point where it needs       *)
(* another lock; sleep(b, &idelock) is cut like sleep() in SleepLock.      *)
(* The disk executes the request it has been given last and raises its     *)
(* interrupt; disk errors and a missing second disk are left out.          *)
(*                                                                         *)
(* A member of Proc is one use of a buffer, from its bread() to its        *)
(* brelse(), with any number of writes in between that are marked for the  *)
(* log (log_write) or go to disk at once (bwrite).  A process has two uses *)
(* when it works on two blocks at a time: bmap() and itrunc() keep the     *)
(* indirect block while balloc() and bfree() take the bitmap block, and    *)
(* log.c copies between a log block and its home.  It is inside one call   *)
(* at a time.                                                              *)
(***************************************************************************)
EXTENDS SleepLock, Naturals, Sequences, FiniteSets

CONSTANTS
  Block, Value,
  Intr,         \* the interrupt handler, as a user of locks
  process,      \* the process each use belongs to
  Nested        \* the pairs of blocks a process takes together, in this order

Buf == Lock
NBUF == Cardinality(Buf)

ASSUME DiskAssumption ==
  /\ Intr \notin Proc \cup {None} /\ Proc \cup {Intr} \subseteq Other
  /\ None \notin Block \cup Value
  /\ IsFiniteSet(Buf) /\ IsFiniteSet(Proc)
  /\ DOMAIN process = Proc /\ Nested \subseteq Block \X Block

VARIABLES
  buf,        \* struct buf: block, valid and dirty flags, refcnt, data
  lru,        \* bcache.head list, most recently used first
  queue,      \* idequeue
  idelock,    \* who holds it
  disk,       \* contents of the platter
  hw,         \* the request the disk works on
  irq,        \* its interrupt is pending
  ipc,        \* where ideintr() is
  pc, cur     \* where each process is, the buffer it uses

cache == <<buf, lru>>
ide == <<queue, idelock, disk, hw, irq, ipc>>
vars == <<slvars, cache, ide, pc, cur>>

NoRequest == [op |-> "none", block |-> None, data |-> None]

At(p, l) == pc[p] = l
Goto(p, l) == pc' = [pc EXCEPT ![p] = l]

\* The other uses of the process; it is inside none of them.
Others(p) == {q \in Proc \ {p} : process[q] = process[p]}
Calls(p) == \A q \in Others(p) : pc[q] \in {"idle", "hold"}

-----------------------------------------------------------------------------
(* The buffer cache.                                                       *)

\* bcache.lock can be had: the process that panics in bget() keeps it.
CacheFree == \A p \in Proc : pc[p] # "panic"

\* MUTANT of Cached: buffers that nobody uses are not looked at.
MutCached(blk) == {b \in Buf : buf[b].block = blk /\ buf[b].ref > 0}
Cached(blk) == {b \in Buf : buf[b].block = blk}

\* MUTANT of Recyclable: a buffer the log has modified is taken.
MutRecyclable(b) == buf[b].ref = 0
Recyclable(b) == buf[b].ref = 0 /\ ~buf[b].dirty

\* The least recently used of the buffers that can be recycled.
Oldest == lru[CHOOSE i \in 1..NBUF : Recyclable(lru[i]) /\ \A j \in i + 1..NBUF : ~Recyclable(lru[j])]

Recycled(blk) == [block |-> blk, valid |-> FALSE, dirty |-> FALSE, ref |-> 1, data |-> None]

\* bget() of a process that has no other block, or one it takes this one with.
Wants(p, blk) ==
  /\ At(p, "idle") /\ Calls(p) /\ CacheFree
  /\ \A q \in Others(p) : At(q, "hold") => <<buf[cur[q]].block, blk>> \in Nested

\* MUTANT of bget_found: the buffer is not counted.
MutBgetFound(p, blk) ==
  /\ Wants(p, blk)
  /\ \E b \in Cached(blk) : cur' = [cur EXCEPT ![p] = b] /\ acquiresleep(p, b)
  /\ Goto(p, "bget")
  /\ UNCHANGED <<cache, ide>>

\* bget() under bcache.lock, and the call of acquiresleep().
bget_found(p, blk) ==
  /\ Wants(p, blk)
  /\ \E b \in Cached(blk) :
       /\ buf' = [buf EXCEPT ![b].ref = @ + 1]
       /\ cur' = [cur EXCEPT ![p] = b] /\ acquiresleep(p, b)
  /\ Goto(p, "bget")
  /\ UNCHANGED <<lru, ide>>

bget_recycle(p, blk) ==
  /\ Wants(p, blk) /\ Cached(blk) = {}
  /\ \E b \in Buf : Recyclable(b)
  /\ buf' = [buf EXCEPT ![Oldest] = Recycled(blk)]
  /\ cur' = [cur EXCEPT ![p] = Oldest] /\ acquiresleep(p, Oldest)
  /\ Goto(p, "bget")
  /\ UNCHANGED <<lru, ide>>

\* panic("bget: no buffers").
bget_panic(p, blk) ==
  /\ Wants(p, blk) /\ Cached(blk) = {}
  /\ \A b \in Buf : ~Recyclable(b)
  /\ Goto(p, "panic")
  /\ UNCHANGED <<slvars, cache, ide, cur>>

\* panic() does not return.
spin(p) == At(p, "panic") /\ UNCHANGED vars

\* The lock is there: bread() returns the data or reads it.
bread(p) ==
  /\ At(p, "bget") /\ AtLock(p, "held")
  /\ Goto(p, IF buf[cur[p]].valid THEN "hold" ELSE "iderw")
  /\ UNCHANGED <<slvars, cache, ide, cur>>

\* New contents, and log_write() marks the buffer.  How many blocks the log lets
\* through is the matter of Log.
log_write(p, v) ==
  /\ At(p, "hold") /\ Calls(p)
  /\ buf' = [buf EXCEPT ![cur[p]].data = v, ![cur[p]].dirty = TRUE]
  /\ UNCHANGED <<slvars, lru, ide, pc, cur>>

\* New contents, and bwrite().
bwrite(p, v) ==
  /\ At(p, "hold") /\ Calls(p)
  /\ buf' = [buf EXCEPT ![cur[p]].data = v, ![cur[p]].dirty = TRUE]
  /\ Goto(p, "iderw")
  /\ UNCHANGED <<slvars, lru, ide, cur>>

brelse(p) ==
  /\ At(p, "hold") /\ Calls(p)
  /\ releasesleep(p)
  /\ Goto(p, "brelse")
  /\ UNCHANGED <<cache, ide, cur>>

\* b goes to the front of the list.
ToFront(b) == LET k == CHOOSE i \in 1..NBUF : lru[i] = b
              IN [i \in 1..NBUF |-> IF i = 1 THEN b ELSE IF i <= k THEN lru[i - 1] ELSE lru[i]]

\* MUTANT of brelse_ref: the reference is kept.
MutBrelseRef(p) ==
  /\ At(p, "brelse") /\ AtLock(p, "out") /\ CacheFree
  /\ lru' = ToFront(cur[p])
  /\ cur' = [cur EXCEPT ![p] = None]
  /\ Goto(p, "idle")
  /\ UNCHANGED <<slvars, buf, ide>>

\* brelse() under bcache.lock.
brelse_ref(p) ==
  /\ At(p, "brelse") /\ AtLock(p, "out") /\ CacheFree
  /\ LET b == cur[p]
     IN /\ buf' = [buf EXCEPT ![b].ref = @ - 1]
        /\ lru' = IF buf[b].ref = 1 THEN ToFront(b) ELSE lru
  /\ cur' = [cur EXCEPT ![p] = None]
  /\ Goto(p, "idle")
  /\ UNCHANGED <<slvars, ide>>

-----------------------------------------------------------------------------
(* The disk driver.                                                        *)

\* idestart(): the disk gets the request, with the data of a write.
Request(b) == IF buf[b].dirty THEN [op |-> "write", block |-> buf[b].block, data |-> buf[b].data]
                              ELSE [op |-> "read", block |-> buf[b].block, data |-> None]

\* MUTANT of iderw: the disk is started although it is busy.
MutIderw(p) ==
  /\ At(p, "iderw") /\ idelock = None
  /\ idelock' = p
  /\ queue' = Append(queue, cur[p])
  /\ hw' = Request(cur[p])
  /\ Goto(p, "test")
  /\ UNCHANGED <<slvars, cache, disk, irq, ipc, cur>>

iderw(p) ==
  /\ At(p, "iderw") /\ idelock = None
  /\ idelock' = p
  /\ queue' = Append(queue, cur[p])
  /\ hw' = IF queue = <<>> THEN Request(cur[p]) ELSE hw
  /\ Goto(p, "test")
  /\ UNCHANGED <<slvars, cache, disk, irq, ipc, cur>>

Done(b) == buf[b].valid /\ ~buf[b].dirty

iderw_done(p) ==
  /\ At(p, "test") /\ Done(cur[p])
  /\ idelock' = None
  /\ Goto(p, "hold")
  /\ UNCHANGED <<slvars, cache, queue, disk, hw, irq, ipc, cur>>

\* sleep(b, &idelock).
iderw_sleep(p) ==
  /\ At(p, "test") /\ ~Done(cur[p])
  /\ ptable_acquire(p)
  /\ idelock' = None
  /\ Goto(p, "sched")
  /\ UNCHANGED <<lk, locked, lpc, lid, cache, queue, disk, hw, irq, ipc, cur>>

iderw_sched(p) ==
  /\ At(p, "sched")
  /\ ptable_release(p)
  /\ Goto(p, "asleep")
  /\ UNCHANGED <<lk, locked, lpc, lid, cache, ide, cur>>

iderw_woken(p) ==
  /\ At(p, "woken") /\ idelock = None
  /\ idelock' = p
  /\ Goto(p, "test")
  /\ UNCHANGED <<slvars, cache, queue, disk, hw, irq, ipc, cur>>

\* The disk has finished.
complete ==
  /\ hw.op # "none" /\ ~irq
  /\ disk' = IF hw.op = "write" THEN [disk EXCEPT ![hw.block] = hw.data] ELSE disk
  /\ irq' = TRUE
  /\ UNCHANGED <<slvars, cache, queue, idelock, hw, ipc, pc, cur>>

\* ideintr(): the first buffer of the queue is the one the disk worked on.
ideintr ==
  /\ ipc = "none" /\ irq /\ idelock = None
  /\ idelock' = Intr /\ irq' = FALSE /\ ipc' = "wakeup" /\ hw' = NoRequest
  /\ LET b == Head(queue)
     IN buf' = [buf EXCEPT ![b].valid = TRUE, ![b].dirty = FALSE,
                           ![b].data = IF buf[b].dirty THEN @ ELSE disk[hw.block]]
  /\ UNCHANGED <<slvars, lru, queue, disk, pc, cur>>

\* wakeup(b); the next request.
ideintr_wakeup ==
  /\ ipc = "wakeup" /\ ptable = None
  /\ pc' = [p \in Proc |-> IF pc[p] = "asleep" /\ cur[p] = Head(queue) THEN "woken" ELSE pc[p]]
  /\ queue' = Tail(queue)
  /\ hw' = IF Tail(queue) = <<>> THEN NoRequest ELSE Request(Head(Tail(queue)))
  /\ idelock' = None /\ ipc' = "none"
  /\ UNCHANGED <<slvars, cache, disk, irq, cur>>

-----------------------------------------------------------------------------

Init ==
  /\ SLInit
  /\ buf = [b \in Buf |-> [block |-> None, valid |-> FALSE, dirty |-> FALSE, ref |-> 0, data |-> None]]
  /\ lru \in {s \in [1..NBUF -> Buf] : \A b \in Buf : \E i \in 1..NBUF : s[i] = b}
  /\ queue = <<>> /\ idelock = None
  /\ disk \in [Block -> Value]
  /\ hw = NoRequest /\ irq = FALSE /\ ipc = "none"
  /\ pc = [p \in Proc |-> "idle"] /\ cur = [p \in Proc |-> None]

step(p) ==
  \/ lockstep(p) /\ UNCHANGED <<cache, ide, pc, cur>>
  \/ \E blk \in Block : bget_found(p, blk) \/ bget_recycle(p, blk) \/ bget_panic(p, blk)
  \/ spin(p)
  \/ bread(p) \/ brelse(p) \/ brelse_ref(p)
  \/ \E v \in Value : log_write(p, v) \/ bwrite(p, v)
  \/ iderw(p) \/ iderw_done(p) \/ iderw_sleep(p) \/ iderw_sched(p) \/ iderw_woken(p)

Next == (\E p \in Proc : step(p)) \/ complete \/ ideintr \/ ideintr_wakeup

Spec == Init /\ [][Next]_vars

-----------------------------------------------------------------------------
(* Properties.                                                             *)

\* A block is in one buffer at most, whoever looks for it at the same time.
OneCopy == \A b, c \in Buf : b # c /\ buf[b].block # None => buf[b].block # buf[c].block

\* A buffer counts the uses that have it or wait for it: it is recycled
\* neither under them nor kept for ever.
RefExact == \A b \in Buf : buf[b].ref = Cardinality({p \in Proc : cur[p] = b})

\* bget() panics ("bget: no buffers") only when all buffers are really taken: by
\* the log, which has modified them, or by somebody who uses them.  None is lost.
PanicsWhenFull ==
  ~CacheFree => NBUF <= Cardinality({p \in Proc : cur[p] # None})
                          + Cardinality({b \in Buf : buf[b].dirty /\ buf[b].ref = 0})

\* The disk works on the head of the queue, and on nothing when it is empty;
\* every buffer in the queue has a process that waits for it, and a process that
\* sleeps for a request has it in the queue.
QueueExact ==
  /\ ipc = "none" => hw = IF queue = <<>> THEN NoRequest ELSE Request(Head(queue))
  /\ \A i \in DOMAIN queue : \E p \in Proc : cur[p] = queue[i] /\ pc[p] \in {"test", "sched", "asleep"}
  /\ \A p \in Proc : pc[p] \in {"sched", "asleep"} => \E i \in DOMAIN queue : queue[i] = cur[p]

\* The block device it implements.
Writing(p) == pc[p] \in {"iderw", "test", "sched", "asleep", "woken"}
Mem == [blk \in Block |-> IF \E b \in Cached(blk) : buf[b].valid
                          THEN buf[CHOOSE b \in Cached(blk) : buf[b].valid].data ELSE disk[blk]]
Inside(p) == (pc[p] = "hold" \/ Writing(p)) /\ buf[cur[p]].valid
Holder == [p \in Proc |-> IF Inside(p) THEN buf[cur[p]].block ELSE None]
Seen == [p \in Proc |-> IF Inside(p) THEN buf[cur[p]].data ELSE None]

Device == INSTANCE BlockDevice WITH mem <- Mem, stable <- disk, holder <- Holder, seen <- Seen,
                                    Nothing <- None

\* Blocks are exclusive, reads return the last write also after buffers have been
\* recycled and through the queue of the driver, and the disk only gets what the
\* process that has the block has written.
IsBlockDevice == Device!Spec
=============================================================================
