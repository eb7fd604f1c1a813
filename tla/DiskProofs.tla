----------------------------- MODULE DiskProofs -----------------------------
(***************************************************************************)
(* Proofs about SleepLock and Disk for every set of processes, locks,      *)
(* buffers and blocks.  The inductive invariant of Disk has three parts    *)
(* that lean on each other: the buffers and their reference counts         *)
(* (CacheInv), who holds which lock (LockInv, with the invariant SLInv of  *)
(* SleepLock), and the queue of the driver (QueueInv).  CacheInv stands    *)
(* alone; it makes every step of Disk a step of SleepLock, which gives     *)
(* SLInv; the queue needs all three.                                       *)
(***************************************************************************)
EXTENDS Disk, TLAPS, FiniteSetTheorems

-----------------------------------------------------------------------------
(* Sleep locks.  The invariant says who holds the spin locks: the process  *)
(* inside sleep() or wakeup() has lk->lk, the one on its way to the        *)
(* scheduler has ptable.lock, and the one that has only looked at a lock   *)
(* still finds it taken.                                                   *)

\* The process inside the critical section of lk->lk, and no other, has it.
SpinExact ==
  \A p \in Proc, l \in Lock : lk[l] = p <=> (lid[p] = l /\ lpc[p] \in {"sleep", "wakeup"})

\* From sleep() to the scheduler ptable.lock is held.
SchedHolds == \A p \in Proc : lpc[p] = "sched" => ptable = p

\* Whoever has found the lock taken and not slept yet has lk->lk: it is still taken.
StillTaken == \A p \in Proc : lpc[p] = "sleep" => locked[lid[p]] # None

SLInv == /\ LockTypeOK /\ SpinExact /\ SchedHolds
         /\ SleepLockExclusive /\ StillTaken /\ LockWakesUp

LEMMA SLInitInv == SLInit => SLInv
  BY SleepLockAssumption
  DEF SleepLockAssumption, SLInit, SLInv, LockTypeOK, SpinExact, SchedHolds, StillTaken,
      SleepLockExclusive, Has, LockWakesUp

\* Type correctness, action by action.
LEMMA SLTypes ==
  ASSUME LockTypeOK, [SLNext]_slvars
  PROVE  LockTypeOK'
  <1>1. CASE UNCHANGED slvars
    BY <1>1 DEF slvars, LockTypeOK
  <1>2. ASSUME NEW p \in Proc, NEW l \in Lock, acquiresleep(p, l) PROVE LockTypeOK'
    BY <1>2 DEF acquiresleep, AtLock, GotoLock, LockTypeOK
  <1>3. ASSUME NEW p \in Proc, take(p) PROVE LockTypeOK'
    BY <1>3 DEF take, AtLock, GotoLock, LockTypeOK
  <1>4. ASSUME NEW p \in Proc, contend(p) PROVE LockTypeOK'
    BY <1>4 DEF contend, AtLock, GotoLock, LockTypeOK
  <1>5. ASSUME NEW p \in Proc, sleep(p) PROVE LockTypeOK'
    BY <1>5 DEF sleep, AtLock, GotoLock, LockTypeOK
  <1>6. ASSUME NEW p \in Proc, sched(p) PROVE LockTypeOK'
    BY <1>6 DEF sched, AtLock, GotoLock, LockTypeOK
  <1>7. ASSUME NEW p \in Proc, releasesleep(p) PROVE LockTypeOK'
    BY <1>7 DEF releasesleep, AtLock, GotoLock, LockTypeOK
  <1>8. ASSUME NEW p \in Proc, release(p) PROVE LockTypeOK'
    BY <1>8 DEF release, AtLock, GotoLock, LockTypeOK
  <1>9. ASSUME NEW p \in Proc, wakeup(p) PROVE LockTypeOK'
    BY <1>9 DEF wakeup, AtLock, GotoLock, LockTypeOK
  <1>10. ASSUME NEW x \in Other, ptable_acquire(x) \/ ptable_release(x), UNCHANGED <<lk, locked, lpc, lid>>
         PROVE  LockTypeOK'
    BY <1>10 DEF ptable_acquire, ptable_release, LockTypeOK
  <1> QED
    BY <1>1, <1>2, <1>3, <1>4, <1>5, <1>6, <1>7, <1>8, <1>9, <1>10 DEF SLNext, lockstep

\* The rest of the invariant: one step per action, one per conjunct under it.
LEMMA SLStep ==
  ASSUME SLInv, [SLNext]_slvars
  PROVE  SLInv'
  <1> USE SleepLockAssumption DEF SleepLockAssumption
  <1>0. LockTypeOK'
    BY SLTypes DEF SLInv
  <1> USE <1>0
  <1>1. CASE UNCHANGED slvars
    BY <1>1 DEF slvars, SLInv, LockTypeOK, SpinExact, SchedHolds, StillTaken, SleepLockExclusive, Has, LockWakesUp
  <1>2. ASSUME NEW p \in Proc, NEW l \in Lock, acquiresleep(p, l) PROVE SLInv'
    <2> USE <1>2 DEF acquiresleep, AtLock, GotoLock, SLInv, LockTypeOK
    <2>1. SpinExact'
      BY DEF SpinExact
    <2>2. SchedHolds' /\ StillTaken'
      BY DEF SchedHolds, StillTaken
    <2>3. SleepLockExclusive'
      BY DEF SleepLockExclusive, Has
    <2>4. LockWakesUp'
      BY DEF LockWakesUp
    <2> QED
      BY <2>1, <2>2, <2>3, <2>4
  <1>3. ASSUME NEW p \in Proc, take(p) PROVE SLInv'
    <2> USE <1>3 DEF take, AtLock, GotoLock, SLInv, LockTypeOK
    <2>1. SpinExact'
      BY DEF SpinExact
    <2>2. SchedHolds' /\ StillTaken'
      BY DEF SchedHolds, StillTaken
    <2>3. SleepLockExclusive'
      BY DEF SleepLockExclusive, Has
    <2>4. LockWakesUp'
      BY DEF LockWakesUp
    <2> QED
      BY <2>1, <2>2, <2>3, <2>4
  <1>4. ASSUME NEW p \in Proc, contend(p) PROVE SLInv'
    <2> USE <1>4 DEF contend, AtLock, GotoLock, SLInv, LockTypeOK
    <2>1. SpinExact'
      BY DEF SpinExact
    <2>2. SchedHolds' /\ StillTaken'
      BY DEF SchedHolds, StillTaken
    <2>3. SleepLockExclusive'
      BY DEF SleepLockExclusive, Has
    <2>4. LockWakesUp'
      BY DEF LockWakesUp
    <2> QED
      BY <2>1, <2>2, <2>3, <2>4
  <1>5. ASSUME NEW p \in Proc, sleep(p) PROVE SLInv'
    <2> USE <1>5 DEF sleep, AtLock, GotoLock, SLInv, LockTypeOK
    <2>1. SpinExact'
      BY DEF SpinExact
    <2>2. SchedHolds' /\ StillTaken'
      BY DEF SchedHolds, StillTaken
    <2>3. SleepLockExclusive'
      BY DEF SleepLockExclusive, Has
    <2>4. LockWakesUp'
      BY DEF LockWakesUp
    <2> QED
      BY <2>1, <2>2, <2>3, <2>4
  <1>6. ASSUME NEW p \in Proc, sched(p) PROVE SLInv'
    <2> USE <1>6 DEF sched, AtLock, GotoLock, SLInv, LockTypeOK
    <2>1. SpinExact'
      BY DEF SpinExact
    <2>2. SchedHolds' /\ StillTaken'
      BY DEF SchedHolds, StillTaken
    <2>3. SleepLockExclusive'
      BY DEF SleepLockExclusive, Has
    <2>4. LockWakesUp'
      BY DEF LockWakesUp
    <2> QED
      BY <2>1, <2>2, <2>3, <2>4
  <1>7. ASSUME NEW p \in Proc, releasesleep(p) PROVE SLInv'
    <2> USE <1>7 DEF releasesleep, AtLock, GotoLock, SLInv, LockTypeOK
    <2>1. SpinExact'
      BY DEF SpinExact
    <2>2. SchedHolds' /\ StillTaken'
      BY DEF SchedHolds, StillTaken
    <2>3. SleepLockExclusive'
      BY DEF SleepLockExclusive, Has
    <2>4. LockWakesUp'
      BY DEF LockWakesUp
    <2> QED
      BY <2>1, <2>2, <2>3, <2>4
  <1>8. ASSUME NEW p \in Proc, release(p) PROVE SLInv'
    <2> USE <1>8 DEF release, AtLock, GotoLock, SLInv, LockTypeOK
    <2>1. SpinExact'
      BY DEF SpinExact
    <2>2. SchedHolds' /\ StillTaken'
      BY DEF SchedHolds, StillTaken, SpinExact
    <2>3. SleepLockExclusive'
      BY DEF SleepLockExclusive, Has
    <2>4. LockWakesUp'
      BY DEF LockWakesUp
    <2> QED
      BY <2>1, <2>2, <2>3, <2>4
  <1>9. ASSUME NEW p \in Proc, wakeup(p) PROVE SLInv'
    <2> USE <1>9 DEF wakeup, AtLock, GotoLock, SLInv, LockTypeOK
    <2>1. SpinExact'
      BY DEF SpinExact
    <2>2. SchedHolds' /\ StillTaken'
      BY DEF SchedHolds, StillTaken
    <2>3. SleepLockExclusive'
      BY DEF SleepLockExclusive, Has
    <2>4. LockWakesUp'
      BY <2>2 DEF LockWakesUp, SchedHolds, StillTaken
    <2> QED
      BY <2>1, <2>2, <2>3, <2>4
  <1>10. ASSUME NEW x \in Other, ptable_acquire(x) \/ ptable_release(x), UNCHANGED <<lk, locked, lpc, lid>>
         PROVE  SLInv'
    <2> USE <1>10 DEF ptable_acquire, ptable_release, AtLock, SLInv, LockTypeOK
    <2>1. SpinExact' /\ SleepLockExclusive'
      BY DEF SpinExact, SleepLockExclusive, Has
    <2>2. SchedHolds' /\ StillTaken'
      BY DEF SchedHolds, StillTaken
    <2>3. LockWakesUp'
      BY DEF LockWakesUp
    <2> QED
      BY <2>1, <2>2, <2>3
  <1> QED
    BY <1>1, <1>2, <1>3, <1>4, <1>5, <1>6, <1>7, <1>8, <1>9, <1>10 DEF SLNext, lockstep

LEMMA SLAlways == SLSpec => []SLInv
  <1> QED
    BY SLInitInv, SLStep, PTL DEF SLSpec

\* Two processes never have a sleep lock at the same time, and a lock nobody has
\* is free, for every number of processes and locks (acquiresleep, releasesleep).
THEOREM SleepLocksExclude == SLSpec => []SleepLockExclusive
  BY SLAlways, PTL DEF SLInv

\* Nobody sleeps for a lock that is free: whoever released it is in front of its
\* wakeup() (sleep() takes ptable.lock before it gives lk->lk back).
THEOREM SleepersAreWoken == SLSpec => []LockWakesUp
  BY SLAlways, PTL DEF SLInv

-----------------------------------------------------------------------------
(* Facts about finite sets.                                                *)

\* A set of positions that is not empty has a last one.
LEMMA LastExists ==
  ASSUME NEW n \in Nat, NEW T \in SUBSET (1..n), T # {}
  PROVE  \E i \in T : \A j \in T : j <= i
  <1> DEFINE F == {i + 1..n : i \in T}
  <1>1. ASSUME NEW i \in T PROVE (i + 1..n) \in FiniteSubsetsOf(1..n)
    <2>1. IsFiniteSet(i + 1..n)
      BY FS_Interval
    <2> QED BY <2>1 DEF FiniteSubsetsOf
  <1>2. F \subseteq FiniteSubsetsOf(1..n) /\ F # {}
    BY <1>1
  <1>3. PICK X \in F : \A Y \in F : ~(<<Y, X>> \in StrictSubsetOrdering(1..n))
    <2> HIDE DEF F
    <2> QED BY <1>2, WFMin, FS_StrictSubsetOrderingWellFounded
  <1>4. PICK i \in T : X = i + 1..n
    BY <1>3
  <1>5. ASSUME NEW j \in T, j > i PROVE FALSE
    <2>1. (j + 1..n) \in F
      OBVIOUS
    <2>2. (j + 1..n) \subseteq X /\ j \in X /\ j \notin (j + 1..n)
      BY <1>4, <1>5
    <2>3. X \in SUBSET (1..n) /\ (j + 1..n) \in SUBSET (1..n)
      BY <1>4
    <2>4. <<j + 1..n, X>> \in StrictSubsetOrdering(1..n)
      BY <2>2, <2>3 DEF StrictSubsetOrdering
    <2> QED BY <2>1, <2>4, <1>3
  <1> QED BY <1>5

\* Two sets that differ in p only.
LEMMA Neighbours ==
  ASSUME NEW F, NEW G, NEW p, IsFiniteSet(F), F \ {p} = G \ {p}
  PROVE  /\ (p \in F <=> p \in G) => Cardinality(G) = Cardinality(F)
         /\ p \notin F /\ p \in G => Cardinality(G) = Cardinality(F) + 1
         /\ p \in F /\ p \notin G => Cardinality(G) = Cardinality(F) - 1
  <1>1. CASE p \in F <=> p \in G
    BY <1>1, F = G
  <1>2. CASE p \notin F /\ p \in G
    <2>1. G = F \cup {p}
      BY <1>2
    <2> QED BY <1>2, <2>1, FS_AddElement
  <1>3. CASE p \in F /\ p \notin G
    <2>1. G = F \ {p}
      BY <1>3
    <2> QED BY <1>3, <2>1, FS_RemoveElement
  <1> QED BY <1>1, <1>2, <1>3

-----------------------------------------------------------------------------
(* The buffer cache.                                                       *)

PCs == {"idle", "bget", "hold", "iderw", "test", "sched", "asleep", "woken", "brelse", "panic"}

\* A process has a buffer between bget() and the end of brelse(), and only then.
CurOK ==
  /\ cur \in [Proc -> Buf \cup {None}] /\ pc \in [Proc -> PCs]
  /\ \A p \in Proc : pc[p] \in {"idle", "panic"} <=> cur[p] = None

\* Every buffer is in the list.
LruOnto ==
  /\ lru \in [1..NBUF -> Buf]
  /\ \A b \in Buf : \E i \in 1..NBUF : lru[i] = b

\* Buffers are records; whatever their data may be.
Entry(D) == [block : Block \cup {None}, valid : BOOLEAN, dirty : BOOLEAN, ref : Int, data : D]
BufOK == \E D : buf \in [Buf -> Entry(D)]

CacheInv == CurOK /\ LruOnto /\ BufOK /\ OneCopy /\ RefExact

\* bget() when it returns: the buffer of the block, or the oldest one.
bget(p, blk) ==
  /\ At(p, "idle") /\ Goto(p, "bget") /\ UNCHANGED <<lru, ide>>
  /\ \/ \E b \in Cached(blk) : /\ buf' = [buf EXCEPT ![b].ref = @ + 1]
                               /\ cur' = [cur EXCEPT ![p] = b] /\ acquiresleep(p, b)
     \/ /\ Cached(blk) = {} /\ \E c \in Buf : Recyclable(c)
        /\ buf' = [buf EXCEPT ![Oldest] = Recycled(blk)]
        /\ cur' = [cur EXCEPT ![p] = Oldest] /\ acquiresleep(p, Oldest)

LEMMA BgetCases ==
  \A p \in Proc, blk \in Block : bget_found(p, blk) \/ bget_recycle(p, blk) => bget(p, blk)
  <1> SUFFICES ASSUME NEW p \in Proc, NEW blk \in Block, bget_found(p, blk) \/ bget_recycle(p, blk)
               PROVE  bget(p, blk)
    OBVIOUS
  <1>1. CASE bget_found(p, blk)
    BY <1>1 DEF bget_found, Wants, bget
  <1>2. CASE bget_recycle(p, blk)
    BY <1>2 DEF bget_recycle, Wants, bget
  <1> QED BY <1>1, <1>2

LEMMA NBUFNat == NBUF \in Nat /\ Cardinality(Proc) \in Nat
  BY DiskAssumption, FS_CardinalityType DEF DiskAssumption, NBUF

\* bget() finds the buffer it is to recycle.
LEMMA OldestFound ==
  ASSUME LruOnto, NEW c \in Buf, Recyclable(c)
  PROVE  Oldest \in Buf /\ Recyclable(Oldest)
  <1> DEFINE T == {i \in 1..NBUF : Recyclable(lru[i])}
  <1>1. T \in SUBSET (1..NBUF) /\ T # {}
    BY DEF LruOnto
  <1>2. PICK i \in T : \A j \in T : j <= i
    <2> HIDE DEF T
    <2> QED BY <1>1, NBUFNat, LastExists
  <1>3. i \in 1..NBUF /\ Recyclable(lru[i]) /\ \A j \in i + 1..NBUF : ~Recyclable(lru[j])
    BY <1>2, NBUFNat
  <1> DEFINE k == CHOOSE x \in 1..NBUF : Recyclable(lru[x]) /\ \A j \in x + 1..NBUF : ~Recyclable(lru[j])
  <1>4. k \in 1..NBUF /\ Recyclable(lru[k])
    BY <1>3
  <1> QED BY <1>4 DEF Oldest, LruOnto

\* The list stays complete when a buffer moves to its front.
LEMMA FrontOnto ==
  ASSUME LruOnto, NEW b \in Buf
  PROVE  /\ ToFront(b) \in [1..NBUF -> Buf]
         /\ \A c \in Buf : \E i \in 1..NBUF : ToFront(b)[i] = c
  <1> DEFINE k == CHOOSE i \in 1..NBUF : lru[i] = b
             new == [i \in 1..NBUF |-> IF i = 1 THEN b ELSE IF i <= k THEN lru[i - 1] ELSE lru[i]]
  <1>1. k \in 1..NBUF /\ lru[k] = b
    BY DEF LruOnto
  <1>2. ToFront(b) = new
    BY DEF ToFront
  <1>3. new \in [1..NBUF -> Buf]
    <2> HIDE DEF k
    <2> QED BY <1>1, NBUFNat DEF LruOnto
  <1>4. ASSUME NEW c \in Buf PROVE \E i \in 1..NBUF : new[i] = c
    <2> HIDE DEF k
    <2>1. PICK j \in 1..NBUF : lru[j] = c
      BY DEF LruOnto
    <2>2. CASE j < k
      <3>1. j + 1 \in 1..NBUF /\ j + 1 <= k /\ j + 1 # 1 /\ (j + 1) - 1 = j
        BY <1>1, <2>2, NBUFNat
      <3> QED BY <2>1, <3>1
    <2>3. CASE j = k
      BY <1>1, <2>1, <2>3, NBUFNat
    <2>4. CASE j > k
      BY <1>1, <2>1, <2>4, NBUFNat
    <2> QED BY <1>1, <2>2, <2>3, <2>4, NBUFNat
  <1> QED BY <1>2, <1>3, <1>4

\* Steps that leave buffers and list alone: only where the processes are changes.
LEMMA CacheSame ==
  ASSUME CacheInv, UNCHANGED <<cache, cur>>, CurOK'
  PROVE  CacheInv'
  BY DEF CacheInv, cache, LruOnto, BufOK, OneCopy, RefExact, NBUF

LEMMA BufRef ==
  ASSUME CacheInv, NEW b \in Buf
  PROVE  buf[b].ref \in Nat /\ (buf[b].ref = 0 <=> \A p \in Proc : cur[p] # b)
  <1> DEFINE F == {q \in Proc : cur[q] = b}
  <1>1. buf[b].ref = Cardinality(F)
    BY DEF CacheInv, RefExact
  <1>2. IsFiniteSet(F) /\ (F = {} <=> \A q \in Proc : cur[q] # b)
    BY DiskAssumption, FS_Subset DEF DiskAssumption
  <1> HIDE DEF F
  <1>3. Cardinality(F) \in Nat /\ (Cardinality(F) = 0 <=> F = {})
    BY <1>2, FS_CardinalityType, FS_EmptySet
  <1> QED BY <1>1, <1>2, <1>3

\* RefExact, when one process takes or gives back a buffer.
LEMMA RefStep ==
  ASSUME CacheInv, CurOK', NEW p \in Proc, \A q \in Proc : q # p => cur'[q] = cur[q],
         \A b \in Buf : buf'[b].ref = IF cur[p] # b /\ cur'[p] = b THEN buf[b].ref + 1
                                      ELSE IF cur[p] = b /\ cur'[p] # b THEN buf[b].ref - 1 ELSE buf[b].ref
  PROVE  RefExact'
  <1> SUFFICES ASSUME NEW b \in Buf
               PROVE  buf'[b].ref = Cardinality({q \in Proc : cur'[q] = b})
    BY DEF RefExact
  <1> DEFINE F == {q \in Proc : cur[q] = b}
             G == {q \in Proc : cur'[q] = b}
  <1>1. buf[b].ref = Cardinality(F)
    BY DEF CacheInv, RefExact
  <1>2. IsFiniteSet(F) /\ F \ {p} = G \ {p}
    BY DiskAssumption, FS_Subset DEF DiskAssumption
  <1>3. (p \in F <=> cur[p] = b) /\ (p \in G <=> cur'[p] = b)
    OBVIOUS
  <1>4. buf'[b].ref = Cardinality(G)
    <2> HIDE DEF F, G
    <2> QED BY <1>1, <1>2, <1>3, Neighbours
  <1> QED BY <1>4

\* bget() finds the block ...
LEMMA BgetHit ==
  ASSUME CacheInv, NEW p \in Proc, NEW b \in Buf, At(p, "idle"), Goto(p, "bget"), UNCHANGED lru,
         buf' = [buf EXCEPT ![b].ref = @ + 1], cur' = [cur EXCEPT ![p] = b]
  PROVE  CacheInv'
  <1> USE DEF At, Goto
  <1>1. CurOK' /\ cur[p] = None
    BY SleepLockAssumption DEF CacheInv, CurOK, PCs, SleepLockAssumption, Buf
  <1>2. LruOnto'
    BY DEF CacheInv, LruOnto, NBUF
  <1>a. PICK D : buf \in [Buf -> Entry(D)]
    BY DEF CacheInv, BufOK
  <1>b. buf' \in [Buf -> Entry(D)]
    BY <1>a DEF Entry
  <1>3. BufOK' /\ \A c \in Buf : /\ buf'[c].block = buf[c].block /\ buf'[c].dirty = buf[c].dirty
                                 /\ buf'[c].ref = IF c = b THEN buf[c].ref + 1 ELSE buf[c].ref
    BY <1>a, <1>b DEF BufOK, Entry
  <1>4. OneCopy'
    BY <1>3 DEF CacheInv, OneCopy
  <1>5. RefExact'
    <2>1. \A q \in Proc : q # p => cur'[q] = cur[q]
      BY DEF CacheInv, CurOK
    <2>2. \A c \in Buf : cur[p] # c /\ (cur'[p] = c <=> c = b)
      BY <1>1, SleepLockAssumption DEF CacheInv, CurOK, SleepLockAssumption, Buf
    <2>3. \A c \in Buf : buf'[c].ref = IF cur[p] # c /\ cur'[p] = c THEN buf[c].ref + 1
                             ELSE IF cur[p] = c /\ cur'[p] # c THEN buf[c].ref - 1 ELSE buf[c].ref
      BY <1>3, <2>2
    <2> QED BY <1>1, <2>1, <2>3, RefStep
  <1> QED BY <1>1, <1>2, <1>3, <1>4, <1>5 DEF CacheInv

\* ... or takes a buffer that nobody uses and that holds nothing the disk lacks.
LEMMA BgetMiss ==
  ASSUME CacheInv, NEW p \in Proc, NEW blk \in Block, NEW b \in Buf, At(p, "idle"), Goto(p, "bget"),
         UNCHANGED lru, Cached(blk) = {}, Recyclable(b),
         buf' = [buf EXCEPT ![b] = Recycled(blk)], cur' = [cur EXCEPT ![p] = b]
  PROVE  CacheInv'
  <1> USE DEF At, Goto
  <1>1. CurOK' /\ cur[p] = None
    BY SleepLockAssumption DEF CacheInv, CurOK, PCs, SleepLockAssumption, Buf
  <1>2. LruOnto'
    BY DEF CacheInv, LruOnto, NBUF
  <1>a. PICK D : buf \in [Buf -> Entry(D)]
    BY DEF CacheInv, BufOK
  <1>b. buf \in [Buf -> Entry(D \cup {None})] /\ buf' \in [Buf -> Entry(D \cup {None})]
    BY <1>a DEF Entry, Recycled
  <1>3. BufOK' /\ \A c \in Buf : /\ buf'[c].block = (IF c = b THEN blk ELSE buf[c].block)
                                 /\ buf'[c].dirty <=> (c # b /\ buf[c].dirty)
                                 /\ buf'[c].ref = IF c = b THEN 1 ELSE buf[c].ref
    BY <1>a, <1>b DEF BufOK, Entry, Recycled
  <1>4. OneCopy'
    <2>1. \A c \in Buf : buf[c].block # blk
      BY DEF Cached
    <2>2. OneCopy
      BY DEF CacheInv
    <2> QED BY ONLY <1>3, <2>1, <2>2 DEF OneCopy
  <1>5. RefExact'
    <2>1. \A q \in Proc : q # p => cur'[q] = cur[q]
      BY DEF CacheInv, CurOK
    <2>2. \A c \in Buf : cur[p] # c /\ (cur'[p] = c <=> c = b)
      BY <1>1, SleepLockAssumption DEF CacheInv, CurOK, SleepLockAssumption, Buf
    <2>3. \A c \in Buf : buf'[c].ref = IF cur[p] # c /\ cur'[p] = c THEN buf[c].ref + 1
                             ELSE IF cur[p] = c /\ cur'[p] # c THEN buf[c].ref - 1 ELSE buf[c].ref
      <3>1. buf[b].ref = 0
        BY DEF Recyclable
      <3> QED BY ONLY <1>3, <2>2, <3>1
    <2> QED BY <1>1, <2>1, <2>3, RefStep
  <1> QED BY <1>1, <1>2, <1>3, <1>4, <1>5 DEF CacheInv

\* The invariant, action by action.
LEMMA CacheStep ==
  ASSUME CacheInv, [Next]_vars
  PROVE  CacheInv'
  <1> USE DEF At, Goto
  <1>1. CASE UNCHANGED vars
    <2>1. CurOK'
      BY <1>1 DEF vars, CacheInv, CurOK
    <2> QED BY <1>1, <2>1, CacheSame DEF vars
  <1>2. ASSUME NEW p \in Proc, lockstep(p), UNCHANGED <<cache, ide, pc, cur>> PROVE CacheInv'
    <2>1. CurOK'
      BY <1>2 DEF CacheInv, CurOK
    <2> QED BY <1>2, <2>1, CacheSame
  <1>3. ASSUME NEW p \in Proc, NEW blk \in Block, bget(p, blk) PROVE CacheInv'
    <2> USE <1>3 DEF bget
    <2>1. ASSUME NEW b \in Cached(blk), buf' = [buf EXCEPT ![b].ref = @ + 1],
                 cur' = [cur EXCEPT ![p] = b]
          PROVE  CacheInv'
      BY <2>1, BgetHit DEF Cached
    <2>2. ASSUME Cached(blk) = {}, NEW c \in Buf, Recyclable(c),
                 buf' = [buf EXCEPT ![Oldest] = Recycled(blk)], cur' = [cur EXCEPT ![p] = Oldest]
          PROVE  CacheInv'
      <3>1. Oldest \in Buf /\ Recyclable(Oldest)
        BY <2>2, OldestFound DEF CacheInv
      <3> QED BY <2>2, <3>1, BgetMiss
    <2> QED BY <2>1, <2>2
  <1>4. ASSUME NEW p \in Proc, bread(p) PROVE CacheInv'
    <2>1. UNCHANGED <<cache, cur>>
      BY <1>4 DEF bread, ide
    <2>2. CurOK'
      BY <1>4, <2>1 DEF bread, CacheInv, CurOK, PCs
    <2> QED BY <2>1, <2>2, CacheSame
  <1>5. ASSUME NEW p \in Proc, brelse(p) PROVE CacheInv'
    <2>1. UNCHANGED <<cache, cur>>
      BY <1>5 DEF brelse, ide
    <2>2. CurOK'
      BY <1>5, <2>1 DEF brelse, CacheInv, CurOK, PCs
    <2> QED BY <2>1, <2>2, CacheSame
  <1>6. ASSUME NEW p \in Proc, iderw(p) PROVE CacheInv'
    <2>1. UNCHANGED <<cache, cur>>
      BY <1>6 DEF iderw, ide
    <2>2. CurOK'
      BY <1>6, <2>1 DEF iderw, CacheInv, CurOK, PCs
    <2> QED BY <2>1, <2>2, CacheSame
  <1>7. ASSUME NEW p \in Proc, iderw_done(p) PROVE CacheInv'
    <2>1. UNCHANGED <<cache, cur>>
      BY <1>7 DEF iderw_done, ide
    <2>2. CurOK'
      BY <1>7, <2>1 DEF iderw_done, CacheInv, CurOK, PCs
    <2> QED BY <2>1, <2>2, CacheSame
  <1>8. ASSUME NEW p \in Proc, iderw_sleep(p) PROVE CacheInv'
    <2>1. UNCHANGED <<cache, cur>>
      BY <1>8 DEF iderw_sleep, ide
    <2>2. CurOK'
      BY <1>8, <2>1 DEF iderw_sleep, CacheInv, CurOK, PCs
    <2> QED BY <2>1, <2>2, CacheSame
  <1>9. ASSUME NEW p \in Proc, iderw_sched(p) PROVE CacheInv'
    <2>1. UNCHANGED <<cache, cur>>
      BY <1>9 DEF iderw_sched, ide
    <2>2. CurOK'
      BY <1>9, <2>1 DEF iderw_sched, CacheInv, CurOK, PCs
    <2> QED BY <2>1, <2>2, CacheSame
  <1>10. ASSUME NEW p \in Proc, iderw_woken(p) PROVE CacheInv'
    <2>1. UNCHANGED <<cache, cur>>
      BY <1>10 DEF iderw_woken, ide
    <2>2. CurOK'
      BY <1>10, <2>1 DEF iderw_woken, CacheInv, CurOK, PCs
    <2> QED BY <2>1, <2>2, CacheSame
  <1>11. ASSUME NEW p \in Proc, NEW v \in Value, log_write(p, v) PROVE CacheInv'
    <2> USE <1>11 DEF log_write
    <2>1. CurOK' /\ cur[p] \in Buf
      BY DEF CacheInv, CurOK, PCs
    <2>2. LruOnto'
      BY DEF CacheInv, LruOnto, NBUF
    <2>a. PICK D : buf \in [Buf -> Entry(D)]
      BY DEF CacheInv, BufOK
    <2>b. buf \in [Buf -> Entry(D \cup {v})] /\ buf' \in [Buf -> Entry(D \cup {v})]
      BY <2>1, <2>a DEF Entry
    <2>c. BufOK'
      BY <2>b DEF BufOK
    <2>3. \A c \in Buf : /\ buf'[c].block = buf[c].block /\ buf'[c].ref = buf[c].ref
                         /\ buf'[c].dirty <=> (c = cur[p] \/ buf[c].dirty)
      BY <2>1, <2>b DEF Entry
    <2>4. OneCopy' /\ RefExact'
      <3>1. OneCopy /\ RefExact /\ cur' = cur
        BY DEF CacheInv
      <3>2. OneCopy'
        BY ONLY <2>3, <3>1 DEF OneCopy
      <3>3. RefExact'
        BY ONLY <2>3, <3>1 DEF RefExact
      <3> QED BY <3>2, <3>3
    <2> QED BY <2>1, <2>2, <2>c, <2>3, <2>4 DEF CacheInv
  <1>12. ASSUME NEW p \in Proc, NEW v \in Value, bwrite(p, v) PROVE CacheInv'
    <2> USE <1>12 DEF bwrite
    <2>1. CurOK' /\ cur[p] \in Buf
      BY DEF CacheInv, CurOK, PCs
    <2>2. LruOnto'
      BY DEF CacheInv, LruOnto, NBUF
    <2>a. PICK D : buf \in [Buf -> Entry(D)]
      BY DEF CacheInv, BufOK
    <2>b. buf \in [Buf -> Entry(D \cup {v})] /\ buf' \in [Buf -> Entry(D \cup {v})]
      BY <2>1, <2>a DEF Entry
    <2>c. BufOK'
      BY <2>b DEF BufOK
    <2>3. \A c \in Buf : /\ buf'[c].block = buf[c].block /\ buf'[c].ref = buf[c].ref
                         /\ buf'[c].dirty <=> (c = cur[p] \/ buf[c].dirty)
      BY <2>1, <2>b DEF Entry
    <2>4. OneCopy' /\ RefExact'
      <3>1. OneCopy /\ RefExact /\ cur' = cur
        BY DEF CacheInv
      <3>2. OneCopy'
        BY ONLY <2>3, <3>1 DEF OneCopy
      <3>3. RefExact'
        BY ONLY <2>3, <3>1 DEF RefExact
      <3> QED BY <3>2, <3>3
    <2> QED BY <2>1, <2>2, <2>c, <2>3, <2>4 DEF CacheInv
  <1>13. ASSUME NEW p \in Proc, brelse_ref(p) PROVE CacheInv'
    <2> USE <1>13 DEF brelse_ref
    <2>1. CurOK' /\ cur[p] \in Buf
      BY SleepLockAssumption DEF CacheInv, CurOK, PCs, SleepLockAssumption, Buf
    <2>2. LruOnto'
      BY <2>1, FrontOnto DEF CacheInv, LruOnto, NBUF
    <2>a. PICK D : buf \in [Buf -> Entry(D)]
      BY DEF CacheInv, BufOK
    <2>b. buf \in [Buf -> Entry(D)] /\ buf' \in [Buf -> Entry(D)]
      BY <2>1, <2>a DEF Entry
    <2>c. BufOK'
      BY <2>b DEF BufOK
    <2>3. \A c \in Buf : /\ buf'[c].block = buf[c].block /\ buf'[c].dirty = buf[c].dirty
                                   /\ buf'[c].ref = IF c = cur[p] THEN buf[c].ref - 1 ELSE buf[c].ref
      BY <2>1, <2>b DEF Entry
    <2>4. OneCopy'
      BY <2>3 DEF CacheInv, OneCopy
    <2>5. RefExact'
      <3>1. \A q \in Proc : q # p => cur'[q] = cur[q]
        BY DEF CacheInv, CurOK
      <3>2. \A c \in Buf : cur'[p] # c /\ (cur[p] = c <=> c = cur[p])
        BY SleepLockAssumption DEF CacheInv, CurOK, SleepLockAssumption, Buf
      <3>3. \A c \in Buf : buf'[c].ref = IF cur[p] # c /\ cur'[p] = c THEN buf[c].ref + 1
                               ELSE IF cur[p] = c /\ cur'[p] # c THEN buf[c].ref - 1 ELSE buf[c].ref
        BY <2>3, <3>2
      <3> QED BY <2>1, <3>1, <3>3, RefStep
    <2> QED BY <2>1, <2>2, <2>c, <2>3, <2>4, <2>5 DEF CacheInv
  <1>14. CASE complete
    <2>1. CurOK'
      BY <1>14 DEF complete, CacheInv, CurOK
    <2> QED BY <1>14, <2>1, CacheSame DEF complete
  <1>15. CASE ideintr
    <2> USE <1>15 DEF ideintr
    <2>1. CurOK'
      BY DEF CacheInv, CurOK
    <2>2. LruOnto'
      BY DEF CacheInv, LruOnto, NBUF
    <2>a. PICK D : buf \in [Buf -> Entry(D)]
      BY DEF CacheInv, BufOK
    <2>b. buf \in [Buf -> Entry(D \cup {disk[hw.block]})] /\ buf' \in [Buf -> Entry(D \cup {disk[hw.block]})]
      <3> DEFINE x == disk[hw.block]
                 h == Head(queue)
      <3>1. buf' = [buf EXCEPT ![h].valid = TRUE, ![h].dirty = FALSE,
                               ![h].data = IF buf[h].dirty THEN @ ELSE x]
        OBVIOUS
      <3> HIDE DEF x, h
      <3>2. buf \in [Buf -> Entry(D \cup {x})] /\ buf' \in [Buf -> Entry(D \cup {x})]
        <4>1. CASE h \notin Buf
          BY ONLY <2>a, <3>1, <4>1 DEF Entry
        <4>2. CASE h \in Buf /\ buf[h].dirty
          <5>1. buf' = [buf EXCEPT ![h].valid = TRUE, ![h].dirty = FALSE, ![h].data = buf[h].data]
            BY ONLY <3>1, <4>2
          <5> QED BY ONLY <2>a, <4>2, <5>1 DEF Entry
        <4>3. CASE h \in Buf /\ ~buf[h].dirty
          <5> DEFINE E == Entry(D \cup {x})
                     f1 == [buf EXCEPT ![h].valid = TRUE]
                     f2 == [f1 EXCEPT ![h].dirty = FALSE]
          <5>1. buf' = [f2 EXCEPT ![h].data = x]
            BY ONLY <3>1, <4>3
          <5>2. buf \in [Buf -> E]
            BY ONLY <2>a DEF Entry
          <5>3. f1 \in [Buf -> E]
            BY ONLY <5>2, <4>3 DEF Entry
          <5> HIDE DEF f1
          <5>4. f2 \in [Buf -> E]
            BY ONLY <5>3, <4>3 DEF Entry
          <5> HIDE DEF f2
          <5>5. [f2 EXCEPT ![h].data = x] \in [Buf -> E]
            BY ONLY <5>4, <4>3 DEF Entry
          <5> QED BY <5>1, <5>2, <5>5
        <4> QED BY <4>1, <4>2, <4>3
      <3> QED BY <3>2 DEF x
    <2>c. BufOK'
      BY <2>b DEF BufOK
    <2>3. \A c \in Buf : /\ buf'[c].block = buf[c].block /\ buf'[c].ref = buf[c].ref
                         /\ buf'[c].dirty => buf[c].dirty
      BY <2>1, <2>b DEF Entry
    <2>4. OneCopy' /\ RefExact'
      <3>1. OneCopy /\ RefExact /\ cur' = cur
        BY DEF CacheInv
      <3>2. OneCopy'
        BY ONLY <2>3, <3>1 DEF OneCopy
      <3>3. RefExact'
        BY ONLY <2>3, <3>1 DEF RefExact
      <3> QED BY <3>2, <3>3
    <2> QED BY <2>1, <2>2, <2>c, <2>3, <2>4 DEF CacheInv
  <1>16. CASE ideintr_wakeup
    <2>1. CurOK'
      BY <1>16 DEF ideintr_wakeup, CacheInv, CurOK, PCs
    <2> QED BY <1>16, <2>1, CacheSame DEF ideintr_wakeup
  <1>17. ASSUME NEW p \in Proc, NEW blk \in Block, bget_panic(p, blk) PROVE CacheInv'
    <2>1. CurOK'
      BY <1>17 DEF bget_panic, Wants, CacheInv, CurOK, PCs
    <2> QED BY <1>17, <2>1, CacheSame DEF bget_panic
  <1> QED
    BY <1>1, <1>2, <1>3, <1>4, <1>5, <1>6, <1>7, <1>8, <1>9, <1>10, <1>11, <1>12, <1>13, <1>14, <1>15, <1>16, <1>17,
       BgetCases DEF Next, step, spin

LEMMA CacheInit == Init => CacheInv
  <1> SUFFICES ASSUME Init PROVE CacheInv
    OBVIOUS
  <1> USE DEF Init
  <1>1. CurOK
    BY DEF CurOK, PCs
  <1>2. LruOnto
    BY DEF LruOnto
  <1>3. BufOK
    <2>1. buf \in [Buf -> Entry({None})]
      BY DEF Entry
    <2> QED BY <2>1 DEF BufOK
  <1>4. \A b \in Buf : buf[b].block = None /\ ~buf[b].dirty /\ buf[b].ref = 0
    BY DEF Recycled
  <1>5. OneCopy
    BY <1>4 DEF OneCopy
  <1>6. RefExact
    <2>1. \A b \in Buf : {p \in Proc : cur[p] = b} = {}
      BY SleepLockAssumption DEF SleepLockAssumption, Buf
    <2> QED BY <1>4, <2>1, FS_EmptySet DEF RefExact
  <1> QED BY <1>1, <1>2, <1>3, <1>5, <1>6 DEF CacheInv

LEMMA CacheAlways == Spec => []CacheInv
  BY CacheInit, CacheStep, PTL DEF Spec

\* A step of Disk is a step of SleepLock.
LEMMA LockSteps ==
  ASSUME CacheInv, [Next]_vars
  PROVE  [SLNext]_slvars
  <1>1. CASE UNCHANGED vars
    BY <1>1 DEF vars
  <1>2. ASSUME NEW p \in Proc, lockstep(p) PROVE SLNext
    BY <1>2 DEF SLNext
  <1>3. ASSUME NEW p \in Proc, NEW blk \in Block, bget(p, blk) PROVE SLNext
    <2>1. PICK b \in Buf : acquiresleep(p, b)
      BY <1>3, OldestFound DEF bget, Cached, CacheInv
    <2> QED BY <2>1 DEF SLNext, Buf
  <1>4. ASSUME NEW p \in Proc, brelse(p) PROVE SLNext
    BY <1>4 DEF brelse, SLNext
  <1>5. ASSUME NEW p \in Proc, iderw_sleep(p) PROVE SLNext
    BY <1>5, DiskAssumption DEF iderw_sleep, SLNext, DiskAssumption
  <1>6. ASSUME NEW p \in Proc, iderw_sched(p) PROVE SLNext
    BY <1>6, DiskAssumption DEF iderw_sched, SLNext, DiskAssumption
  <1>7. ASSUME NEW p \in Proc, NEW v \in Value,
               bread(p) \/ brelse_ref(p) \/ log_write(p, v) \/ bwrite(p, v)
        PROVE  UNCHANGED slvars
    BY <1>7 DEF bread, brelse_ref, log_write, bwrite
  <1>8. ASSUME NEW p \in Proc, bread(p) \/ brelse_ref(p) \/ iderw(p) \/ iderw_done(p) \/ iderw_woken(p)
        PROVE  UNCHANGED slvars
    BY <1>8 DEF bread, brelse_ref, iderw, iderw_done, iderw_woken
  <1>9. CASE complete \/ ideintr \/ ideintr_wakeup
    BY <1>9 DEF complete, ideintr, ideintr_wakeup
  <1>10. ASSUME NEW p \in Proc, NEW blk \in Block, bget_panic(p, blk) PROVE UNCHANGED slvars
    BY <1>10 DEF bget_panic
  <1> QED
    BY <1>1, <1>2, <1>3, <1>4, <1>5, <1>6, <1>7, <1>8, <1>9, <1>10, BgetCases DEF Next, step, spin

\* The processes that use the buffer cache use its sleep locks as SleepLock says.
LEMMA LocksAlways == Spec => []SLInv
  <1>1. Init => SLInit
    BY DEF Init
  <1>2. Spec => SLSpec
    BY <1>1, CacheAlways, LockSteps, PTL DEF Spec, SLSpec
  <1> QED BY <1>2, SLAlways, PTL

-----------------------------------------------------------------------------
(* The locks: who has a buffer, idelock and ptable.lock.                    *)

Using(p) == pc[p] \in {"hold", "iderw", "test", "sched", "asleep", "woken"}

\* Where a process is in the sleep lock of its buffer.
LockCur == \A p \in Proc :
  /\ Using(p) => lpc[p] = "held" /\ lid[p] = cur[p]
  /\ pc[p] = "bget" => lid[p] = cur[p] /\ lpc[p] \in {"acquire", "sleep", "sched", "asleep", "held"}
  /\ pc[p] \in {"idle", "panic"} => lpc[p] = "out"
  /\ pc[p] = "brelse" => lpc[p] \in {"release", "wakeup", "out"}

\* idelock is held in iderw() and in ideintr().
IdeOK ==
  /\ ipc \in {"none", "wakeup"}
  /\ \A p \in Proc : pc[p] = "test" <=> idelock = p
  /\ ipc = "wakeup" <=> idelock = Intr

\* Between the end of sleep() and the scheduler ptable.lock is held.
SchedOK == \A p \in Proc : pc[p] = "sched" => ptable = p

LockInv == LockCur /\ IdeOK /\ SchedOK

LEMMA LockInit == Init => LockInv
  BY SleepLockAssumption, DiskAssumption
  DEF Init, SLInit, LockInv, LockCur, Using, IdeOK, SchedOK, SleepLockAssumption, DiskAssumption

\* Two processes never use the same buffer.
LEMMA Alone ==
  ASSUME CacheInv, SLInv, LockInv, NEW p \in Proc, NEW q \in Proc, Using(p), Using(q), cur[p] = cur[q]
  PROVE  p = q
  <1>1. cur[p] \in Lock
    BY DEF CacheInv, CurOK, Using, Buf
  <1>2. Has(p, cur[p]) /\ Has(q, cur[p])
    BY DEF LockInv, LockCur, Has
  <1> QED BY <1>1, <1>2 DEF SLInv, SleepLockExclusive

LEMMA LockStep ==
  ASSUME CacheInv, SLInv, LockInv, [Next]_vars
  PROVE  LockInv'
  <1> USE SleepLockAssumption, DiskAssumption DEF SleepLockAssumption, DiskAssumption, At, Goto
  <1>t. pc \in [Proc -> PCs] /\ cur \in [Proc -> Buf \cup {None}] /\ LockTypeOK
    BY DEF CacheInv, CurOK, SLInv
  <1>1. CASE UNCHANGED vars
    BY <1>1 DEF vars, slvars, ide, LockInv, LockCur, Using, IdeOK, SchedOK
  <1>2. ASSUME NEW p \in Proc, lockstep(p), UNCHANGED <<cache, ide, pc, cur>> PROVE LockInv'
    <2>1. IdeOK'
      BY <1>2 DEF LockInv, IdeOK, ide
    <2>2. LockCur'
      <3> USE <1>2, <1>t DEF LockInv, LockCur, Using, LockTypeOK, AtLock, GotoLock, PCs
      <3>1. CASE take(p) \/ contend(p) \/ sleep(p) \/ sched(p)
        BY <3>1 DEF take, contend, sleep, sched
      <3>2. CASE release(p)
        BY <3>2 DEF release
      <3>3. CASE wakeup(p)
        <4>1. pc[p] = "brelse"
          BY <3>3 DEF wakeup
        <4>2. ASSUME NEW q \in Proc, q # p PROVE (lpc'[q] = lpc[q] \/ (lpc[q] = "asleep" /\ lpc'[q] = "acquire")) /\ lid'[q] = lid[q]
          BY <3>3, <4>2 DEF wakeup
        <4>3. lpc'[p] = "out"
          BY <3>3 DEF wakeup
        <4> QED BY <4>1, <4>2, <4>3
      <3> QED BY <3>1, <3>2, <3>3 DEF lockstep
    <2>3. SchedOK'
      <3> USE <1>2, <1>t DEF AtLock, GotoLock
      <3>1. CASE take(p) \/ contend(p) \/ release(p) \/ wakeup(p) \/ sleep(p)
        BY <3>1 DEF take, contend, release, wakeup, sleep, LockInv, SchedOK
      <3>2. CASE sched(p)
        BY <3>2 DEF sched, LockInv, SchedOK, LockCur, Using, SLInv, SchedHolds
      <3> QED BY <3>1, <3>2 DEF lockstep
    <2> QED BY <2>1, <2>2, <2>3 DEF LockInv
  <1>3. ASSUME NEW p \in Proc, NEW blk \in Block, bget(p, blk) PROVE LockInv'
    <2> USE <1>3, <1>t DEF bget, acquiresleep, slvars, ide, AtLock, GotoLock
    <2>1. LockCur'
      BY DEF LockInv, LockCur, Using, LockTypeOK, PCs
    <2>2. IdeOK'
      BY DEF LockInv, IdeOK, PCs
    <2>3. SchedOK'
      BY DEF LockInv, SchedOK, PCs
    <2> QED BY <2>1, <2>2, <2>3 DEF LockInv
  <1>4. ASSUME NEW p \in Proc, bread(p) PROVE LockInv'
    <2> USE <1>4, <1>t DEF bread, slvars, ide, AtLock, GotoLock
    <2>1. LockCur'
      BY DEF LockInv, LockCur, Using, LockTypeOK, PCs
    <2>2. IdeOK'
      BY DEF LockInv, IdeOK, PCs
    <2>3. SchedOK'
      BY DEF LockInv, SchedOK, PCs
    <2> QED BY <2>1, <2>2, <2>3 DEF LockInv
  <1>5. ASSUME NEW p \in Proc, brelse(p) PROVE LockInv'
    <2> USE <1>5, <1>t DEF brelse, releasesleep, slvars, ide, AtLock, GotoLock
    <2>1. LockCur'
      BY DEF LockInv, LockCur, Using, LockTypeOK, PCs
    <2>2. IdeOK'
      BY DEF LockInv, IdeOK, PCs
    <2>3. SchedOK'
      BY DEF LockInv, SchedOK, PCs
    <2> QED BY <2>1, <2>2, <2>3 DEF LockInv
  <1>6. ASSUME NEW p \in Proc, brelse_ref(p) PROVE LockInv'
    <2> USE <1>6, <1>t DEF brelse_ref, slvars, ide, AtLock, GotoLock
    <2>1. LockCur'
      BY DEF LockInv, LockCur, Using, LockTypeOK, PCs
    <2>2. IdeOK'
      BY DEF LockInv, IdeOK, PCs
    <2>3. SchedOK'
      BY DEF LockInv, SchedOK, PCs
    <2> QED BY <2>1, <2>2, <2>3 DEF LockInv
  <1>7. ASSUME NEW p \in Proc, NEW v \in Value, log_write(p, v) PROVE LockInv'
    <2> USE <1>7, <1>t DEF log_write, slvars, ide, AtLock, GotoLock
    <2>1. LockCur'
      BY DEF LockInv, LockCur, Using, LockTypeOK, PCs
    <2>2. IdeOK'
      BY DEF LockInv, IdeOK, PCs
    <2>3. SchedOK'
      BY DEF LockInv, SchedOK, PCs
    <2> QED BY <2>1, <2>2, <2>3 DEF LockInv
  <1>8. ASSUME NEW p \in Proc, NEW v \in Value, bwrite(p, v) PROVE LockInv'
    <2> USE <1>8, <1>t DEF bwrite, slvars, ide, AtLock, GotoLock
    <2>1. LockCur'
      BY DEF LockInv, LockCur, Using, LockTypeOK, PCs
    <2>2. IdeOK'
      BY DEF LockInv, IdeOK, PCs
    <2>3. SchedOK'
      BY DEF LockInv, SchedOK, PCs
    <2> QED BY <2>1, <2>2, <2>3 DEF LockInv
  <1>9. ASSUME NEW p \in Proc, iderw(p) PROVE LockInv'
    <2> USE <1>9, <1>t DEF iderw, slvars, ide, AtLock, GotoLock
    <2>1. LockCur'
      BY DEF LockInv, LockCur, Using, LockTypeOK, PCs
    <2>2. IdeOK'
      BY DEF LockInv, IdeOK, PCs
    <2>3. SchedOK'
      BY DEF LockInv, SchedOK, PCs
    <2> QED BY <2>1, <2>2, <2>3 DEF LockInv
  <1>10. ASSUME NEW p \in Proc, iderw_done(p) PROVE LockInv'
    <2> USE <1>10, <1>t DEF iderw_done, slvars, ide, AtLock, GotoLock
    <2>1. LockCur'
      BY DEF LockInv, LockCur, Using, LockTypeOK, PCs
    <2>2. IdeOK'
      BY DEF LockInv, IdeOK, PCs
    <2>3. SchedOK'
      BY DEF LockInv, SchedOK, PCs
    <2> QED BY <2>1, <2>2, <2>3 DEF LockInv
  <1>11. ASSUME NEW p \in Proc, iderw_sleep(p) PROVE LockInv'
    <2> USE <1>11, <1>t DEF iderw_sleep, ptable_acquire, slvars, ide, AtLock, GotoLock
    <2>1. LockCur'
      BY DEF LockInv, LockCur, Using, LockTypeOK, PCs
    <2>2. IdeOK'
      BY DEF LockInv, IdeOK, PCs
    <2>3. SchedOK'
      BY DEF LockInv, SchedOK, PCs
    <2> QED BY <2>1, <2>2, <2>3 DEF LockInv
  <1>12. ASSUME NEW p \in Proc, iderw_sched(p) PROVE LockInv'
    <2> USE <1>12, <1>t DEF iderw_sched, ptable_release, slvars, ide, AtLock, GotoLock
    <2>1. LockCur'
      BY DEF LockInv, LockCur, Using, LockTypeOK, PCs
    <2>2. IdeOK'
      BY DEF LockInv, IdeOK, PCs
    <2>3. SchedOK'
      BY DEF LockInv, SchedOK, PCs
    <2> QED BY <2>1, <2>2, <2>3 DEF LockInv
  <1>13. ASSUME NEW p \in Proc, iderw_woken(p) PROVE LockInv'
    <2> USE <1>13, <1>t DEF iderw_woken, slvars, ide, AtLock, GotoLock
    <2>1. LockCur'
      BY DEF LockInv, LockCur, Using, LockTypeOK, PCs
    <2>2. IdeOK'
      BY DEF LockInv, IdeOK, PCs
    <2>3. SchedOK'
      BY DEF LockInv, SchedOK, PCs
    <2> QED BY <2>1, <2>2, <2>3 DEF LockInv
  <1>14. CASE complete
    <2> USE <1>14, <1>t DEF complete, slvars
    <2>1. LockCur'
      BY DEF LockInv, LockCur, Using, PCs
    <2>2. IdeOK'
      BY DEF LockInv, IdeOK, PCs
    <2>3. SchedOK'
      BY DEF LockInv, SchedOK, PCs
    <2> QED BY <2>1, <2>2, <2>3 DEF LockInv
  <1>15. CASE ideintr
    <2> USE <1>15, <1>t DEF ideintr, slvars
    <2>1. LockCur'
      BY DEF LockInv, LockCur, Using, PCs
    <2>2. IdeOK'
      BY DEF LockInv, IdeOK, PCs
    <2>3. SchedOK'
      BY DEF LockInv, SchedOK, PCs
    <2> QED BY <2>1, <2>2, <2>3 DEF LockInv
  <1>16. CASE ideintr_wakeup
    <2> USE <1>16, <1>t DEF ideintr_wakeup, slvars
    <2>1. LockCur'
      BY DEF LockInv, LockCur, Using, PCs
    <2>2. IdeOK'
      BY DEF LockInv, IdeOK, PCs
    <2>3. SchedOK'
      BY DEF LockInv, SchedOK, PCs
    <2> QED BY <2>1, <2>2, <2>3 DEF LockInv
  <1>17. ASSUME NEW p \in Proc, NEW blk \in Block, bget_panic(p, blk) PROVE LockInv'
    <2> USE <1>17, <1>t DEF bget_panic, slvars, ide
    <2>0. pc[p] = "idle" /\ pc' = [pc EXCEPT ![p] = "panic"]
      BY DEF Wants
    <2>1. LockCur'
      BY <2>0 DEF LockInv, LockCur, Using, PCs
    <2>2. IdeOK'
      BY <2>0 DEF LockInv, IdeOK, PCs
    <2>3. SchedOK'
      BY <2>0 DEF LockInv, SchedOK, PCs
    <2> QED BY <2>1, <2>2, <2>3 DEF LockInv
  <1> QED
    BY <1>1, <1>2, <1>3, <1>4, <1>5, <1>6, <1>7, <1>8, <1>9, <1>10, <1>11, <1>12, <1>13, <1>14, <1>15, <1>16,
       <1>17, BgetCases DEF Next, step, spin

-----------------------------------------------------------------------------
(* The queue of the driver.                                                 *)

Waiting(p) == pc[p] \in {"test", "sched", "asleep"}
Queued(b) == \E i \in 1..Len(queue) : queue[i] = b

\* The queue holds each buffer once, for a process that waits for it.
QueueOK ==
  /\ queue \in Seq(Buf)
  /\ \A i, j \in 1..Len(queue) : queue[i] = queue[j] => i = j
  /\ \A i \in 1..Len(queue) : \E p \in Proc : cur[p] = queue[i] /\ Waiting(p)

\* Who waits has a buffer in the queue, and who has been woken is served.
WaitOK == \A p \in Proc :
  /\ pc[p] \in {"sched", "asleep"} => Queued(cur[p])
  /\ pc[p] = "test" => Done(cur[p]) \/ Queued(cur[p])
  /\ pc[p] = "iderw" => ~Done(cur[p])
  /\ pc[p] = "woken" => Done(cur[p])

\* The requests in the queue are not served, but for the one of the interrupt.
PendingOK ==
  /\ \A i \in 1..Len(queue) : ipc = "none" \/ i # 1 => ~Done(queue[i])
  /\ ipc = "wakeup" => queue # <<>> /\ Done(queue[1])

\* The disk works on the head of the queue.
HwOK ==
  /\ ipc = "none" => hw = IF queue = <<>> THEN NoRequest ELSE Request(queue[1])
  /\ ipc = "wakeup" => hw = NoRequest /\ ~irq
  /\ irq \in BOOLEAN /\ (irq => hw # NoRequest)

QueueInv == QueueOK /\ WaitOK /\ PendingOK /\ HwOK

LEMMA QueueInit == Init => QueueInv
  <1> SUFFICES ASSUME Init PROVE QueueInv
    OBVIOUS
  <1>1. queue = <<>> /\ Len(queue) = 0 /\ queue \in Seq(Buf)
    BY DEF Init
  <1>2. QueueOK
    BY <1>1 DEF QueueOK
  <1>3. WaitOK
    BY DEF Init, WaitOK
  <1>4. PendingOK
    BY <1>1 DEF Init, PendingOK
  <1>5. HwOK
    BY DEF Init, HwOK
  <1> QED BY <1>2, <1>3, <1>4, <1>5 DEF QueueInv

\* A step that leaves the queue, the disk and the buffers in the queue alone.
LEMMA QueueSame ==
  ASSUME QueueInv, UNCHANGED <<queue, hw, irq, ipc>>, WaitOK',
         \A i \in 1..Len(queue) : /\ Done(queue[i])' <=> Done(queue[i])
                                  /\ Request(queue[i])' = Request(queue[i]),
         \A p \in Proc : Waiting(p) /\ Queued(cur[p]) => cur'[p] = cur[p] /\ Waiting(p)'
  PROVE  QueueInv'
  <1>1. QueueOK'
    BY DEF QueueInv, QueueOK, Queued
  <1>2. PendingOK'
    <2>1. queue # <<>> => 1 \in 1..Len(queue)
      BY DEF QueueInv, QueueOK
    <2> QED BY <2>1 DEF QueueInv, PendingOK
  <1>3. HwOK'
    <2>1. queue # <<>> => 1 \in 1..Len(queue)
      BY DEF QueueInv, QueueOK
    <2>2. queue # <<>> => Request(queue[1])' = Request(queue[1])
      BY <2>1
    <2> QED BY <2>2 DEF QueueInv, HwOK
  <1> QED BY <1>1, <1>2, <1>3 DEF QueueInv

\* Two entries that agree but for their reference counts.
LEMMA SameEntry ==
  ASSUME NEW c \in Buf, buf'[c].block = buf[c].block, buf'[c].valid = buf[c].valid,
         buf'[c].dirty = buf[c].dirty, buf'[c].data = buf[c].data
  PROVE  (Done(c)' <=> Done(c)) /\ Request(c)' = Request(c)
  BY DEF Done, Request

LEMMA QueueStep ==
  ASSUME CacheInv, SLInv, LockInv, QueueInv, [Next]_vars
  PROVE  QueueInv'
  <1> USE DEF At, Goto
  <1>t. /\ pc \in [Proc -> PCs] /\ cur \in [Proc -> Buf \cup {None}]
        /\ \A p \in Proc : pc[p] \notin {"idle", "panic"} => cur[p] \in Buf
        /\ queue \in Seq(Buf) /\ Len(queue) \in Nat /\ \A i \in 1..Len(queue) : queue[i] \in Buf
    BY SleepLockAssumption DEF CacheInv, CurOK, QueueInv, QueueOK, SleepLockAssumption
  <1>w. \A i \in 1..Len(queue) : \E q \in Proc : cur[q] = queue[i] /\ Waiting(q)
    BY DEF QueueInv, QueueOK
  <1>1. CASE UNCHANGED vars
    <2> USE <1>1 DEF vars, cache, ide
    <2>1. \A c \in Buf : (Done(c)' <=> Done(c)) /\ Request(c)' = Request(c)
      BY SameEntry
    <2>2. WaitOK'
      BY DEF QueueInv, WaitOK, Done, Queued
    <2> QED BY <1>t, <2>1, <2>2, QueueSame DEF Waiting
  <1>2. ASSUME NEW p \in Proc, lockstep(p), UNCHANGED <<cache, ide, pc, cur>> PROVE QueueInv'
    <2> USE <1>2 DEF cache, ide
    <2>1. \A c \in Buf : (Done(c)' <=> Done(c)) /\ Request(c)' = Request(c)
      BY SameEntry
    <2>2. WaitOK'
      BY DEF QueueInv, WaitOK, Done, Queued
    <2> QED BY <1>t, <2>1, <2>2, QueueSame DEF Waiting
  <1>3. ASSUME NEW p \in Proc, NEW blk \in Block, NEW b \in Cached(blk), bget(p, blk),
               buf' = [buf EXCEPT ![b].ref = @ + 1], cur' = [cur EXCEPT ![p] = b]
        PROVE  QueueInv'
    <2>1. UNCHANGED ide /\ pc' = [pc EXCEPT ![p] = "bget"] /\ pc[p] = "idle"
      BY <1>3 DEF bget
    <2>2. \A c \in Buf : (Done(c)' <=> Done(c)) /\ Request(c)' = Request(c)
      <3>1. PICK D : buf \in [Buf -> Entry(D)]
        BY DEF CacheInv, BufOK
      <3>2. \A c \in Buf : /\ buf'[c].block = buf[c].block /\ buf'[c].valid = buf[c].valid
                           /\ buf'[c].dirty = buf[c].dirty /\ buf'[c].data = buf[c].data
        BY <1>3, <3>1 DEF Entry, Cached
      <3> QED BY <3>2, SameEntry
    <2>3. \A q \in Proc : q # p => cur'[q] = cur[q] /\ pc'[q] = pc[q]
      BY <1>t, <1>3, <2>1
    <2>4. WaitOK'
      BY <1>t, <2>1, <2>2, <2>3 DEF QueueInv, WaitOK, Queued, ide
    <2> QED BY <1>t, <2>1, <2>2, <2>3, <2>4, QueueSame DEF ide, Waiting
  <1>4. ASSUME NEW p \in Proc, NEW blk \in Block, bget(p, blk), NEW b \in Buf, Recyclable(b),
               buf' = [buf EXCEPT ![b] = Recycled(blk)], cur' = [cur EXCEPT ![p] = b]
        PROVE  QueueInv'
    <2>1. UNCHANGED ide /\ pc' = [pc EXCEPT ![p] = "bget"] /\ pc[p] = "idle"
      BY <1>4 DEF bget
    <2>2. \A q \in Proc : cur[q] # b
      BY <1>4, BufRef DEF Recyclable
    <2>3. \A c \in Buf : c # b => (Done(c)' <=> Done(c)) /\ Request(c)' = Request(c)
      <3>1. \A c \in Buf : c # b => buf'[c] = buf[c]
        BY <1>4 DEF CacheInv, BufOK
      <3> QED BY <3>1, SameEntry
    <2>4. \A q \in Proc : q # p => cur'[q] = cur[q] /\ pc'[q] = pc[q]
      BY <1>t, <1>4, <2>1
    <2>5. WaitOK'
      BY <1>t, <2>1, <2>2, <2>3, <2>4 DEF QueueInv, WaitOK, Queued, ide
    <2>6. \A i \in 1..Len(queue) : queue[i] # b
      BY <1>w, <2>2
    <2> QED BY <1>t, <2>1, <2>3, <2>4, <2>5, <2>6, QueueSame DEF ide, Waiting
  <1>5. ASSUME NEW p \in Proc, NEW v \in Value, log_write(p, v) PROVE QueueInv'
    <2>1. UNCHANGED ide /\ UNCHANGED cur /\ pc[p] = "hold" /\ pc' = [pc EXCEPT ![p] = "hold"] /\ cur[p] \in Buf
      BY <1>t, <1>5 DEF log_write
    <2>2. \A q \in Proc : q # p /\ Using(q) => cur[q] # cur[p]
      BY <2>1, Alone DEF Using
    <2>3. /\ ~Done(cur[p])'
          /\ \A c \in Buf : c # cur[p] => (Done(c)' <=> Done(c)) /\ Request(c)' = Request(c)
      <3>1. PICK D : buf \in [Buf -> Entry(D)]
        BY DEF CacheInv, BufOK
      <3>2. \A c \in Buf : c # cur[p] => buf'[c] = buf[c]
        BY <1>5, <3>1 DEF log_write
      <3>3. buf'[cur[p]].dirty
        BY <1>5, <2>1, <3>1 DEF log_write, Entry
      <3>4. ~Done(cur[p])'
        BY <2>1, <3>3 DEF Done
      <3> QED BY <3>2, <3>4, SameEntry
    <2>4. \A q \in Proc : q # p => pc'[q] = pc[q]
      BY <1>t, <2>1
    <2>5. pc'[p] = "hold"
      BY <1>t, <2>1
    <2>6. WaitOK'
      BY <1>t, <2>1, <2>2, <2>3, <2>4, <2>5 DEF QueueInv, WaitOK, Queued, Using, ide
    <2>7. \A i \in 1..Len(queue) : queue[i] # cur[p]
      BY <1>w, <2>1, <2>2 DEF Waiting, Using
    <2> QED BY <1>t, <2>1, <2>3, <2>4, <2>6, <2>7, QueueSame DEF ide, Waiting
  <1>6. ASSUME NEW p \in Proc, NEW v \in Value, bwrite(p, v) PROVE QueueInv'
    <2>1. UNCHANGED ide /\ UNCHANGED cur /\ pc[p] = "hold" /\ pc' = [pc EXCEPT ![p] = "iderw"] /\ cur[p] \in Buf
      BY <1>t, <1>6 DEF bwrite
    <2>2. \A q \in Proc : q # p /\ Using(q) => cur[q] # cur[p]
      BY <2>1, Alone DEF Using
    <2>3. /\ ~Done(cur[p])'
          /\ \A c \in Buf : c # cur[p] => (Done(c)' <=> Done(c)) /\ Request(c)' = Request(c)
      <3>1. PICK D : buf \in [Buf -> Entry(D)]
        BY DEF CacheInv, BufOK
      <3>2. \A c \in Buf : c # cur[p] => buf'[c] = buf[c]
        BY <1>6, <3>1 DEF bwrite
      <3>3. buf'[cur[p]].dirty
        BY <1>6, <2>1, <3>1 DEF bwrite, Entry
      <3>4. ~Done(cur[p])'
        BY <2>1, <3>3 DEF Done
      <3> QED BY <3>2, <3>4, SameEntry
    <2>4. \A q \in Proc : q # p => pc'[q] = pc[q]
      BY <1>t, <2>1
    <2>5. pc'[p] = "iderw"
      BY <1>t, <2>1
    <2>6. WaitOK'
      BY <1>t, <2>1, <2>2, <2>3, <2>4, <2>5 DEF QueueInv, WaitOK, Queued, Using, ide
    <2>7. \A i \in 1..Len(queue) : queue[i] # cur[p]
      BY <1>w, <2>1, <2>2 DEF Waiting, Using
    <2> QED BY <1>t, <2>1, <2>3, <2>4, <2>6, <2>7, QueueSame DEF ide, Waiting
  <1>7. ASSUME NEW p \in Proc, brelse_ref(p) PROVE QueueInv'
    <2>1. UNCHANGED ide /\ pc' = [pc EXCEPT ![p] = "idle"] /\ pc[p] = "brelse" /\ cur[p] \in Buf
      BY <1>t, <1>7 DEF brelse_ref
    <2>2. \A c \in Buf : (Done(c)' <=> Done(c)) /\ Request(c)' = Request(c)
      <3>1. PICK D : buf \in [Buf -> Entry(D)]
        BY DEF CacheInv, BufOK
      <3>2. \A c \in Buf : /\ buf'[c].block = buf[c].block /\ buf'[c].valid = buf[c].valid
                           /\ buf'[c].dirty = buf[c].dirty /\ buf'[c].data = buf[c].data
        BY <1>7, <2>1, <3>1 DEF brelse_ref, Entry
      <3> QED BY <3>2, SameEntry
    <2>3. \A q \in Proc : q # p => cur'[q] = cur[q] /\ pc'[q] = pc[q]
      BY <1>t, <1>7, <2>1 DEF brelse_ref
    <2>4. WaitOK'
      BY <1>t, <2>1, <2>2, <2>3 DEF QueueInv, WaitOK, Queued, ide
    <2> QED BY <1>t, <2>1, <2>2, <2>3, <2>4, QueueSame DEF ide, Waiting
  <1>8. ASSUME NEW p \in Proc, bread(p) PROVE QueueInv'
    <2> USE <1>8 DEF bread, cache, ide
    <2>1. UNCHANGED <<buf, cur, queue, hw, irq, ipc>>
      OBVIOUS
    <2>2. \A c \in Buf : (Done(c)' <=> Done(c)) /\ Request(c)' = Request(c)
      BY <2>1, SameEntry
    <2>3. WaitOK'
      BY <1>t, <2>1, <2>2 DEF QueueInv, WaitOK, Queued, PCs, Done
    <2>4. \A q \in Proc : Waiting(q) /\ Queued(cur[q]) => cur'[q] = cur[q] /\ Waiting(q)'
      BY <1>t, <2>1 DEF Waiting, Queued, QueueInv, PendingOK, LockInv, IdeOK
    <2> QED BY <1>t, <2>1, <2>2, <2>3, <2>4, QueueSame
  <1>9. ASSUME NEW p \in Proc, brelse(p) PROVE QueueInv'
    <2> USE <1>9 DEF brelse, cache, ide
    <2>1. UNCHANGED <<buf, cur, queue, hw, irq, ipc>>
      OBVIOUS
    <2>2. \A c \in Buf : (Done(c)' <=> Done(c)) /\ Request(c)' = Request(c)
      BY <2>1, SameEntry
    <2>3. WaitOK'
      BY <1>t, <2>1, <2>2 DEF QueueInv, WaitOK, Queued, PCs, Done
    <2>4. \A q \in Proc : Waiting(q) /\ Queued(cur[q]) => cur'[q] = cur[q] /\ Waiting(q)'
      BY <1>t, <2>1 DEF Waiting, Queued, QueueInv, PendingOK, LockInv, IdeOK
    <2> QED BY <1>t, <2>1, <2>2, <2>3, <2>4, QueueSame
  <1>10. ASSUME NEW p \in Proc, iderw_done(p) PROVE QueueInv'
    <2> USE <1>10 DEF iderw_done, cache, ide
    <2>1. UNCHANGED <<buf, cur, queue, hw, irq, ipc>>
      OBVIOUS
    <2>2. \A c \in Buf : (Done(c)' <=> Done(c)) /\ Request(c)' = Request(c)
      BY <2>1, SameEntry
    <2>3. WaitOK'
      BY <1>t, <2>1, <2>2 DEF QueueInv, WaitOK, Queued, PCs, Done
    <2>4. \A q \in Proc : Waiting(q) /\ Queued(cur[q]) => cur'[q] = cur[q] /\ Waiting(q)'
      <3>1. ipc = "none" /\ Done(cur[p])
        BY DiskAssumption DEF LockInv, IdeOK, DiskAssumption
      <3>2. ~Queued(cur[p])
        BY <3>1 DEF Queued, QueueInv, PendingOK
      <3>3. \A q \in Proc : q # p => pc'[q] = pc[q]
        BY <1>t
      <3> QED BY <2>1, <3>2, <3>3 DEF Waiting
    <2> QED BY <1>t, <2>1, <2>2, <2>3, <2>4, QueueSame
  <1>11. ASSUME NEW p \in Proc, iderw_sleep(p) PROVE QueueInv'
    <2> USE <1>11 DEF iderw_sleep, cache, ide
    <2>1. UNCHANGED <<buf, cur, queue, hw, irq, ipc>>
      OBVIOUS
    <2>2. \A c \in Buf : (Done(c)' <=> Done(c)) /\ Request(c)' = Request(c)
      BY <2>1, SameEntry
    <2>3. WaitOK'
      BY <1>t, <2>1, <2>2 DEF QueueInv, WaitOK, Queued, PCs, Done
    <2>4. \A q \in Proc : Waiting(q) /\ Queued(cur[q]) => cur'[q] = cur[q] /\ Waiting(q)'
      BY <1>t, <2>1 DEF Waiting, Queued, QueueInv, PendingOK, LockInv, IdeOK
    <2> QED BY <1>t, <2>1, <2>2, <2>3, <2>4, QueueSame
  <1>12. ASSUME NEW p \in Proc, iderw_sched(p) PROVE QueueInv'
    <2> USE <1>12 DEF iderw_sched, cache, ide
    <2>1. UNCHANGED <<buf, cur, queue, hw, irq, ipc>>
      OBVIOUS
    <2>2. \A c \in Buf : (Done(c)' <=> Done(c)) /\ Request(c)' = Request(c)
      BY <2>1, SameEntry
    <2>3. WaitOK'
      BY <1>t, <2>1, <2>2 DEF QueueInv, WaitOK, Queued, PCs, Done
    <2>4. \A q \in Proc : Waiting(q) /\ Queued(cur[q]) => cur'[q] = cur[q] /\ Waiting(q)'
      BY <1>t, <2>1 DEF Waiting, Queued, QueueInv, PendingOK, LockInv, IdeOK
    <2> QED BY <1>t, <2>1, <2>2, <2>3, <2>4, QueueSame
  <1>13. ASSUME NEW p \in Proc, iderw_woken(p) PROVE QueueInv'
    <2> USE <1>13 DEF iderw_woken, cache, ide
    <2>1. UNCHANGED <<buf, cur, queue, hw, irq, ipc>>
      OBVIOUS
    <2>2. \A c \in Buf : (Done(c)' <=> Done(c)) /\ Request(c)' = Request(c)
      BY <2>1, SameEntry
    <2>3. WaitOK'
      BY <1>t, <2>1, <2>2 DEF QueueInv, WaitOK, Queued, PCs, Done
    <2>4. \A q \in Proc : Waiting(q) /\ Queued(cur[q]) => cur'[q] = cur[q] /\ Waiting(q)'
      BY <1>t, <2>1 DEF Waiting, Queued, QueueInv, PendingOK, LockInv, IdeOK
    <2> QED BY <1>t, <2>1, <2>2, <2>3, <2>4, QueueSame
  <1>14. ASSUME NEW p \in Proc, iderw(p) PROVE QueueInv'
    <2> DEFINE b == cur[p]
    <2>1. /\ UNCHANGED <<buf, cur, irq, ipc>> /\ pc[p] = "iderw" /\ pc' = [pc EXCEPT ![p] = "test"]
          /\ queue' = Append(queue, b) /\ hw' = (IF queue = <<>> THEN Request(b) ELSE hw) /\ idelock = None
      BY <1>14 DEF iderw, cache
    <2>2. b \in Buf /\ \A q \in Proc : q # p /\ Using(q) => cur[q] # b
      BY <1>t, <2>1, Alone DEF Using
    <2>3. ~Done(b) /\ ipc = "none"
      BY <2>1, SleepLockAssumption, DiskAssumption
      DEF QueueInv, WaitOK, LockInv, IdeOK, DiskAssumption, SleepLockAssumption
    <2>4. \A c \in Buf : (Done(c)' <=> Done(c)) /\ Request(c)' = Request(c)
      BY <2>1, SameEntry
    <2>5. \A i \in 1..Len(queue) : queue[i] # b
      BY <1>w, <2>1, <2>2 DEF Waiting, Using
    <2>6. /\ queue' \in Seq(Buf) /\ Len(queue') = Len(queue) + 1 /\ queue'[Len(queue) + 1] = b
          /\ \A i \in 1..Len(queue) : queue'[i] = queue[i]
      <3> HIDE DEF b
      <3> QED BY <1>t, <2>1, <2>2
    <2> HIDE DEF b
    <2>7. pc'[p] = "test" /\ \A q \in Proc : q # p => pc'[q] = pc[q]
      BY <1>t, <2>1
    <2>8. QueueOK'
      <3>1. \A i, j \in 1..Len(queue') : queue'[i] = queue'[j] => i = j
        BY <1>t, <2>5, <2>6 DEF QueueInv, QueueOK
      <3>2. ASSUME NEW i \in 1..Len(queue') PROVE \E q \in Proc : cur'[q] = queue'[i] /\ Waiting(q)'
        <4>1. CASE i = Len(queue) + 1
          BY <4>1, <2>1, <2>6, <2>7 DEF Waiting, b
        <4>2. CASE i \in 1..Len(queue)
          <5>1. PICK q \in Proc : cur[q] = queue[i] /\ Waiting(q)
            BY <1>w, <4>2
          <5>2. q # p
            BY <5>1, <2>1 DEF Waiting
          <5> QED BY <5>1, <5>2, <4>2, <2>1, <2>6, <2>7 DEF Waiting
        <4> QED BY <4>1, <4>2, <1>t, <2>6
      <3> QED BY <2>6, <3>1, <3>2 DEF QueueOK
    <2>9. WaitOK'
      <3>1. Len(queue) + 1 \in 1..Len(queue') /\ \A i \in 1..Len(queue) : i \in 1..Len(queue')
        BY <1>t, <2>6
      <3>2. Queued(cur[p])'
        BY <2>1, <2>6, <3>1 DEF Queued, b
      <3>3. \A q \in Proc : Queued(cur[q]) => Queued(cur[q])'
        BY <2>1, <2>6, <3>1 DEF Queued
      <3>4. \A q \in Proc : Done(cur[q])' <=> Done(cur[q])
        BY <2>1 DEF Done
      <3> QED BY <2>7, <3>2, <3>3, <3>4 DEF QueueInv, WaitOK
    <2>10. PendingOK'
      BY <1>t, <2>1, <2>2, <2>3, <2>4, <2>6 DEF QueueInv, PendingOK
    <2>11. HwOK'
      <3>1. CASE queue = <<>>
        <4>1. queue'[1] = b /\ queue' # <<>>
          <5>1. Len(queue) = 0
            BY <3>1
          <5>2. Len(queue') = 1 /\ queue'[1] = b
            BY <2>6, <5>1
          <5>3. Len(<<>>) = 0
            OBVIOUS
          <5> QED BY <5>2, <5>3
        <4>2. hw' = Request(b) /\ Request(queue[1])' = Request(b)
          BY <3>1, <4>1, <2>1 DEF Request
        <4>3. ~irq' /\ irq' \in BOOLEAN
          BY <3>1, <2>1, <2>3 DEF QueueInv, HwOK
        <4> QED BY <4>1, <4>2, <4>3, <2>1, <2>3 DEF HwOK
      <3>2. CASE queue # <<>>
        <4>1. queue' # <<>> /\ queue'[1] = queue[1] /\ queue[1] \in Buf
          BY <3>2, <1>t, <2>6
        <4>2. hw' = hw /\ hw = Request(queue[1])
          BY <3>2, <2>1, <2>3 DEF QueueInv, HwOK
        <4>a. Request(queue[1])' = Request(queue[1])
          BY <4>1, <2>1 DEF Request
        <4>3. irq' \in BOOLEAN /\ (irq' => hw' # NoRequest)
          BY <4>2, <2>1 DEF QueueInv, HwOK
        <4> QED BY <4>1, <4>2, <4>a, <4>3, <2>1, <2>3 DEF HwOK
      <3> QED BY <3>1, <3>2
    <2> QED BY <2>8, <2>9, <2>10, <2>11 DEF QueueInv
  <1>15. CASE complete
    <2>1. UNCHANGED <<buf, cur, pc, queue, hw, ipc>> /\ hw.op # "none" /\ irq' = TRUE /\ ~irq
      BY <1>15 DEF complete, cache
    <2>2. \A c \in Buf : (Done(c)' <=> Done(c)) /\ Request(c)' = Request(c)
      BY <2>1, SameEntry
    <2>3. hw # NoRequest
      BY <2>1 DEF NoRequest
    <2>4. QueueOK' /\ WaitOK' /\ PendingOK'
      BY <2>1 DEF QueueInv, QueueOK, WaitOK, PendingOK, Waiting, Queued, Done
    <2>5. HwOK'
      BY <1>t, <2>1, <2>2, <2>3 DEF QueueInv, HwOK
    <2> QED BY <2>4, <2>5 DEF QueueInv
  <1>16. CASE ideintr
    <2>1. /\ UNCHANGED <<cur, pc, queue>> /\ irq /\ irq' = FALSE /\ ipc = "none" /\ ipc' = "wakeup"
          /\ hw' = NoRequest /\ idelock = None
      BY <1>16 DEF ideintr
    <2>2. queue # <<>> /\ queue[1] = Head(queue) /\ queue[1] \in Buf
      BY <1>t, <2>1 DEF QueueInv, HwOK
    <2>3. Done(queue[1])' /\ \A c \in Buf : c # queue[1] => (Done(c)' <=> Done(c))
      <3>1. PICK D : buf \in [Buf -> Entry(D)]
        BY DEF CacheInv, BufOK
      <3>2. buf'[queue[1]].valid /\ ~buf'[queue[1]].dirty
        BY <1>16, <2>2, <3>1 DEF ideintr, Entry
      <3>3. \A c \in Buf : c # queue[1] => buf'[c] = buf[c]
        BY <1>16, <2>2, <3>1 DEF ideintr
      <3> QED BY <2>1, <3>2, <3>3 DEF Done
    <2>4. \A q \in Proc : Using(q) /\ ~Waiting(q) => cur[q] # queue[1]
      <3>1. PICK p \in Proc : cur[p] = queue[1] /\ Waiting(p)
        BY <1>t, <1>w, <2>2
      <3> QED BY <3>1, Alone DEF Using, Waiting
    <2>5. QueueOK'
      BY <2>1 DEF QueueInv, QueueOK, Waiting
    <2>6. WaitOK'
      BY <1>t, <2>1, <2>2, <2>3, <2>4 DEF QueueInv, WaitOK, Queued, Using, Waiting
    <2>7. PendingOK'
      BY <1>t, <2>1, <2>2, <2>3 DEF QueueInv, PendingOK, QueueOK
    <2>8. HwOK'
      BY <2>1 DEF HwOK
    <2> QED BY <2>5, <2>6, <2>7, <2>8 DEF QueueInv
  <1>17. CASE ideintr_wakeup
    <2> DEFINE h == queue[1]
    <2>1. /\ UNCHANGED <<buf, cur, irq>> /\ ipc = "wakeup" /\ ipc' = "none" /\ ptable = None
          /\ queue' = Tail(queue)
          /\ hw' = IF Tail(queue) = <<>> THEN NoRequest ELSE Request(Head(Tail(queue)))
      BY <1>17 DEF ideintr_wakeup, cache
    <2>2. queue # <<>> /\ h = Head(queue) /\ h \in Buf /\ Done(h) /\ ~irq
      BY <1>t, <2>1 DEF QueueInv, PendingOK, HwOK
    <2>3. \A q \in Proc : pc'[q] = IF pc[q] = "asleep" /\ cur[q] = h THEN "woken" ELSE pc[q]
      BY <1>17, <2>2 DEF ideintr_wakeup
    <2>4. /\ queue' \in Seq(Buf) /\ Len(queue') = Len(queue) - 1 /\ Len(queue) >= 1
          /\ \A i \in 1..Len(queue') : queue'[i] = queue[i + 1] /\ i + 1 \in 1..Len(queue)
      BY <1>t, <2>1, <2>2
    <2>5. \A c \in Buf : (Done(c)' <=> Done(c)) /\ Request(c)' = Request(c)
      BY <2>1, SameEntry
    <2>6. \A i \in 1..Len(queue') : queue'[i] # h
      BY <1>t, <2>4 DEF QueueInv, QueueOK
    <2>7. \A q \in Proc : pc[q] # "test" /\ pc[q] # "sched"
      BY <2>1, SleepLockAssumption, DiskAssumption
      DEF LockInv, IdeOK, SchedOK, SleepLockAssumption, DiskAssumption
    <2>8. \A c \in Buf : c # h /\ Queued(c) => Queued(c)'
      <3> SUFFICES ASSUME NEW c \in Buf, c # h, NEW i \in 1..Len(queue), queue[i] = c PROVE Queued(c)'
        BY DEF Queued
      <3>1. i - 1 \in 1..Len(queue') /\ queue'[i - 1] = c
        BY <1>t, <2>4
      <3> QED BY <3>1 DEF Queued
    <2>9. QueueOK'
      <3>1. \A i, j \in 1..Len(queue') : queue'[i] = queue'[j] => i = j
        BY <1>t, <2>4 DEF QueueInv, QueueOK
      <3>2. ASSUME NEW i \in 1..Len(queue') PROVE \E q \in Proc : cur'[q] = queue'[i] /\ Waiting(q)'
        <4>1. PICK q \in Proc : cur[q] = queue[i + 1] /\ Waiting(q)
          BY <1>w, <2>4
        <4>2. cur[q] # h
          BY <4>1, <2>4, <2>6
        <4> QED BY <4>1, <4>2, <2>1, <2>3, <2>4 DEF Waiting
      <3> QED BY <2>4, <3>1, <3>2 DEF QueueOK
    <2>10. WaitOK'
      <3> HIDE DEF h
      <3> QED BY <1>t, <2>1, <2>2, <2>3, <2>5, <2>7, <2>8 DEF QueueInv, WaitOK
    <2>11. PendingOK'
      BY <1>t, <2>1, <2>4, <2>5 DEF QueueInv, PendingOK
    <2>12. HwOK'
      <3>1. ~irq' /\ irq' \in BOOLEAN
        BY <2>1, <2>2 DEF QueueInv, HwOK
      <3>2. queue' # <<>> => Head(queue') = queue'[1]
        BY <2>4
      <3>3. hw' = IF queue' = <<>> THEN NoRequest ELSE Request(queue[1])'
        BY <2>1, <3>2 DEF Request
      <3> QED BY <2>1, <3>1, <3>3 DEF HwOK
    <2> QED BY <2>9, <2>10, <2>11, <2>12 DEF QueueInv
  <1>18. ASSUME NEW p \in Proc, NEW blk \in Block, bget(p, blk) PROVE QueueInv'
    <2>1. CASE \E b \in Cached(blk) : buf' = [buf EXCEPT ![b].ref = @ + 1] /\ cur' = [cur EXCEPT ![p] = b]
      BY <1>18, <2>1, <1>3
    <2>2. ASSUME NEW c \in Buf, Recyclable(c),
                 buf' = [buf EXCEPT ![Oldest] = Recycled(blk)], cur' = [cur EXCEPT ![p] = Oldest]
          PROVE  QueueInv'
      <3>1. Oldest \in Buf /\ Recyclable(Oldest)
        BY <2>2, OldestFound DEF CacheInv
      <3> QED BY <1>18, <2>2, <3>1, <1>4
    <2> QED BY <1>18, <2>1, <2>2 DEF bget
  <1>19. ASSUME NEW p \in Proc, NEW blk \in Block, bget_panic(p, blk) PROVE QueueInv'
    <2>0. UNCHANGED <<cache, ide, cur>> /\ pc[p] = "idle" /\ pc' = [pc EXCEPT ![p] = "panic"]
      BY <1>19 DEF bget_panic, Wants
    <2> USE <2>0 DEF cache, ide
    <2>1. \A c \in Buf : (Done(c)' <=> Done(c)) /\ Request(c)' = Request(c)
      BY SameEntry
    <2>2. WaitOK'
      BY <1>t DEF QueueInv, WaitOK, Done, Queued
    <2> QED BY <1>t, <2>1, <2>2, QueueSame DEF Waiting
  <1> QED
    BY <1>1, <1>2, <1>18, <1>5, <1>6, <1>7, <1>8, <1>9, <1>10, <1>11, <1>12, <1>13, <1>14, <1>15, <1>16, <1>17,
       <1>19, BgetCases DEF Next, step, spin

LEMMA QueueIsExact == QueueInv => QueueExact
  <1> SUFFICES ASSUME QueueInv PROVE QueueExact
    OBVIOUS
  <1>1. queue \in Seq(Buf) /\ DOMAIN queue = 1..Len(queue) /\ (queue # <<>> => Head(queue) = queue[1])
    BY DEF QueueInv, QueueOK
  <1>2. ipc = "none" => hw = IF queue = <<>> THEN NoRequest ELSE Request(Head(queue))
    BY <1>1 DEF QueueInv, HwOK
  <1>3. \A i \in DOMAIN queue : \E p \in Proc : cur[p] = queue[i] /\ pc[p] \in {"test", "sched", "asleep"}
    BY <1>1 DEF QueueInv, QueueOK, Waiting
  <1>4. \A p \in Proc : pc[p] \in {"sched", "asleep"} => \E i \in DOMAIN queue : queue[i] = cur[p]
    BY <1>1 DEF QueueInv, WaitOK, Queued
  <1> QED BY <1>2, <1>3, <1>4 DEF QueueExact

-----------------------------------------------------------------------------

DiskInv == CacheInv /\ SLInv /\ LockInv /\ QueueInv

LEMMA DiskAlways == Spec => []DiskInv
  <1>1. Init => LockInv /\ QueueInv
    BY LockInit, QueueInit
  <1> QED BY <1>1, CacheAlways, LocksAlways, LockStep, QueueStep, PTL DEF Spec, DiskInv

-----------------------------------------------------------------------------
(* The panic of bget().  The process that panics keeps bcache.lock, so that *)
(* no buffer is given back any more; the interrupt only cleans a buffer that *)
(* somebody waits for.                                                     *)

NoneFree == ~CacheFree => \A b \in Buf : ~Recyclable(b)

LEMMA NoneFreeStep ==
  ASSUME DiskInv, NoneFree, [Next]_vars
  PROVE  NoneFree'
  <1> USE DEF At, Goto
  <1>t. /\ CacheInv /\ QueueInv /\ pc \in [Proc -> PCs]
        /\ \A p \in Proc : cur[p] = None => pc[p] \in {"idle", "panic"}
    BY DEF DiskInv, CacheInv, CurOK
  <1>d. PICK D : buf \in [Buf -> Entry(D)]
    BY <1>t DEF CacheInv, BufOK
  \* Steps that leave alone who panics, and the buffers or the free ones among them.
  <1>s. ASSUME \A p \in Proc : pc'[p] = "panic" => pc[p] = "panic",
               \A b \in Buf : Recyclable(b)' => Recyclable(b)
        PROVE  NoneFree'
    BY <1>s DEF NoneFree, CacheFree
  <1>1. CASE UNCHANGED vars
    BY <1>1, <1>s DEF vars, cache, Recyclable
  <1>2. ASSUME NEW p \in Proc, lockstep(p), UNCHANGED <<cache, ide, pc, cur>> PROVE NoneFree'
    BY <1>2, <1>s DEF cache, Recyclable
  <1>3. ASSUME NEW p \in Proc, NEW blk \in Block, bget_found(p, blk) \/ bget_recycle(p, blk)
        PROVE  NoneFree'
    <2>1. CacheFree /\ bget(p, blk)
      BY <1>3, BgetCases DEF bget_found, bget_recycle, Wants
    <2>2. CacheFree'
      BY <1>t, <2>1 DEF CacheFree, bget
    <2> QED BY <2>2 DEF NoneFree
  <1>4. ASSUME NEW p \in Proc, NEW blk \in Block, bget_panic(p, blk) PROVE NoneFree'
    BY <1>4 DEF bget_panic, NoneFree, cache, Recyclable
  <1>5. ASSUME NEW p \in Proc, NEW v \in Value, log_write(p, v) \/ bwrite(p, v) PROVE NoneFree'
    <2>1. buf' = [buf EXCEPT ![cur[p]].data = v, ![cur[p]].dirty = TRUE]
      BY <1>5 DEF log_write, bwrite
    <2>2. \A q \in Proc : pc'[q] = "panic" => pc[q] = "panic"
      BY <1>t, <1>5 DEF log_write, bwrite
    <2>3. \A b \in Buf : buf'[b].ref = buf[b].ref /\ (buf[b].dirty => buf'[b].dirty)
      <3>1. buf \in [Buf -> Entry(D \cup {v})]
        BY <1>d DEF Entry
      <3>2. cur[p] \in Buf
        BY <1>t, <1>5 DEF log_write, bwrite, CacheInv, CurOK
      <3> QED BY <2>1, <3>1, <3>2 DEF Entry
    <2> QED BY <2>2, <2>3, <1>s DEF Recyclable
  <1>6. ASSUME NEW p \in Proc, brelse_ref(p) PROVE NoneFree'
    BY <1>t, <1>6 DEF brelse_ref, NoneFree, CacheFree
  <1>7. ASSUME NEW p \in Proc,
               \/ bread(p) \/ brelse(p) \/ iderw(p) \/ iderw_done(p) \/ iderw_sleep(p)
               \/ iderw_sched(p) \/ iderw_woken(p)
        PROVE  NoneFree'
    <2>1. UNCHANGED buf /\ \A q \in Proc : pc'[q] = "panic" => pc[q] = "panic"
      BY <1>t, <1>7
      DEF bread, brelse, iderw, iderw_done, iderw_sleep, iderw_sched, iderw_woken, cache
    <2> QED BY <2>1, <1>s DEF Recyclable
  <1>8. CASE complete
    BY <1>8, <1>s DEF complete, cache, Recyclable
  <1>9. CASE ideintr
    <2>1. UNCHANGED pc
      BY <1>9 DEF ideintr
    <2>2. queue # <<>> /\ queue \in Seq(Buf)
      BY <1>t, <1>9 DEF ideintr, QueueInv, HwOK, QueueOK
    <2>3. \E q \in Proc : cur[q] = Head(queue)
      BY <1>t, <2>2 DEF QueueInv, QueueOK
    <2>4. Head(queue) \in Buf /\ buf[Head(queue)].ref # 0
      BY <1>t, <2>2, <2>3, BufRef
    <2>5. \A b \in Buf : buf'[b].ref = buf[b].ref /\ (b # Head(queue) => buf'[b] = buf[b])
      <3> DEFINE x == IF buf[Head(queue)].dirty THEN buf[Head(queue)].data ELSE disk[hw.block]
      <3>1. buf' = [buf EXCEPT ![Head(queue)].valid = TRUE, ![Head(queue)].dirty = FALSE,
                               ![Head(queue)].data = x]
        BY <1>9, <1>d DEF ideintr, Entry
      <3>2. buf \in [Buf -> Entry(D \cup {x})]
        BY <1>d DEF Entry
      <3> HIDE DEF x
      <3> QED BY <2>4, <3>1, <3>2 DEF Entry
    <2>6. \A b \in Buf : Recyclable(b)' => Recyclable(b)
      BY <2>4, <2>5 DEF Recyclable
    <2> QED BY <2>1, <2>6, <1>s
  <1>10. CASE ideintr_wakeup
    BY <1>t, <1>10, <1>s DEF ideintr_wakeup, cache, Recyclable
  <1> QED
    BY <1>1, <1>2, <1>3, <1>4, <1>5, <1>6, <1>7, <1>8, <1>9, <1>10 DEF Next, step, spin

\* Every buffer is either taken by somebody or kept for the log.
LEMMA TakenBuffers == CacheInv /\ NoneFree => PanicsWhenFull
  <1> SUFFICES ASSUME CacheInv, \A b \in Buf : ~Recyclable(b)
               PROVE  NBUF <= Cardinality({p \in Proc : cur[p] # None})
                                + Cardinality({b \in Buf : buf[b].dirty /\ buf[b].ref = 0})
    BY DEF PanicsWhenFull, NoneFree
  <1> DEFINE P == {p \in Proc : cur[p] # None}
             L == {b \in Buf : buf[b].dirty /\ buf[b].ref = 0}
             U == {b \in Buf : \E p \in Proc : cur[p] = b}
             f == [p \in P |-> cur[p]]
  <1>1. IsFiniteSet(P) /\ IsFiniteSet(L)
    BY DiskAssumption, FS_Subset DEF DiskAssumption
  <1>2. IsFiniteSet(U) /\ Cardinality(U) <= Cardinality(P)
    <2>1. f \in Surjection(P, U)
      BY SleepLockAssumption DEF Surjection, CacheInv, CurOK, SleepLockAssumption, Buf
    <2> HIDE DEF f, P, U
    <2> QED BY <1>1, <2>1, FS_Surjection
  <1>3. Buf = U \cup L
    <2> SUFFICES ASSUME NEW b \in Buf, b \notin U PROVE b \in L
      OBVIOUS
    <2>1. buf[b].ref = 0
      BY BufRef
    <2> QED BY <2>1 DEF Recyclable
  <1>4. /\ Cardinality(U \cup L) = Cardinality(U) + Cardinality(L) - Cardinality(U \cap L)
        /\ IsFiniteSet(U \cap L)
    <2> HIDE DEF U, L
    <2> QED BY <1>1, <1>2, FS_Union, FS_Intersection
  <1>5. /\ Cardinality(U) \in Nat /\ Cardinality(L) \in Nat /\ Cardinality(U \cap L) \in Nat
        /\ Cardinality(P) \in Nat
    <2> HIDE DEF U, L, P
    <2> QED BY <1>1, <1>2, <1>4, FS_CardinalityType
  <1>6. NBUF = Cardinality(U \cup L)
    BY <1>3 DEF NBUF
  <1> HIDE DEF U, L, P
  <1> QED BY ONLY <1>2, <1>4, <1>5, <1>6 DEF P, L

\* The processes that use the buffer cache never have a sleep lock together: every
\* step of the cache and of the driver is a step of SleepLock.
THEOREM DiskLocksExclude == Spec => []SleepLockExclusive
  BY LocksAlways, PTL DEF SLInv

\* A process that sleeps for a buffer is woken by whoever has it.
THEOREM DiskLocksWake == Spec => []LockWakesUp
  BY LocksAlways, PTL DEF SLInv

\* A block is in one buffer at most (bget() looks for it and recycles under
\* bcache.lock), for every number of processes, blocks and buffers.
THEOREM DiskOneCopy == Spec => []OneCopy
  BY CacheAlways, PTL DEF CacheInv

\* refcnt is the number of processes between bget() and brelse().
THEOREM DiskRefExact == Spec => []RefExact
  BY CacheAlways, PTL DEF CacheInv

\* bget() panics only when every buffer is in use or kept for the log, whatever
\* processes and interrupts do: a buffer is never lost.  With the numbers of
\* param.h, NBUF = LOGSIZE buffers and NPROC processes, it can come to that.
THEOREM DiskPanicsWhenFull == Spec => []PanicsWhenFull
  <1>1. Init => NoneFree
    BY DEF Init, NoneFree, CacheFree
  <1>2. Spec => []NoneFree
    BY <1>1, DiskAlways, NoneFreeStep, PTL DEF Spec
  <1> QED BY <1>2, CacheAlways, TakenBuffers, PTL

\* The queue of the driver: iderw(), ideintr() and the disk agree on the request
\* in service, and no process sleeps for a request that is not queued.
THEOREM DiskQueueExact == Spec => []QueueExact
  BY DiskAlways, QueueIsExact, PTL DEF DiskInv

-----------------------------------------------------------------------------
(***************************************************************************)
(* The buffer cache over the disk driver implements the block device: the  *)
(* rest of the inductive invariant says what the buffers hold.             *)
(***************************************************************************)

-----------------------------------------------------------------------------
(* What the buffers hold.                                                  *)

\* A process that has its buffer finds data in it; what the log has changed is data.
HoldValid ==
  /\ \A p \in Proc : pc[p] = "hold" => buf[cur[p]].valid
  /\ \A b \in Buf : buf[b].dirty => buf[b].valid

InBlock ==
  /\ \A b \in Buf : buf[b].valid => buf[b].block \in Block
  /\ \A p \in Proc : pc[p] \notin {"idle", "panic"} => buf[cur[p]].block \in Block

\* A buffer that is not dirty holds what is on the disk.
Clean == \A b \in Buf : buf[b].valid /\ ~buf[b].dirty => buf[b].data = disk[buf[b].block]

\* When the interrupt is pending the data have been written.
Written ==
  /\ \E D : disk \in [Block -> D]
  /\ irq /\ hw.op = "write" => disk[hw.block] = hw.data

DataInv == HoldValid /\ InBlock /\ Clean /\ Written

LEMMA DataInit == Init => DataInv
  <1> SUFFICES ASSUME Init PROVE DataInv
    OBVIOUS
  <1>1. HoldValid /\ InBlock /\ Clean
    BY DEF Init, HoldValid, InBlock, Clean
  <1>2. Written
    BY DEF Init, Written
  <1> QED BY <1>1, <1>2 DEF DataInv

\* A step that leaves the buffers and the disk alone.
LEMMA DataSame ==
  ASSUME DataInv, UNCHANGED <<buf, disk, hw, irq>>,
         \A p \in Proc : pc'[p] = "hold" => buf[cur'[p]].valid,
         \A p \in Proc : pc'[p] \notin {"idle", "panic"} => pc[p] \notin {"idle", "panic"} /\ cur'[p] = cur[p]
  PROVE  DataInv'
  <1>1. HoldValid' /\ InBlock' /\ Clean'
    BY DEF DataInv, HoldValid, InBlock, Clean
  <1>2. Written'
    BY DEF DataInv, Written
  <1> QED BY <1>1, <1>2 DEF DataInv

LEMMA DataStep ==
  ASSUME DiskInv, DataInv, [Next]_vars
  PROVE  DataInv'
  <1> USE DEF At, Goto
  <1>t. /\ CacheInv /\ LockInv /\ QueueInv /\ SLInv
        /\ pc \in [Proc -> PCs] /\ cur \in [Proc -> Buf \cup {None}]
        /\ \A p \in Proc : pc[p] \notin {"idle", "panic"} => cur[p] \in Buf
        /\ queue \in Seq(Buf)
    BY SleepLockAssumption DEF DiskInv, CacheInv, CurOK, QueueInv, QueueOK, SleepLockAssumption
  <1>d. PICK D : buf \in [Buf -> Entry(D)]
    BY <1>t DEF CacheInv, BufOK
  <1>1. CASE UNCHANGED vars
    BY <1>1, DataSame DEF vars, cache, ide, DataInv, HoldValid
  <1>2. ASSUME NEW p \in Proc, lockstep(p), UNCHANGED <<cache, ide, pc, cur>> PROVE DataInv'
    BY <1>2, DataSame DEF cache, ide, DataInv, HoldValid
  <1>3. ASSUME NEW p \in Proc, NEW blk \in Block, NEW b \in Cached(blk), bget(p, blk),
               buf' = [buf EXCEPT ![b].ref = @ + 1], cur' = [cur EXCEPT ![p] = b]
        PROVE  DataInv'
    <2>1. UNCHANGED <<disk, hw, irq>> /\ pc' = [pc EXCEPT ![p] = "bget"] /\ b \in Buf /\ buf[b].block = blk
      BY <1>3 DEF bget, Cached, ide
    <2>2. \A c \in Buf : /\ buf'[c].block = buf[c].block /\ buf'[c].data = buf[c].data
                         /\ (buf'[c].valid <=> buf[c].valid) /\ (buf'[c].dirty <=> buf[c].dirty)
      BY <1>3, <2>1, <1>d DEF Entry
    <2>3. cur'[p] = b /\ pc'[p] = "bget" /\ \A q \in Proc : q # p => cur'[q] = cur[q] /\ pc'[q] = pc[q]
      BY <1>t, <1>3, <2>1
    <2>4. HoldValid'
      BY <1>t, <2>2, <2>3 DEF DataInv, HoldValid
    <2>5. InBlock'
      BY <1>t, <2>1, <2>2, <2>3 DEF DataInv, InBlock
    <2>6. Clean'
      BY <2>1, <2>2 DEF DataInv, Clean
    <2>7. Written'
      BY <2>1 DEF DataInv, Written
    <2> QED BY <2>4, <2>5, <2>6, <2>7 DEF DataInv
  <1>4. ASSUME NEW p \in Proc, NEW blk \in Block, bget(p, blk), NEW b \in Buf, Recyclable(b),
               buf' = [buf EXCEPT ![b] = Recycled(blk)], cur' = [cur EXCEPT ![p] = b]
        PROVE  DataInv'
    <2>1. UNCHANGED <<disk, hw, irq>> /\ pc' = [pc EXCEPT ![p] = "bget"]
      BY <1>4 DEF bget, ide
    <2>2. \A q \in Proc : cur[q] # b
      BY <1>t, <1>4, BufRef DEF Recyclable
    <2>3. /\ \A c \in Buf : c # b => buf'[c] = buf[c]
          /\ ~buf'[b].valid /\ ~buf'[b].dirty /\ buf'[b].block = blk
      BY <1>4, <1>d DEF Recycled
    <2>4. cur'[p] = b /\ pc'[p] = "bget" /\ \A q \in Proc : q # p => cur'[q] = cur[q] /\ pc'[q] = pc[q]
      BY <1>t, <1>4, <2>1
    <2>5. HoldValid'
      BY <1>t, <2>2, <2>3, <2>4 DEF DataInv, HoldValid
    <2>6. InBlock'
      BY <1>t, <2>2, <2>3, <2>4 DEF DataInv, InBlock
    <2>7. Clean'
      BY <2>1, <2>3 DEF DataInv, Clean
    <2>8. Written'
      BY <2>1 DEF DataInv, Written
    <2> QED BY <2>5, <2>6, <2>7, <2>8 DEF DataInv
  <1>5. ASSUME NEW p \in Proc, NEW blk \in Block, bget(p, blk) PROVE DataInv'
    <2>1. CASE \E b \in Cached(blk) : buf' = [buf EXCEPT ![b].ref = @ + 1] /\ cur' = [cur EXCEPT ![p] = b]
      BY <1>5, <2>1, <1>3
    <2>2. ASSUME NEW c \in Buf, Recyclable(c),
                 buf' = [buf EXCEPT ![Oldest] = Recycled(blk)], cur' = [cur EXCEPT ![p] = Oldest]
          PROVE  DataInv'
      <3>1. Oldest \in Buf /\ Recyclable(Oldest)
        BY <1>t, <2>2, OldestFound DEF CacheInv
      <3> QED BY <1>5, <2>2, <3>1, <1>4
    <2> QED BY <1>5, <2>1, <2>2 DEF bget
  <1>6. ASSUME NEW p \in Proc, NEW v \in Value, log_write(p, v) PROVE DataInv'
    <2>1. UNCHANGED <<disk, hw, irq, cur>> /\ pc' = [pc EXCEPT ![p] = "hold"] /\ pc[p] = "hold" /\ cur[p] \in Buf
      BY <1>t, <1>6 DEF log_write, ide
    <2>2. /\ \A c \in Buf : /\ buf'[c].block = buf[c].block /\ (buf'[c].valid <=> buf[c].valid)
                            /\ c # cur[p] => buf'[c] = buf[c]
          /\ buf'[cur[p]].dirty
      <3>1. buf \in [Buf -> Entry(D \cup {v})]
        BY <1>d DEF Entry
      <3>2. buf' = [buf EXCEPT ![cur[p]].data = v, ![cur[p]].dirty = TRUE]
        BY <1>6 DEF log_write
      <3> QED BY <2>1, <3>1, <3>2 DEF Entry
    <2>3. pc'[p] = "hold" /\ \A q \in Proc : q # p => pc'[q] = pc[q]
      BY <1>t, <2>1
    <2>4. HoldValid'
      BY <1>t, <2>1, <2>2, <2>3 DEF DataInv, HoldValid
    <2>5. InBlock'
      BY <1>t, <2>1, <2>2, <2>3 DEF DataInv, InBlock
    <2>6. Clean'
      BY <2>1, <2>2 DEF DataInv, Clean
    <2>7. Written'
      BY <2>1 DEF DataInv, Written
    <2> QED BY <2>4, <2>5, <2>6, <2>7 DEF DataInv
  <1>7. ASSUME NEW p \in Proc, NEW v \in Value, bwrite(p, v) PROVE DataInv'
    <2>1. UNCHANGED <<disk, hw, irq, cur>> /\ pc' = [pc EXCEPT ![p] = "iderw"] /\ pc[p] = "hold" /\ cur[p] \in Buf
      BY <1>t, <1>7 DEF bwrite, ide
    <2>2. /\ \A c \in Buf : /\ buf'[c].block = buf[c].block /\ (buf'[c].valid <=> buf[c].valid)
                            /\ c # cur[p] => buf'[c] = buf[c]
          /\ buf'[cur[p]].dirty
      <3>1. buf \in [Buf -> Entry(D \cup {v})]
        BY <1>d DEF Entry
      <3>2. buf' = [buf EXCEPT ![cur[p]].data = v, ![cur[p]].dirty = TRUE]
        BY <1>7 DEF bwrite
      <3> QED BY <2>1, <3>1, <3>2 DEF Entry
    <2>3. pc'[p] = "iderw" /\ \A q \in Proc : q # p => pc'[q] = pc[q]
      BY <1>t, <2>1
    <2>4. HoldValid'
      BY <1>t, <2>1, <2>2, <2>3 DEF DataInv, HoldValid
    <2>5. InBlock'
      BY <1>t, <2>1, <2>2, <2>3 DEF DataInv, InBlock
    <2>6. Clean'
      BY <2>1, <2>2 DEF DataInv, Clean
    <2>7. Written'
      BY <2>1 DEF DataInv, Written
    <2> QED BY <2>4, <2>5, <2>6, <2>7 DEF DataInv
  <1>8. ASSUME NEW p \in Proc, brelse_ref(p) PROVE DataInv'
    <2>1. UNCHANGED <<disk, hw, irq>> /\ pc' = [pc EXCEPT ![p] = "idle"] /\ pc[p] = "brelse" /\ cur[p] \in Buf
      BY <1>t, <1>8 DEF brelse_ref, ide
    <2>2. \A c \in Buf : /\ buf'[c].block = buf[c].block /\ buf'[c].data = buf[c].data
                         /\ (buf'[c].valid <=> buf[c].valid) /\ (buf'[c].dirty <=> buf[c].dirty)
      BY <1>8, <2>1, <1>d DEF brelse_ref, Entry
    <2>3. pc'[p] = "idle" /\ \A q \in Proc : q # p => cur'[q] = cur[q] /\ pc'[q] = pc[q]
      BY <1>t, <1>8, <2>1 DEF brelse_ref
    <2>4. HoldValid'
      BY <1>t, <2>2, <2>3 DEF DataInv, HoldValid
    <2>5. InBlock'
      BY <1>t, <2>2, <2>3 DEF DataInv, InBlock
    <2>6. Clean'
      BY <2>1, <2>2 DEF DataInv, Clean
    <2>7. Written'
      BY <2>1 DEF DataInv, Written
    <2> QED BY <2>4, <2>5, <2>6, <2>7 DEF DataInv
  <1>9. ASSUME NEW p \in Proc, bread(p) PROVE DataInv'
    <2>1. UNCHANGED <<buf, disk, hw, irq, cur>>
      BY <1>9 DEF bread, cache, ide
    <2>2. \A q \in Proc : pc'[q] = "hold" => buf[cur[q]].valid
      BY <1>t, <1>9 DEF bread, DataInv, HoldValid, Done
    <2>3. \A q \in Proc : pc'[q] \notin {"idle", "panic"} => pc[q] \notin {"idle", "panic"}
      BY <1>t, <1>9 DEF bread
    <2> QED BY <2>1, <2>2, <2>3, DataSame
  <1>10. ASSUME NEW p \in Proc, brelse(p) PROVE DataInv'
    <2>1. UNCHANGED <<buf, disk, hw, irq, cur>>
      BY <1>10 DEF brelse, cache, ide
    <2>2. \A q \in Proc : pc'[q] = "hold" => buf[cur[q]].valid
      BY <1>t, <1>10 DEF brelse, DataInv, HoldValid, Done
    <2>3. \A q \in Proc : pc'[q] \notin {"idle", "panic"} => pc[q] \notin {"idle", "panic"}
      BY <1>t, <1>10 DEF brelse
    <2> QED BY <2>1, <2>2, <2>3, DataSame
  <1>11. ASSUME NEW p \in Proc, iderw_done(p) PROVE DataInv'
    <2>1. UNCHANGED <<buf, disk, hw, irq, cur>>
      BY <1>11 DEF iderw_done, cache, ide
    <2>2. \A q \in Proc : pc'[q] = "hold" => buf[cur[q]].valid
      BY <1>t, <1>11 DEF iderw_done, DataInv, HoldValid, Done
    <2>3. \A q \in Proc : pc'[q] \notin {"idle", "panic"} => pc[q] \notin {"idle", "panic"}
      BY <1>t, <1>11 DEF iderw_done
    <2> QED BY <2>1, <2>2, <2>3, DataSame
  <1>12. ASSUME NEW p \in Proc, iderw_sleep(p) PROVE DataInv'
    <2>1. UNCHANGED <<buf, disk, hw, irq, cur>>
      BY <1>12 DEF iderw_sleep, cache, ide
    <2>2. \A q \in Proc : pc'[q] = "hold" => buf[cur[q]].valid
      BY <1>t, <1>12 DEF iderw_sleep, DataInv, HoldValid, Done
    <2>3. \A q \in Proc : pc'[q] \notin {"idle", "panic"} => pc[q] \notin {"idle", "panic"}
      BY <1>t, <1>12 DEF iderw_sleep
    <2> QED BY <2>1, <2>2, <2>3, DataSame
  <1>13. ASSUME NEW p \in Proc, iderw_sched(p) PROVE DataInv'
    <2>1. UNCHANGED <<buf, disk, hw, irq, cur>>
      BY <1>13 DEF iderw_sched, cache, ide
    <2>2. \A q \in Proc : pc'[q] = "hold" => buf[cur[q]].valid
      BY <1>t, <1>13 DEF iderw_sched, DataInv, HoldValid, Done
    <2>3. \A q \in Proc : pc'[q] \notin {"idle", "panic"} => pc[q] \notin {"idle", "panic"}
      BY <1>t, <1>13 DEF iderw_sched
    <2> QED BY <2>1, <2>2, <2>3, DataSame
  <1>14. ASSUME NEW p \in Proc, iderw_woken(p) PROVE DataInv'
    <2>1. UNCHANGED <<buf, disk, hw, irq, cur>>
      BY <1>14 DEF iderw_woken, cache, ide
    <2>2. \A q \in Proc : pc'[q] = "hold" => buf[cur[q]].valid
      BY <1>t, <1>14 DEF iderw_woken, DataInv, HoldValid, Done
    <2>3. \A q \in Proc : pc'[q] \notin {"idle", "panic"} => pc[q] \notin {"idle", "panic"}
      BY <1>t, <1>14 DEF iderw_woken
    <2> QED BY <2>1, <2>2, <2>3, DataSame
  <1>15. ASSUME NEW p \in Proc, iderw(p) PROVE DataInv'
    <2>1. UNCHANGED <<buf, disk, irq, cur>> /\ pc[p] = "iderw" /\ pc' = [pc EXCEPT ![p] = "test"]
          /\ hw' = (IF queue = <<>> THEN Request(cur[p]) ELSE hw) /\ ipc = "none"
      BY <1>15, <1>t, SleepLockAssumption, DiskAssumption
      DEF iderw, cache, ide, LockInv, IdeOK, DiskAssumption, SleepLockAssumption
    <2>2. HoldValid' /\ InBlock' /\ Clean'
      BY <1>t, <2>1 DEF DataInv, HoldValid, InBlock, Clean
    <2>3. queue = <<>> => ~irq
      BY <1>t, <2>1 DEF QueueInv, HwOK
    <2>4. Written'
      BY <2>1, <2>3 DEF DataInv, Written
    <2> QED BY <2>2, <2>4 DEF DataInv
  <1>16. CASE complete
    <2>1. /\ UNCHANGED <<buf, hw, cur, pc>> /\ hw.op # "none" /\ hw # NoRequest
          /\ disk' = IF hw.op = "write" THEN [disk EXCEPT ![hw.block] = hw.data] ELSE disk
      BY <1>16 DEF complete, cache, NoRequest
    <2>2. queue # <<>> /\ queue[1] \in Buf /\ hw = Request(queue[1])
      BY <1>t, <2>1 DEF QueueInv, HwOK, LockInv, IdeOK
    <2>3. HoldValid' /\ InBlock'
      BY <2>1 DEF DataInv, HoldValid, InBlock
    <2>4. CASE hw.op = "write"
      <3>1. /\ buf[queue[1]].dirty /\ hw.block = buf[queue[1]].block /\ hw.data = buf[queue[1]].data
            /\ hw.block \in Block
        BY <2>2, <2>4 DEF Request, DataInv, HoldValid, InBlock
      <3>2. PICK E : disk \in [Block -> E]
        BY DEF DataInv, Written
      <3>3. disk' \in [Block -> E \cup {hw.data}] /\ disk'[hw.block] = hw.data
        BY <2>1, <2>4, <3>1, <3>2
      <3>4. ASSUME NEW b \in Buf, buf[b].valid, ~buf[b].dirty PROVE disk'[buf[b].block] = disk[buf[b].block]
        <4>1. buf[b].block # hw.block /\ buf[b].block \in Block
          BY <1>t, <2>2, <3>1, <3>4, DiskAssumption DEF CacheInv, OneCopy, DiskAssumption, DataInv, InBlock
        <4> QED BY <4>1, <2>1, <2>4, <3>2
      <3>5. Clean'
        BY <2>1, <3>4 DEF DataInv, Clean
      <3>6. Written'
        BY <2>1, <3>3 DEF Written
      <3> QED BY <2>3, <3>5, <3>6 DEF DataInv
    <2>5. CASE hw.op # "write"
      BY <2>1, <2>3, <2>5 DEF DataInv, Clean, Written
    <2> QED BY <2>4, <2>5
  <1>17. CASE ideintr
    <2> DEFINE h == queue[1]
    <2>1. UNCHANGED <<disk, cur, pc>> /\ irq /\ ipc = "none" /\ hw' = NoRequest
      BY <1>17 DEF ideintr
    <2>2. queue # <<>> /\ h = Head(queue) /\ h \in Buf /\ hw = Request(h)
      BY <1>t, <2>1 DEF QueueInv, HwOK
    <2>3. \E p \in Proc : cur[p] = h /\ Waiting(p)
      BY <1>t, <2>2 DEF QueueInv, QueueOK
    <2>4. buf[h].block \in Block /\ hw.block = buf[h].block
      BY <2>2, <2>3 DEF DataInv, InBlock, Waiting, Request
    <2>5. /\ \A c \in Buf : buf'[c].block = buf[c].block /\ (c # h => buf'[c] = buf[c])
          /\ buf'[h].valid /\ ~buf'[h].dirty
          /\ buf[h].dirty => buf'[h].data = buf[h].data
          /\ ~buf[h].dirty => buf'[h].data = disk[hw.block]
      <3> HIDE DEF h
      <3>1. buf' = [buf EXCEPT ![h].valid = TRUE, ![h].dirty = FALSE,
                               ![h].data = IF buf[h].dirty THEN @ ELSE disk[hw.block]]
        BY <1>17, <2>2 DEF ideintr
      <3>2. CASE buf[h].dirty
        <4>1. buf' = [buf EXCEPT ![h].valid = TRUE, ![h].dirty = FALSE]
          BY ONLY <3>1, <3>2, <1>d, <2>2 DEF Entry
        <4> QED BY ONLY <3>2, <4>1, <1>d, <2>2 DEF Entry
      <3>3. CASE ~buf[h].dirty
        <4> DEFINE x == disk[hw.block]
        <4>1. buf' = [buf EXCEPT ![h].valid = TRUE, ![h].dirty = FALSE, ![h].data = x]
          BY ONLY <3>1, <3>3, <1>d, <2>2 DEF Entry
        <4>2. buf \in [Buf -> Entry(D \cup {x})]
          BY <1>d DEF Entry
        <4> HIDE DEF x
        <4>3. /\ \A c \in Buf : buf'[c].block = buf[c].block /\ (c # h => buf'[c] = buf[c])
              /\ buf'[h].valid /\ ~buf'[h].dirty /\ buf'[h].data = x
          BY ONLY <4>1, <4>2, <2>2 DEF Entry
        <4> QED BY <3>3, <4>3 DEF x
      <3> QED BY <3>2, <3>3
    <2>6. buf[h].dirty => disk[hw.block] = buf[h].data
      BY <2>1, <2>2 DEF DataInv, Written, Request
    <2> HIDE DEF h
    <2>7. HoldValid'
      BY <1>t, <2>1, <2>2, <2>5 DEF DataInv, HoldValid
    <2>8. InBlock'
      BY <1>t, <2>1, <2>2, <2>4, <2>5 DEF DataInv, InBlock
    <2>9. Clean'
      BY <2>1, <2>2, <2>4, <2>5, <2>6 DEF DataInv, Clean
    <2>10. Written'
      BY <2>1 DEF DataInv, Written, NoRequest
    <2> QED BY <2>7, <2>8, <2>9, <2>10 DEF DataInv
  <1>18. CASE ideintr_wakeup
    <2>1. UNCHANGED <<buf, disk, irq, cur>> /\ ipc = "wakeup"
          /\ \A q \in Proc : pc'[q] = pc[q] \/ (pc[q] = "asleep" /\ pc'[q] = "woken")
      BY <1>18 DEF ideintr_wakeup, cache
    <2>2. ~irq
      BY <1>t, <2>1 DEF QueueInv, HwOK
    <2>3. HoldValid'
      BY <2>1 DEF DataInv, HoldValid
    <2>4. InBlock' /\ Clean'
      BY <2>1 DEF DataInv, InBlock, Clean
    <2>5. Written'
      BY <2>1, <2>2 DEF DataInv, Written
    <2> QED BY <2>3, <2>4, <2>5 DEF DataInv
  <1>19. ASSUME NEW p \in Proc, NEW blk \in Block, bget_panic(p, blk) PROVE DataInv'
    <2>1. UNCHANGED <<buf, disk, hw, irq, cur>> /\ pc' = [pc EXCEPT ![p] = "panic"]
      BY <1>19 DEF bget_panic, cache, ide
    <2>2. \A q \in Proc : pc'[q] = "hold" => buf[cur[q]].valid
      BY <1>t, <2>1 DEF DataInv, HoldValid
    <2>3. \A q \in Proc : pc'[q] \notin {"idle", "panic"} => pc[q] \notin {"idle", "panic"}
      BY <1>t, <2>1
    <2> QED BY <2>1, <2>2, <2>3, DataSame
  <1> QED
    BY <1>1, <1>2, <1>5, <1>6, <1>7, <1>8, <1>9, <1>10, <1>11, <1>12, <1>13, <1>14, <1>15, <1>16, <1>17, <1>18,
       <1>19, BgetCases DEF Next, step, spin

LEMMA DataAlways == Spec => [](DiskInv /\ DataInv)
  BY DataInit, DataStep, DiskAlways, PTL DEF Spec

-----------------------------------------------------------------------------
(* The refinement mapping.                                                 *)

\* The contents of the blocks, as a function of the buffers and the disk.
Contents(bf, dk) ==
  [blk \in Block |-> IF \E b \in {c \in Buf : bf[c].block = blk} : bf[b].valid
                     THEN bf[CHOOSE b \in {c \in Buf : bf[c].block = blk} : bf[b].valid].data ELSE dk[blk]]

LEMMA MemIs == Mem = Contents(buf, disk) /\ Mem' = Contents(buf', disk')
  BY DEF Mem, Contents, Cached

\* A block that a buffer holds is what the buffer says, any other what the disk says.
LEMMA ContentsAt ==
  ASSUME NEW bf, NEW dk, NEW blk \in Block,
         \A b, c \in Buf : b # c /\ bf[b].block = blk => bf[c].block # blk
  PROVE  /\ \A b \in Buf : bf[b].block = blk /\ bf[b].valid => Contents(bf, dk)[blk] = bf[b].data
         /\ (\A b \in Buf : bf[b].block = blk => ~bf[b].valid) => Contents(bf, dk)[blk] = dk[blk]
  <1> DEFINE S == {c \in Buf : bf[c].block = blk}
  <1>1. Contents(bf, dk)[blk] = IF \E b \in S : bf[b].valid
                                THEN bf[CHOOSE b \in S : bf[b].valid].data ELSE dk[blk]
    BY DEF Contents
  <1>2. ASSUME NEW b \in Buf, bf[b].block = blk, bf[b].valid PROVE Contents(bf, dk)[blk] = bf[b].data
    <2>1. b \in S /\ \A c \in S : c = b
      BY <1>2
    <2> HIDE DEF S
    <2>2. (CHOOSE c \in S : bf[c].valid) = b
      BY <1>2, <2>1
    <2> QED BY <1>1, <1>2, <2>1, <2>2
  <1>3. ASSUME \A b \in Buf : bf[b].block = blk => ~bf[b].valid PROVE Contents(bf, dk)[blk] = dk[blk]
    BY <1>1, <1>3
  <1> QED BY <1>2, <1>3

\* The same for the states before and after a step.
LEMMA MemAt ==
  ASSUME OneCopy, OneCopy', NEW blk \in Block
  PROVE  /\ \A b \in Buf : buf[b].block = blk /\ buf[b].valid => Mem[blk] = buf[b].data
         /\ (\A b \in Buf : buf[b].block = blk => ~buf[b].valid) => Mem[blk] = disk[blk]
         /\ \A b \in Buf : buf'[b].block = blk /\ buf'[b].valid => Mem'[blk] = buf'[b].data
         /\ (\A b \in Buf : buf'[b].block = blk => ~buf'[b].valid) => Mem'[blk] = disk'[blk]
  <1>1. blk # None
    BY DiskAssumption DEF DiskAssumption
  <1>2. \A b, c \in Buf : b # c /\ buf[b].block = blk => buf[c].block # blk
    BY <1>1 DEF OneCopy
  <1>3. \A b, c \in Buf : b # c /\ buf'[b].block = blk => buf'[c].block # blk
    BY <1>1 DEF OneCopy
  <1>4. /\ \A b \in Buf : buf[b].block = blk /\ buf[b].valid => Contents(buf, disk)[blk] = buf[b].data
        /\ (\A b \in Buf : buf[b].block = blk => ~buf[b].valid) => Contents(buf, disk)[blk] = disk[blk]
    BY <1>2, ContentsAt
  <1>5. /\ \A b \in Buf : buf'[b].block = blk /\ buf'[b].valid => Contents(buf', disk')[blk] = buf'[b].data
        /\ (\A b \in Buf : buf'[b].block = blk => ~buf'[b].valid) => Contents(buf', disk')[blk] = disk'[blk]
    BY <1>3, ContentsAt
  <1> QED BY <1>4, <1>5, MemIs

LEMMA MemFcn == Mem = [blk \in Block |-> Mem[blk]] /\ Mem' = [blk \in Block |-> Mem'[blk]]
  BY DEF Mem

\* Contents and disk stay as they are.
LEMMA MemSame ==
  ASSUME OneCopy, OneCopy', UNCHANGED disk,
         \A b \in Buf : /\ (buf'[b].valid <=> buf[b].valid)
                        /\ buf[b].valid => buf'[b].block = buf[b].block /\ buf'[b].data = buf[b].data
  PROVE  Mem' = Mem
  <1> SUFFICES ASSUME NEW blk \in Block PROVE Mem'[blk] = Mem[blk]
    BY MemFcn
  <1>1. CASE \E b \in Buf : buf[b].block = blk /\ buf[b].valid
    BY <1>1, MemAt
  <1>2. CASE ~\E b \in Buf : buf[b].block = blk /\ buf[b].valid
    <2>1. ~\E b \in Buf : buf'[b].block = blk /\ buf'[b].valid
      BY <1>2
    <2> QED BY <1>2, <2>1, MemAt
  <1> QED BY <1>1, <1>2

LEMMA InsideUsing == \A p \in Proc : Inside(p) <=> Using(p) /\ buf[cur[p]].valid
  BY DEF Inside, Using, Writing

\* Who is inside a block is there alone.
LEMMA HolderAlone ==
  ASSUME DiskInv, NEW p \in Proc, NEW q \in Proc, p # q, Using(q) /\ Using(p),
         buf[cur[p]].block \in Block
  PROVE  buf[cur[q]].block # buf[cur[p]].block
  <1>1. cur[p] \in Buf /\ cur[q] \in Buf /\ cur[p] # cur[q]
    BY Alone, SleepLockAssumption DEF DiskInv, CacheInv, CurOK, Using, SleepLockAssumption
  <1>2. buf[cur[p]].block # None
    BY DiskAssumption DEF DiskAssumption
  <1> QED BY <1>1, <1>2 DEF DiskInv, CacheInv, OneCopy

\* A step in which only p's view may change.
LEMMA OneView ==
  ASSUME NEW p \in Proc,
         \A q \in Proc : q # p => /\ Inside(q)' <=> Inside(q)
                                  /\ Inside(q) => /\ buf'[cur'[q]].block = buf[cur[q]].block
                                                  /\ buf'[cur'[q]].data = buf[cur[q]].data
  PROVE  /\ Holder' = [Holder EXCEPT ![p] = IF Inside(p)' THEN buf'[cur'[p]].block ELSE None]
         /\ Seen' = [Seen EXCEPT ![p] = IF Inside(p)' THEN buf'[cur'[p]].data ELSE None]
  BY DEF Holder, Seen

LEMMA NoView ==
  ASSUME \A q \in Proc : /\ Inside(q)' <=> Inside(q)
                         /\ Inside(q) => /\ buf'[cur'[q]].block = buf[cur[q]].block
                                         /\ buf'[cur'[q]].data = buf[cur[q]].data
  PROVE  UNCHANGED <<Holder, Seen>>
  BY DEF Holder, Seen

\* A step that leaves the data in the buffers alone, and who uses them.
LEMMA Stutter ==
  ASSUME DiskInv, DiskInv', UNCHANGED disk,
         \A b \in Buf : /\ (buf'[b].valid <=> buf[b].valid)
                        /\ buf'[b].block = buf[b].block /\ buf'[b].data = buf[b].data,
         \A p \in Proc : Using(p) => cur'[p] = cur[p],
         \A p \in Proc : Using(p)' <=> Using(p)
  PROVE  UNCHANGED Device!vars
  <1>1. Mem' = Mem
    BY MemSame DEF DiskInv, CacheInv
  <1>2. \A p \in Proc : Using(p) => cur[p] \in Buf
    BY SleepLockAssumption DEF DiskInv, CacheInv, CurOK, Using, SleepLockAssumption
  <1>3. \A p \in Proc : Inside(p)' <=> Inside(p)
    BY <1>2 DEF Inside, Using, Writing
  <1>4. \A p \in Proc : Inside(p) => buf'[cur'[p]].block = buf[cur[p]].block /\ buf'[cur'[p]].data = buf[cur[p]].data
    BY <1>2, InsideUsing
  <1>5. UNCHANGED <<Holder, Seen>>
    BY <1>3, <1>4, NoView
  <1> QED BY <1>1, <1>5 DEF Device!vars

LEMMA DeviceStep ==
  ASSUME DiskInv, DataInv, DiskInv', [Next]_vars
  PROVE  [Device!Next]_(Device!vars)
  <1> USE DEF At, Goto
  <1>t. /\ CacheInv /\ LockInv /\ QueueInv /\ SLInv /\ OneCopy /\ OneCopy'
        /\ pc \in [Proc -> PCs] /\ cur \in [Proc -> Buf \cup {None}]
        /\ \A p \in Proc : pc[p] \notin {"idle", "panic"} => cur[p] \in Buf
        /\ \A p \in Proc : Using(p) => cur[p] \in Buf
        /\ queue \in Seq(Buf)
    <2>1. CacheInv /\ LockInv /\ QueueInv /\ SLInv /\ OneCopy /\ OneCopy'
      BY DEF DiskInv, CacheInv
    <2>2. /\ pc \in [Proc -> PCs] /\ cur \in [Proc -> Buf \cup {None}]
          /\ \A p \in Proc : pc[p] \notin {"idle", "panic"} => cur[p] \in Buf
      BY ONLY <2>1 DEF CacheInv, CurOK
    <2>3. \A p \in Proc : Using(p) => cur[p] \in Buf
      BY ONLY <2>2 DEF Using
    <2>4. queue \in Seq(Buf)
      BY ONLY <2>1 DEF QueueInv, QueueOK
    <2> QED BY <2>1, <2>2, <2>3, <2>4
  <1>d. PICK D : buf \in [Buf -> Entry(D)]
    BY <1>t DEF CacheInv, BufOK
  <1>n. None \notin Block
    BY DiskAssumption DEF DiskAssumption
  <1>1. CASE UNCHANGED vars
    BY <1>1, Stutter DEF vars, cache, ide, Using
  <1>2. ASSUME NEW p \in Proc, lockstep(p), UNCHANGED <<cache, ide, pc, cur>> PROVE UNCHANGED Device!vars
    BY <1>2, Stutter DEF cache, ide, Using
  <1>3. ASSUME NEW p \in Proc, NEW blk \in Block, NEW b \in Cached(blk), bget(p, blk),
               buf' = [buf EXCEPT ![b].ref = @ + 1], cur' = [cur EXCEPT ![p] = b]
        PROVE  UNCHANGED Device!vars
    <2>1. UNCHANGED disk /\ pc' = [pc EXCEPT ![p] = "bget"] /\ pc[p] = "idle" /\ b \in Buf
      BY <1>3 DEF bget, Cached, ide
    <2>2. \A c \in Buf : /\ buf'[c].block = buf[c].block /\ buf'[c].data = buf[c].data
                         /\ (buf'[c].valid <=> buf[c].valid)
      BY <1>3, <2>1, <1>d DEF Entry
    <2>3. \A q \in Proc : (Using(q)' <=> Using(q)) /\ (Using(q) => cur'[q] = cur[q])
      BY <1>t, <1>3, <2>1 DEF Using
    <2> QED BY <2>1, <2>2, <2>3, Stutter
  <1>4. ASSUME NEW p \in Proc, NEW blk \in Block, bget(p, blk), NEW b \in Buf, Recyclable(b), Cached(blk) = {},
               buf' = [buf EXCEPT ![b] = Recycled(blk)], cur' = [cur EXCEPT ![p] = b]
        PROVE  UNCHANGED Device!vars
    <2>1. UNCHANGED disk /\ pc' = [pc EXCEPT ![p] = "bget"] /\ pc[p] = "idle"
      BY <1>4 DEF bget, ide
    <2>2. \A q \in Proc : cur[q] # b
      BY <1>t, <1>4, BufRef DEF Recyclable
    <2>3. /\ \A c \in Buf : c # b => buf'[c] = buf[c]
          /\ ~buf'[b].valid /\ buf'[b].block = blk /\ ~buf[b].dirty
      BY <1>4, <1>d DEF Recycled, Recyclable
    <2>4. Mem' = Mem
      <3> SUFFICES ASSUME NEW x \in Block PROVE Mem'[x] = Mem[x]
        BY MemFcn
      <3>1. CASE \E c \in Buf : c # b /\ buf[c].block = x /\ buf[c].valid
        <4>1. PICK c \in Buf : c # b /\ buf[c].block = x /\ buf[c].valid
          BY <3>1
        <4> QED BY <4>1, <2>3, <1>t, MemAt
      <3>2. CASE ~\E c \in Buf : c # b /\ buf[c].block = x /\ buf[c].valid
        <4>1. Mem'[x] = disk[x]
          BY <3>2, <2>1, <2>3, <1>t, MemAt
        <4>2. CASE buf[b].block = x /\ buf[b].valid
          <5>1. Mem[x] = buf[b].data
            BY <4>2, <1>t, MemAt
          <5> QED BY <4>1, <4>2, <5>1, <2>3 DEF DataInv, Clean
        <4>3. CASE ~(buf[b].block = x /\ buf[b].valid)
          <5>1. Mem[x] = disk[x]
            BY <3>2, <4>3, <1>t, MemAt
          <5> QED BY <4>1, <5>1
        <4> QED BY <4>2, <4>3
      <3> QED BY <3>1, <3>2
    <2>5. \A q \in Proc : /\ (Using(q)' <=> Using(q))
                          /\ Using(q) => cur'[q] = cur[q] /\ buf'[cur[q]] = buf[cur[q]]
      BY <1>t, <1>4, <2>1, <2>2, <2>3 DEF Using
    <2>6. \A q \in Proc : Inside(q)' <=> Inside(q)
      BY <2>5 DEF Inside, Using, Writing
    <2>7. UNCHANGED <<Holder, Seen>>
      BY <2>5, <2>6, InsideUsing, NoView
    <2> QED BY <2>1, <2>4, <2>7 DEF Device!vars
  <1>5. ASSUME NEW p \in Proc, NEW blk \in Block, bget(p, blk) PROVE UNCHANGED Device!vars
    <2>1. CASE \E b \in Cached(blk) : buf' = [buf EXCEPT ![b].ref = @ + 1] /\ cur' = [cur EXCEPT ![p] = b]
      BY <1>5, <2>1, <1>3
    <2>2. ASSUME NEW c \in Buf, Recyclable(c), Cached(blk) = {},
                 buf' = [buf EXCEPT ![Oldest] = Recycled(blk)], cur' = [cur EXCEPT ![p] = Oldest]
          PROVE  UNCHANGED Device!vars
      <3>1. Oldest \in Buf /\ Recyclable(Oldest)
        BY <1>t, <2>2, OldestFound DEF CacheInv
      <3> QED BY <1>5, <2>2, <3>1, <1>4
    <2> QED BY <1>5, <2>1, <2>2 DEF bget
  <1>6. ASSUME NEW p \in Proc, bread(p) PROVE [Device!Next]_(Device!vars)
    <2>1. /\ UNCHANGED <<disk, buf, cur>> /\ pc[p] = "bget" /\ lpc[p] = "held" /\ cur[p] \in Buf
          /\ pc' = [pc EXCEPT ![p] = IF buf[cur[p]].valid THEN "hold" ELSE "iderw"]
      BY <1>t, <1>6 DEF bread, AtLock, cache, ide
    <2>2. \A q \in Proc : q # p => (Using(q)' <=> Using(q))
      BY <1>t, <2>1 DEF Using
    <2>3. \A q \in Proc : q # p => (Inside(q)' <=> Inside(q))
      BY <2>1, <2>2 DEF Inside, Using, Writing
    <2>4. Mem' = Mem
      BY <1>t, <2>1, MemSame
    <2>5. ~Using(p) /\ ~Inside(p)
      BY <2>1, InsideUsing DEF Using
    <2>6. CASE buf[cur[p]].valid
      <3> DEFINE blk == buf[cur[p]].block
      <3>1. blk \in Block
        BY <2>1, <2>6 DEF DataInv, InBlock
      <3>2. Inside(p)'
        BY <1>t, <2>1, <2>6 DEF Inside
      <3>3. /\ Holder' = [Holder EXCEPT ![p] = blk] /\ Seen' = [Seen EXCEPT ![p] = buf[cur[p]].data]
        BY <2>1, <2>3, <3>2, OneView
      <3>4. \A q \in Proc : Holder[q] # blk
        <4> SUFFICES ASSUME NEW q \in Proc, Inside(q), buf[cur[q]].block = blk PROVE FALSE
          BY <1>n, <3>1 DEF Holder
        <4>1. Using(q) /\ cur[q] \in Buf /\ q # p
          BY <1>t, <2>5, InsideUsing
        <4>2. cur[q] = cur[p]
          BY <1>t, <1>n, <2>1, <3>1, <4>1 DEF OneCopy
        <4>3. lpc[q] = "held" /\ lid[q] = cur[p] /\ lid[p] = cur[p]
          BY <1>t, <2>1, <4>1, <4>2 DEF LockInv, LockCur
        <4> QED BY <1>t, <2>1, <4>1, <4>3 DEF SLInv, SleepLockExclusive, Has, Buf
      <3>5. Holder[p] = None /\ Mem[blk] = buf[cur[p]].data
        BY <1>t, <2>1, <2>5, <2>6, <3>1, MemAt DEF Holder
      <3>6. Device!Take(p, blk)
        BY <2>1, <2>4, <3>3, <3>4, <3>5 DEF Device!Take
      <3> QED BY <3>1, <3>6 DEF Device!Next
    <2>7. CASE ~buf[cur[p]].valid
      <3>1. ~Inside(p)'
        BY <2>1, <2>7 DEF Inside
      <3>2. UNCHANGED <<Holder, Seen>>
        BY <2>1, <2>3, <2>5, <3>1, NoView
      <3> QED BY <2>1, <2>4, <3>2 DEF Device!vars
    <2> QED BY <2>6, <2>7
  <1>7. ASSUME NEW p \in Proc, NEW v \in Value, log_write(p, v) PROVE Device!Next
    <2> DEFINE blk == buf[cur[p]].block
    <2>1. UNCHANGED <<disk, cur>> /\ pc' = [pc EXCEPT ![p] = "hold"] /\ pc[p] = "hold" /\ cur[p] \in Buf
      BY <1>t, <1>7 DEF log_write, ide
    <2>2. /\ \A c \in Buf : c # cur[p] => buf'[c] = buf[c]
          /\ buf'[cur[p]].data = v /\ buf'[cur[p]].block = blk /\ (buf'[cur[p]].valid <=> buf[cur[p]].valid)
      <3>1. buf \in [Buf -> Entry(D \cup {v})]
        BY <1>d DEF Entry
      <3>2. buf' = [buf EXCEPT ![cur[p]].data = v, ![cur[p]].dirty = TRUE]
        BY <1>7 DEF log_write
      <3> QED BY <2>1, <3>1, <3>2 DEF Entry
    <2>3. pc'[p] = "hold" /\ \A q \in Proc : q # p => pc'[q] = pc[q]
      BY <1>t, <2>1
    <2>4. buf[cur[p]].valid /\ blk \in Block
      BY <2>1 DEF DataInv, HoldValid, InBlock
    <2>5. \A q \in Proc : q # p /\ Using(q) => cur[q] # cur[p]
      BY <1>t, <2>1, Alone DEF Using
    <2>6. Inside(p) /\ Inside(p)'
      BY <2>1, <2>2, <2>3, <2>4 DEF Inside, Writing
    <2>7. \A q \in Proc : q # p /\ Using(q) => buf'[cur[q]] = buf[cur[q]]
      BY <1>t, <2>2, <2>5
    <2>8. \A q \in Proc : q # p => (Using(q)' <=> Using(q))
      BY <2>3 DEF Using
    <2>9. \A q \in Proc : q # p => (Inside(q)' <=> Inside(q))
      <3> SUFFICES ASSUME NEW q \in Proc, q # p PROVE Inside(q)' <=> Inside(q)
        OBVIOUS
      <3>1. CASE Using(q)
        BY <2>1, <2>3, <2>7, <3>1 DEF Inside, Using, Writing
      <3>2. CASE ~Using(q)
        BY <2>3, <3>2 DEF Inside, Using, Writing
      <3> QED BY <3>1, <3>2
    <2>10. Holder' = [Holder EXCEPT ![p] = blk] /\ Seen' = [Seen EXCEPT ![p] = v]
      <3>1. \A q \in Proc : q # p /\ Inside(q) => buf'[cur'[q]] = buf[cur[q]]
        BY <2>1, <2>7, InsideUsing
      <3> QED BY <2>1, <2>2, <2>6, <2>9, <3>1, OneView
    <2>11. Holder[p] = blk
      BY <2>6 DEF Holder
    <2>12. Mem' = [Mem EXCEPT ![blk] = v]
      <3> SUFFICES ASSUME NEW x \in Block PROVE Mem'[x] = IF x = blk THEN v ELSE Mem[x]
        BY MemFcn
      <3>1. CASE x = blk
        BY <1>t, <2>1, <2>2, <2>4, <3>1, MemAt
      <3>2. CASE x # blk
        <4>1. \A c \in Buf : buf[c].block = x \/ buf'[c].block = x => c # cur[p] /\ buf'[c] = buf[c]
          BY <2>2, <3>2
        <4>2. CASE \E c \in Buf : buf[c].block = x /\ buf[c].valid
          BY <1>t, <3>2, <4>1, <4>2, MemAt
        <4>3. CASE ~\E c \in Buf : buf[c].block = x /\ buf[c].valid
          <5>1. ~\E c \in Buf : buf'[c].block = x /\ buf'[c].valid
            BY <4>1, <4>3
          <5> QED BY <1>t, <2>1, <3>2, <4>3, <5>1, MemAt
        <4> QED BY <4>2, <4>3
      <3> QED BY <3>1, <3>2
    <2> HIDE DEF blk
    <2>13. Holder' = Holder
      BY <2>10, <2>11 DEF Holder
    <2>14. Device!Write(p, v)
      BY <1>n, <2>1, <2>4, <2>10, <2>11, <2>12, <2>13 DEF Device!Write
    <2> QED BY <2>14 DEF Device!Next
  <1>8. ASSUME NEW p \in Proc, NEW v \in Value, bwrite(p, v) PROVE Device!Next
    <2> DEFINE blk == buf[cur[p]].block
    <2>1. UNCHANGED <<disk, cur>> /\ pc' = [pc EXCEPT ![p] = "iderw"] /\ pc[p] = "hold" /\ cur[p] \in Buf
      BY <1>t, <1>8 DEF bwrite, ide
    <2>2. /\ \A c \in Buf : c # cur[p] => buf'[c] = buf[c]
          /\ buf'[cur[p]].data = v /\ buf'[cur[p]].block = blk /\ (buf'[cur[p]].valid <=> buf[cur[p]].valid)
      <3>1. buf \in [Buf -> Entry(D \cup {v})]
        BY <1>d DEF Entry
      <3>2. buf' = [buf EXCEPT ![cur[p]].data = v, ![cur[p]].dirty = TRUE]
        BY <1>8 DEF bwrite
      <3> QED BY <2>1, <3>1, <3>2 DEF Entry
    <2>3. pc'[p] = "iderw" /\ \A q \in Proc : q # p => pc'[q] = pc[q]
      BY <1>t, <2>1
    <2>4. buf[cur[p]].valid /\ blk \in Block
      BY <2>1 DEF DataInv, HoldValid, InBlock
    <2>5. \A q \in Proc : q # p /\ Using(q) => cur[q] # cur[p]
      BY <1>t, <2>1, Alone DEF Using
    <2>6. Inside(p) /\ Inside(p)'
      BY <2>1, <2>2, <2>3, <2>4 DEF Inside, Writing
    <2>7. \A q \in Proc : q # p /\ Using(q) => buf'[cur[q]] = buf[cur[q]]
      BY <1>t, <2>2, <2>5
    <2>8. \A q \in Proc : q # p => (Using(q)' <=> Using(q))
      BY <2>3 DEF Using
    <2>9. \A q \in Proc : q # p => (Inside(q)' <=> Inside(q))
      <3> SUFFICES ASSUME NEW q \in Proc, q # p PROVE Inside(q)' <=> Inside(q)
        OBVIOUS
      <3>1. CASE Using(q)
        BY <2>1, <2>3, <2>7, <3>1 DEF Inside, Using, Writing
      <3>2. CASE ~Using(q)
        BY <2>3, <3>2 DEF Inside, Using, Writing
      <3> QED BY <3>1, <3>2
    <2>10. Holder' = [Holder EXCEPT ![p] = blk] /\ Seen' = [Seen EXCEPT ![p] = v]
      <3>1. \A q \in Proc : q # p /\ Inside(q) => buf'[cur'[q]] = buf[cur[q]]
        BY <2>1, <2>7, InsideUsing
      <3> QED BY <2>1, <2>2, <2>6, <2>9, <3>1, OneView
    <2>11. Holder[p] = blk
      BY <2>6 DEF Holder
    <2>12. Mem' = [Mem EXCEPT ![blk] = v]
      <3> SUFFICES ASSUME NEW x \in Block PROVE Mem'[x] = IF x = blk THEN v ELSE Mem[x]
        BY MemFcn
      <3>1. CASE x = blk
        BY <1>t, <2>1, <2>2, <2>4, <3>1, MemAt
      <3>2. CASE x # blk
        <4>1. \A c \in Buf : buf[c].block = x \/ buf'[c].block = x => c # cur[p] /\ buf'[c] = buf[c]
          BY <2>2, <3>2
        <4>2. CASE \E c \in Buf : buf[c].block = x /\ buf[c].valid
          BY <1>t, <3>2, <4>1, <4>2, MemAt
        <4>3. CASE ~\E c \in Buf : buf[c].block = x /\ buf[c].valid
          <5>1. ~\E c \in Buf : buf'[c].block = x /\ buf'[c].valid
            BY <4>1, <4>3
          <5> QED BY <1>t, <2>1, <3>2, <4>3, <5>1, MemAt
        <4> QED BY <4>2, <4>3
      <3> QED BY <3>1, <3>2
    <2> HIDE DEF blk
    <2>13. Holder' = Holder
      BY <2>10, <2>11 DEF Holder
    <2>14. Device!Write(p, v)
      BY <1>n, <2>1, <2>4, <2>10, <2>11, <2>12, <2>13 DEF Device!Write
    <2> QED BY <2>14 DEF Device!Next
  <1>9. ASSUME NEW p \in Proc, brelse(p) PROVE Device!Next
    <2>1. UNCHANGED <<disk, buf, cur>> /\ pc[p] = "hold" /\ cur[p] \in Buf /\ pc' = [pc EXCEPT ![p] = "brelse"]
      BY <1>t, <1>9 DEF brelse, cache, ide
    <2>2. Inside(p) /\ buf[cur[p]].block \in Block
      BY <2>1 DEF DataInv, HoldValid, InBlock, Inside
    <2>3. ~Inside(p)' /\ \A q \in Proc : q # p => (Inside(q)' <=> Inside(q))
      BY <1>t, <2>1 DEF Inside, Writing
    <2>4. Holder' = [Holder EXCEPT ![p] = None] /\ Seen' = [Seen EXCEPT ![p] = None]
      BY <2>1, <2>3, OneView
    <2>5. Mem' = Mem
      BY <1>t, <2>1, MemSame
    <2>6. Holder[p] # None
      BY <1>n, <2>2 DEF Holder
    <2>7. Device!Drop(p)
      BY <2>1, <2>4, <2>5, <2>6 DEF Device!Drop
    <2> QED BY <2>7 DEF Device!Next
  <1>10. ASSUME NEW p \in Proc, brelse_ref(p) PROVE UNCHANGED Device!vars
    <2>1. UNCHANGED disk /\ pc' = [pc EXCEPT ![p] = "idle"] /\ pc[p] = "brelse" /\ cur[p] \in Buf
      BY <1>t, <1>10 DEF brelse_ref, ide
    <2>2. \A c \in Buf : /\ buf'[c].block = buf[c].block /\ buf'[c].data = buf[c].data
                         /\ (buf'[c].valid <=> buf[c].valid)
      BY <1>10, <2>1, <1>d DEF brelse_ref, Entry
    <2>3. \A q \in Proc : (Using(q)' <=> Using(q)) /\ (Using(q) => cur'[q] = cur[q])
      BY <1>t, <1>10, <2>1 DEF brelse_ref, Using
    <2> QED BY <2>1, <2>2, <2>3, Stutter
  <1>11. ASSUME NEW p \in Proc, iderw(p) PROVE UNCHANGED Device!vars
    <2>1. UNCHANGED <<disk, buf, cur>>
      BY <1>11 DEF iderw, cache, ide
    <2>2. \A q \in Proc : Using(q)' <=> Using(q)
      BY <1>t, <1>11 DEF iderw, Using
    <2> QED BY <2>1, <2>2, Stutter
  <1>12. ASSUME NEW p \in Proc, iderw_done(p) PROVE UNCHANGED Device!vars
    <2>1. UNCHANGED <<disk, buf, cur>>
      BY <1>12 DEF iderw_done, cache, ide
    <2>2. \A q \in Proc : Using(q)' <=> Using(q)
      BY <1>t, <1>12 DEF iderw_done, Using
    <2> QED BY <2>1, <2>2, Stutter
  <1>13. ASSUME NEW p \in Proc, iderw_sleep(p) PROVE UNCHANGED Device!vars
    <2>1. UNCHANGED <<disk, buf, cur>>
      BY <1>13 DEF iderw_sleep, cache, ide
    <2>2. \A q \in Proc : Using(q)' <=> Using(q)
      BY <1>t, <1>13 DEF iderw_sleep, Using
    <2> QED BY <2>1, <2>2, Stutter
  <1>14. ASSUME NEW p \in Proc, iderw_sched(p) PROVE UNCHANGED Device!vars
    <2>1. UNCHANGED <<disk, buf, cur>>
      BY <1>14 DEF iderw_sched, cache, ide
    <2>2. \A q \in Proc : Using(q)' <=> Using(q)
      BY <1>t, <1>14 DEF iderw_sched, Using
    <2> QED BY <2>1, <2>2, Stutter
  <1>15. ASSUME NEW p \in Proc, iderw_woken(p) PROVE UNCHANGED Device!vars
    <2>1. UNCHANGED <<disk, buf, cur>>
      BY <1>15 DEF iderw_woken, cache, ide
    <2>2. \A q \in Proc : Using(q)' <=> Using(q)
      BY <1>t, <1>15 DEF iderw_woken, Using
    <2> QED BY <2>1, <2>2, Stutter
  <1>16. CASE complete
    <2>1. /\ UNCHANGED <<buf, hw, cur, pc>> /\ hw.op # "none" /\ hw # NoRequest
          /\ disk' = IF hw.op = "write" THEN [disk EXCEPT ![hw.block] = hw.data] ELSE disk
      BY <1>16 DEF complete, cache, NoRequest
    <2>2. queue # <<>> /\ queue[1] \in Buf /\ hw = Request(queue[1])
      BY <1>t, <2>1 DEF QueueInv, HwOK, LockInv, IdeOK
    <2>3. UNCHANGED <<Holder, Seen>>
      BY <2>1 DEF Holder, Seen, Inside, Writing
    <2>4. CASE hw.op = "write"
      <3> DEFINE h == queue[1]
                 blk == buf[h].block
      <3>1. /\ buf[h].dirty /\ buf[h].valid /\ hw.block = blk /\ hw.data = buf[h].data /\ blk \in Block
        BY <2>2, <2>4 DEF Request, DataInv, HoldValid, InBlock
      <3>2. PICK p \in Proc : cur[p] = h /\ Waiting(p)
        BY <1>t, <2>2 DEF QueueInv, QueueOK
      <3>3. Inside(p)
        BY <3>1, <3>2, InsideUsing DEF Using, Waiting
      <3>4. Holder[p] = blk /\ Seen[p] = buf[h].data
        BY <3>2, <3>3 DEF Holder, Seen
      <3>5. PICK E : disk \in [Block -> E]
        BY DEF DataInv, Written
      <3> HIDE DEF h
      <3>6. disk' = [disk EXCEPT ![blk] = buf[h].data]
        BY <2>1, <2>4, <3>1
      <3>7. Mem' = Mem
        <4> SUFFICES ASSUME NEW x \in Block PROVE Mem'[x] = Mem[x]
          BY MemFcn
        <4>1. CASE \E c \in Buf : buf[c].block = x /\ buf[c].valid
          BY <1>t, <2>1, <4>1, MemAt
        <4>2. CASE ~\E c \in Buf : buf[c].block = x /\ buf[c].valid
          <5>1. x # blk
            BY <2>2, <3>1, <4>2 DEF h
          <5>2. disk'[x] = disk[x]
            BY <3>5, <3>6, <5>1
          <5> QED BY <1>t, <2>1, <4>2, <5>2, MemAt
        <4> QED BY <4>1, <4>2
      <3>8. Device!Sync(p)
        BY <1>n, <2>3, <3>1, <3>4, <3>6, <3>7 DEF Device!Sync
      <3> QED BY <3>8 DEF Device!Next
    <2>5. CASE hw.op # "write"
      <3>1. Mem' = Mem
        BY <1>t, <2>1, <2>5, MemSame
      <3> QED BY <2>1, <2>3, <2>5, <3>1 DEF Device!vars
    <2> QED BY <2>4, <2>5
  <1>17. CASE ideintr
    <2> DEFINE h == queue[1]
               blk == buf[h].block
    <2>1. UNCHANGED <<disk, cur, pc>> /\ irq /\ ipc = "none"
      BY <1>17 DEF ideintr
    <2>2. queue # <<>> /\ h = Head(queue) /\ h \in Buf /\ hw = Request(h) /\ ~Done(h)
      BY <1>t, <2>1 DEF QueueInv, HwOK, PendingOK
    <2>3. PICK p \in Proc : cur[p] = h /\ Waiting(p)
      BY <1>t, <2>2 DEF QueueInv, QueueOK
    <2>4. blk \in Block /\ hw.block = blk /\ Using(p)
      BY <2>2, <2>3 DEF DataInv, InBlock, Waiting, Request, Using
    <2>5. \A q \in Proc : q # p /\ Using(q) => cur[q] # h
      BY <1>t, <2>3, <2>4, Alone
    <2> HIDE DEF h
    <2>6. buf' = [buf EXCEPT ![h].valid = TRUE, ![h].dirty = FALSE,
                             ![h].data = IF buf[h].dirty THEN @ ELSE disk[hw.block]]
      BY <1>17, <2>2 DEF ideintr
    <2>7. CASE buf[h].dirty
      <3>1. buf[h].valid
        BY <2>2, <2>7 DEF DataInv, HoldValid
      <3>2. buf' = [buf EXCEPT ![h].valid = TRUE, ![h].dirty = FALSE]
        BY ONLY <2>2, <2>6, <2>7, <1>d DEF Entry
      <3>3. \A c \in Buf : /\ buf'[c].block = buf[c].block /\ buf'[c].data = buf[c].data
                           /\ (buf'[c].valid <=> buf[c].valid)
        BY ONLY <2>2, <3>1, <3>2, <1>d DEF Entry
      <3>4. \A q \in Proc : Using(q)' <=> Using(q)
        BY <2>1 DEF Using
      <3> QED BY <2>1, <3>3, <3>4, Stutter
    <2>8. CASE ~buf[h].dirty
      <3> DEFINE x == disk[hw.block]
      <3>1. ~buf[h].valid
        BY <2>2, <2>8 DEF Done
      <3>2. buf' = [buf EXCEPT ![h].valid = TRUE, ![h].dirty = FALSE, ![h].data = x]
        BY ONLY <2>2, <2>6, <2>8, <1>d DEF Entry
      <3>3. buf \in [Buf -> Entry(D \cup {x})]
        BY <1>d DEF Entry
      <3>4. /\ \A c \in Buf : buf'[c].block = buf[c].block /\ (c # h => buf'[c] = buf[c])
            /\ buf'[h].valid /\ buf'[h].data = x
        <4> HIDE DEF x
        <4> QED BY ONLY <2>2, <3>2, <3>3 DEF Entry
      <3>5. ~Inside(p) /\ Inside(p)'
        BY <2>1, <2>3, <2>4, <3>1, <3>4, InsideUsing DEF Inside, Using, Writing
      <3>6. \A q \in Proc : q # p /\ Using(q) => buf'[cur[q]] = buf[cur[q]]
        BY <1>t, <2>5, <3>4
      <3>7. \A q \in Proc : q # p => (Inside(q)' <=> Inside(q))
        <4> SUFFICES ASSUME NEW q \in Proc, q # p PROVE Inside(q)' <=> Inside(q)
          OBVIOUS
        <4>1. CASE Using(q)
          BY <2>1, <3>6, <4>1 DEF Inside, Using, Writing
        <4>2. CASE ~Using(q)
          BY <2>1, <4>2 DEF Inside, Using, Writing
        <4> QED BY <4>1, <4>2
      <3>8. Holder' = [Holder EXCEPT ![p] = blk] /\ Seen' = [Seen EXCEPT ![p] = x]
        <4>1. \A q \in Proc : q # p /\ Inside(q) => buf'[cur'[q]] = buf[cur[q]]
          BY <2>1, <3>6, InsideUsing
        <4>2. buf'[cur'[p]].block = blk /\ buf'[cur'[p]].data = x
          BY <2>1, <2>2, <2>3, <3>4 DEF h
        <4> HIDE DEF x, blk
        <4> QED BY <3>5, <3>7, <4>1, <4>2, OneView
      <3>9. \A q \in Proc : Holder[q] # blk
        <4> SUFFICES ASSUME NEW q \in Proc, Inside(q), buf[cur[q]].block = blk PROVE FALSE
          BY <1>n, <2>4 DEF Holder
        <4>1. Using(q) /\ q # p /\ cur[q] \in Buf
          BY <1>t, <3>5, InsideUsing
        <4>2. cur[q] = h
          BY <1>t, <1>n, <2>2, <2>4, <4>1 DEF OneCopy, h
        <4> QED BY <2>5, <4>1, <4>2
      <3>10. \A c \in Buf : buf[c].block = blk => c = h
        BY <1>t, <1>n, <2>2, <2>4 DEF OneCopy, h
      <3>11. Mem[blk] = x
        <4>1. \A c \in Buf : buf[c].block = blk => ~buf[c].valid
          BY <3>1, <3>10
        <4>2. Mem[blk] = disk[blk]
          BY <1>t, <2>4, <4>1, MemAt
        <4> QED BY <2>4, <4>2
      <3>12. Mem' = Mem
        <4> SUFFICES ASSUME NEW y \in Block PROVE Mem'[y] = Mem[y]
          BY MemFcn
        <4>1. CASE y = blk
          <5>1. Mem'[blk] = buf'[h].data
            BY <1>t, <2>2, <2>4, <3>4, MemAt DEF h
          <5> QED BY <3>4, <3>11, <4>1, <5>1
        <4>2. CASE y # blk
          <5>1. \A c \in Buf : buf[c].block = y \/ buf'[c].block = y => buf'[c] = buf[c]
            BY <3>4, <4>2
          <5>2. CASE \E c \in Buf : buf[c].block = y /\ buf[c].valid
            BY <1>t, <5>1, <5>2, MemAt
          <5>3. CASE ~\E c \in Buf : buf[c].block = y /\ buf[c].valid
            <6>1. ~\E c \in Buf : buf'[c].block = y /\ buf'[c].valid
              BY <5>1, <5>3
            <6> QED BY <1>t, <2>1, <5>3, <6>1, MemAt
          <5> QED BY <5>2, <5>3
        <4> QED BY <4>1, <4>2
      <3>13. Holder[p] = None
        BY <3>5 DEF Holder
      <3>14. Device!Take(p, blk)
        BY <2>1, <3>8, <3>9, <3>11, <3>12, <3>13 DEF Device!Take
      <3> QED BY <2>4, <3>14 DEF Device!Next
    <2> QED BY <2>7, <2>8
  <1>18. CASE ideintr_wakeup
    <2>1. UNCHANGED <<disk, buf, cur>>
      BY <1>18 DEF ideintr_wakeup, cache
    <2>2. \A q \in Proc : Using(q)' <=> Using(q)
      BY <1>18 DEF ideintr_wakeup, Using
    <2> QED BY <2>1, <2>2, Stutter
  <1>19. ASSUME NEW p \in Proc, NEW blk \in Block, bget_panic(p, blk) PROVE UNCHANGED Device!vars
    <2>1. UNCHANGED <<disk, buf, cur>> /\ pc[p] = "idle" /\ pc' = [pc EXCEPT ![p] = "panic"]
      BY <1>19 DEF bget_panic, Wants, cache, ide
    <2>2. \A q \in Proc : Using(q)' <=> Using(q)
      BY <1>t, <2>1 DEF Using
    <2> QED BY <2>1, <2>2, Stutter
  <1> QED
    BY <1>1, <1>2, <1>5, <1>6, <1>7, <1>8, <1>9, <1>10, <1>11, <1>12, <1>13, <1>14, <1>15, <1>16, <1>17, <1>18,
       <1>19, BgetCases DEF Next, step, spin

LEMMA DeviceInit == Init => Device!Init
  <1> SUFFICES ASSUME Init PROVE Device!Init
    OBVIOUS
  <1>1. disk \in [Block -> Value] /\ \A b \in Buf : ~buf[b].valid
    BY DEF Init
  <1>2. Mem = [blk \in Block |-> disk[blk]]
    BY <1>1 DEF Mem, Cached
  <1>3. Mem = disk
    BY <1>1, <1>2
  <1>4. \A p \in Proc : ~Inside(p)
    BY DEF Init, Inside, Writing
  <1>5. Holder = [p \in Proc |-> None] /\ Seen = [p \in Proc |-> None]
    BY <1>4 DEF Holder, Seen
  <1> QED BY <1>1, <1>3, <1>5 DEF Device!Init

\* The buffer cache over the interrupt-driven disk is a block device, for every
\* set of processes, blocks and buffers that DiskAssumption allows: blocks are
\* exclusive, reads return the last write, and iderw() and ideintr() bring to the
\* disk what the process that has the block has written.
THEOREM DiskImplementsBlockDevice == Spec => IsBlockDevice
  <1>1. DiskInv /\ DataInv /\ DiskInv' /\ [Next]_vars => [Device!Next]_(Device!vars)
    BY DeviceStep
  <1> QED
    BY DeviceInit, <1>1, DataAlways, PTL DEF Spec, IsBlockDevice, Device!Spec
=============================================================================
