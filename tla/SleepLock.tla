----------------------------- MODULE SleepLock -----------------------------
(***************************************************************************)
(* Sleep locks (sleeplock.c) over spin locks, with sleep() and wakeup() of *)
(* proc.c.                                                                 *)
(*                                                                         *)
(* A process that finds the lock taken gives up the CPU.  It holds lk->lk  *)
(* while it looks, and sleep() takes ptable.lock before it gives lk->lk    *)
(* back; wakeup() needs ptable.lock, so it cannot come between the test    *)
(* and the sleep.  This order is what the module is about: the steps of    *)
(* sleep() and wakeup() are cut where a lock changes hands.                *)
(***************************************************************************)
CONSTANTS
  Proc,      \* processes
  Lock,      \* sleep locks
  Other,     \* who uses ptable.lock for something else
  None

ASSUME SleepLockAssumption == None \notin Proc \cup Other \cup Lock

VARIABLES
  lk,        \* lk->lk: who holds the spin lock of each sleep lock
  locked,    \* lk->locked and lk->pid: the process that has the sleep lock
  ptable,    \* who holds ptable.lock
  lpc,       \* where each process is in acquiresleep() or releasesleep()
  lid        \* the sleep lock it works with

slvars == <<lk, locked, ptable, lpc, lid>>

AtLock(p, l) == lpc[p] = l
GotoLock(p, l) == lpc' = [lpc EXCEPT ![p] = l]

acquiresleep(p, l) ==
  /\ AtLock(p, "out")
  /\ GotoLock(p, "acquire")
  /\ lid' = [lid EXCEPT ![p] = l]
  /\ UNCHANGED <<lk, locked, ptable>>

\* MUTANT of take: the lock is taken as it is.
MutTake(p) ==
  /\ AtLock(p, "acquire") /\ lk[lid[p]] = None
  /\ locked' = [locked EXCEPT ![lid[p]] = p]
  /\ GotoLock(p, "held")
  /\ UNCHANGED <<lk, ptable, lid>>

\* The lock is free: take it, between acquire(&lk->lk) and release().
take(p) ==
  /\ AtLock(p, "acquire") /\ lk[lid[p]] = None /\ locked[lid[p]] = None
  /\ locked' = [locked EXCEPT ![lid[p]] = p]
  /\ GotoLock(p, "held")
  /\ UNCHANGED <<lk, ptable, lid>>

\* MUTANT of contend: locked is read before lk->lk is taken.
MutContend(p) ==
  /\ AtLock(p, "acquire") /\ locked[lid[p]] # None
  /\ GotoLock(p, "sleep")
  /\ UNCHANGED <<lk, locked, ptable, lid>>

contend(p) ==
  /\ AtLock(p, "acquire") /\ lk[lid[p]] = None /\ locked[lid[p]] # None
  /\ lk' = [lk EXCEPT ![lid[p]] = p]
  /\ GotoLock(p, "sleep")
  /\ UNCHANGED <<locked, ptable, lid>>

\* sleep(): ptable.lock first, then lk->lk is given back.
sleep(p) ==
  /\ AtLock(p, "sleep") /\ ptable = None
  /\ ptable' = p
  /\ lk' = [lk EXCEPT ![lid[p]] = None]
  /\ GotoLock(p, "sched")
  /\ UNCHANGED <<locked, lid>>

\* SLEEPING, and the scheduler releases ptable.lock.
sched(p) ==
  /\ AtLock(p, "sched")
  /\ ptable' = None
  /\ GotoLock(p, "asleep")
  /\ UNCHANGED <<lk, locked, lid>>

releasesleep(p) ==
  /\ AtLock(p, "held")
  /\ GotoLock(p, "release")
  /\ UNCHANGED <<lk, locked, ptable, lid>>

release(p) ==
  /\ AtLock(p, "release") /\ lk[lid[p]] = None
  /\ lk' = [lk EXCEPT ![lid[p]] = p]
  /\ locked' = [locked EXCEPT ![lid[p]] = None]
  /\ GotoLock(p, "wakeup")
  /\ UNCHANGED <<ptable, lid>>

\* wakeup(lk): everybody who sleeps on the lock tries again; release(&lk->lk).
wakeup(p) ==
  /\ AtLock(p, "wakeup") /\ ptable = None
  /\ lpc' = [q \in Proc |-> IF q = p THEN "out"
                            ELSE IF lpc[q] = "asleep" /\ lid[q] = lid[p] THEN "acquire" ELSE lpc[q]]
  /\ lk' = [lk EXCEPT ![lid[p]] = None]
  /\ lid' = [lid EXCEPT ![p] = None]
  /\ UNCHANGED <<locked, ptable>>

\* ptable.lock is used for other purposes, too, by processes as well.
ptable_acquire(x) == ptable = None /\ ptable' = x
ptable_release(x) == ptable = x /\ ptable' = None /\ (x \in Proc => ~AtLock(x, "sched"))

SLInit ==
  /\ lk = [l \in Lock |-> None] /\ locked = [l \in Lock |-> None]
  /\ ptable = None
  /\ lpc = [p \in Proc |-> "out"] /\ lid = [p \in Proc |-> None]

\* The steps of a process from the call to the return.
lockstep(p) ==
  take(p) \/ contend(p) \/ sleep(p) \/ sched(p) \/ release(p) \/ wakeup(p)

SLNext ==
  \/ \E p \in Proc : lockstep(p) \/ releasesleep(p) \/ \E l \in Lock : acquiresleep(p, l)
  \/ \E x \in Other : (ptable_acquire(x) \/ ptable_release(x)) /\ UNCHANGED <<lk, locked, lpc, lid>>

SLSpec == SLInit /\ [][SLNext]_slvars

-----------------------------------------------------------------------------
(* Properties.                                                             *)

LockTypeOK ==
  /\ lk \in [Lock -> Proc \cup {None}] /\ locked \in [Lock -> Proc \cup {None}]
  /\ ptable \in Proc \cup Other \cup {None}
  /\ lpc \in [Proc -> {"out", "acquire", "sleep", "sched", "asleep", "held", "release", "wakeup"}]
  /\ lid \in [Proc -> Lock \cup {None}] /\ \A p \in Proc : lpc[p] # "out" => lid[p] \in Lock

Has(p, l) == lid[p] = l /\ lpc[p] \in {"held", "release"}

\* Two processes never have the same sleep lock, and a lock that nobody has is
\* not locked (acquiresleep() and releasesleep() pair up).
SleepLockExclusive ==
  \A p \in Proc, l \in Lock : locked[l] = p <=> Has(p, l)

\* A process that sleeps for a lock, or is about to, will be woken: somebody
\* has the lock, or has just given it back and is in front of wakeup().
LockWakesUp ==
  \A p \in Proc : lpc[p] \in {"sleep", "sched", "asleep"} =>
    \/ locked[lid[p]] # None
    \/ \E q \in Proc : lpc[q] = "wakeup" /\ lid[q] = lid[p]
=============================================================================
