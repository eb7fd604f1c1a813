------------------------------ MODULE KThreads ------------------------------
(***************************************************************************)
(* Processes and kernel threads (proc.c of the kthreads kernel): the       *)
(* process table, the kernel stacks and the CPUs that run on them.         *)
(*                                                                         *)
(* Granularity.  A critical section of ptable.lock is one step; code that  *)
(* runs without it is cut at every access to data another CPU can see.  A  *)
(* timer interrupt may preempt a process between any two steps, in the     *)
(* kernel too.  saved[s] is what p->context resumes; run[c] is what CPU c  *)
(* executes now, page[c] the kernel stack it executes on.                  *)
(*                                                                         *)
(* The free list of kalloc.c holds the pages used for kernel stacks only.  *)
(***************************************************************************)
EXTENDS Naturals, Sequences, FiniteSets

CONSTANTS
  CPU,           \* processors
  NPROC,         \* size of the process table
  NPAGE,         \* pages for kernel stacks
  Threads,       \* user programs create kernel threads
  ThreadsCall,   \* those of fork, kthread_create and kthread_join that threads call too
  MaxCreate,     \* bound on the calls of fork() and kthread_create()
  MaxKills       \* bound on the calls of kill()

ASSUME KThreadsAssumption ==
  /\ CPU # {} /\ IsFiniteSet(CPU)
  /\ NPROC \in Nat \ {0} /\ NPAGE \in Nat \ {0}
  /\ Threads \in BOOLEAN
  /\ ThreadsCall \subseteq {"fork", "kthread_create", "kthread_join"}
  /\ MaxCreate \in Nat /\ MaxKills \in Nat

Slot == 1..NPROC
Page == 1..NPAGE
None == 0
initproc == 1

VARIABLES
  state, parent, killed,            \* the fields of struct proc, by slot
  isThread, tid, nextTid, count,    \* is_thread, tid, next_tid, thread_count
  kstack, saved,                    \* p->kstack and p->context
  freelist,                         \* kmem.freelist, head first
  proc,                             \* c->proc of every CPU, None in the scheduler
  page,                             \* the kernel stack the CPU executes on
  run,                              \* what the CPU executes
  panicked,                         \* message of the panic that stopped the kernel
  creates, kills                    \* calls so far

table == <<state, parent, killed, isThread, tid, nextTid, count, kstack>>
vars == <<table, saved, freelist, proc, page, run, panicked, creates, kills>>

\* An execution: where it is, the slot it is creating or joining, and a tid.
At(where, s, t) == [pc |-> where, slot |-> s, tid |-> t]
User == At("user", None, 0)
Forkret == At("forkret", None, 0)
Idle == At("idle", None, 0)

Running(c) == panicked = "" /\ proc[c] # None
Runs(c, where) == Running(c) /\ run[c].pc = where
Continue(c, e) == run' = [run EXCEPT ![c] = e]
panic(msg) == panicked' = msg /\ UNCHANGED <<table, saved, freelist, proc, page, run,
                                              creates, kills>>

\* swtch() to the scheduler of the CPU; p->context then resumes e.
swtch(c, e) ==
  /\ saved' = [saved EXCEPT ![proc[c]] = e]
  /\ proc' = [proc EXCEPT ![c] = None]
  /\ page' = [page EXCEPT ![c] = None]
  /\ Continue(c, Idle)

Lowest(S) == CHOOSE s \in S : \A r \in S : s <= r

\* wakeup1(chan) on the states; wait() is the only sleeper here.
wakeup1(st, s) == IF s # None /\ st[s] = "SLEEPING" THEN [st EXCEPT ![s] = "RUNNABLE"] ELSE st

\* MUTANT of ExitStates: nobody tells init of the zombies it adopts.
MutAdoptQuiet(s) == [wakeup1(state, parent[s]) EXCEPT ![s] = "ZOMBIE"]

\* MUTANT of ExitStates: the parent is not woken.
MutExitQuiet(s) == [state EXCEPT ![s] = "ZOMBIE"]

\* wakeup1(curproc->parent), and wakeup1(initproc) for an abandoned zombie.
ExitStates(s) ==
  LET st == wakeup1(state, parent[s])
      orphan == \E z \in Slot : parent[z] = s /\ state[z] = "ZOMBIE"
  IN  [(IF orphan THEN wakeup1(st, initproc) ELSE st) EXCEPT ![s] = "ZOMBIE"]

-----------------------------------------------------------------------------
(* The scheduler and preemption.                                           *)

\* The wait() of process w scans its children: it reaps one, gives up or sleeps.
Zombies(w) == {z \in Slot : parent[z] = w /\ state[z] = "ZOMBIE"}
GivesUp(w) == killed[w] \/ \A z \in Slot : parent[z] # w

\* The slot z is given back by wait() or kthread_join() of the process w.
reap(z, w) ==
  /\ freelist' = <<kstack[z]>> \o freelist
  /\ kstack' = [kstack EXCEPT ![z] = None]
  /\ parent' = [parent EXCEPT ![z] = None]
  /\ killed' = [killed EXCEPT ![z] = FALSE]
  /\ state' = [state EXCEPT ![w] = "RUNNING", ![z] = "UNUSED"]

dispatch(c, s, e) ==
  /\ proc' = [proc EXCEPT ![c] = s]
  /\ page' = [page EXCEPT ![c] = kstack[s]]
  /\ Continue(c, e)

\* The scheduler runs s: its context returns from sched(), in wait() with ptable.lock
\* still held; the code after the sched() of exit() and kthread_exit() is a panic.
schedule(c, s) ==
  /\ panicked = "" /\ proc[c] = None
  /\ state[s] = "RUNNABLE"
  /\ IF saved[s].pc \in {"zombie exit", "kthread_exit"} THEN panic(saved[s].pc)
     ELSE /\ UNCHANGED <<isThread, tid, nextTid, count, saved, panicked, creates, kills>>
          /\ IF saved[s].pc = "wait" /\ Zombies(s) # {}
             THEN reap(Lowest(Zombies(s)), s) /\ dispatch(c, s, User)
             ELSE /\ UNCHANGED <<parent, killed, kstack, freelist>>
                  /\ IF saved[s].pc = "wait" /\ ~GivesUp(s)
                     THEN state' = [state EXCEPT ![s] = "SLEEPING"] /\ UNCHANGED <<proc, page, run>>
                     ELSE /\ state' = [state EXCEPT ![s] = "RUNNING"]
                          /\ dispatch(c, s, IF saved[s].pc \in {"forkret", "wait"}
                                            THEN User ELSE saved[s])

\* MUTANT of timer_yield: yields for a process that is no longer RUNNING.
MutTimerYield(c) ==
  /\ Running(c)
  /\ run[c].pc = "user" => ~killed[proc[c]]
  /\ state' = [state EXCEPT ![proc[c]] = "RUNNABLE"]
  /\ swtch(c, run[c])
  /\ UNCHANGED <<parent, killed, isThread, tid, nextTid, count, kstack, freelist, panicked,
                 creates, kills>>

\* Timer interrupt: trap() yields for a process that is RUNNING; a killed one exits
\* instead if the interrupt finds it in user space.
timer_yield(c) ==
  /\ Running(c)
  /\ run[c].pc = "user" => ~killed[proc[c]]
  /\ state[proc[c]] = "RUNNING"
  /\ state' = [state EXCEPT ![proc[c]] = "RUNNABLE"]
  /\ swtch(c, run[c])
  /\ UNCHANGED <<parent, killed, isThread, tid, nextTid, count, kstack, freelist, panicked,
                 creates, kills>>

-----------------------------------------------------------------------------
(* fork() and kthread_create().                                            *)

\* A call begins in user space; trap() lets a process that has been killed exit instead.
MayCall(c, call) ==
  Runs(c, "user") /\ ~killed[proc[c]] /\ (isThread[proc[c]] => call \in ThreadsCall)

\* allocproc() up to the release of ptable.lock; with no free slot the call fails.
allocproc(c, call) ==
  /\ MayCall(c, call)
  /\ creates < MaxCreate
  /\ call = "fork" \/ Threads
  /\ creates' = creates + 1
  /\ IF \E s \in Slot : state[s] = "UNUSED"
     THEN LET s == Lowest({r \in Slot : state[r] = "UNUSED"})
          IN  /\ state' = [state EXCEPT ![s] = "EMBRYO"]
              /\ Continue(c, At(call, s, 0))
     ELSE UNCHANGED <<state, run>>
  /\ UNCHANGED <<parent, killed, isThread, tid, nextTid, count, kstack, saved, freelist,
                 proc, page, panicked, kills>>

\* The rest of allocproc(): the kernel stack and the fields; killed is not among them.
\* kalloc() may fail at any time, user memory takes pages too.
alloc_kstack(c) ==
  /\ Running(c) /\ run[c].pc \in {"fork", "kthread_create"}
  /\ LET s == run[c].slot
     IN \/ /\ state' = [state EXCEPT ![s] = "UNUSED"]
           /\ Continue(c, User)
           /\ UNCHANGED <<isThread, tid, nextTid, count, kstack, saved, freelist>>
        \/ /\ freelist # <<>>
           /\ kstack' = [kstack EXCEPT ![s] = Head(freelist)]
           /\ freelist' = Tail(freelist)
           /\ saved' = [saved EXCEPT ![s] = Forkret]
           /\ isThread' = [isThread EXCEPT ![s] = FALSE]
           /\ tid' = [tid EXCEPT ![s] = 0]
           /\ nextTid' = [nextTid EXCEPT ![s] = 1]
           /\ count' = [count EXCEPT ![s] = 0]
           /\ Continue(c, At(IF run[c].pc = "fork" THEN "copyuvm" ELSE "take_tid", s, 0))
           /\ UNCHANGED state
  /\ UNCHANGED <<parent, killed, proc, page, panicked, creates, kills>>

\* MUTANT of fork_copyuvm: the kernel stack is not freed when there is no memory.
MutCopyuvm(c) ==
  /\ Runs(c, "copyuvm")
  /\ LET s == run[c].slot
     IN \/ /\ parent' = [parent EXCEPT ![s] = proc[c]]
           /\ Continue(c, At("ready", s, 0))
           /\ UNCHANGED <<state, kstack>>
        \/ /\ kstack' = [kstack EXCEPT ![s] = None]
           /\ state' = [state EXCEPT ![s] = "UNUSED"]
           /\ Continue(c, User)
           /\ UNCHANGED parent
  /\ UNCHANGED <<killed, isThread, tid, nextTid, count, saved, freelist, proc, page, panicked,
                 creates, kills>>

\* fork() copies the memory of its caller; without memory it undoes allocproc().
fork_copyuvm(c) ==
  /\ Runs(c, "copyuvm")
  /\ LET s == run[c].slot
     IN \/ /\ parent' = [parent EXCEPT ![s] = proc[c]]
           /\ Continue(c, At("ready", s, 0))
           /\ UNCHANGED <<state, kstack, freelist>>
        \/ /\ freelist' = <<kstack[s]>> \o freelist
           /\ kstack' = [kstack EXCEPT ![s] = None]
           /\ state' = [state EXCEPT ![s] = "UNUSED"]
           /\ Continue(c, User)
           /\ UNCHANGED parent
  /\ UNCHANGED <<killed, isThread, tid, nextTid, count, saved, proc, page, panicked,
                 creates, kills>>

\* The process a thread belongs to.
Owner(s) == IF isThread[s] THEN parent[s] ELSE s

\* kthread_create() reads next_tid of the owner ...
create_take_tid(c) ==
  /\ Runs(c, "take_tid")
  /\ LET s == run[c].slot
         o == Owner(proc[c])
     IN  /\ parent' = [parent EXCEPT ![s] = o]
         /\ isThread' = [isThread EXCEPT ![s] = TRUE]
         /\ Continue(c, At("set_tid", s, nextTid[o]))
  /\ UNCHANGED <<state, killed, tid, nextTid, count, kstack, saved, freelist, proc, page,
                 panicked, creates, kills>>

\* MUTANT of create_set_tid: next_tid is not incremented.
MutSetTid(c) ==
  /\ Runs(c, "set_tid")
  /\ tid' = [tid EXCEPT ![run[c].slot] = run[c].tid]
  /\ count' = [count EXCEPT ![parent[run[c].slot]] = @ + 1]
  /\ Continue(c, At("ready", run[c].slot, 0))
  /\ UNCHANGED <<state, parent, killed, isThread, nextTid, kstack, saved, freelist, proc, page,
                 panicked, creates, kills>>

\* ... and stores it incremented, with no lock in between.
create_set_tid(c) ==
  /\ Runs(c, "set_tid")
  /\ LET s == run[c].slot
         o == parent[s]
     IN  /\ tid' = [tid EXCEPT ![s] = run[c].tid]
         /\ nextTid' = [nextTid EXCEPT ![o] = run[c].tid + 1]
         /\ count' = [count EXCEPT ![o] = @ + 1]
         /\ Continue(c, At("ready", s, 0))
  /\ UNCHANGED <<state, parent, killed, isThread, kstack, saved, freelist, proc, page,
                 panicked, creates, kills>>

make_runnable(c) ==
  /\ Runs(c, "ready")
  /\ state' = [state EXCEPT ![run[c].slot] = "RUNNABLE"]
  /\ Continue(c, User)
  /\ UNCHANGED <<parent, killed, isThread, tid, nextTid, count, kstack, saved, freelist,
                 proc, page, panicked, creates, kills>>

-----------------------------------------------------------------------------
(* kthread_join() and kthread_exit().                                      *)

\* kthread_join(t) scans the table; with no such thread it fails.
join_find(c, t) ==
  /\ MayCall(c, "kthread_join")
  /\ LET found == {s \in Slot : parent[s] = Owner(proc[c]) /\ tid[s] = t}
     IN  /\ found # {}
         /\ Continue(c, At("join", Lowest(found), t))
  /\ UNCHANGED <<table, saved, freelist, proc, page, panicked, creates, kills>>

\* MUTANT of join_poll: thread_count is not decremented.
MutJoinKeepsCount(c) ==
  /\ Runs(c, "join")
  /\ IF state[run[c].slot] = "ZOMBIE"
     THEN reap(run[c].slot, proc[c]) /\ Continue(c, User) /\ UNCHANGED <<saved, proc, page>>
     ELSE /\ state' = [state EXCEPT ![proc[c]] = "RUNNABLE"]
          /\ swtch(c, run[c])
          /\ UNCHANGED <<freelist, kstack, parent, killed>>
  /\ UNCHANGED <<isThread, tid, nextTid, count, panicked, creates, kills>>

\* MUTANT of join_poll: sleeps until the thread exits, which wakes nobody.
MutJoinSleeps(c) ==
  /\ Runs(c, "join")
  /\ LET z == run[c].slot
         o == Owner(proc[c])
     IN IF state[z] = "ZOMBIE"
        THEN /\ reap(z, proc[c])
             /\ count' = [count EXCEPT ![o] = @ - 1]
             /\ Continue(c, User)
             /\ UNCHANGED <<saved, proc, page>>
        ELSE /\ state' = [state EXCEPT ![proc[c]] = "SLEEPING"]
             /\ swtch(c, run[c])
             /\ UNCHANGED <<freelist, kstack, parent, killed, count>>
  /\ UNCHANGED <<isThread, tid, nextTid, panicked, creates, kills>>

\* One round of the loop: the thread is reaped, or the caller yields.
join_poll(c) ==
  /\ Runs(c, "join")
  /\ LET z == run[c].slot
         o == Owner(proc[c])
     IN IF state[z] = "ZOMBIE"
        THEN /\ reap(z, proc[c])
             /\ count' = [count EXCEPT ![o] = @ - 1]
             /\ Continue(c, User)
             /\ UNCHANGED <<saved, proc, page>>
        ELSE /\ state' = [state EXCEPT ![proc[c]] = "RUNNABLE"]
             /\ swtch(c, run[c])
             /\ UNCHANGED <<freelist, kstack, parent, killed, count>>
  /\ UNCHANGED <<isThread, tid, nextTid, panicked, creates, kills>>

\* kthread_exit() makes the thread a zombie BEFORE it takes ptable.lock.
kthread_exit_zombie(c) ==
  /\ Runs(c, "user")
  /\ isThread[proc[c]] /\ ~killed[proc[c]]
  /\ state' = [state EXCEPT ![proc[c]] = "ZOMBIE"]
  /\ Continue(c, At("exiting", None, 0))
  /\ UNCHANGED <<parent, killed, isThread, tid, nextTid, count, kstack, saved, freelist, proc,
                 page, panicked, creates, kills>>

\* acquire(&ptable.lock); sched();
kthread_exit_sched(c) ==
  /\ Runs(c, "exiting")
  /\ IF state[proc[c]] = "RUNNING"
     THEN panic("sched running")
     ELSE /\ swtch(c, At("kthread_exit", None, 0))
          /\ UNCHANGED <<table, freelist, panicked, creates, kills>>

-----------------------------------------------------------------------------
(* exit(), wait() and kill().  Threads do not support them yet: they panic.  *)

\* The placeholder panics of exit(), wait() and kill() for the caller s.
HasThreads(s) == isThread[s] \/ count[s] > 0
Unsupported(s, onThread, onThread0) == panic(IF isThread[s] THEN onThread ELSE onThread0)

\* MUTANT of Adopted: the children keep their parent.
MutAdopted(s) == parent

\* Abandoned children go to init.
Adopted(s) == [z \in Slot |-> IF parent[z] = s THEN initproc ELSE parent[z]]

\* MUTANT of exit: the process is a zombie before it has left its stack.
MutExit(c) ==
  /\ Runs(c, "user")
  /\ LET s == proc[c]
     IN  IF HasThreads(s) THEN Unsupported(s, "called exit on thread", "called exit on thread0 with children")
         ELSE IF s = initproc THEN panic("init exiting")
         ELSE /\ state' = ExitStates(s)
              /\ parent' = Adopted(s)
              /\ Continue(c, At("exiting", None, 0))
              /\ UNCHANGED <<killed, isThread, tid, nextTid, count, kstack, saved, freelist,
                             proc, page, panicked, creates, kills>>

\* exit(), also when trap() finds the process killed.
exit(c) ==
  /\ Runs(c, "user")
  /\ LET s == proc[c]
     IN  IF HasThreads(s) THEN Unsupported(s, "called exit on thread", "called exit on thread0 with children")
         ELSE IF s = initproc THEN panic("init exiting")
         ELSE /\ state' = ExitStates(s)
              /\ parent' = Adopted(s)
              /\ swtch(c, At("zombie exit", None, 0))
              /\ UNCHANGED <<killed, isThread, tid, nextTid, count, kstack, freelist,
                             panicked, creates, kills>>

wait(c) ==
  /\ Runs(c, "user") /\ ~killed[proc[c]]
  /\ LET s == proc[c]
     IN  IF HasThreads(s) THEN Unsupported(s, "called wait on thread", "called wait on thread0 with children")
         ELSE /\ UNCHANGED <<isThread, tid, nextTid, count, panicked, creates, kills>>
              /\ IF Zombies(s) # {}
                 THEN reap(Lowest(Zombies(s)), s) /\ UNCHANGED <<saved, proc, page, run>>
                 ELSE /\ ~GivesUp(s)
                      /\ state' = [state EXCEPT ![s] = "SLEEPING"]
                      /\ swtch(c, At("wait", None, 0))
                      /\ UNCHANGED <<parent, killed, kstack, freelist>>

\* kill() marks the first slot with this pid and wakes a sleeper.  The pid of a free slot
\* is 0 or -1 (or an old one), so kill(0) marks the first free slot.
kill(c, z) ==
  /\ Runs(c, "user") /\ ~killed[proc[c]]
  /\ kills < MaxKills
  /\ state[z] = "UNUSED" => \A r \in Slot : state[r] = "UNUSED" => z <= r
  /\ IF HasThreads(proc[c]) THEN Unsupported(proc[c], "called kill on thread", "called kill on thread0 with children")
     ELSE /\ kills' = kills + 1
          /\ killed' = [killed EXCEPT ![z] = TRUE]
          /\ state' = wakeup1(state, z)
          /\ UNCHANGED <<parent, isThread, tid, nextTid, count, kstack, saved, freelist,
                         proc, page, run, panicked, creates>>

-----------------------------------------------------------------------------
\* After userinit(): the first process is ready, every other slot is free.
Init ==
  /\ state = [s \in Slot |-> IF s = initproc THEN "RUNNABLE" ELSE "UNUSED"]
  /\ parent = [s \in Slot |-> None]
  /\ killed = [s \in Slot |-> FALSE]
  /\ isThread = [s \in Slot |-> FALSE]
  /\ tid = [s \in Slot |-> 0]
  /\ nextTid = [s \in Slot |-> IF s = initproc THEN 1 ELSE 0]
  /\ count = [s \in Slot |-> 0]
  /\ kstack = [s \in Slot |-> IF s = initproc THEN 1 ELSE None]
  /\ freelist = [i \in 1..NPAGE - 1 |-> i + 1]
  /\ saved = [s \in Slot |-> Forkret]
  /\ proc = [c \in CPU |-> None]
  /\ page = [c \in CPU |-> None]
  /\ run = [c \in CPU |-> Idle]
  /\ panicked = "" /\ creates = 0 /\ kills = 0

\* What a process does inside a system call that it has begun.
KernelStep(c) ==
  \/ alloc_kstack(c) \/ fork_copyuvm(c)
  \/ create_take_tid(c) \/ create_set_tid(c) \/ make_runnable(c)
  \/ join_poll(c) \/ kthread_exit_sched(c)

Step(c) ==
  \/ timer_yield(c) \/ KernelStep(c)
  \/ \E call \in {"fork", "kthread_create"} : allocproc(c, call)
  \/ \E t \in 1..MaxCreate : join_find(c, t)
  \/ kthread_exit_zombie(c)
  \/ exit(c) \/ wait(c)
  \/ \E z \in Slot : kill(c, z)

Next == \E c \in CPU : Step(c) \/ \E s \in Slot : schedule(c, s)

Spec == Init /\ [][Next]_vars

(* Fairness: the timer ticks; the scheduler scans the table round and round,  *)
(* so a runnable process is not passed over for ever; a time slice is long    *)
(* enough to get on in the kernel; a killed process exits at the next trap;   *)
(* and the init program calls wait() in a loop (init.c).                      *)
Fairness ==
  /\ \A c \in CPU : /\ WF_vars(timer_yield(c))
                    /\ WF_vars(proc[c] # None /\ killed[proc[c]] /\ exit(c))
  /\ \A s \in Slot : /\ SF_vars(\E c \in CPU : schedule(c, s))
                     /\ SF_vars(\E c \in CPU : proc[c] = s /\ KernelStep(c))
  /\ SF_vars(\E c \in CPU : proc[c] = initproc /\ wait(c))

FairSpec == Spec /\ Fairness

-----------------------------------------------------------------------------
(* Properties.                                                             *)

Free(pg) == \E i \in DOMAIN freelist : freelist[i] = pg

\* The kernel stack a CPU executes on belongs to the process it runs: wait() and
\* kthread_join() give a stack back only when no CPU is on it any more.
StackExclusive ==
  \A c \in CPU : proc[c] # None =>
    /\ page[c] = kstack[proc[c]] /\ ~Free(page[c])
    /\ \A d \in CPU \ {c} : page[d] # page[c]

\* No kernel stack is lost or used twice: every page is in the free list once or the
\* stack of exactly one slot, whatever fails in fork() and whoever reaps.
PagesConserved ==
  \A pg \in Page :
    Cardinality({i \in DOMAIN freelist : freelist[i] = pg})
      + Cardinality({s \in Slot : kstack[s] = pg}) = 1

\* sched() is never called by a process still marked RUNNING, and never returns to a
\* process that has exited: the panics of sched(), exit() and kthread_exit().
NoSchedPanic == panicked \notin {"sched running", "zombie exit", "kthread_exit"}

\* The parent of a process is alive, so that somebody can wait() for it: exit()
\* passes the children on to init.
Live == {"SLEEPING", "RUNNABLE", "RUNNING"}
Orphan(s) == state[s] \notin {"UNUSED", "EMBRYO"} /\ (parent[s] = None \/ state[parent[s]] \notin Live)
NoOrphan == \A s \in Slot \ {initproc} : ~Orphan(s)

\* Threads may fork, and kthread_exit() hands no children over.  Nothing else makes
\* an orphan: neither fork(), kthread_create() nor exit(), and no reaping, also of a
\* slot whose children were adopted or left behind before.
OnlyThreadsOrphan ==
  [][\A s \in Slot \ {initproc} : Orphan(s)' /\ ~Orphan(s) =>
       isThread[parent[s]] /\ state[parent[s]] \in Live /\ state'[parent[s]] = "ZOMBIE"]_vars

\* A process sleeping in wait() has no zombie child and has not been killed: the
\* wakeups of exit(), also of init for an adopted zombie, and of kill() reach it.
NoLostWakeup == \A s \in Slot : state[s] = "SLEEPING" => Zombies(s) = {} /\ ~killed[s]

\* thread_count counts the threads created and not yet joined: exit(), wait() and
\* kill() test it.
ThreadCountExact ==
  \A s \in Slot : state[s] \notin {"UNUSED", "EMBRYO"} =>
    count[s] = Cardinality({z \in Slot : isThread[z] /\ parent[z] = s /\ tid[z] # 0})

\* kthread_join() finds the thread it is asked for: no two threads of a process
\* have the same tid.
UniqueTids ==
  \A s, z \in Slot : parent[s] = parent[z] /\ parent[s] # None /\ tid[s] = tid[z] /\ tid[s] # 0
                     => s = z

Executions == {run[c] : c \in CPU} \cup {saved[s] : s \in {r \in Slot : state[r] \in {"RUNNABLE", "SLEEPING"}}}

\* A kthread_join() that polls a thread which has exited returns.
JoinReturns ==
  \A s \in Slot :
    (state[s] = "ZOMBIE" /\ \E e \in Executions : e.pc = "join" /\ e.slot = s)
      ~> (state[s] # "ZOMBIE" \/ panicked # "")

\* A zombie whose parent is the init program is reaped, also one that lost its parent,
\* unless init creates threads, with which wait() does not work yet.
ZombieReaped ==
  \A s \in Slot : (state[s] = "ZOMBIE" /\ parent[s] = initproc)
                    ~> (state[s] # "ZOMBIE" \/ panicked # "" \/ count[initproc] > 0)
=============================================================================
