--------------------------- MODULE KThreadsProofs ---------------------------
(***************************************************************************)
(* Proofs about KThreads for every number of CPUs, slots and pages, with    *)
(* kernel threads or without.                                               *)
(*                                                                         *)
(* ThreadInv is inductive as long as kernel threads themselves call neither *)
(* fork() nor kthread_create() nor kthread_join() (NoThreadCalls): a slot   *)
(* has one main execution (OneMain), what the calls under way rely on       *)
(* (Calls), who has children (Family), what thread_count and the tids say   *)
(* of them (Tallies), and which page is whose kernel stack (Stacks).  Two   *)
(* more invariants rest on it: WakeInv, who sleeps in wait(), and           *)
(* StacksInUse, which CPU is on which stack and what the scheduler resumes. *)
(* StacksInUse needs OneStack as well: no kernel threads, or one CPU.       *)
(*                                                                         *)
(* LineageInv is inductive whatever threads call: the part of ThreadInv     *)
(* that is left then, and who has a living parent.                          *)
(***************************************************************************)
EXTENDS KThreads, FiniteSetTheorems, WellFoundedInduction, TLAPS

-----------------------------------------------------------------------------
(* A set of slots that is not empty has a lowest one.                      *)

LEMMA LowestIn ==
  ASSUME NEW n \in Nat, NEW T \in SUBSET (1..n), T # {}
  PROVE  Lowest(T) \in T
  <1> DEFINE F == {1..i : i \in T}
  <1>1. ASSUME NEW i \in T PROVE (1..i) \in FiniteSubsetsOf(1..n)
    <2>1. IsFiniteSet(1..i)
      BY FS_Interval
    <2> QED
      BY <2>1 DEF FiniteSubsetsOf
  <1>2. F \subseteq FiniteSubsetsOf(1..n) /\ F # {}
    BY <1>1
  <1>3. PICK X \in F : \A Y \in F : ~(<<Y, X>> \in StrictSubsetOrdering(1..n))
    <2> HIDE DEF F
    <2> QED
      BY <1>2, WFMin, FS_StrictSubsetOrderingWellFounded
  <1>4. PICK i \in T : X = 1..i
    BY <1>3
  <1>5. ASSUME NEW j \in T, j < i PROVE FALSE
    <2>1. (1..j) \in F
      OBVIOUS
    <2>2. (1..j) \subseteq X /\ i \in X /\ i \notin (1..j)
      BY <1>4, <1>5
    <2>3. X \in SUBSET (1..n) /\ (1..j) \in SUBSET (1..n)
      BY <1>4
    <2>4. <<1..j, X>> \in StrictSubsetOrdering(1..n)
      BY <2>2, <2>3 DEF StrictSubsetOrdering
    <2> QED
      BY <2>1, <2>4, <1>3
  <1>6. \E s \in T : \A r \in T : s <= r
    BY <1>5
  <1> QED
    BY <1>6 DEF Lowest

LEMMA Constants ==
  /\ NPROC \in Nat /\ NPAGE \in Nat /\ NPROC > 0 /\ NPAGE > 0
  /\ initproc \in Slot /\ None \notin Slot /\ None \notin Page
  /\ Slot \subseteq 0..NPROC /\ None \in 0..NPROC /\ None \in 0..NPAGE
  /\ IsFiniteSet(Slot)
  <1>1. NPROC \in Nat /\ NPAGE \in Nat /\ NPROC > 0 /\ NPAGE > 0
    BY KThreadsAssumption DEF KThreadsAssumption
  <1>2. IsFiniteSet(Slot)
    BY <1>1, FS_Interval DEF Slot
  <1> QED
    BY <1>1, <1>2 DEF Slot, Page, None, initproc

\* The zombie that wait() reaps.
LEMMA LowestZombie ==
  ASSUME NEW w, NEW z, z = Lowest(Zombies(w)), Zombies(w) # {}
  PROVE  z \in Slot /\ state[z] = "ZOMBIE" /\ parent[z] = w /\ z \in Zombies(w)
  <1>1. PICK T \in SUBSET (1..NPROC) : T = Zombies(w)
    BY DEF Zombies, Slot
  <1>2. Lowest(T) \in T
    BY <1>1, LowestIn, Constants
  <1> QED
    BY <1>1, <1>2 DEF Zombies

-----------------------------------------------------------------------------
(* The kernel stacks.                                                      *)

StackTypes == kstack \in [Slot -> 0..NPAGE] /\ freelist \in Seq(Page)

\* A page is in the free list or the stack of a slot, once.
PagesOK ==
  /\ \A i, j \in 1..Len(freelist) : freelist[i] = freelist[j] => i = j
  /\ \A s, z \in Slot : kstack[s] = kstack[z] /\ kstack[s] # None => s = z
  /\ \A s \in Slot, i \in 1..Len(freelist) : freelist[i] # kstack[s]
  /\ \A pg \in Page : (\E i \in 1..Len(freelist) : freelist[i] = pg) \/ (\E s \in Slot : kstack[s] = pg)

LEMMA InitPages == Init => StackTypes /\ PagesOK
  <1> SUFFICES ASSUME Init PROVE StackTypes /\ PagesOK
    OBVIOUS
  <1>1. freelist \in Seq(Page) /\ Len(freelist) = NPAGE - 1 /\ \A i \in 1..NPAGE - 1 : freelist[i] = i + 1
    <2> DEFINE m == NPAGE - 1
    <2>1. m \in Nat /\ \A i \in 1..m : i + 1 \in Page
      BY Constants DEF Page
    <2>2. freelist = [i \in 1..m |-> i + 1]
      BY DEF Init
    <2> HIDE DEF m
    <2>3. freelist \in Seq(Page) /\ Len(freelist) = m /\ \A i \in 1..m : freelist[i] = i + 1
      BY <2>1, <2>2
    <2> QED
      BY <2>3 DEF m
  <1>2. PagesOK
    <2>1. Len(freelist) = NPAGE - 1 /\ \A i \in 1..NPAGE - 1 : freelist[i] = i + 1
      BY <1>1
    <2>2. \A s \in Slot : kstack[s] = IF s = 1 THEN 1 ELSE 0
      BY DEF Init, initproc, None
    <2>3. ASSUME NEW pg \in Page
          PROVE  (\E i \in 1..Len(freelist) : freelist[i] = pg) \/ (\E s \in Slot : kstack[s] = pg)
      <3>1. CASE pg = 1
        BY <2>2, <3>1, Constants DEF initproc
      <3>2. CASE pg # 1
        <4>1. pg - 1 \in 1..NPAGE - 1 /\ freelist[pg - 1] = pg
          BY <2>1, <3>2, Constants DEF Page
        <4> QED
          BY <2>1, <4>1
      <3> QED
        BY <3>1, <3>2
    <2>4. \A s, z \in Slot : kstack[s] = kstack[z] /\ kstack[s] # None => s = z
      BY <2>2 DEF None
    <2>5. \A s \in Slot, i \in 1..Len(freelist) : freelist[i] # kstack[s]
      BY <2>1, <2>2, Constants
    <2>6. \A i, j \in 1..Len(freelist) : freelist[i] = freelist[j] => i = j
      BY <2>1, Constants
    <2> QED
      BY <2>3, <2>4, <2>5, <2>6 DEF PagesOK
  <1>3. StackTypes
    <2>1. 1 \in 0..NPAGE
      BY Constants
    <2>2. kstack \in [Slot -> 0..NPAGE]
      BY <2>1, Constants DEF Init
    <2> QED
      BY <1>1, <2>2 DEF StackTypes
  <1> QED
    BY <1>2, <1>3

LEMMA PagePushed ==
  ASSUME StackTypes, PagesOK, NEW z \in Slot, kstack[z] # None,
         freelist' = <<kstack[z]>> \o freelist, kstack' = [kstack EXCEPT ![z] = None]
  PROVE  PagesOK' /\ freelist' \in Seq(Page) /\ kstack' \in [Slot -> 0..NPAGE]
  <1>1. /\ kstack[z] \in Page /\ kstack' \in [Slot -> 0..NPAGE] /\ freelist \in Seq(Page)
        /\ kstack'[z] = None /\ \A s \in Slot : s # z => kstack'[s] = kstack[s]
    BY Constants DEF StackTypes, Page, None
  <1> DEFINE m == Len(freelist)
             pz == kstack[z]
  <1>2. pz \in Page
    BY <1>1
  <1> HIDE DEF pz
  <1>3. freelist' = <<pz>> \o freelist
    BY DEF pz
  <1>4. /\ m \in Nat /\ freelist' \in Seq(Page) /\ Len(freelist') = m + 1 /\ freelist'[1] = pz
        /\ \A i \in 2..m + 1 : freelist'[i] = freelist[i - 1] /\ i - 1 \in 1..m
    BY <1>1, <1>2, <1>3
  <1> HIDE DEF m
  <1>5. /\ \A i, j \in 1..m : freelist[i] = freelist[j] => i = j
        /\ \A s \in Slot, i \in 1..m : freelist[i] # kstack[s]
        /\ \A s \in Slot : s # z => kstack[s] # pz
        /\ \A pg \in Page : (\E i \in 1..m : freelist[i] = pg) \/ (\E s \in Slot : kstack[s] = pg)
    BY <1>2, Constants DEF PagesOK, m, pz
  <1>6. \A i \in 1..m + 1 : i = 1 \/ i \in 2..m + 1
    BY <1>4
  <1>7. \A i, j \in 1..m + 1 : freelist'[i] = freelist'[j] => i = j
    <2>1. \A i \in 2..m + 1 : freelist'[i] # pz
      BY <1>4, <1>5 DEF pz
    <2>2. \A i, j \in 2..m + 1 : freelist'[i] = freelist'[j] => i - 1 = j - 1
      BY <1>4, <1>5
    <2>3. \A i, j \in 2..m + 1 : i - 1 = j - 1 => i = j
      BY <1>4
    <2> QED
      BY <1>4, <1>6, <2>1, <2>2, <2>3
  <1>8. \A s, t \in Slot : kstack'[s] = kstack'[t] /\ kstack'[s] # None => s = t
    BY <1>1 DEF PagesOK
  <1>9. \A s \in Slot, i \in 1..m + 1 : freelist'[i] # kstack'[s]
    <2>1. \A i \in 1..m + 1 : freelist'[i] # None
      BY <1>4, Constants
    <2>2. \A s \in Slot : s # z => \A i \in 1..m + 1 : freelist'[i] # kstack[s]
      BY <1>4, <1>5, <1>6
    <2> QED
      BY <1>1, <2>1, <2>2
  <1>10. ASSUME NEW pg \in Page
         PROVE  (\E i \in 1..m + 1 : freelist'[i] = pg) \/ (\E s \in Slot : kstack'[s] = pg)
    <2>1. CASE pg = pz
      <3>1. 1 \in 1..m + 1
        BY <1>4
      <3> QED
        BY <1>4, <2>1, <3>1
    <2>2. ASSUME NEW i \in 1..m, freelist[i] = pg PROVE \E j \in 1..m + 1 : freelist'[j] = pg
      <3>1. i + 1 \in 2..m + 1 /\ i + 1 \in 1..m + 1 /\ (i + 1) - 1 = i
        BY <1>4
      <3>2. freelist'[i + 1] = pg
        BY <1>4, <2>2, <3>1
      <3> QED
        BY <3>1, <3>2
    <2>3. ASSUME NEW s \in Slot, kstack[s] = pg, pg # pz PROVE kstack'[s] = pg
      BY <1>1, <2>3 DEF pz
    <2> QED
      BY <1>5, <2>1, <2>2, <2>3
  <1>11. PagesOK'
    <2>1. Len(freelist') = m + 1
      BY <1>4
    <2>2. \A i, j \in 1..Len(freelist') : freelist'[i] = freelist'[j] => i = j
      BY <2>1, <1>7, Zenon
    <2>3. \A s \in Slot, i \in 1..Len(freelist') : freelist'[i] # kstack'[s]
      BY <2>1, <1>9, Zenon
    <2>4. \A pg \in Page : (\E i \in 1..Len(freelist') : freelist'[i] = pg) \/ (\E s \in Slot : kstack'[s] = pg)
      BY <2>1, <1>10, Zenon
    <2> QED
      BY <2>2, <1>8, <2>3, <2>4, Zenon DEF PagesOK
  <1> QED
    BY <1>1, <1>4, <1>11

LEMMA PagePopped ==
  ASSUME StackTypes, PagesOK, NEW z \in Slot, kstack[z] = None, freelist # <<>>,
         freelist' = Tail(freelist), kstack' = [kstack EXCEPT ![z] = Head(freelist)]
  PROVE  /\ PagesOK' /\ freelist' \in Seq(Page) /\ kstack' \in [Slot -> 0..NPAGE]
         /\ kstack'[z] # None
  <1> DEFINE m == Len(freelist)
             h == Head(freelist)
  <1>1. /\ m \in Nat /\ m > 0 /\ h \in Page /\ h = freelist[1] /\ 1 \in 1..m
        /\ freelist' \in Seq(Page) /\ Len(freelist') = m - 1
        /\ \A i \in 1..m - 1 : freelist'[i] = freelist[i + 1] /\ i + 1 \in 2..m
    BY DEF StackTypes
  <1> HIDE DEF h
  <1>2. kstack' = [kstack EXCEPT ![z] = h]
    BY DEF h
  <1>3. h # None /\ h \in 0..NPAGE
    BY <1>1, Constants DEF Page
  <1>4. /\ kstack' \in [Slot -> 0..NPAGE] /\ kstack'[z] = h
        /\ \A s \in Slot : s # z => kstack'[s] = kstack[s]
    BY <1>2, <1>3 DEF StackTypes
  <1>5. /\ \A i, j \in 1..m : freelist[i] = freelist[j] => i = j
        /\ \A s \in Slot, i \in 1..m : freelist[i] # kstack[s]
        /\ \A pg \in Page : (\E i \in 1..m : freelist[i] = pg) \/ (\E s \in Slot : kstack[s] = pg)
    BY DEF PagesOK
  <1> HIDE DEF m
  <1>6. \A i \in 2..m : i \in 1..m /\ freelist[i] # h
    BY <1>1, <1>5
  <1>7. \A i, j \in 1..m - 1 : freelist'[i] = freelist'[j] => i = j
    <2>1. \A i, j \in 1..m - 1 : freelist'[i] = freelist'[j] => i + 1 = j + 1
      BY <1>1, <1>5, <1>6
    <2> QED
      BY <1>1, <2>1
  <1>8. \A s, t \in Slot : kstack'[s] = kstack'[t] /\ kstack'[s] # None => s = t
    BY <1>1, <1>4, <1>5 DEF PagesOK
  <1>9. \A s \in Slot, i \in 1..m - 1 : freelist'[i] # kstack'[s]
    BY <1>1, <1>4, <1>5, <1>6
  <1>10. ASSUME NEW pg \in Page
         PROVE  (\E i \in 1..m - 1 : freelist'[i] = pg) \/ (\E s \in Slot : kstack'[s] = pg)
    <2>1. CASE pg = h
      BY <1>4, <2>1
    <2>2. ASSUME NEW i \in 1..m, freelist[i] = pg, pg # h PROVE \E j \in 1..m - 1 : freelist'[j] = pg
      <3>1. i # 1
        BY <1>1, <2>2
      <3>2. i - 1 \in 1..m - 1 /\ (i - 1) + 1 = i
        BY <1>1, <3>1
      <3>3. freelist'[i - 1] = pg
        BY <1>1, <2>2, <3>2
      <3> QED
        BY <3>2, <3>3
    <2>3. ASSUME NEW s \in Slot, kstack[s] = pg PROVE kstack'[s] = pg
      <3>1. s # z
        BY <2>3, Constants
      <3> QED
        BY <1>4, <2>3, <3>1
    <2> QED
      BY <1>5, <2>1, <2>2, <2>3
  <1> QED
    BY <1>1, <1>3, <1>4, <1>7, <1>8, <1>9, <1>10 DEF PagesOK
-----------------------------------------------------------------------------
(* The invariant, for any number of CPUs, as long as kernel threads call       *)
(* nothing (NoThreadCalls).  A slot may be executed twice: kthread_exit() is a *)
(* zombie before it has left its CPU, and the slot may be joined and used      *)
(* again by then.  Beside such remains of an exit a slot has one main          *)
(* execution at most.                                                          *)

NoThreadCalls == ~Threads \/ ThreadsCall = {}

States == {"UNUSED", "EMBRYO", "SLEEPING", "RUNNABLE", "RUNNING", "ZOMBIE"}
Filling == {"fork", "kthread_create", "copyuvm", "take_tid", "set_tid", "ready"}
Mains == {"user", "forkret", "wait", "join"} \cup Filling
Jobs == [pc : Mains \cup {"idle", "exiting", "kthread_exit", "zombie exit"}, slot : 0..NPROC, tid : Nat]

Fields ==
  /\ state \in [Slot -> States] /\ parent \in [Slot -> 0..NPROC]
  /\ isThread \in [Slot -> BOOLEAN] /\ \A s \in Slot : isThread[s] => Threads
  /\ tid \in [Slot -> Nat] /\ nextTid \in [Slot -> Nat] /\ count \in [Slot -> Int]
  /\ saved \in [Slot -> Jobs] /\ proc \in [CPU -> 0..NPROC] /\ run \in [CPU -> Jobs]

\* The main execution of a slot is on a CPU or preempted.
MainAt(c) == proc[c] # None /\ run[c].pc \in Mains
MainSaved(s) == state[s] \in {"RUNNABLE", "SLEEPING"} /\ saved[s].pc \in Mains
Doing(s, e) ==
  \/ \E c \in CPU : MainAt(c) /\ proc[c] = s /\ run[c] = e
  \/ MainSaved(s) /\ saved[s] = e

OneMain ==
  /\ \A c \in CPU : MainAt(c) => state[proc[c]] \in {"RUNNING", "RUNNABLE"} /\ ~MainSaved(proc[c])
  /\ \A c, d \in CPU : MainAt(c) /\ MainAt(d) /\ proc[c] = proc[d] => c = d

\* What holds while s fills a slot, joins a thread or waits.
Fills(s, e) ==
  /\ e.slot \in Slot /\ state[e.slot] = "EMBRYO"
  /\ e.pc \in {"fork", "kthread_create"} <=> kstack[e.slot] = None
  /\ e.pc \in {"fork", "kthread_create", "copyuvm", "take_tid"} => parent[e.slot] = None
  /\ e.pc \notin {"fork", "kthread_create"} =>
       count[e.slot] = 0 /\ nextTid[e.slot] = 1 /\ saved[e.slot].pc \notin Mains \ {"forkret"}
  /\ e.pc \in {"copyuvm", "take_tid", "set_tid"} => tid[e.slot] = 0
  /\ e.pc = "copyuvm" => ~isThread[e.slot]
  /\ e.pc = "ready" /\ isThread[e.slot] => tid[e.slot] # 0
  /\ e.pc = "set_tid" => isThread[e.slot] /\ e.tid = nextTid[s]
  /\ e.pc \in {"set_tid", "ready"} => parent[e.slot] = s
Joins(s, e) == e.slot \in Slot /\ parent[e.slot] = s /\ tid[e.slot] = e.tid /\ e.tid # 0
CallOK(s, e) ==
  /\ e.pc \in Filling => Fills(s, e)
  /\ e.pc = "join" => Joins(s, e)
  /\ e.pc = "wait" => count[s] = 0
  /\ e.pc \in Filling \cup {"join", "wait"} => ~isThread[s]
  /\ e.pc \in {"kthread_create", "take_tid", "set_tid"} => Threads
Calls ==
  /\ \A s \in Slot, e \in Jobs : Doing(s, e) => CallOK(s, e)
  /\ \A s, t \in Slot, e, f \in Jobs :
       Doing(s, e) /\ Doing(t, f) /\ e.pc \in Filling /\ f.pc \in Filling /\ e.slot = f.slot => s = t

\* Whoever has children lives and is no thread; only threads have a tid.
Child(z) ==
  /\ state[parent[z]] \in Live /\ ~isThread[parent[z]]
  /\ tid[z] < nextTid[parent[z]] /\ (tid[z] # 0 => isThread[z])
Family ==
  /\ state[initproc] \in Live /\ ~isThread[initproc]
  /\ \A s \in Slot : state[s] = "UNUSED" => parent[s] = None
  /\ \A s \in Slot : state[s] \notin {"UNUSED", "EMBRYO"} =>
       /\ nextTid[s] > 0 /\ (isThread[s] => tid[s] # 0)
       /\ s # initproc => parent[s] # None
  /\ \A z \in Slot : parent[z] # None => Child(z)

\* The threads that were created by s and are not joined.
ThreadsOf(s) == {z \in Slot : isThread[z] /\ parent[z] = s /\ tid[z] # 0}
Counted(s) == count[s] = Cardinality(ThreadsOf(s))
Tallies ==
  /\ \A s \in Slot : state[s] \notin {"UNUSED", "EMBRYO"} => Counted(s)
  /\ UniqueTids

\* Who has a kernel stack.
Stacks ==
  /\ StackTypes /\ PagesOK
  /\ \A s \in Slot : /\ state[s] = "UNUSED" => kstack[s] = None
                     /\ state[s] \notin {"UNUSED", "EMBRYO"} => kstack[s] # None

ThreadInv == Fields /\ OneMain /\ Calls /\ Family /\ Tallies /\ Stacks

LEMMA InitThreads == Init => ThreadInv
  <1> SUFFICES ASSUME Init PROVE ThreadInv
    OBVIOUS
  <1>1. Forkret \in Jobs /\ Idle \in Jobs /\ Forkret.pc = "forkret"
    BY Constants DEF Forkret, Idle, At, Jobs, Mains
  <1>2. Fields
    <2>1. state \in [Slot -> States] /\ nextTid \in [Slot -> Nat]
      BY DEF Init, States
    <2>2. parent \in [Slot -> 0..NPROC] /\ proc \in [CPU -> 0..NPROC]
      BY Constants DEF Init
    <2>3. saved \in [Slot -> Jobs] /\ run \in [CPU -> Jobs]
      BY <1>1 DEF Init
    <2>4. isThread \in [Slot -> BOOLEAN] /\ \A s \in Slot : ~isThread[s]
      BY DEF Init
    <2>5. tid \in [Slot -> Nat]
      BY DEF Init
    <2>6. count \in [Slot -> Int]
      <3>1. count = [s \in Slot |-> 0]
        BY DEF Init
      <3> QED
        BY <3>1
    <2> QED
      BY <2>1, <2>2, <2>3, <2>4, <2>5, <2>6 DEF Fields
  <1>3. \A c \in CPU : ~MainAt(c)
    BY DEF Init, MainAt
  <1>4. \A s \in Slot, e \in Jobs : Doing(s, e) => e.pc = "forkret"
    BY <1>1, <1>3 DEF Init, Doing
  <1>5. OneMain
    BY <1>3 DEF OneMain
  <1>6. Calls
    BY <1>4 DEF Calls, CallOK, Filling
  <1>7. Family
    <2>1. state[initproc] = "RUNNABLE" /\ nextTid[initproc] = 1 /\ isThread[initproc] = FALSE
      BY Constants DEF Init
    <2>2. \A s \in Slot \ {initproc} : state[s] = "UNUSED"
      BY DEF Init
    <2>3. \A s \in Slot : parent[s] = None
      BY DEF Init
    <2> QED
      BY <2>1, <2>2, <2>3, Constants DEF Family, Live
  <1>8. Tallies
    <2>1. \A s \in Slot : ThreadsOf(s) = {} /\ count[s] = 0
      BY DEF Init, ThreadsOf
    <2>2. \A s \in Slot : Counted(s)
      BY <2>1, FS_EmptySet DEF Counted
    <2>3. UniqueTids
      BY DEF Init, UniqueTids
    <2> QED
      BY <2>2, <2>3 DEF Tallies
  <1>9. Stacks
    <2>1. /\ state[initproc] = "RUNNABLE" /\ kstack[initproc] = 1
          /\ \A s \in Slot \ {initproc} : state[s] = "UNUSED" /\ kstack[s] = None
      BY Constants DEF Init
    <2> QED
      BY <2>1, InitPages, Constants DEF Stacks, None
  <1> QED
    BY <1>2, <1>5, <1>6, <1>7, <1>8, <1>9 DEF ThreadInv

\* A slot has one main execution, and it lives.
LEMMA DoingOne ==
  ASSUME Fields, OneMain, NEW s \in Slot, NEW e \in Jobs, NEW f \in Jobs, Doing(s, e)
  PROVE  state[s] \in Live /\ (Doing(s, f) => e = f)
  BY DEF OneMain, Doing, MainAt, MainSaved, Live

LEMMA Serving ==
  ASSUME Fields, OneMain, NEW c \in CPU, MainAt(c)
  PROVE  /\ proc[c] \in Slot /\ run[c] \in Jobs /\ Doing(proc[c], run[c])
         /\ state[proc[c]] \in {"RUNNING", "RUNNABLE"} /\ ~MainSaved(proc[c])
         /\ \A e \in Jobs : Doing(proc[c], e) => e = run[c]
  <1>1. proc[c] \in Slot /\ run[c] \in Jobs
    BY Constants DEF Fields, MainAt, Slot, None
  <1>2. Doing(proc[c], run[c])
    BY DEF Doing
  <1>3. \A e \in Jobs : Doing(proc[c], e) => e = run[c]
    BY <1>1, <1>2, DoingOne
  <1> QED
    BY <1>1, <1>2, <1>3 DEF OneMain

\* A CPU outside the scheduler runs a process; it may be the remains of its exit.
LEMMA RunnerSlot ==
  ASSUME Fields, OneMain, NEW c \in CPU, Running(c)
  PROVE  proc[c] \in Slot /\ run[c] \in Jobs /\ (run[c].pc \in Mains <=> MainAt(c))
  <1>1. proc[c] \in 0..NPROC /\ proc[c] # None /\ run[c] \in Jobs
    BY DEF Fields, Running
  <1> QED
    BY <1>1, Constants DEF MainAt, Slot, None

-----------------------------------------------------------------------------
(* Who does what after a step.                                             *)

\* Process proc[c] goes on with e on its CPU.
LEMMA GoesOn ==
  ASSUME Fields, OneMain, NEW c \in CPU, MainAt(c), NEW e \in Jobs, Continue(c, e), proc' = proc,
         saved' \in [Slot -> Jobs], ~MainSaved(proc[c])',
         e.pc \in Mains => state'[proc[c]] \in {"RUNNING", "RUNNABLE"},
         \A s \in Slot \ {proc[c]} :
           \/ state'[s] = state[s] /\ saved'[s] = saved[s]
           \/ /\ state[s] \notin {"RUNNING", "RUNNABLE"}
              /\ MainSaved(s)' => saved'[s].pc = "forkret"
  PROVE  /\ OneMain' /\ run' \in [CPU -> Jobs]
         /\ \A s \in Slot, f \in Jobs : Doing(s, f)' =>
              IF s = proc[c] THEN f = e ELSE Doing(s, f) \/ f.pc = "forkret"
  <1> DEFINE p == proc[c]
  <1>1. p \in Slot /\ \A d \in CPU \ {c} : MainAt(d) => proc[d] # p
    BY Serving DEF OneMain
  <1>2. run' \in [CPU -> Jobs] /\ run'[c] = e /\ \A d \in CPU \ {c} : run'[d] = run[d]
    BY DEF Continue, Fields
  <1>3. \A d \in CPU \ {c} : MainAt(d)' => MainAt(d) /\ proc[d] \in Slot \ {p}
    <2> SUFFICES ASSUME NEW d \in CPU \ {c}, MainAt(d)'
                 PROVE  MainAt(d) /\ proc[d] \in Slot \ {p}
      OBVIOUS
    <2>1. MainAt(d)
      BY <1>2 DEF MainAt
    <2> QED
      BY <2>1, <1>1, Serving
  <1>4. \A d \in CPU : MainAt(d)' => state'[proc[d]] \in {"RUNNING", "RUNNABLE"} /\ ~MainSaved(proc[d])'
    <2> SUFFICES ASSUME NEW d \in CPU, MainAt(d)'
                 PROVE  state'[proc[d]] \in {"RUNNING", "RUNNABLE"} /\ ~MainSaved(proc[d])'
      OBVIOUS
    <2>1. CASE d = c
      BY <2>1, <1>2 DEF MainAt
    <2>2. CASE d # c
      <3>1. MainAt(d) /\ proc[d] \in Slot \ {p} /\ state[proc[d]] \in {"RUNNING", "RUNNABLE"} /\ ~MainSaved(proc[d])
        BY <2>2, <1>3, Serving
      <3>2. state'[proc[d]] = state[proc[d]] /\ saved'[proc[d]] = saved[proc[d]]
        BY <3>1
      <3> QED
        BY <3>1, <3>2 DEF MainSaved
    <2> QED
      BY <2>1, <2>2
  <1>5. \A d, b \in CPU : MainAt(d)' /\ MainAt(b)' /\ proc[d] = proc[b] => d = b
    BY <1>3 DEF OneMain
  <1>6. OneMain'
    BY <1>4, <1>5 DEF OneMain
  <1>7. ASSUME NEW s \in Slot, NEW f \in Jobs, Doing(s, f)'
        PROVE  IF s = p THEN f = e ELSE Doing(s, f) \/ f.pc = "forkret"
    <2>1. CASE \E d \in CPU : MainAt(d)' /\ proc'[d] = s /\ run'[d] = f
      <3>1. PICK d \in CPU : MainAt(d)' /\ proc[d] = s /\ run'[d] = f
        BY <2>1
      <3>2. CASE d = c
        BY <3>1, <3>2, <1>2
      <3>3. CASE d # c
        <4>1. MainAt(d) /\ s # p /\ run[d] = f
          BY <3>1, <3>3, <1>2, <1>3
        <4> QED
          BY <4>1, <3>1 DEF Doing
      <3> QED
        BY <3>2, <3>3
    <2>2. CASE MainSaved(s)' /\ saved'[s] = f
      <3>1. s # p
        BY <2>2
      <3>2. CASE state'[s] = state[s] /\ saved'[s] = saved[s]
        BY <2>2, <3>1, <3>2 DEF MainSaved, Doing
      <3> QED
        BY <2>2, <3>1, <3>2
    <2> QED
      BY <1>7, <2>1, <2>2 DEF Doing
  <1> QED
    BY <1>2, <1>6, <1>7

\* The CPU c gives up proc[c], whose context then resumes e.
LEMMA Switches ==
  ASSUME Fields, OneMain, NEW c \in CPU, Running(c), NEW e \in Jobs, swtch(c, e), e.pc \in Mains => MainAt(c),
         MainAt(c) \/ state'[proc[c]] \in {state[proc[c]], "RUNNABLE"},
         \A s \in Slot \ {proc[c]} :
           state'[s] = state[s] \/ (state[s] = "SLEEPING" /\ state'[s] = "RUNNABLE")
  PROVE  /\ OneMain' /\ saved' \in [Slot -> Jobs] /\ proc' \in [CPU -> 0..NPROC] /\ run' \in [CPU -> Jobs]
         /\ proc[c] \in Slot /\ saved'[proc[c]] = e /\ \A s \in Slot \ {proc[c]} : saved'[s] = saved[s]
         /\ \A s \in Slot, f \in Jobs : Doing(s, f)' =>
              IF MainAt(c) /\ s = proc[c] THEN f = e /\ state'[s] \in {"RUNNABLE", "SLEEPING"} ELSE Doing(s, f)
  <1> DEFINE p == proc[c]
  <1>1. p \in Slot
    <2>1. proc[c] \in 0..NPROC /\ proc[c] # None
      BY DEF Fields, Running
    <2> QED
      BY <2>1, Constants DEF Slot, None
  <1>2. Idle \in Jobs /\ Idle.pc \notin Mains
    BY Constants DEF Idle, At, Jobs, Mains, Filling
  <1>3. /\ saved' \in [Slot -> Jobs] /\ proc' \in [CPU -> 0..NPROC] /\ run' \in [CPU -> Jobs]
        /\ saved'[p] = e /\ \A s \in Slot \ {p} : saved'[s] = saved[s]
        /\ run'[c] = Idle /\ \A d \in CPU \ {c} : proc'[d] = proc[d] /\ run'[d] = run[d]
    BY <1>1, <1>2, Constants DEF swtch, Continue, Fields
  <1> HIDE DEF p
  <1>4. \A d \in CPU : MainAt(d)' => d # c /\ MainAt(d) /\ proc'[d] = proc[d] /\ run'[d] = run[d]
    BY <1>2, <1>3 DEF MainAt
  <1>5. ASSUME NEW s \in Slot \ {p}, MainSaved(s)' PROVE MainSaved(s)
    BY <1>3, <1>5 DEF MainSaved, p
  <1>6. ASSUME NEW d \in CPU, MainAt(d)'
        PROVE  state'[proc'[d]] \in {"RUNNING", "RUNNABLE"} /\ ~MainSaved(proc[d])'
    <2>1. d # c /\ MainAt(d) /\ proc'[d] = proc[d]
      BY <1>4, <1>6
    <2>2. PICK q \in Slot : q = proc[d] /\ state[q] \in {"RUNNING", "RUNNABLE"} /\ ~MainSaved(q)
      BY <2>1, Serving
    <2>3. CASE q = p
      <3>1. ~MainAt(c)
        BY <2>1, <2>2, <2>3 DEF OneMain, p
      <3>2. state'[q] \in {"RUNNING", "RUNNABLE"} /\ saved'[q].pc \notin Mains
        BY <3>1, <2>2, <2>3, <1>3 DEF p
      <3> QED
        BY <3>2, <2>1, <2>2 DEF MainSaved
    <2>4. CASE q # p
      <3>1. state'[q] = state[q] /\ saved'[q] = saved[q]
        BY <2>2, <2>4, <1>3 DEF p
      <3> QED
        BY <3>1, <2>1, <2>2 DEF MainSaved
    <2> QED
      BY <2>3, <2>4
  <1>7. \A d, b \in CPU : MainAt(d)' /\ MainAt(b)' /\ proc'[d] = proc'[b] => d = b
    BY <1>4 DEF OneMain
  <1>8. OneMain'
    BY <1>6, <1>7 DEF OneMain
  <1>9. ASSUME NEW s \in Slot, NEW f \in Jobs, Doing(s, f)'
        PROVE  IF MainAt(c) /\ s = p THEN f = e /\ state'[s] \in {"RUNNABLE", "SLEEPING"} ELSE Doing(s, f)
    <2>1. CASE \E d \in CPU : MainAt(d)' /\ proc'[d] = s /\ run'[d] = f
      <3>1. PICK d \in CPU : d # c /\ MainAt(d) /\ proc[d] = s /\ run[d] = f
        BY <2>1, <1>4
      <3>2. ~(MainAt(c) /\ s = p)
        BY <3>1 DEF OneMain, p
      <3> QED
        BY <3>1, <3>2 DEF Doing
    <2>2. CASE MainSaved(s)' /\ saved'[s] = f
      <3>1. CASE s = p
        BY <2>2, <3>1, <1>3 DEF MainSaved
      <3>2. CASE s # p
        <4>1. MainSaved(s) /\ saved[s] = f
          BY <2>2, <3>2, <1>3, <1>5
        <4> QED
          BY <3>2, <4>1 DEF Doing
      <3> QED
        BY <3>1, <3>2
    <2> QED
      BY <1>9, <2>1, <2>2 DEF Doing
  <1> QED
    BY <1>1, <1>3, <1>8, <1>9 DEF p

\* The scheduler of the CPU c dispatches the process s.
LEMMA Dispatches ==
  ASSUME Fields, OneMain, NEW c \in CPU, proc[c] = None, NEW s \in Slot, state[s] = "RUNNABLE", state'[s] = "RUNNING",
         saved[s].pc \notin {"zombie exit", "kthread_exit"}, saved' = saved,
         dispatch(c, s, IF saved[s].pc \in {"forkret", "wait"} THEN User ELSE saved[s]),
         \A r \in Slot \ {s} : state'[r] = state[r] \/ (state[r] = "ZOMBIE" /\ state'[r] = "UNUSED")
  PROVE  /\ OneMain' /\ proc' \in [CPU -> 0..NPROC] /\ run' \in [CPU -> Jobs]
         /\ \A r \in Slot, f \in Jobs : Doing(r, f)' =>
              Doing(r, f) \/ (r = s /\ f.pc = "user")
  <1>1. PICK e : e = IF saved[s].pc \in {"forkret", "wait"} THEN User ELSE saved[s]
    OBVIOUS
  <1>2. User \in Jobs /\ User.pc = "user"
    BY Constants DEF User, At, Jobs, Mains
  <1>3. saved[s] \in Jobs
    BY DEF Fields
  <1>4. e \in Jobs /\ (e.pc \in Mains => saved[s].pc \in Mains) /\ (e.pc = "user" \/ e = saved[s]) /\ e.pc # "wait"
    BY <1>1, <1>2, <1>3 DEF Mains
  <1>5. /\ proc' \in [CPU -> 0..NPROC] /\ run' \in [CPU -> Jobs] /\ proc'[c] = s /\ run'[c] = e
        /\ \A d \in CPU \ {c} : proc'[d] = proc[d] /\ run'[d] = run[d]
    BY <1>1, <1>4, Constants DEF dispatch, Continue, Fields
  <1>6. \A d \in CPU \ {c} : MainAt(d)' <=> MainAt(d)
    BY <1>5 DEF MainAt
  <1>7. MainAt(c)' => MainSaved(s) /\ \A d \in CPU : MainAt(d) => proc[d] # s
    <2>1. MainAt(c)' => MainSaved(s)
      BY <1>4, <1>5 DEF MainAt, MainSaved
    <2> QED
      BY <2>1 DEF OneMain
  <1>8. \A r \in Slot : MainSaved(r)' => r # s /\ MainSaved(r)
    BY DEF MainSaved
  <1>9. ASSUME NEW d \in CPU, MainAt(d)'
        PROVE  state'[proc'[d]] \in {"RUNNING", "RUNNABLE"} /\ ~MainSaved(proc[d])'
    <2>1. CASE d = c
      <3>1. proc'[d] = s
        BY <2>1, <1>5
      <3> QED
        BY <3>1 DEF MainSaved
    <2>2. CASE d # c
      <3>1. MainAt(d) /\ proc'[d] = proc[d]
        BY <2>2, <1>5, <1>6, <1>9
      <3>2. PICK q \in Slot : q = proc[d] /\ state[q] \in {"RUNNING", "RUNNABLE"} /\ ~MainSaved(q)
        BY <3>1, Serving
      <3>3. state'[q] \in {"RUNNING", "RUNNABLE"} /\ ~MainSaved(q)'
        BY <3>2, <1>8
      <3> QED
        BY <3>1, <3>2, <3>3 DEF MainSaved
    <2> QED
      BY <2>1, <2>2
  <1>10. ASSUME NEW d \in CPU, NEW b \in CPU, MainAt(d)', MainAt(b)', proc'[d] = proc'[b] PROVE d = b
    <2>1. CASE d # c /\ b # c
      <3>1. MainAt(d) /\ MainAt(b) /\ proc[d] = proc[b]
        BY <2>1, <1>5, <1>6, <1>10
      <3> QED
        BY <3>1 DEF OneMain
    <2>2. ASSUME NEW a \in CPU \ {c}, MainAt(a)', MainAt(c)', proc'[a] = proc'[c] PROVE FALSE
      <3>1. MainAt(a) /\ proc[a] = s
        BY <2>2, <1>5, <1>6
      <3> QED
        BY <3>1, <2>2, <1>7
    <2> QED
      BY <2>1, <2>2, <1>10
  <1>11. OneMain'
    BY <1>9, <1>10 DEF OneMain
  <1>12. ASSUME NEW r \in Slot, NEW f \in Jobs, Doing(r, f)'
         PROVE  Doing(r, f) \/ (r = s /\ f.pc = "user")
    <2>1. CASE \E d \in CPU : MainAt(d)' /\ proc'[d] = r /\ run'[d] = f
      <3>1. PICK d \in CPU : MainAt(d)' /\ proc'[d] = r /\ run'[d] = f
        BY <2>1
      <3>2. CASE d = c
        <4>1. r = s /\ f = e /\ MainSaved(s)
          BY <3>1, <3>2, <1>5, <1>7
        <4> QED
          BY <4>1, <1>4 DEF Doing
      <3>3. CASE d # c
        <4>1. MainAt(d) /\ proc[d] = r /\ run[d] = f
          BY <3>1, <3>3, <1>5, <1>6
        <4> QED
          BY <4>1 DEF Doing
      <3> QED
        BY <3>2, <3>3
    <2>2. CASE MainSaved(r)' /\ saved'[r] = f
      BY <2>2, <1>8 DEF Doing
    <2> QED
      BY <1>12, <2>1, <2>2 DEF Doing
  <1> QED
    BY <1>5, <1>11, <1>12

LEMMA Called == ASSUME ThreadInv, NEW c \in CPU, MainAt(c) PROVE CallOK(proc[c], run[c])
  BY Serving DEF ThreadInv, Calls

-----------------------------------------------------------------------------
(* What a step leaves as it is.                                            *)

Kept(s) == isThread'[s] = isThread[s] /\ count'[s] = count[s] /\ nextTid'[s] = nextTid[s]
Same(s) == Kept(s) /\ parent'[s] = parent[s] /\ tid'[s] = tid[s] /\ kstack'[s] = kstack[s]
Stays(s) == state[s] = "EMBRYO" => /\ state'[s] = "EMBRYO"
                                   /\ saved'[s] = saved[s] \/ saved'[s].pc \notin Mains

LEMMA FillsKept ==
  ASSUME NEW s \in Slot, NEW e \in Jobs, Fills(s, e), Kept(s), Same(e.slot), Stays(e.slot)
  PROVE  Fills(s, e)'
  BY DEF Fills, Kept, Same, Stays

\* The calls of the processes but p, when p changes its own slot and those in N.
LEMMA OthersKeep ==
  ASSUME ThreadInv, NEW p \in Slot, state[p] \in Live,
         parent[p] # p => parent'[p] = parent[p] /\ tid'[p] = tid[p],
         NEW N \in SUBSET Slot, \A n \in N : parent[n] \in {None, p},
         \A s \in Slot \ {p}, e \in Jobs : Doing(s, e) /\ e.pc \in Filling => e.slot \notin N,
         \A s \in Slot \ {p} : state[s] \in Live => Kept(s),
         \A s \in Slot \ ({p} \cup N) : Same(s) /\ Stays(s)
  PROVE  \A s \in Slot \ {p}, e \in Jobs : Doing(s, e) => CallOK(s, e) /\ CallOK(s, e)'
  <1> SUFFICES ASSUME NEW s \in Slot \ {p}, NEW e \in Jobs, Doing(s, e)
               PROVE  CallOK(s, e) /\ CallOK(s, e)'
    OBVIOUS
  <1>1. CallOK(s, e) /\ Kept(s)
    BY DoingOne DEF ThreadInv, Calls
  <1>2. e.pc \in Filling => Fills(s, e)'
    <2> SUFFICES ASSUME e.pc \in Filling PROVE Fills(s, e)'
      OBVIOUS
    <2>1. Fills(s, e) /\ e.slot \notin N
      BY <1>1 DEF CallOK
    <2>2. e.slot \in Slot \ ({p} \cup N)
      BY <2>1 DEF Fills, Live
    <2> QED
      BY <1>1, <2>1, <2>2, FillsKept
  <1>3. e.pc = "join" => Joins(s, e)'
    <2> SUFFICES ASSUME e.pc = "join" PROVE Joins(s, e)'
      OBVIOUS
    <2>1. Joins(s, e)
      BY <1>1 DEF CallOK
    <2>2. e.slot \in Slot \ N
      BY <2>1, Constants DEF Joins
    <2>3. parent'[e.slot] = parent[e.slot] /\ tid'[e.slot] = tid[e.slot]
      <3>1. CASE e.slot = p
        BY <2>1, <3>1 DEF Joins
      <3>2. CASE e.slot # p
        BY <2>2, <3>2 DEF Same
      <3> QED
        BY <3>1, <3>2
    <2> QED
      BY <2>1, <2>3 DEF Joins
  <1> QED
    BY <1>1, <1>2, <1>3 DEF CallOK, Kept

\* Process p goes on with g, and is the only one at the slot n if it fills that.
LEMMA NextCalls ==
  ASSUME ThreadInv, NEW p \in Slot, NEW g \in Jobs, NEW n \in Slot,
         \A s \in Slot \ {p}, e \in Jobs : Doing(s, e)' => Doing(s, e) \/ e.pc = "forkret",
         \A e \in Jobs : Doing(p, e)' => e = g,
         Doing(p, g)' => CallOK(p, g)', g.pc \in Filling => g.slot = n,
         \A s \in Slot \ {p}, e \in Jobs : Doing(s, e) /\ e.pc \in Filling => e.slot # n,
         \A s \in Slot \ {p}, e \in Jobs : Doing(s, e) => CallOK(s, e)'
  PROVE  Calls'
  <1>1. \A s \in Slot, e \in Jobs : Doing(s, e)' => CallOK(s, e)'
    <2> SUFFICES ASSUME NEW s \in Slot, NEW e \in Jobs, Doing(s, e)'
                 PROVE  CallOK(s, e)'
      OBVIOUS
    <2>1. e.pc = "forkret" => CallOK(s, e)'
      BY DEF CallOK, Filling
    <2> QED
      BY <2>1
  <1>2. ASSUME NEW s \in Slot, NEW t \in Slot, NEW e \in Jobs, NEW f \in Jobs, Doing(s, e)', Doing(t, f)',
               e.pc \in Filling, f.pc \in Filling, e.slot = f.slot
        PROVE  s = t
    <2>1. (s = p => e = g) /\ (s # p => Doing(s, e)) /\ (t = p => f = g) /\ (t # p => Doing(t, f))
      BY <1>2 DEF Filling
    <2>2. CASE s = p
      BY <2>1, <2>2, <1>2
    <2>3. CASE t = p
      BY <2>1, <2>3, <1>2
    <2>4. CASE s # p /\ t # p
      BY <2>1, <2>4, <1>2 DEF ThreadInv, Calls
    <2> QED
      BY <2>2, <2>3, <2>4
  <1> QED
    BY <1>1, <1>2 DEF Calls

\* No thread is created and none joined.
LEMMA TalliesKept ==
  ASSUME ThreadInv,
         \A z \in Slot : /\ tid'[z] # 0 /\ parent'[z] # None =>
                              isThread'[z] = isThread[z] /\ tid'[z] = tid[z] /\ parent'[z] = parent[z]
                         /\ tid[z] # 0 /\ parent[z] # None /\ isThread[z] =>
                              isThread'[z] = isThread[z] /\ tid'[z] = tid[z] /\ parent'[z] = parent[z],
         \A s \in Slot : state'[s] \notin {"UNUSED", "EMBRYO"} => count'[s] = count[s] /\ Counted(s)
  PROVE  Tallies'
  <1>1. ASSUME NEW s \in Slot, state'[s] \notin {"UNUSED", "EMBRYO"} PROVE Counted(s)'
    <2>1. ThreadsOf(s)' = ThreadsOf(s)
      BY Constants DEF ThreadsOf
    <2> QED
      BY <1>1, <2>1 DEF Counted
  <1>2. UniqueTids'
    BY DEF UniqueTids, ThreadInv, Tallies
  <1> QED
    BY <1>1, <1>2 DEF Tallies

\* No kernel stack is allocated and none freed.
LEMMA StacksKept ==
  ASSUME ThreadInv, UNCHANGED <<kstack, freelist>>,
         \A s \in Slot : /\ state'[s] = "UNUSED" => state[s] = "UNUSED" \/ kstack[s] = None
                         /\ state'[s] \notin {"UNUSED", "EMBRYO"} =>
                              state[s] \notin {"UNUSED", "EMBRYO"} \/ kstack[s] # None
  PROVE  Stacks'
  <1>1. StackTypes' /\ PagesOK'
    BY DEF ThreadInv, Stacks, StackTypes, PagesOK
  <1> QED
    BY <1>1 DEF ThreadInv, Stacks

LEMMA ChildOf ==
  ASSUME ThreadInv, NEW z \in Slot, parent[z] # None
  PROVE  Child(z) /\ parent[z] \in Slot
  <1>1. parent[z] \in 0..NPROC
    BY DEF ThreadInv, Fields
  <1>2. parent[z] \in Slot
    BY <1>1, Constants DEF Slot, None
  <1> QED
    BY <1>2 DEF ThreadInv, Family

\* Processes move between the states of life; calls begin that do not fill a slot.
LEMMA Quietly ==
  ASSUME ThreadInv, UNCHANGED <<parent, isThread, tid, nextTid, count, kstack, freelist>>,
         state' \in [Slot -> States],
         \A s \in Slot : Stays(s) /\ (state'[s] = state[s] \/ (state[s] \in Live /\ state'[s] \in Live)),
         OneMain', saved' \in [Slot -> Jobs], proc' \in [CPU -> 0..NPROC], run' \in [CPU -> Jobs],
         \A s \in Slot, e \in Jobs : Doing(s, e)' => Doing(s, e) \/ (e.pc \notin Filling /\ CallOK(s, e))
  PROVE  ThreadInv'
  <1>1. Fields'
    BY DEF ThreadInv, Fields
  <1>2. \A s \in Slot : Kept(s) /\ Same(s)
    BY DEF Kept, Same
  <1>3. ASSUME NEW s \in Slot, NEW e \in Jobs, Doing(s, e)' PROVE CallOK(s, e)'
    <2>1. CallOK(s, e)
      BY <1>3 DEF ThreadInv, Calls
    <2>2. e.pc \in Filling => Fills(s, e)'
      BY <1>2, <2>1, FillsKept DEF CallOK, Fills
    <2>3. e.pc = "join" => Joins(s, e)'
      BY <2>1 DEF CallOK, Joins
    <2> QED
      BY <2>1, <2>2, <2>3 DEF CallOK
  <1>4. Calls'
    BY <1>3 DEF Calls, ThreadInv
  <1>5. Family'
    <2>1. ASSUME NEW z \in Slot, parent[z] # None PROVE Child(z)'
      <3>1. Child(z) /\ parent[z] \in Slot
        BY <2>1, ChildOf
      <3>2. state'[parent[z]] \in Live
        BY <3>1 DEF Child
      <3> QED
        BY <3>1, <3>2 DEF Child
    <2>2. state'[initproc] \in Live /\ ~isThread'[initproc]
      BY Constants DEF ThreadInv, Family
    <2>3. ASSUME NEW s \in Slot
          PROVE  /\ state'[s] = "UNUSED" => parent'[s] = None
                 /\ state'[s] \notin {"UNUSED", "EMBRYO"} =>
                      /\ nextTid'[s] > 0 /\ (isThread'[s] => tid'[s] # 0)
                      /\ s # initproc => parent'[s] # None
      BY DEF ThreadInv, Family, Live
    <2> QED
      BY <2>1, <2>2, <2>3 DEF Family
  <1>6. Tallies'
    <2>1. \A s \in Slot : state'[s] \notin {"UNUSED", "EMBRYO"} => Counted(s)
      BY DEF ThreadInv, Tallies, Live
    <2> QED
      BY <2>1, TalliesKept
  <1>7. Stacks'
    <2>1. \A s \in Slot : /\ state'[s] = "UNUSED" => state[s] = "UNUSED"
                          /\ state'[s] \notin {"UNUSED", "EMBRYO"} => state[s] \notin {"UNUSED", "EMBRYO"}
      BY DEF Live
    <2> QED
      BY <2>1, StacksKept
  <1> QED
    BY <1>1, <1>4, <1>5, <1>6, <1>7 DEF ThreadInv

\* Processes are woken or go on sleeping; nothing else happens to them.
Dozes ==
  /\ UNCHANGED <<parent, isThread, saved, proc, run>> /\ state' \in [Slot -> States]
  /\ \A s \in Slot : \/ state'[s] = state[s]
                     \/ state[s] = "SLEEPING" /\ state'[s] = "RUNNABLE"
                     \/ state[s] = "RUNNABLE" /\ state'[s] = "SLEEPING" /\ saved[s].pc \in Mains

LEMMA Dozing ==
  ASSUME Fields, OneMain, Dozes
  PROVE  /\ OneMain' /\ saved' \in [Slot -> Jobs] /\ proc' \in [CPU -> 0..NPROC] /\ run' \in [CPU -> Jobs]
         /\ \A s \in Slot : Stays(s) /\ (state'[s] = state[s] \/ (state[s] \in Live /\ state'[s] \in Live))
         /\ \A s \in Slot, e \in Jobs : Doing(s, e)' => Doing(s, e)
  <1>1. \A s \in Slot : MainSaved(s)' <=> MainSaved(s)
    BY DEF MainSaved, Dozes
  <1>2. \A c \in CPU : MainAt(c)' <=> MainAt(c)
    BY DEF MainAt, Dozes
  <1>3. \A s \in Slot, e \in Jobs : Doing(s, e)' => Doing(s, e)
    BY <1>1, <1>2 DEF Doing, Dozes
  <1>4. OneMain'
    <2>1. ASSUME NEW c \in CPU, MainAt(c)
          PROVE  state'[proc[c]] \in {"RUNNING", "RUNNABLE"} /\ ~MainSaved(proc[c])'
      <3>1. PICK q \in Slot : q = proc[c] /\ q = proc'[c] /\ state[q] \in {"RUNNING", "RUNNABLE"} /\ ~MainSaved(q)
        BY <2>1, Serving DEF Dozes
      <3>2. state'[q] = state[q]
        BY <3>1 DEF MainSaved, Dozes
      <3> QED
        BY <3>1, <3>2 DEF MainSaved, Dozes
    <2> QED
      BY <1>2, <2>1 DEF OneMain, Dozes
  <1>5. saved' \in [Slot -> Jobs] /\ proc' \in [CPU -> 0..NPROC] /\ run' \in [CPU -> Jobs]
    BY DEF Fields, Dozes
  <1>6. \A s \in Slot : Stays(s) /\ (state'[s] = state[s] \/ (state[s] \in Live /\ state'[s] \in Live))
    BY DEF Stays, Live, Dozes
  <1> QED
    BY <1>3, <1>4, <1>5, <1>6

LEMMA Wakes ==
  ASSUME ThreadInv, Dozes, UNCHANGED <<tid, nextTid, count, kstack, freelist>>
  PROVE  ThreadInv'
  <1>1. /\ OneMain' /\ saved' \in [Slot -> Jobs] /\ proc' \in [CPU -> 0..NPROC] /\ run' \in [CPU -> Jobs]
        /\ \A s \in Slot : Stays(s) /\ (state'[s] = state[s] \/ (state[s] \in Live /\ state'[s] \in Live))
        /\ \A s \in Slot, e \in Jobs : Doing(s, e)' => Doing(s, e)
    BY Dozing DEF ThreadInv
  <1> QED
    BY <1>1, Quietly DEF Dozes

LEMMA Stutters ==
  ASSUME ThreadInv, UNCHANGED <<state, parent, isThread, tid, nextTid, count, kstack, freelist, saved, proc, run>>
  PROVE  ThreadInv'
  <1>1. state' \in [Slot -> States]
    BY DEF ThreadInv, Fields
  <1> QED
    BY <1>1, Wakes DEF Dozes

LEMMA Panics == ASSUME ThreadInv, NEW msg, panic(msg) PROVE ThreadInv'
  BY Stutters DEF panic, table

-----------------------------------------------------------------------------
(* Steps that create and reap nothing.                                     *)

\* A process gives up its CPU: it is preempted, polls, sleeps or was an exit.
LEMMA GivesWay ==
  ASSUME ThreadInv, NEW c \in CPU, Running(c), NEW e \in Jobs, swtch(c, e),
         UNCHANGED <<parent, isThread, tid, nextTid, count, kstack, freelist>>,
         NEW v \in States, state' = [state EXCEPT ![proc[c]] = v],
         e.pc \in Mains => MainAt(c) /\ (e = run[c] \/ (e.pc \notin Filling /\ CallOK(proc[c], e))),
         v = state[proc[c]] \/ (state[proc[c]] \in Live /\ v \in Live),
         MainAt(c) \/ v \in {state[proc[c]], "RUNNABLE"}
  PROVE  ThreadInv'
  <1>1. proc[c] \in Slot
    BY RunnerSlot DEF ThreadInv
  <1> DEFINE p == proc[c]
  <1>2. /\ state' \in [Slot -> States] /\ state'[p] = v
        /\ \A s \in Slot \ {p} : state'[s] = state[s]
    BY <1>1 DEF ThreadInv, Fields
  <1>3. /\ OneMain' /\ saved' \in [Slot -> Jobs] /\ proc' \in [CPU -> 0..NPROC] /\ run' \in [CPU -> Jobs]
        /\ saved'[p] = e /\ \A s \in Slot \ {p} : saved'[s] = saved[s]
        /\ \A s \in Slot, f \in Jobs : Doing(s, f)' =>
             IF MainAt(c) /\ s = p THEN f = e /\ state'[s] \in {"RUNNABLE", "SLEEPING"} ELSE Doing(s, f)
    BY <1>2, Switches DEF ThreadInv
  <1>4. MainAt(c) => Doing(p, run[c]) /\ state[p] \in Live
    BY Serving DEF Live, ThreadInv
  <1> HIDE DEF p
  <1>5. ASSUME NEW s \in Slot, NEW f \in Jobs, Doing(s, f)'
        PROVE  Doing(s, f) \/ (f.pc \notin Filling /\ CallOK(s, f))
    <2>1. CASE MainAt(c) /\ s = p
      <3>1. f = e
        BY <1>3, <1>5, <2>1
      <3>2. CASE e.pc \in Mains
        BY <3>1, <3>2, <2>1, <1>4 DEF p
      <3>3. CASE e.pc \notin Mains
        BY <3>1, <3>3 DEF CallOK, Mains, Filling
      <3> QED
        BY <3>2, <3>3
    <2>2. CASE ~(MainAt(c) /\ s = p)
      BY <1>3, <1>5, <2>2
    <2> QED
      BY <2>1, <2>2
  <1>6. \A s \in Slot : Stays(s) /\ (state'[s] = state[s] \/ (state[s] \in Live /\ state'[s] \in Live))
    <2>1. Stays(p)
      BY <1>2, <1>3, <1>4 DEF Stays, Live, p
    <2>2. state'[p] = state[p] \/ (state[p] \in Live /\ state'[p] \in Live)
      BY <1>2 DEF p
    <2>3. \A s \in Slot \ {p} : Stays(s) /\ state'[s] = state[s]
      BY <1>2, <1>3 DEF Stays
    <2> QED
      BY <2>1, <2>2, <2>3
  <1> QED
    BY <1>2, <1>3, <1>5, <1>6, Quietly

LEMMA TTimer == ASSUME ThreadInv, NEW c \in CPU, timer_yield(c) PROVE ThreadInv'
  <1>1. Running(c) /\ state[proc[c]] = "RUNNING" /\ swtch(c, run[c])
        /\ state' = [state EXCEPT ![proc[c]] = "RUNNABLE"]
        /\ UNCHANGED <<parent, isThread, tid, nextTid, count, kstack, freelist>>
    BY DEF timer_yield
  <1>2. run[c] \in Jobs /\ (run[c].pc \in Mains => MainAt(c))
    BY <1>1, RunnerSlot DEF ThreadInv
  <1>3. "RUNNABLE" \in States /\ state[proc[c]] \in Live /\ "RUNNABLE" \in Live
    BY <1>1 DEF States, Live
  <1> QED
    BY <1>1, <1>2, <1>3, GivesWay

LEMMA TExitSched == ASSUME ThreadInv, NEW c \in CPU, kthread_exit_sched(c) PROVE ThreadInv'
  <1>1. Running(c) /\ run[c].pc = "exiting"
    BY DEF kthread_exit_sched, Runs
  <1>2. CASE panic("sched running")
    BY <1>2, Panics
  <1>3. CASE swtch(c, At("kthread_exit", None, 0)) /\ UNCHANGED <<table, freelist>>
    <2> DEFINE e == At("kthread_exit", None, 0)
    <2>1. e \in Jobs /\ e.pc \notin Mains
      BY Constants DEF At, Jobs, Mains, Filling
    <2>2. proc[c] \in Slot
      BY <1>1, RunnerSlot DEF ThreadInv
    <2>3. state[proc[c]] \in States /\ state = [state EXCEPT ![proc[c]] = state[proc[c]]]
      BY <2>2 DEF ThreadInv, Fields
    <2> HIDE DEF e
    <2>4. swtch(c, e) /\ UNCHANGED <<state, parent, isThread, tid, nextTid, count, kstack, freelist>>
      BY <1>3 DEF e, table
    <2>5. state' = [state EXCEPT ![proc[c]] = state[proc[c]]]
      BY <2>3, <2>4
    <2> QED
      BY <1>1, <2>1, <2>3, <2>4, <2>5, GivesWay
  <1> QED
    BY <1>2, <1>3 DEF kthread_exit_sched

LEMMA TKill == ASSUME ThreadInv, NEW c \in CPU, NEW z \in Slot, kill(c, z) PROVE ThreadInv'
  <1>1. CASE HasThreads(proc[c])
    BY <1>1, Panics DEF kill, Unsupported
  <1>2. CASE ~HasThreads(proc[c])
    <2>1. state' = wakeup1(state, z) /\ UNCHANGED <<parent, isThread, tid, nextTid, count, kstack, freelist, saved, proc, run>>
      BY <1>2 DEF kill
    <2>2. /\ state' \in [Slot -> States]
          /\ \A s \in Slot : state'[s] = state[s] \/ (state[s] = "SLEEPING" /\ state'[s] = "RUNNABLE")
      BY <2>1 DEF wakeup1, ThreadInv, Fields, States
    <2> QED
      BY <2>1, <2>2, Wakes DEF Dozes
  <1> QED
    BY <1>1, <1>2

-----------------------------------------------------------------------------
(* fork() and kthread_create().                                            *)

\* The slot n is p's alone to fill: nobody else fills it, and it has no children.
Alone(p, n) ==
  /\ n \in Slot \ {p, initproc} /\ state[n] \in {"UNUSED", "EMBRYO"} /\ parent[n] \in {None, p}
  /\ \A z \in Slot : parent[z] # n
  /\ \A s \in Slot \ {p}, e \in Jobs : Doing(s, e) /\ e.pc \in Filling => e.slot # n

LEMMA Barren ==
  ASSUME ThreadInv, NEW n \in Slot, state[n] \in {"UNUSED", "EMBRYO"}
  PROVE  n # initproc /\ \A z \in Slot : parent[z] # n
  <1>1. n # initproc
    BY DEF ThreadInv, Family, Live
  <1>2. ASSUME NEW z \in Slot, parent[z] = n PROVE FALSE
    <2>1. Child(z)
      BY <1>2, Constants, ChildOf
    <2> QED
      BY <1>2, <2>1 DEF Child, Live
  <1> QED
    BY <1>1, <1>2

LEMMA Filler ==
  ASSUME ThreadInv, NEW c \in CPU, MainAt(c), run[c].pc \in Filling
  PROVE  /\ proc[c] \in Slot /\ state[proc[c]] \in Live /\ ~isThread[proc[c]]
         /\ Fills(proc[c], run[c]) /\ Alone(proc[c], run[c].slot)
         /\ run[c].pc \in {"kthread_create", "take_tid", "set_tid"} => Threads
  <1>1. /\ proc[c] \in Slot /\ run[c] \in Jobs /\ Doing(proc[c], run[c]) /\ CallOK(proc[c], run[c])
        /\ state[proc[c]] \in Live
    BY Serving, Called DEF Live, ThreadInv
  <1>2. /\ Fills(proc[c], run[c]) /\ ~isThread[proc[c]]
        /\ run[c].pc \in {"kthread_create", "take_tid", "set_tid"} => Threads
    BY <1>1 DEF CallOK
  <1>3. run[c].slot \in Slot /\ run[c].slot # proc[c] /\ state[run[c].slot] = "EMBRYO"
    BY <1>1, <1>2 DEF Fills, Live
  <1>4. parent[run[c].slot] \in {None, proc[c]}
    BY <1>2 DEF Fills, Filling
  <1>5. \A s \in Slot \ {proc[c]}, e \in Jobs : Doing(s, e) /\ e.pc \in Filling => e.slot # run[c].slot
    BY <1>1 DEF ThreadInv, Calls
  <1> QED
    BY <1>1, <1>2, <1>3, <1>4, <1>5, Barren DEF Alone

\* A step that only touches the slot it fills leaves the other calls alone ...
LEMMA FillCalls ==
  ASSUME ThreadInv, NEW c \in CPU, MainAt(c), NEW p, p = proc[c], NEW n, Alone(p, n),
         NEW g \in Jobs, g.pc \in Filling \cup {"user"}, g.pc \in Filling => g.slot = n,
         Continue(c, g), proc' = proc, saved' \in [Slot -> Jobs], ~MainSaved(n)' \/ saved'[n].pc = "forkret",
         \A s \in Slot \ {n} : state'[s] = state[s] /\ saved'[s] = saved[s],
         \A s \in Slot \ {p, n} : Same(s), parent'[p] = parent[p], tid'[p] = tid[p],
         CallOK(p, g)'
  PROVE  OneMain' /\ Calls' /\ run' \in [CPU -> Jobs]
  <1>1. p \in Slot /\ state[p] \in {"RUNNING", "RUNNABLE"} /\ ~MainSaved(p) /\ n # p /\ n \in Slot
    BY Serving DEF Alone, ThreadInv
  <1>2. state'[p] = state[p] /\ saved'[p] = saved[p]
    BY <1>1
  <1>3. ~MainSaved(proc[c])'
    BY <1>1, <1>2 DEF MainSaved
  <1>4. \A s \in Slot \ {p} : \/ state'[s] = state[s] /\ saved'[s] = saved[s]
                              \/ /\ state[s] \notin {"RUNNING", "RUNNABLE"}
                                 /\ MainSaved(s)' => saved'[s].pc = "forkret"
    BY DEF Alone
  <1>5. /\ OneMain' /\ run' \in [CPU -> Jobs]
        /\ \A s \in Slot, f \in Jobs : Doing(s, f)' =>
             IF s = p THEN f = g ELSE Doing(s, f) \/ f.pc = "forkret"
    BY <1>1, <1>2, <1>3, <1>4, GoesOn DEF ThreadInv
  <1>6. \A s \in Slot \ {p}, e \in Jobs : Doing(s, e) => CallOK(s, e)'
    <2>1. {n} \in SUBSET Slot /\ state[p] \in Live
      BY <1>1 DEF Live
    <2>2. \A s \in Slot \ {p} : state[s] \in Live => Kept(s)
      BY DEF Same, Alone, Live
    <2>3. \A s \in Slot \ ({p} \cup {n}) : Same(s) /\ Stays(s)
      BY DEF Stays
    <2>4. \A s \in Slot \ {p}, e \in Jobs : Doing(s, e) /\ e.pc \in Filling => e.slot \notin {n}
      BY DEF Alone
    <2>5. \A m \in {n} : parent[m] \in {None, p}
      BY DEF Alone
    <2> QED
      BY <1>1, <2>1, <2>2, <2>3, <2>4, <2>5, OthersKeep
  <1>7. Calls'
    <2>1. \A s \in Slot \ {p}, e \in Jobs : Doing(s, e) /\ e.pc \in Filling => e.slot # n
      BY DEF Alone
    <2> QED
      BY <1>1, <1>5, <1>6, <2>1, NextCalls
  <1> QED
    BY <1>5, <1>7

\* ... and the families.
LEMMA FillFamily ==
  ASSUME ThreadInv, NEW p, NEW n, Alone(p, n),
         \A s \in Slot \ {n} : /\ state'[s] = state[s] /\ isThread'[s] = isThread[s] /\ parent'[s] = parent[s]
                               /\ tid'[s] = tid[s] /\ nextTid'[s] \in Nat /\ nextTid'[s] >= nextTid[s],
         parent'[n] # None => Child(n)', state'[n] = "UNUSED" => parent'[n] = None,
         state'[n] \notin {"UNUSED", "EMBRYO"} =>
           nextTid'[n] > 0 /\ parent'[n] # None /\ (isThread'[n] => tid'[n] # 0)
  PROVE  Family'
  <1>1. state'[initproc] \in Live /\ ~isThread'[initproc]
    BY Constants DEF ThreadInv, Family, Alone
  <1>2. ASSUME NEW s \in Slot
        PROVE  /\ state'[s] = "UNUSED" => parent'[s] = None
               /\ state'[s] \notin {"UNUSED", "EMBRYO"} =>
                    /\ nextTid'[s] > 0 /\ (isThread'[s] => tid'[s] # 0)
                    /\ s # initproc => parent'[s] # None
    <2>1. nextTid[s] \in Nat
      BY DEF ThreadInv, Fields
    <2> QED
      BY <2>1 DEF ThreadInv, Family
  <1>3. ASSUME NEW z \in Slot \ {n}, parent'[z] # None PROVE Child(z)'
    <2>1. Child(z) /\ parent[z] \in Slot \ {n}
      BY <1>3, ChildOf DEF Alone
    <2>2. PICK w \in Slot \ {n} : w = parent[z] /\ w = parent'[z]
      BY <2>1
    <2>3. state[w] \in Live /\ ~isThread[w] /\ tid[z] < nextTid[w] /\ (tid[z] # 0 => isThread[z])
      BY <2>1, <2>2 DEF Child
    <2>4. nextTid[w] \in Nat /\ tid[z] \in Nat
      BY DEF ThreadInv, Fields
    <2>5. tid'[z] < nextTid'[w]
      BY <2>2, <2>3, <2>4
    <2> QED
      BY <2>2, <2>3, <2>5 DEF Child
  <1> QED
    BY <1>1, <1>2, <1>3 DEF Family

LEMMA TAllocproc ==
  ASSUME NoThreadCalls, ThreadInv, NEW c \in CPU, NEW call \in {"fork", "kthread_create"}, allocproc(c, call)
  PROVE  ThreadInv'
  <1> DEFINE U == {r \in Slot : state[r] = "UNUSED"}
  <1>1. MainAt(c) /\ run[c].pc = "user"
    BY DEF allocproc, MayCall, Runs, Running, MainAt, Mains
  <1>2. UNCHANGED <<parent, isThread, tid, nextTid, count, kstack, freelist, saved, proc>>
    BY DEF allocproc
  <1>3. CASE U = {}
    <2>1. UNCHANGED <<state, run>>
      BY <1>3 DEF allocproc
    <2> QED
      BY <1>2, <2>1, Stutters
  <1>4. CASE U # {}
    <2>1. PICK n : n = Lowest(U)
      OBVIOUS
    <2>2. n \in Slot /\ state[n] = "UNUSED"
      <3>1. n \in U
        BY <1>4, <2>1, LowestIn, Constants DEF Slot
      <3> QED
        BY <3>1
    <2>3. PICK g : g = At(call, n, 0)
      OBVIOUS
    <2>4. state' = [state EXCEPT ![n] = "EMBRYO"] /\ Continue(c, g)
      BY <1>4, <2>1, <2>3 DEF allocproc
    <2>5. PICK p \in Slot : p = proc[c] /\ state[p] \in {"RUNNING", "RUNNABLE"} /\ ~isThread[p]
      <3>1. proc[c] \in Slot /\ state[proc[c]] \in {"RUNNING", "RUNNABLE"}
        BY <1>1, Serving DEF ThreadInv
      <3>2. ~isThread[proc[c]]
        BY <3>1 DEF allocproc, MayCall, NoThreadCalls, ThreadInv, Fields
      <3> QED
        BY <3>1, <3>2
    <2>6. /\ state' \in [Slot -> States] /\ state'[n] = "EMBRYO" /\ n # p
          /\ \A s \in Slot \ {n} : state'[s] = state[s]
      BY <2>2, <2>4, <2>5 DEF ThreadInv, Fields, States
    <2>7. g \in Jobs /\ g.pc \in {"fork", "kthread_create"} /\ g.pc \in Filling /\ g.slot = n
      BY <2>2, <2>3, Constants DEF At, Jobs, Mains, Filling
    <2>8. parent[n] = None /\ kstack[n] = None
      BY <2>2 DEF ThreadInv, Family, Stacks
    <2>9. Alone(p, n)
      <3>1. ASSUME NEW s \in Slot \ {p}, NEW e \in Jobs, Doing(s, e), e.pc \in Filling PROVE e.slot # n
        BY <3>1, <2>2 DEF ThreadInv, Calls, CallOK, Fills
      <3> QED
        BY <3>1, <2>2, <2>6, <2>8, Barren DEF Alone
    <2>10. CallOK(p, g)'
      <3>1. Fills(p, g)'
        BY <1>2, <2>2, <2>6, <2>7, <2>8 DEF Fills
      <3>2. g.pc = "kthread_create" => Threads
        BY <2>3 DEF allocproc, At
      <3> QED
        BY <1>2, <2>5, <2>7, <3>1, <3>2 DEF CallOK
    <2>11. OneMain' /\ Calls' /\ run' \in [CPU -> Jobs]
      <3>1. \A s \in Slot : Same(s)
        BY <1>2 DEF Same, Kept
      <3>2. saved' \in [Slot -> Jobs] /\ ~MainSaved(n)'
        BY <1>2, <2>6 DEF ThreadInv, Fields, MainSaved
      <3> QED
        BY <1>1, <1>2, <2>4, <2>5, <2>6, <2>7, <2>9, <2>10, <3>1, <3>2, FillCalls
    <2>12. Fields'
      BY <1>2, <2>6, <2>11 DEF ThreadInv, Fields
    <2>13. Family'
      <3>1. \A s \in Slot : nextTid'[s] \in Nat /\ nextTid'[s] >= nextTid[s]
        BY <1>2 DEF ThreadInv, Fields
      <3> QED
        BY <1>2, <2>6, <2>8, <2>9, <3>1, FillFamily
    <2>14. Tallies'
      <3>1. \A s \in Slot : state'[s] \notin {"UNUSED", "EMBRYO"} => Counted(s)
        BY <2>6 DEF ThreadInv, Tallies
      <3> QED
        BY <1>2, <3>1, TalliesKept
    <2>15. Stacks'
      BY <1>2, <2>6, StacksKept
    <2> QED
      BY <2>11, <2>12, <2>13, <2>14, <2>15 DEF ThreadInv
  <1> QED
    BY <1>3, <1>4

LEMMA TAlloc == ASSUME ThreadInv, NEW c \in CPU, alloc_kstack(c) PROVE ThreadInv'
  <1>1. MainAt(c) /\ run[c].pc \in {"fork", "kthread_create"} /\ run[c].pc \in Filling
    BY DEF alloc_kstack, Running, MainAt, Mains, Filling
  <1>2. PICK p \in Slot : p = proc[c]
    BY <1>1, Serving DEF ThreadInv
  <1>3. PICK n : n = run[c].slot
    OBVIOUS
  <1>4. Alone(p, n) /\ Fills(p, run[c]) /\ ~isThread[p] /\ (run[c].pc = "kthread_create" => Threads)
    BY <1>1, <1>2, <1>3, Filler
  <1>5. n \in Slot \ {p} /\ state[n] = "EMBRYO" /\ parent[n] = None /\ kstack[n] = None
    BY <1>1, <1>3, <1>4 DEF Alone, Fills
  <1>6. parent' = parent /\ proc' = proc
    BY DEF alloc_kstack
  <1>7. CASE /\ state' = [state EXCEPT ![n] = "UNUSED"] /\ Continue(c, User)
             /\ UNCHANGED <<isThread, tid, nextTid, count, saved, kstack, freelist>>
    <2>1. /\ state' \in [Slot -> States] /\ state'[n] = "UNUSED"
          /\ \A s \in Slot \ {n} : state'[s] = state[s]
      BY <1>5, <1>7 DEF ThreadInv, Fields, States
    <2>2. User \in Jobs /\ User.pc = "user" /\ User.pc \notin Filling
      BY Constants DEF User, At, Jobs, Mains, Filling
    <2>3. CallOK(p, User)'
      BY <2>2 DEF CallOK
    <2>4. saved' \in [Slot -> Jobs] /\ ~MainSaved(n)' /\ \A s \in Slot : Same(s) /\ saved'[s] = saved[s]
      BY <1>6, <1>7, <2>1 DEF ThreadInv, Fields, MainSaved, Same, Kept
    <2>5. OneMain' /\ Calls' /\ run' \in [CPU -> Jobs]
      BY <1>1, <1>2, <1>4, <1>6, <1>7, <2>1, <2>2, <2>3, <2>4, FillCalls
    <2>6. Fields'
      BY <1>6, <1>7, <2>1, <2>5 DEF ThreadInv, Fields
    <2>7. Family'
      <3>1. \A s \in Slot : nextTid'[s] \in Nat /\ nextTid'[s] >= nextTid[s]
        BY <1>7 DEF ThreadInv, Fields
      <3> QED
        BY <1>4, <1>5, <1>6, <1>7, <2>1, <3>1, FillFamily
    <2>8. Tallies'
      <3>1. \A s \in Slot : state'[s] \notin {"UNUSED", "EMBRYO"} => Counted(s)
        BY <2>1 DEF ThreadInv, Tallies
      <3> QED
        BY <1>6, <1>7, <3>1, TalliesKept
    <2>9. Stacks'
      BY <1>5, <1>7, <2>1, StacksKept
    <2> QED
      BY <2>5, <2>6, <2>7, <2>8, <2>9 DEF ThreadInv
  <1>8. CASE /\ freelist # <<>> /\ kstack' = [kstack EXCEPT ![n] = Head(freelist)] /\ freelist' = Tail(freelist)
             /\ saved' = [saved EXCEPT ![n] = Forkret] /\ isThread' = [isThread EXCEPT ![n] = FALSE]
             /\ tid' = [tid EXCEPT ![n] = 0] /\ nextTid' = [nextTid EXCEPT ![n] = 1]
             /\ count' = [count EXCEPT ![n] = 0] /\ state' = state
             /\ Continue(c, At(IF run[c].pc = "fork" THEN "copyuvm" ELSE "take_tid", n, 0))
    <2>1. PICK g : g = At(IF run[c].pc = "fork" THEN "copyuvm" ELSE "take_tid", n, 0)
      OBVIOUS
    <2>2. g \in Jobs /\ g.pc \in {"copyuvm", "take_tid"} /\ g.pc \in Filling /\ g.slot = n
      BY <1>5, <2>1, Constants DEF At, Jobs, Mains, Filling
    <2>3. Forkret \in Jobs /\ Forkret.pc = "forkret"
      BY Constants DEF Forkret, At, Jobs, Mains
    <2>4. /\ saved' \in [Slot -> Jobs] /\ saved'[n] = Forkret
          /\ \A s \in Slot \ {n} : saved'[s] = saved[s]
      BY <1>5, <1>8, <2>3 DEF ThreadInv, Fields
    <2>5. /\ isThread' \in [Slot -> BOOLEAN] /\ isThread'[n] = FALSE
          /\ \A s \in Slot \ {n} : isThread'[s] = isThread[s]
      BY <1>5, <1>8 DEF ThreadInv, Fields
    <2>6. /\ tid' \in [Slot -> Nat] /\ tid'[n] = 0
          /\ \A s \in Slot \ {n} : tid'[s] = tid[s]
      BY <1>5, <1>8 DEF ThreadInv, Fields
    <2>7. /\ nextTid' \in [Slot -> Nat] /\ nextTid'[n] = 1
          /\ \A s \in Slot \ {n} : nextTid'[s] = nextTid[s]
      BY <1>5, <1>8 DEF ThreadInv, Fields
    <2>8. /\ count' \in [Slot -> Int] /\ count'[n] = 0
          /\ \A s \in Slot \ {n} : count'[s] = count[s]
      BY <1>5, <1>8 DEF ThreadInv, Fields
    <2>9. /\ StackTypes' /\ PagesOK' /\ kstack'[n] # None
          /\ \A s \in Slot \ {n} : kstack'[s] = kstack[s]
      <3>1. StackTypes /\ PagesOK
        BY DEF ThreadInv, Stacks
      <3>2. StackTypes' /\ PagesOK' /\ kstack'[n] # None
        BY <1>5, <1>8, <3>1, PagePopped DEF StackTypes
      <3> QED
        BY <1>8, <3>1, <3>2 DEF StackTypes
    <2>10. \A s \in Slot \ {n} : Same(s)
      BY <1>6, <2>9, <2>5, <2>6, <2>7, <2>8 DEF Same, Kept
    <2>11. CallOK(p, g)'
      <3>1. Fills(p, g)'
        BY <1>5, <1>6, <1>8, <2>9, <2>2, <2>3, <2>4, <2>5, <2>6, <2>7, <2>8 DEF Fills
      <3>2. ~isThread'[p]
        BY <1>4, <1>5, <2>5
      <3>3. g.pc = "take_tid" => Threads
        BY <1>1, <1>4, <2>1 DEF At
      <3> QED
        BY <2>2, <3>1, <3>2, <3>3 DEF CallOK
    <2>12. OneMain' /\ Calls' /\ run' \in [CPU -> Jobs]
      <3>1. parent'[p] = parent[p] /\ tid'[p] = tid[p] /\ Continue(c, g)
        BY <1>5, <1>6, <1>8, <2>1, <2>6
      <3>2. saved'[n].pc = "forkret" /\ \A s \in Slot \ {n} : state'[s] = state[s] /\ saved'[s] = saved[s]
        BY <1>8, <2>3, <2>4
      <3> QED
        BY <1>1, <1>2, <1>4, <1>6, <2>2, <2>4, <2>10, <2>11, <3>1, <3>2, FillCalls
    <2>13. Fields'
      BY <1>6, <1>8, <2>4, <2>5, <2>6, <2>7, <2>8, <2>12 DEF ThreadInv, Fields
    <2>14. Family'
      <3>1. \A s \in Slot \ {n} : nextTid'[s] \in Nat /\ nextTid'[s] >= nextTid[s]
        BY <2>7 DEF ThreadInv, Fields
      <3> QED
        BY <1>4, <1>5, <1>6, <1>8, <2>5, <2>6, <3>1, FillFamily
    <2>15. Tallies'
      <3>1. \A s \in Slot : state'[s] \notin {"UNUSED", "EMBRYO"} => count'[s] = count[s] /\ Counted(s)
        BY <1>5, <1>8, <2>8 DEF ThreadInv, Tallies
      <3>2. \A z \in Slot : /\ tid'[z] # 0 /\ parent'[z] # None => z # n
                            /\ tid[z] # 0 /\ parent[z] # None /\ isThread[z] => z # n
        BY <1>5, <1>6
      <3>3. \A z \in Slot \ {n} : isThread'[z] = isThread[z] /\ tid'[z] = tid[z] /\ parent'[z] = parent[z]
        BY <1>6, <2>5, <2>6
      <3> QED
        BY <3>1, <3>2, <3>3, TalliesKept
    <2>16. Stacks'
      BY <1>5, <1>8, <2>9 DEF ThreadInv, Stacks
    <2> QED
      BY <2>12, <2>13, <2>14, <2>15, <2>16 DEF ThreadInv
  <1> QED
    BY <1>2, <1>3, <1>7, <1>8 DEF alloc_kstack

LEMMA TCopyuvm == ASSUME ThreadInv, NEW c \in CPU, fork_copyuvm(c) PROVE ThreadInv'
  <1>1. MainAt(c) /\ run[c].pc = "copyuvm" /\ run[c].pc \in Filling
    BY DEF fork_copyuvm, Runs, Running, MainAt, Mains, Filling
  <1>2. PICK p \in Slot : p = proc[c] /\ state[p] \in Live
    BY <1>1, Filler
  <1>3. PICK n : n = run[c].slot
    OBVIOUS
  <1>4. Alone(p, n) /\ Fills(p, run[c]) /\ ~isThread[p]
    BY <1>1, <1>2, <1>3, Filler
  <1>5. /\ n \in Slot \ {p} /\ state[n] = "EMBRYO" /\ parent[n] = None /\ tid[n] = 0
        /\ count[n] = 0 /\ nextTid[n] = 1 /\ saved[n].pc \notin Mains \ {"forkret"}
        /\ ~isThread[n] /\ kstack[n] # None
    BY <1>1, <1>3, <1>4 DEF Alone, Fills
  <1>6. UNCHANGED <<isThread, tid, nextTid, count, saved, proc>>
    BY DEF fork_copyuvm
  <1>7. \A s \in Slot : nextTid'[s] \in Nat /\ nextTid'[s] >= nextTid[s]
    BY <1>6 DEF ThreadInv, Fields
  <1>8. CASE /\ parent' = [parent EXCEPT ![n] = p] /\ Continue(c, At("ready", n, 0)) /\ state' = state
             /\ UNCHANGED <<kstack, freelist>>
    <2>1. PICK g : g = At("ready", n, 0)
      OBVIOUS
    <2>2. g \in Jobs /\ g.pc = "ready" /\ g.pc \in Filling /\ g.slot = n
      BY <1>5, <2>1, Constants DEF At, Jobs, Mains, Filling
    <2>3. /\ parent' \in [Slot -> 0..NPROC] /\ parent'[n] = p
          /\ \A s \in Slot \ {n} : parent'[s] = parent[s]
      BY <1>5, <1>8, Constants DEF ThreadInv, Fields
    <2>4. CallOK(p, g)'
      <3>1. Fills(p, g)'
        BY <1>5, <1>6, <1>8, <2>2, <2>3 DEF Fills
      <3> QED
        BY <1>4, <1>6, <2>2, <3>1 DEF CallOK
    <2>5. OneMain' /\ Calls' /\ run' \in [CPU -> Jobs]
      <3>1. parent'[p] = parent[p] /\ \A s \in Slot \ {p, n} : Same(s)
        BY <1>5, <1>6, <1>8, <2>3 DEF Same, Kept
      <3>2. saved' \in [Slot -> Jobs] /\ ~MainSaved(n)' /\ Continue(c, g)
        BY <1>5, <1>6, <1>8, <2>1 DEF ThreadInv, Fields, MainSaved
      <3> QED
        BY <1>1, <1>2, <1>4, <1>6, <1>8, <2>2, <2>4, <3>1, <3>2, FillCalls
    <2>6. Fields'
      BY <1>6, <1>8, <2>3, <2>5 DEF ThreadInv, Fields
    <2>7. Family'
      <3>1. nextTid[p] > 0
        BY <1>2 DEF ThreadInv, Family, Live
      <3>2. Child(n)'
        BY <1>2, <1>4, <1>5, <1>6, <1>8, <2>3, <3>1 DEF Child
      <3> QED
        BY <1>4, <1>5, <1>6, <1>7, <1>8, <2>3, <3>2, FillFamily
    <2>8. Tallies'
      <3>1. \A s \in Slot : state'[s] \notin {"UNUSED", "EMBRYO"} => count'[s] = count[s] /\ Counted(s)
        BY <1>6, <1>8 DEF ThreadInv, Tallies
      <3>2. \A z \in Slot : (tid'[z] # 0 \/ tid[z] # 0) => z # n
        BY <1>5, <1>6
      <3>3. \A z \in Slot \ {n} : isThread'[z] = isThread[z] /\ tid'[z] = tid[z] /\ parent'[z] = parent[z]
        BY <1>6, <2>3
      <3> QED
        BY <3>1, <3>2, <3>3, TalliesKept
    <2>9. Stacks'
      BY <1>8, StacksKept
    <2> QED
      BY <2>5, <2>6, <2>7, <2>8, <2>9 DEF ThreadInv
  <1>9. CASE /\ state' = [state EXCEPT ![n] = "UNUSED"] /\ Continue(c, User) /\ parent' = parent
             /\ freelist' = <<kstack[n]>> \o freelist /\ kstack' = [kstack EXCEPT ![n] = None]
    <2>1. /\ StackTypes' /\ PagesOK' /\ kstack'[n] = None
          /\ \A s \in Slot \ {n} : kstack'[s] = kstack[s]
      <3>1. StackTypes /\ PagesOK
        BY DEF ThreadInv, Stacks
      <3>2. StackTypes' /\ PagesOK'
        BY <1>5, <1>9, <3>1, PagePushed DEF StackTypes
      <3> QED
        BY <1>5, <1>9, <3>1, <3>2 DEF StackTypes
    <2>2. /\ state' \in [Slot -> States] /\ state'[n] = "UNUSED"
          /\ \A s \in Slot \ {n} : state'[s] = state[s]
      BY <1>5, <1>9 DEF ThreadInv, Fields, States
    <2>3. User \in Jobs /\ User.pc = "user" /\ User.pc \notin Filling
      BY Constants DEF User, At, Jobs, Mains, Filling
    <2>4. CallOK(p, User)'
      BY <2>3 DEF CallOK
    <2>5. saved' \in [Slot -> Jobs] /\ ~MainSaved(n)' /\ \A s \in Slot \ {n} : Same(s) /\ saved'[s] = saved[s]
      BY <1>6, <1>9, <2>1, <2>2 DEF ThreadInv, Fields, MainSaved, Same, Kept
    <2>6. OneMain' /\ Calls' /\ run' \in [CPU -> Jobs]
      BY <1>1, <1>2, <1>4, <1>6, <1>9, <2>2, <2>3, <2>4, <2>5, FillCalls
    <2>7. Fields'
      BY <1>6, <1>9, <2>2, <2>6 DEF ThreadInv, Fields
    <2>8. Family'
      BY <1>4, <1>5, <1>6, <1>7, <1>9, <2>2, FillFamily
    <2>9. Tallies'
      <3>1. \A s \in Slot : state'[s] \notin {"UNUSED", "EMBRYO"} => Counted(s)
        BY <2>2 DEF ThreadInv, Tallies
      <3> QED
        BY <1>6, <1>9, <3>1, TalliesKept
    <2>10. Stacks'
      BY <2>1, <2>2 DEF ThreadInv, Stacks
    <2> QED
      BY <2>6, <2>7, <2>8, <2>9, <2>10 DEF ThreadInv
  <1> QED
    BY <1>2, <1>3, <1>8, <1>9 DEF fork_copyuvm

LEMMA TTake == ASSUME ThreadInv, NEW c \in CPU, create_take_tid(c) PROVE ThreadInv'
  <1>1. MainAt(c) /\ run[c].pc = "take_tid" /\ run[c].pc \in Filling
    BY DEF create_take_tid, Runs, Running, MainAt, Mains, Filling
  <1>2. PICK p \in Slot : p = proc[c] /\ state[p] \in Live
    BY <1>1, Filler
  <1>3. PICK n : n = run[c].slot
    OBVIOUS
  <1>4. Alone(p, n) /\ Fills(p, run[c]) /\ ~isThread[p] /\ Threads
    BY <1>1, <1>2, <1>3, Filler
  <1>5. /\ n \in Slot \ {p} /\ state[n] = "EMBRYO" /\ parent[n] = None /\ tid[n] = 0
        /\ count[n] = 0 /\ nextTid[n] = 1 /\ saved[n].pc \notin Mains \ {"forkret"}
        /\ kstack[n] # None
    BY <1>1, <1>3, <1>4 DEF Alone, Fills
  <1>6. UNCHANGED <<state, tid, nextTid, count, kstack, freelist, saved, proc>>
    BY DEF create_take_tid
  <1>7. \A s \in Slot : nextTid'[s] \in Nat /\ nextTid'[s] >= nextTid[s]
    BY <1>6 DEF ThreadInv, Fields
  <1>8. PICK g : g = At("set_tid", n, nextTid[p])
    OBVIOUS
  <1>9. parent' = [parent EXCEPT ![n] = p] /\ isThread' = [isThread EXCEPT ![n] = TRUE] /\ Continue(c, g)
    <2>1. Owner(proc[c]) = p
      BY <1>2, <1>4 DEF Owner
    <2> QED
      BY <2>1, <1>3, <1>8 DEF create_take_tid
  <1>10. g \in Jobs /\ g.pc = "set_tid" /\ g.pc \in Filling /\ g.slot = n /\ g.tid = nextTid[p]
    <2>1. nextTid[p] \in Nat
      BY DEF ThreadInv, Fields
    <2> QED
      BY <1>5, <1>8, <2>1, Constants DEF At, Jobs, Mains, Filling
  <1>11. /\ parent' \in [Slot -> 0..NPROC] /\ parent'[n] = p
         /\ \A s \in Slot \ {n} : parent'[s] = parent[s]
    BY <1>5, <1>9, Constants DEF ThreadInv, Fields
  <1>12. /\ isThread' \in [Slot -> BOOLEAN] /\ isThread'[n] = TRUE
         /\ \A s \in Slot \ {n} : isThread'[s] = isThread[s]
    BY <1>5, <1>9 DEF ThreadInv, Fields
  <1>13. CallOK(p, g)'
    <2>1. Fills(p, g)'
      BY <1>5, <1>6, <1>10, <1>11, <1>12 DEF Fills
    <2>2. ~isThread'[p]
      BY <1>4, <1>5, <1>12
    <2> QED
      BY <1>4, <1>10, <2>1, <2>2 DEF CallOK
  <1>14. OneMain' /\ Calls' /\ run' \in [CPU -> Jobs]
    <2>1. parent'[p] = parent[p] /\ \A s \in Slot \ {p, n} : Same(s)
      BY <1>5, <1>6, <1>11, <1>12 DEF Same, Kept
    <2>2. saved' \in [Slot -> Jobs] /\ ~MainSaved(n)'
      BY <1>5, <1>6 DEF ThreadInv, Fields, MainSaved
    <2> QED
      BY <1>1, <1>2, <1>4, <1>6, <1>9, <1>10, <1>13, <2>1, <2>2, FillCalls
  <1>15. Fields'
    BY <1>4, <1>6, <1>11, <1>12, <1>14 DEF ThreadInv, Fields
  <1>16. Family'
    <2>1. nextTid[p] > 0
      BY <1>2 DEF ThreadInv, Family, Live
    <2>2. Child(n)'
      BY <1>2, <1>4, <1>5, <1>6, <1>11, <1>12, <2>1 DEF Child
    <2> QED
      BY <1>4, <1>5, <1>6, <1>7, <1>11, <1>12, <2>2, FillFamily
  <1>17. Tallies'
    <2>1. \A s \in Slot : state'[s] \notin {"UNUSED", "EMBRYO"} => count'[s] = count[s] /\ Counted(s)
      BY <1>6 DEF ThreadInv, Tallies
    <2>2. \A z \in Slot : (tid'[z] # 0 \/ tid[z] # 0) => z # n
      BY <1>5, <1>6
    <2>3. \A z \in Slot \ {n} : isThread'[z] = isThread[z] /\ tid'[z] = tid[z] /\ parent'[z] = parent[z]
      BY <1>6, <1>11, <1>12
    <2> QED
      BY <2>1, <2>2, <2>3, TalliesKept
  <1>18. Stacks'
    BY <1>6, StacksKept
  <1> QED
    BY <1>14, <1>15, <1>16, <1>17, <1>18 DEF ThreadInv

\* A set of slots is finite; its size is 0 if and only if it is empty.
LEMMA Sizes ==
  ASSUME NEW s
  PROVE  /\ IsFiniteSet(ThreadsOf(s)) /\ Cardinality(ThreadsOf(s)) \in Nat
         /\ Cardinality(ThreadsOf(s)) = 0 <=> ThreadsOf(s) = {}
  <1>1. IsFiniteSet(ThreadsOf(s))
    BY Constants, FS_Subset DEF ThreadsOf
  <1> QED
    BY <1>1, FS_CardinalityType, FS_EmptySet

LEMMA TSetTid == ASSUME ThreadInv, NEW c \in CPU, create_set_tid(c) PROVE ThreadInv'
  <1>1. MainAt(c) /\ run[c].pc = "set_tid" /\ run[c].pc \in Filling
    BY DEF create_set_tid, Runs, Running, MainAt, Mains, Filling
  <1>2. PICK p \in Slot : p = proc[c] /\ state[p] \in Live
    BY <1>1, Filler
  <1>3. PICK n : n = run[c].slot
    OBVIOUS
  <1>4. Alone(p, n) /\ Fills(p, run[c]) /\ ~isThread[p] /\ Threads
    BY <1>1, <1>2, <1>3, Filler
  <1>5. /\ n \in Slot \ {p} /\ state[n] = "EMBRYO" /\ parent[n] = p /\ tid[n] = 0 /\ isThread[n]
        /\ count[n] = 0 /\ nextTid[n] = 1 /\ saved[n].pc \notin Mains \ {"forkret"} /\ run[c].tid = nextTid[p]
        /\ kstack[n] # None
    BY <1>1, <1>3, <1>4 DEF Alone, Fills
  <1>6. UNCHANGED <<state, parent, isThread, kstack, freelist, saved, proc>>
    BY DEF create_set_tid
  <1>7. nextTid[p] \in Nat /\ nextTid[p] > 0 /\ count[p] \in Int /\ Counted(p)
    BY <1>2 DEF ThreadInv, Fields, Family, Tallies, Live
  <1>8. PICK g : g = At("ready", n, 0)
    OBVIOUS
  <1>9. /\ tid' = [tid EXCEPT ![n] = nextTid[p]] /\ nextTid' = [nextTid EXCEPT ![p] = nextTid[p] + 1]
        /\ count' = [count EXCEPT ![p] = count[p] + 1] /\ Continue(c, g)
    BY <1>3, <1>5, <1>8 DEF create_set_tid
  <1>10. g \in Jobs /\ g.pc = "ready" /\ g.pc \in Filling /\ g.slot = n
    BY <1>5, <1>8, Constants DEF At, Jobs, Mains, Filling
  <1>11. /\ tid' \in [Slot -> Nat] /\ tid'[n] = nextTid[p]
         /\ \A s \in Slot \ {n} : tid'[s] = tid[s]
    BY <1>5, <1>7, <1>9 DEF ThreadInv, Fields
  <1>12. /\ nextTid' \in [Slot -> Nat] /\ nextTid'[p] = nextTid[p] + 1
         /\ \A s \in Slot \ {p} : nextTid'[s] = nextTid[s]
    BY <1>7, <1>9 DEF ThreadInv, Fields
  <1>13. /\ count' \in [Slot -> Int] /\ count'[p] = count[p] + 1
         /\ \A s \in Slot \ {p} : count'[s] = count[s]
    BY <1>7, <1>9 DEF ThreadInv, Fields
  <1>14. CallOK(p, g)'
    <2>1. Fills(p, g)'
      BY <1>5, <1>6, <1>7, <1>10, <1>11, <1>12, <1>13 DEF Fills
    <2> QED
      BY <1>4, <1>6, <1>10, <2>1 DEF CallOK
  <1>15. OneMain' /\ Calls' /\ run' \in [CPU -> Jobs]
    <2>1. parent'[p] = parent[p] /\ tid'[p] = tid[p] /\ \A s \in Slot \ {p, n} : Same(s)
      BY <1>5, <1>6, <1>11, <1>12, <1>13 DEF Same, Kept
    <2>2. saved' \in [Slot -> Jobs] /\ ~MainSaved(n)'
      BY <1>5, <1>6 DEF ThreadInv, Fields, MainSaved
    <2> QED
      BY <1>1, <1>2, <1>4, <1>6, <1>9, <1>10, <1>14, <2>1, <2>2, FillCalls
  <1>16. Fields'
    BY <1>6, <1>11, <1>12, <1>13, <1>15 DEF ThreadInv, Fields
  <1>17. Family'
    <2>1. \A s \in Slot : nextTid'[s] \in Nat /\ nextTid'[s] >= nextTid[s]
      BY <1>12 DEF ThreadInv, Fields
    <2>2. Child(n)'
      BY <1>2, <1>4, <1>5, <1>6, <1>7, <1>11, <1>12 DEF Child
    <2> QED
      BY <1>4, <1>5, <1>6, <1>11, <2>1, <2>2, FillFamily
  <1>18. ASSUME NEW s \in Slot, state'[s] \notin {"UNUSED", "EMBRYO"} PROVE Counted(s)'
    <2>1. Counted(s)
      BY <1>6, <1>18 DEF ThreadInv, Tallies
    <2>2. CASE s = p
      <3>1. ThreadsOf(p)' = ThreadsOf(p) \cup {n} /\ n \notin ThreadsOf(p)
        BY <1>5, <1>6, <1>7, <1>11 DEF ThreadsOf
      <3>2. Cardinality(ThreadsOf(p) \cup {n}) = Cardinality(ThreadsOf(p)) + 1
        BY <3>1, Sizes, FS_AddElement
      <3> QED
        BY <1>7, <1>13, <2>2, <3>1, <3>2 DEF Counted
    <2>3. CASE s # p
      <3>1. ThreadsOf(s)' = ThreadsOf(s)
        BY <1>5, <1>6, <1>11, <2>3 DEF ThreadsOf
      <3> QED
        BY <1>13, <2>1, <2>3, <3>1 DEF Counted
    <2> QED
      BY <2>2, <2>3
  <1>19. UniqueTids'
    <2>1. ASSUME NEW z \in Slot \ {n}, parent[z] = p PROVE tid[z] # nextTid[p]
      <3>1. Child(z)
        BY <2>1, Constants, ChildOf
      <3>2. tid[z] \in Nat
        BY DEF ThreadInv, Fields
      <3> QED
        BY <1>7, <2>1, <3>1, <3>2 DEF Child
    <2> SUFFICES ASSUME NEW s \in Slot, NEW z \in Slot, parent[s] = parent[z], parent[s] # None,
                        tid'[s] = tid'[z], tid'[s] # 0
                 PROVE  s = z
      BY <1>6 DEF UniqueTids
    <2>2. CASE s = n
      BY <1>5, <1>11, <2>1, <2>2
    <2>3. CASE z = n
      BY <1>5, <1>11, <2>1, <2>3
    <2>4. CASE s # n /\ z # n
      BY <1>11, <2>4 DEF ThreadInv, Tallies, UniqueTids
    <2> QED
      BY <2>2, <2>3, <2>4
  <1>20. Stacks'
    BY <1>6, StacksKept
  <1> QED
    BY <1>15, <1>16, <1>17, <1>18, <1>19, <1>20 DEF ThreadInv, Tallies

LEMMA TReady == ASSUME ThreadInv, NEW c \in CPU, make_runnable(c) PROVE ThreadInv'
  <1>1. MainAt(c) /\ run[c].pc = "ready" /\ run[c].pc \in Filling
    BY DEF make_runnable, Runs, Running, MainAt, Mains, Filling
  <1>2. PICK p \in Slot : p = proc[c] /\ state[p] \in Live
    BY <1>1, Filler
  <1>3. PICK n : n = run[c].slot
    OBVIOUS
  <1>4. Alone(p, n) /\ Fills(p, run[c]) /\ ~isThread[p]
    BY <1>1, <1>2, <1>3, Filler
  <1>5. /\ n \in Slot \ {p} /\ state[n] = "EMBRYO" /\ parent[n] = p
        /\ count[n] = 0 /\ nextTid[n] = 1 /\ saved[n].pc \notin Mains \ {"forkret"}
        /\ kstack[n] # None /\ (isThread[n] => tid[n] # 0)
    BY <1>1, <1>3, <1>4 DEF Alone, Fills
  <1>6. UNCHANGED <<parent, isThread, tid, nextTid, count, kstack, freelist, saved, proc>>
    BY DEF make_runnable
  <1>7. /\ state' \in [Slot -> States] /\ state'[n] = "RUNNABLE"
        /\ \A s \in Slot \ {n} : state'[s] = state[s]
    BY <1>3, <1>5 DEF make_runnable, ThreadInv, Fields, States
  <1>8. User \in Jobs /\ User.pc = "user" /\ User.pc \notin Filling /\ Continue(c, User)
    BY Constants DEF User, At, Jobs, Mains, Filling, make_runnable
  <1>9. CallOK(p, User)'
    BY <1>8 DEF CallOK
  <1>10. OneMain' /\ Calls' /\ run' \in [CPU -> Jobs]
    <2>1. \A s \in Slot : Same(s) /\ saved'[s] = saved[s]
      BY <1>6 DEF Same, Kept
    <2>2. saved' \in [Slot -> Jobs] /\ (~MainSaved(n)' \/ saved'[n].pc = "forkret")
      BY <1>5, <1>6 DEF ThreadInv, Fields, MainSaved
    <2> QED
      BY <1>1, <1>2, <1>4, <1>6, <1>7, <1>8, <1>9, <2>1, <2>2, FillCalls
  <1>11. Fields'
    BY <1>6, <1>7, <1>10 DEF ThreadInv, Fields
  <1>12. Family'
    <2>1. \A s \in Slot : nextTid'[s] \in Nat /\ nextTid'[s] >= nextTid[s]
      BY <1>6 DEF ThreadInv, Fields
    <2>2. Child(n)'
      <3>1. Child(n)
        BY <1>5, Constants, ChildOf
      <3>2. state'[p] \in Live
        BY <1>2, <1>5, <1>7
      <3> QED
        BY <1>5, <1>6, <3>1, <3>2 DEF Child
    <2> QED
      BY <1>4, <1>5, <1>6, <1>7, <2>1, <2>2, Constants, FillFamily
  <1>13. Tallies'
    <2>1. Counted(n)
      <3>1. ThreadsOf(n) = {}
        BY <1>4 DEF Alone, ThreadsOf
      <3> QED
        BY <1>5, <3>1, FS_EmptySet DEF Counted
    <2>2. \A s \in Slot : state'[s] \notin {"UNUSED", "EMBRYO"} => Counted(s)
      BY <1>7, <2>1 DEF ThreadInv, Tallies
    <2> QED
      BY <1>6, <2>2, TalliesKept
  <1>14. Stacks'
    BY <1>5, <1>6, <1>7, StacksKept
  <1> QED
    BY <1>10, <1>11, <1>12, <1>13, <1>14 DEF ThreadInv

-----------------------------------------------------------------------------
(* kthread_join(), kthread_exit(), exit() and wait().                      *)

\* Process p does not fill a slot after the step.
LEMMA QuietCalls ==
  ASSUME ThreadInv, NEW p \in Slot,
         \A s \in Slot \ {p}, e \in Jobs : Doing(s, e)' => Doing(s, e) \/ e.pc = "forkret",
         \A e \in Jobs : Doing(p, e)' => e.pc \notin Filling /\ CallOK(p, e)',
         \A s \in Slot \ {p}, e \in Jobs : Doing(s, e) => CallOK(s, e)'
  PROVE  Calls'
  <1>1. \A s \in Slot, e \in Jobs : Doing(s, e)' => CallOK(s, e)'
    <2> SUFFICES ASSUME NEW s \in Slot, NEW e \in Jobs, Doing(s, e)'
                 PROVE  CallOK(s, e)'
      OBVIOUS
    <2>1. e.pc = "forkret" => CallOK(s, e)'
      BY DEF CallOK, Filling
    <2> QED
      BY <2>1
  <1>2. ASSUME NEW s \in Slot, NEW t \in Slot, NEW e \in Jobs, NEW f \in Jobs, Doing(s, e)', Doing(t, f)',
               e.pc \in Filling, f.pc \in Filling, e.slot = f.slot
        PROVE  s = t
    <2>1. s # p /\ t # p /\ Doing(s, e) /\ Doing(t, f)
      BY <1>2 DEF Filling
    <2> QED
      BY <2>1, <1>2 DEF ThreadInv, Calls
  <1> QED
    BY <1>1, <1>2 DEF Calls

\* exit(), wait() and kill() test that count is not positive: it is 0 then.
LEMMA NoThreads ==
  ASSUME ThreadInv, NEW s \in Slot, state[s] \in Live, ~(count[s] > 0)
  PROVE  count[s] = 0 /\ ThreadsOf(s) = {}
  <1>1. Counted(s)
    BY DEF ThreadInv, Tallies, Live
  <1> QED
    BY <1>1, Sizes DEF Counted

LEMMA TExitZombie == ASSUME ThreadInv, NEW c \in CPU, kthread_exit_zombie(c) PROVE ThreadInv'
  <1>1. MainAt(c) /\ isThread[proc[c]]
    BY DEF kthread_exit_zombie, Runs, Running, MainAt, Mains
  <1>2. PICK p \in Slot : p = proc[c] /\ state[p] \in Live
    BY <1>1, Serving DEF Live, ThreadInv
  <1>3. UNCHANGED <<parent, isThread, tid, nextTid, count, kstack, freelist, saved, proc>>
    BY DEF kthread_exit_zombie
  <1>4. /\ state' \in [Slot -> States] /\ state'[p] = "ZOMBIE"
        /\ \A s \in Slot \ {p} : state'[s] = state[s]
    BY <1>2 DEF kthread_exit_zombie, ThreadInv, Fields, States
  <1>5. PICK g : g = At("exiting", None, 0)
    OBVIOUS
  <1>6. g \in Jobs /\ g.pc = "exiting" /\ g.pc \notin Mains /\ Continue(c, g)
    BY <1>5, Constants DEF At, Jobs, Mains, Filling, kthread_exit_zombie
  <1>7. saved' \in [Slot -> Jobs] /\ ~MainSaved(proc[c])' /\ \A s \in Slot : saved'[s] = saved[s]
    <2>1. ~MainSaved(p)'
      BY <1>4 DEF MainSaved
    <2> QED
      BY <1>2, <1>3, <2>1 DEF ThreadInv, Fields, MainSaved
  <1>8. /\ OneMain' /\ run' \in [CPU -> Jobs]
        /\ \A s \in Slot, f \in Jobs : Doing(s, f)' =>
             IF s = p THEN f = g ELSE Doing(s, f) \/ f.pc = "forkret"
    BY <1>1, <1>2, <1>3, <1>4, <1>6, <1>7, GoesOn DEF ThreadInv
  <1>9. CallOK(p, g)' /\ g.pc \notin Filling
    BY <1>6 DEF CallOK, Mains, Filling
  <1>10. \A s \in Slot \ {p}, e \in Jobs : Doing(s, e) => CallOK(s, e)'
    <2>1. PICK N \in SUBSET Slot : N = {}
      OBVIOUS
    <2>2. \A s \in Slot : Same(s) /\ Kept(s)
      BY <1>3 DEF Same, Kept
    <2>3. \A s \in Slot \ {p} : Stays(s)
      BY <1>4, <1>7 DEF Stays
    <2>4. /\ parent[p] # p => parent'[p] = parent[p] /\ tid'[p] = tid[p]
          /\ \A n \in N : parent[n] \in {None, p}
          /\ \A s \in Slot \ {p}, e \in Jobs : Doing(s, e) /\ e.pc \in Filling => e.slot \notin N
      BY <1>3, <2>1
    <2>5. /\ \A s \in Slot \ {p} : state[s] \in Live => Kept(s)
          /\ \A s \in Slot \ ({p} \cup N) : Same(s) /\ Stays(s)
      BY <2>2, <2>3
    <2>6. \A s \in Slot \ {p}, e \in Jobs : Doing(s, e) => CallOK(s, e) /\ CallOK(s, e)'
      BY <1>2, <2>4, <2>5, OthersKeep
    <2> QED
      BY <2>6
  <1>11. Calls'
    BY <1>8, <1>9, <1>10, QuietCalls
  <1>12. Fields'
    BY <1>3, <1>4, <1>7, <1>8 DEF ThreadInv, Fields
  <1>13. Family'
    <2>1. ASSUME NEW z \in Slot, parent[z] # None PROVE Child(z)'
      <3>1. Child(z) /\ parent[z] \in Slot
        BY <2>1, ChildOf
      <3>2. state'[parent[z]] \in Live
        BY <1>1, <1>2, <1>4, <3>1 DEF Child
      <3> QED
        BY <1>3, <3>1, <3>2 DEF Child
    <2>2. initproc \in Slot \ {p} /\ state'[initproc] \in Live /\ ~isThread'[initproc]
      BY <1>1, <1>2, <1>3, <1>4, Constants DEF ThreadInv, Family
    <2>3. ASSUME NEW s \in Slot
          PROVE  /\ state'[s] = "UNUSED" => parent'[s] = None
                 /\ state'[s] \notin {"UNUSED", "EMBRYO"} =>
                      /\ nextTid'[s] > 0 /\ (isThread'[s] => tid'[s] # 0)
                      /\ s # initproc => parent'[s] # None
      BY <1>2, <1>3, <1>4 DEF ThreadInv, Family, Live
    <2> QED
      BY <1>3, <2>1, <2>2, <2>3 DEF Family
  <1>14. Tallies'
    <2>1. \A s \in Slot : state'[s] \notin {"UNUSED", "EMBRYO"} => Counted(s)
      BY <1>2, <1>4 DEF ThreadInv, Tallies, Live
    <2> QED
      BY <1>3, <2>1, TalliesKept
  <1>15. Stacks'
    BY <1>2, <1>3, <1>4, StacksKept DEF Live
  <1> QED
    BY <1>8, <1>11, <1>12, <1>13, <1>14, <1>15 DEF ThreadInv

LEMMA TJoinFind ==
  ASSUME NoThreadCalls, ThreadInv, NEW c \in CPU, NEW t \in 1..MaxCreate, join_find(c, t)
  PROVE  ThreadInv'
  <1> DEFINE found == {s \in Slot : parent[s] = proc[c] /\ tid[s] = t}
  <1>1. MainAt(c)
    BY DEF join_find, MayCall, Runs, Running, MainAt, Mains
  <1>2. PICK p \in Slot : p = proc[c] /\ state[p] \in {"RUNNING", "RUNNABLE"} /\ ~MainSaved(p) /\ ~isThread[p]
    <2>1. proc[c] \in Slot /\ state[proc[c]] \in {"RUNNING", "RUNNABLE"} /\ ~MainSaved(proc[c])
      BY <1>1, Serving DEF ThreadInv
    <2>2. ~isThread[proc[c]]
      BY <2>1 DEF join_find, MayCall, NoThreadCalls, ThreadInv, Fields
    <2> QED
      BY <2>1, <2>2
  <1>3. PICK z : z = Lowest(found)
    OBVIOUS
  <1>4. PICK g : g = At("join", z, t)
    OBVIOUS
  <1>5. found # {} /\ Continue(c, g)
    BY <1>2, <1>3, <1>4 DEF join_find, Owner
  <1>6. z \in Slot /\ parent[z] = p /\ tid[z] = t
    <2>1. z \in found
      BY <1>3, <1>5, LowestIn, Constants DEF Slot
    <2> QED
      BY <1>2, <2>1
  <1>7. t \in Nat /\ t # 0
    BY Constants
  <1>8. g \in Jobs /\ g.pc = "join" /\ g.slot = z /\ g.tid = t
    BY <1>4, <1>6, <1>7, Constants DEF At, Jobs, Mains
  <1>9. UNCHANGED <<state, parent, isThread, tid, nextTid, count, kstack, freelist, saved, proc>>
    BY DEF join_find, table
  <1>10. /\ OneMain' /\ run' \in [CPU -> Jobs]
         /\ \A s \in Slot, f \in Jobs : Doing(s, f)' =>
              IF s = p THEN f = g ELSE Doing(s, f) \/ f.pc = "forkret"
    <2>1. saved' \in [Slot -> Jobs]
      BY <1>9 DEF ThreadInv, Fields
    <2>2. ~MainSaved(proc[c])'
      BY <1>2, <1>9 DEF MainSaved
    <2>3. state'[proc[c]] \in {"RUNNING", "RUNNABLE"} /\ \A s \in Slot : state'[s] = state[s] /\ saved'[s] = saved[s]
      BY <1>2, <1>9
    <2> QED
      BY <1>1, <1>2, <1>5, <1>8, <1>9, <2>1, <2>2, <2>3, GoesOn DEF ThreadInv
  <1>11. CallOK(p, g) /\ g.pc \notin Filling
    BY <1>2, <1>6, <1>7, <1>8 DEF CallOK, Joins, Filling
  <1>12. \A s \in Slot, e \in Jobs : Doing(s, e)' => Doing(s, e) \/ (e.pc \notin Filling /\ CallOK(s, e))
    <2>1. \A s \in Slot, e \in Jobs : e.pc = "forkret" => e.pc \notin Filling /\ CallOK(s, e)
      BY DEF CallOK, Filling
    <2> QED
      BY <1>10, <1>11, <2>1
  <1>13. /\ state' \in [Slot -> States] /\ saved' \in [Slot -> Jobs] /\ proc' \in [CPU -> 0..NPROC]
         /\ \A s \in Slot : Stays(s) /\ state'[s] = state[s]
    BY <1>9 DEF ThreadInv, Fields, Stays
  <1> QED
    BY <1>9, <1>10, <1>12, <1>13, Quietly

\* The process w gives back the slot of its zombie child z; a thread is counted out.
LEMMA Reaping ==
  ASSUME ThreadInv, NEW w \in Slot, NEW z \in Slot, state[w] \in Live, state[z] = "ZOMBIE", parent[z] = w,
         UNCHANGED <<isThread, tid, nextTid, saved>>,
         reap(z, w),
         \/ count' = count /\ ThreadsOf(w) = {}
         \/ count' = [count EXCEPT ![w] = @ - 1] /\ z \in ThreadsOf(w),
         OneMain', proc' \in [CPU -> 0..NPROC], run' \in [CPU -> Jobs],
         \A s \in Slot \ {w}, e \in Jobs : Doing(s, e)' => Doing(s, e) \/ e.pc = "forkret",
         \A e \in Jobs : Doing(w, e)' => e.pc \notin Filling /\ CallOK(w, e)'
  PROVE  ThreadInv'
  <1>1. w # z /\ z # initproc
    BY DEF ThreadInv, Family, Live
  <1>2. \A s \in Slot : parent[s] # z
    <2> SUFFICES ASSUME NEW s \in Slot, parent[s] = z PROVE FALSE
      OBVIOUS
    <2>1. Child(s)
      BY Constants, ChildOf
    <2> QED
      BY <2>1 DEF Child, Live
  <1>3. /\ state' = [state EXCEPT ![w] = "RUNNING", ![z] = "UNUSED"] /\ parent' = [parent EXCEPT ![z] = None]
        /\ freelist' = <<kstack[z]>> \o freelist /\ kstack' = [kstack EXCEPT ![z] = None]
    BY DEF reap
  <1>4. /\ state' \in [Slot -> States] /\ state'[w] = "RUNNING" /\ state'[z] = "UNUSED"
        /\ \A s \in Slot \ {w, z} : state'[s] = state[s]
    BY <1>3, <1>1 DEF ThreadInv, Fields, States
  <1>5. /\ parent' \in [Slot -> 0..NPROC] /\ parent'[z] = None
        /\ \A s \in Slot \ {z} : parent'[s] = parent[s]
    BY <1>3, Constants DEF ThreadInv, Fields, None
  <1>6. /\ count' \in [Slot -> Int]
        /\ \A s \in Slot \ {w} : count'[s] = count[s]
        /\ \/ count'[w] = count[w] /\ ThreadsOf(w) = {}
           \/ count'[w] = count[w] - 1 /\ z \in ThreadsOf(w)
    BY DEF ThreadInv, Fields
  <1>7. /\ StackTypes' /\ PagesOK' /\ kstack'[z] = None
        /\ \A s \in Slot \ {z} : kstack'[s] = kstack[s]
    <2>1. StackTypes /\ PagesOK /\ kstack[z] # None
      BY DEF ThreadInv, Stacks
    <2>2. StackTypes' /\ PagesOK'
      BY <1>3, <2>1, PagePushed DEF StackTypes
    <2> QED
      BY <1>3, <2>1, <2>2 DEF StackTypes
  <1>8. Stacks'
    BY <1>1, <1>4, <1>7 DEF ThreadInv, Stacks, Live
  <1>9. Fields'
    BY <1>4, <1>5, <1>6 DEF ThreadInv, Fields
  <1>10. Calls'
    <2>1. PICK N \in SUBSET Slot : N = {z}
      OBVIOUS
    <2>2. \A s \in Slot \ {w}, e \in Jobs : Doing(s, e) /\ e.pc \in Filling => e.slot \notin N
      BY <2>1 DEF ThreadInv, Calls, CallOK, Fills
    <2>3. \A s \in Slot \ {w} : Kept(s)
      BY <1>6 DEF Kept
    <2>4. \A s \in Slot \ ({w} \cup N) : Same(s) /\ Stays(s)
      BY <1>4, <1>5, <1>7, <2>1, <2>3 DEF Same, Stays
    <2>5. (parent[w] # w => parent'[w] = parent[w] /\ tid'[w] = tid[w]) /\ \A n \in N : parent[n] \in {None, w}
      BY <1>1, <1>5, <2>1
    <2>6. \A s \in Slot \ {w} : state[s] \in Live => Kept(s)
      BY <2>3
    <2>7. \A s \in Slot \ {w}, e \in Jobs : Doing(s, e) => CallOK(s, e) /\ CallOK(s, e)'
      BY <2>2, <2>4, <2>5, <2>6, OthersKeep
    <2>8. \A s \in Slot \ {w}, e \in Jobs : Doing(s, e) => CallOK(s, e)'
      BY <2>7
    <2> QED
      BY <2>8, QuietCalls
  <1>11. Family'
    <2>1. ASSUME NEW s \in Slot, parent'[s] # None PROVE Child(s)'
      <3>1. s # z /\ Child(s) /\ parent[s] \in Slot \ {z} /\ parent'[s] = parent[s]
        BY <1>2, <1>5, <2>1, ChildOf
      <3>2. PICK q \in Slot \ {z} : q = parent[s] /\ q = parent'[s]
        BY <3>1
      <3>3. state[q] \in Live /\ ~isThread[q] /\ tid[s] < nextTid[q] /\ (tid[s] # 0 => isThread[s])
        BY <3>1, <3>2 DEF Child
      <3>4. state'[q] \in Live
        BY <1>4, <3>2, <3>3 DEF Live
      <3> QED
        BY <3>2, <3>3, <3>4 DEF Child
    <2>2. state'[initproc] \in Live /\ ~isThread'[initproc]
      BY <1>1, <1>4, Constants DEF ThreadInv, Family, Live
    <2>3. ASSUME NEW s \in Slot
          PROVE  /\ state'[s] = "UNUSED" => parent'[s] = None
                 /\ state'[s] \notin {"UNUSED", "EMBRYO"} =>
                      /\ nextTid'[s] > 0 /\ (isThread'[s] => tid'[s] # 0)
                      /\ s # initproc => parent'[s] # None
      <3>1. CASE s = z
        BY <1>4, <1>5, <3>1
      <3>2. CASE s # z
        BY <1>4, <1>5, <3>2 DEF ThreadInv, Family, Live
      <3> QED
        BY <3>1, <3>2
    <2> QED
      BY <2>1, <2>2, <2>3 DEF Family
  <1>12. ASSUME NEW s \in Slot, state'[s] \notin {"UNUSED", "EMBRYO"} PROVE Counted(s)'
    <2>1. s # z /\ Counted(s)
      BY <1>4, <1>12 DEF ThreadInv, Tallies, Live
    <2>2. CASE s # w
      <3>1. ThreadsOf(s)' = ThreadsOf(s)
        BY <1>5, <2>2, Constants DEF ThreadsOf
      <3> QED
        BY <1>6, <2>1, <2>2, <3>1 DEF Counted
    <2>3. CASE s = w
      <3>1. ThreadsOf(w)' = ThreadsOf(w) \ {z}
        BY <1>5, Constants DEF ThreadsOf
      <3>2. CASE count'[w] = count[w] /\ ThreadsOf(w) = {}
        <4>1. ThreadsOf(w) \ {z} = ThreadsOf(w)
          BY <3>2
        <4> QED
          BY <2>1, <2>3, <3>1, <3>2, <4>1 DEF Counted
      <3>3. CASE count'[w] = count[w] - 1 /\ z \in ThreadsOf(w)
        <4>1. Cardinality(ThreadsOf(w) \ {z}) = Cardinality(ThreadsOf(w)) - 1
          BY <3>3, Sizes, FS_RemoveElement
        <4> QED
          BY <2>1, <2>3, <3>1, <3>3, <4>1 DEF Counted
      <3> QED
        BY <1>6, <3>2, <3>3
    <2> QED
      BY <2>2, <2>3
  <1>13. UniqueTids'
    <2> SUFFICES ASSUME NEW s \in Slot, NEW r \in Slot, parent'[s] = parent'[r], parent'[s] # None,
                        tid[s] = tid[r], tid[s] # 0
                 PROVE  s = r
      BY DEF UniqueTids
    <2>1. s # z /\ r # z
      BY <1>5
    <2> QED
      BY <1>5, <2>1 DEF ThreadInv, Tallies, UniqueTids
  <1> QED
    BY <1>9, <1>10, <1>11, <1>12, <1>13, <1>8 DEF ThreadInv, Tallies

LEMMA TJoinPoll == ASSUME ThreadInv, NEW c \in CPU, join_poll(c) PROVE ThreadInv'
  <1>1. Running(c) /\ MainAt(c) /\ run[c].pc = "join"
    BY DEF join_poll, Runs, Running, MainAt, Mains
  <1>2. PICK p \in Slot : p = proc[c] /\ state[p] \in {"RUNNING", "RUNNABLE"}
    BY <1>1, Serving DEF ThreadInv
  <1>3. PICK z : z = run[c].slot
    OBVIOUS
  <1>4. Joins(p, run[c]) /\ ~isThread[p]
    BY <1>1, <1>2, Serving, Called DEF CallOK, ThreadInv
  <1>5. z \in Slot /\ parent[z] = p /\ tid[z] # 0
    BY <1>3, <1>4 DEF Joins
  <1>6. z \in ThreadsOf(p)
    <2>1. Child(z)
      BY <1>5, Constants, ChildOf
    <2> QED
      BY <1>5, <2>1 DEF Child, ThreadsOf
  <1>7. UNCHANGED <<isThread, tid, nextTid>>
    BY DEF join_poll
  <1>8. CASE state[z] = "ZOMBIE"
    <2>1. reap(z, p)
      BY <1>2, <1>3, <1>8 DEF join_poll
    <2>2. count' = [count EXCEPT ![p] = @ - 1] /\ Continue(c, User) /\ saved' = saved /\ proc' = proc
      BY <1>2, <1>3, <1>4, <1>8 DEF join_poll, Owner
    <2>3. User \in Jobs /\ User.pc = "user" /\ User.pc \notin Filling
      BY Constants DEF User, At, Jobs, Mains, Filling
    <2>4. p # z /\ state'[p] = "RUNNING" /\ state'[z] = "UNUSED" /\ \A s \in Slot \ {p, z} : state'[s] = state[s]
      BY <1>2, <1>5, <1>8, <2>1 DEF reap, ThreadInv, Fields
    <2>5. saved' \in [Slot -> Jobs] /\ \A s \in Slot : saved'[s] = saved[s]
      BY <2>2 DEF ThreadInv, Fields
    <2>6. ~MainSaved(proc[c])'
      BY <1>2, <2>2, <2>4 DEF MainSaved
    <2>7. \A s \in Slot \ {p} : \/ state'[s] = state[s] /\ saved'[s] = saved[s]
                                \/ /\ state[s] \notin {"RUNNING", "RUNNABLE"}
                                   /\ MainSaved(s)' => saved'[s].pc = "forkret"
      BY <1>8, <2>4, <2>5 DEF MainSaved
    <2>8. /\ OneMain' /\ run' \in [CPU -> Jobs]
          /\ \A s \in Slot, f \in Jobs : Doing(s, f)' =>
               IF s = p THEN f = User ELSE Doing(s, f) \/ f.pc = "forkret"
      BY <1>1, <1>2, <2>2, <2>3, <2>4, <2>5, <2>6, <2>7, GoesOn DEF ThreadInv
    <2>9. \A e \in Jobs : Doing(p, e)' => e.pc \notin Filling /\ CallOK(p, e)'
      BY <2>3, <2>8 DEF CallOK
    <2>10. proc' \in [CPU -> 0..NPROC]
      BY <2>2 DEF ThreadInv, Fields
    <2>11. \A s \in Slot \ {p}, e \in Jobs : Doing(s, e)' => Doing(s, e) \/ e.pc = "forkret"
      BY <2>8
    <2>12. state[p] \in Live
      BY <1>2 DEF Live
    <2> QED
      BY <1>5, <1>6, <1>7, <1>8, <2>1, <2>2, <2>8, <2>9, <2>10, <2>11, <2>12, Reaping
  <1>9. CASE state[z] # "ZOMBIE"
    <2>1. state' = [state EXCEPT ![proc[c]] = "RUNNABLE"] /\ swtch(c, run[c]) /\ UNCHANGED <<parent, count, kstack, freelist>>
      BY <1>3, <1>9 DEF join_poll
    <2>2. "RUNNABLE" \in States /\ state[proc[c]] \in Live /\ "RUNNABLE" \in Live /\ run[c] \in Jobs
      BY <1>1, <1>2, RunnerSlot DEF States, Live, ThreadInv
    <2> QED
      BY <1>1, <1>7, <2>1, <2>2, GivesWay
  <1> QED
    BY <1>8, <1>9

LEMMA TWait == ASSUME ThreadInv, NEW c \in CPU, wait(c) PROVE ThreadInv'
  <1>1. Running(c) /\ MainAt(c) /\ run[c].pc = "user"
    BY DEF wait, Runs, Running, MainAt, Mains
  <1>2. PICK p \in Slot : p = proc[c] /\ state[p] \in {"RUNNING", "RUNNABLE"} /\ state[p] \in Live /\ run[c] \in Jobs
    BY <1>1, Serving DEF Live, ThreadInv
  <1>3. CASE HasThreads(p)
    BY <1>2, <1>3, Panics DEF wait, Unsupported
  <1>4. CASE ~HasThreads(p)
    <2>1. ~isThread[p] /\ count[p] = 0 /\ ThreadsOf(p) = {}
      BY <1>2, <1>4, NoThreads DEF HasThreads
    <2>2. UNCHANGED <<isThread, tid, nextTid, count>>
      BY <1>2, <1>4 DEF wait
    <2>3. CASE Zombies(p) # {}
      <3>1. PICK z : z = Lowest(Zombies(p))
        OBVIOUS
      <3>2. reap(z, p) /\ UNCHANGED <<saved, proc, run>>
        BY <1>2, <1>4, <2>3, <3>1 DEF wait
      <3>3. z \in Slot /\ state[z] = "ZOMBIE" /\ parent[z] = p
        BY <2>3, <3>1, LowestZombie
      <3>4. p # z /\ state'[p] = "RUNNING" /\ state'[z] = "UNUSED" /\ \A s \in Slot \ {p, z} : state'[s] = state[s]
        BY <1>2, <3>2, <3>3 DEF reap, ThreadInv, Fields
      <3>5. saved' \in [Slot -> Jobs] /\ (\A s \in Slot : saved'[s] = saved[s]) /\ proc' \in [CPU -> 0..NPROC]
        BY <3>2 DEF ThreadInv, Fields
      <3>6. ~MainSaved(proc[c])'
        BY <1>2, <3>2, <3>4 DEF MainSaved
      <3>7. \A s \in Slot \ {p} : \/ state'[s] = state[s] /\ saved'[s] = saved[s]
                                  \/ /\ state[s] \notin {"RUNNING", "RUNNABLE"}
                                     /\ MainSaved(s)' => saved'[s].pc = "forkret"
        BY <3>3, <3>4, <3>5 DEF MainSaved
      <3>8. Continue(c, run[c])
        BY <3>2 DEF Continue, ThreadInv, Fields
      <3>9. /\ OneMain' /\ run' \in [CPU -> Jobs]
            /\ \A s \in Slot, f \in Jobs : Doing(s, f)' =>
                 IF s = p THEN f = run[c] ELSE Doing(s, f) \/ f.pc = "forkret"
        BY <1>1, <1>2, <3>2, <3>4, <3>5, <3>6, <3>7, <3>8, GoesOn DEF ThreadInv
      <3>10. \A e \in Jobs : Doing(p, e)' => e.pc \notin Filling /\ CallOK(p, e)'
        <4>1. \A e \in Jobs : e.pc = "user" => e.pc \notin Filling /\ CallOK(p, e)'
          BY DEF CallOK, Filling
        <4> QED
          BY <1>1, <3>9, <4>1
      <3>11. \A s \in Slot \ {p}, e \in Jobs : Doing(s, e)' => Doing(s, e) \/ e.pc = "forkret"
        BY <3>9
      <3> QED
        BY <1>2, <2>1, <2>2, <3>2, <3>3, <3>5, <3>9, <3>10, <3>11, Reaping
    <2>4. CASE Zombies(p) = {}
      <3>1. PICK g : g = At("wait", None, 0)
        OBVIOUS
      <3>2. g \in Jobs /\ g.pc = "wait" /\ g.pc \notin Filling
        BY <3>1, Constants DEF At, Jobs, Mains, Filling
      <3>3. state' = [state EXCEPT ![proc[c]] = "SLEEPING"] /\ swtch(c, g) /\ UNCHANGED <<parent, kstack, freelist>>
        BY <1>2, <1>4, <2>4, <3>1 DEF wait
      <3>4. CallOK(proc[c], g)
        BY <1>2, <2>1, <3>2 DEF CallOK
      <3>5. "SLEEPING" \in States /\ state[proc[c]] \in Live /\ "SLEEPING" \in Live
        BY <1>2 DEF States, Live
      <3> QED
        BY <1>1, <2>2, <3>2, <3>3, <3>4, <3>5, GivesWay
    <2> QED
      BY <2>3, <2>4
  <1> QED
    BY <1>3, <1>4

LEMMA TExit == ASSUME ThreadInv, NEW c \in CPU, exit(c) PROVE ThreadInv'
  <1>1. Running(c) /\ MainAt(c)
    BY DEF exit, Runs, Running, MainAt, Mains
  <1>2. PICK p \in Slot : p = proc[c] /\ state[p] \in {"RUNNING", "RUNNABLE"} /\ state[p] \in Live
    BY <1>1, Serving DEF Live, ThreadInv
  <1>3. CASE HasThreads(p)
    BY <1>2, <1>3, Panics DEF exit, Unsupported
  <1>4. CASE p = initproc
    BY <1>2, <1>3, <1>4, Panics DEF exit
  <1>5. CASE ~HasThreads(p) /\ p # initproc
    <2>1. ~isThread[p] /\ ThreadsOf(p) = {}
      BY <1>2, <1>5, NoThreads DEF HasThreads
    <2>2. PICK g : g = At("zombie exit", None, 0)
      OBVIOUS
    <2>3. g \in Jobs /\ g.pc \notin Mains
      BY <2>2, Constants DEF At, Jobs, Mains, Filling
    <2>4. /\ state' = ExitStates(p) /\ parent' = Adopted(p) /\ swtch(c, g)
          /\ UNCHANGED <<isThread, tid, nextTid, count, kstack, freelist>>
      BY <1>2, <1>5, <2>2 DEF exit
    <2>5. /\ state' \in [Slot -> States] /\ state'[p] = "ZOMBIE"
          /\ \A s \in Slot \ {p} : state'[s] = state[s] \/ (state[s] = "SLEEPING" /\ state'[s] = "RUNNABLE")
      BY <1>2, <2>4, Constants DEF ExitStates, wakeup1, ThreadInv, Fields, States
    <2>6. /\ parent' \in [Slot -> 0..NPROC]
          /\ \A z \in Slot : parent'[z] = IF parent[z] = p THEN initproc ELSE parent[z]
      BY <2>4, Constants DEF Adopted, ThreadInv, Fields, Slot
    <2>7. /\ OneMain' /\ saved' \in [Slot -> Jobs] /\ proc' \in [CPU -> 0..NPROC] /\ run' \in [CPU -> Jobs]
          /\ \A s \in Slot \ {p} : saved'[s] = saved[s]
          /\ \A s \in Slot, f \in Jobs : Doing(s, f)' =>
               IF s = p THEN f = g /\ state'[s] \in {"RUNNABLE", "SLEEPING"} ELSE Doing(s, f)
      BY <1>1, <1>2, <2>3, <2>4, <2>5, Switches DEF ThreadInv
    <2>8. \A z \in Slot : parent[z] = p => tid[z] = 0
      <3> SUFFICES ASSUME NEW z \in Slot, parent[z] = p, tid[z] # 0 PROVE FALSE
        OBVIOUS
      <3>1. Child(z)
        BY Constants, ChildOf
      <3> QED
        BY <2>1, <3>1 DEF Child, ThreadsOf
    <2>9. Fields'
      BY <2>4, <2>5, <2>6, <2>7 DEF ThreadInv, Fields
    <2>10. Calls'
      <3>1. PICK N \in SUBSET Slot : N = {z \in Slot : parent[z] = p}
        OBVIOUS
      <3>2. \A s \in Slot \ {p}, e \in Jobs : Doing(s, e) /\ e.pc \in Filling => e.slot \notin N
        <4> SUFFICES ASSUME NEW s \in Slot \ {p}, NEW e \in Jobs, Doing(s, e), e.pc \in Filling
                     PROVE  e.slot \notin N
          OBVIOUS
        <4>1. Fills(s, e)
          BY DEF ThreadInv, Calls, CallOK
        <4>2. parent[e.slot] \in {None, s}
          BY <4>1 DEF Fills, Filling
        <4> QED
          BY <3>1, <4>2, Constants
      <3>3. \A s \in Slot : Kept(s)
        BY <2>4 DEF Kept
      <3>4. \A s \in Slot \ ({p} \cup N) : Same(s) /\ Stays(s)
        BY <2>4, <2>5, <2>6, <2>7, <3>1, <3>3 DEF Same, Stays
      <3>5. (parent[p] # p => parent'[p] = parent[p] /\ tid'[p] = tid[p]) /\ \A n \in N : parent[n] \in {None, p}
        BY <2>4, <2>6, <3>1
      <3>6. \A s \in Slot \ {p} : state[s] \in Live => Kept(s)
        BY <3>3
      <3>7. \A s \in Slot \ {p}, e \in Jobs : Doing(s, e) => CallOK(s, e) /\ CallOK(s, e)'
        BY <1>2, <3>2, <3>4, <3>5, <3>6, OthersKeep
      <3>8. \A s \in Slot \ {p}, e \in Jobs : Doing(s, e) => CallOK(s, e)'
        BY <3>7
      <3>9. \A e \in Jobs : ~Doing(p, e)'
        BY <2>5, <2>7
      <3>10. \A s \in Slot \ {p}, e \in Jobs : Doing(s, e)' => Doing(s, e)
        BY <2>7
      <3> QED
        BY <3>8, <3>9, <3>10, QuietCalls
    <2>11. Family'
      <3>1. state'[initproc] \in Live /\ ~isThread'[initproc] /\ nextTid[initproc] > 0
        BY <1>5, <2>4, <2>5, Constants DEF ThreadInv, Family, Live
      <3>2. ASSUME NEW z \in Slot, parent'[z] # None PROVE Child(z)'
        <4>1. CASE parent[z] = p
          <5>1. parent'[z] = initproc /\ tid'[z] = 0
            BY <2>4, <2>6, <2>8, <4>1
          <5> QED
            BY <2>4, <3>1, <5>1 DEF Child
        <4>2. CASE parent[z] # p
          <5>1. Child(z) /\ parent[z] \in Slot /\ parent'[z] = parent[z]
            BY <2>6, <3>2, <4>2, ChildOf
          <5>2. PICK q \in Slot \ {p} : q = parent[z] /\ q = parent'[z]
            BY <4>2, <5>1
          <5>3. state[q] \in Live /\ ~isThread[q] /\ tid[z] < nextTid[q] /\ (tid[z] # 0 => isThread[z])
            BY <5>1, <5>2 DEF Child
          <5>4. state'[q] \in Live
            BY <2>5, <5>2, <5>3 DEF Live
          <5> QED
            BY <2>4, <5>2, <5>3, <5>4 DEF Child
        <4> QED
          BY <4>1, <4>2
      <3>3. ASSUME NEW s \in Slot
            PROVE  /\ state'[s] = "UNUSED" => parent'[s] = None
                   /\ state'[s] \notin {"UNUSED", "EMBRYO"} =>
                        /\ nextTid'[s] > 0 /\ (isThread'[s] => tid'[s] # 0)
                        /\ s # initproc => parent'[s] # None
        <4>1. /\ state'[s] = "UNUSED" => state[s] = "UNUSED"
              /\ state'[s] \notin {"UNUSED", "EMBRYO"} => state[s] \notin {"UNUSED", "EMBRYO"}
          BY <1>2, <2>5 DEF Live
        <4>2. /\ state[s] = "UNUSED" => parent[s] = None
              /\ state[s] \notin {"UNUSED", "EMBRYO"} =>
                   /\ nextTid[s] > 0 /\ (isThread[s] => tid[s] # 0)
                   /\ s # initproc => parent[s] # None
          BY DEF ThreadInv, Family
        <4>3. parent[s] = None <=> parent'[s] = None
          BY <2>6, Constants
        <4> QED
          BY <2>4, <4>1, <4>2, <4>3
      <3> QED
        BY <3>1, <3>2, <3>3 DEF Family
    <2>12. Tallies'
      <3>1. ASSUME NEW z \in Slot
            PROVE  /\ tid'[z] # 0 /\ parent'[z] # None =>
                        isThread'[z] = isThread[z] /\ tid'[z] = tid[z] /\ parent'[z] = parent[z]
                   /\ tid[z] # 0 /\ parent[z] # None /\ isThread[z] =>
                        isThread'[z] = isThread[z] /\ tid'[z] = tid[z] /\ parent'[z] = parent[z]
        BY <2>4, <2>6, <2>8
      <3>2. \A s \in Slot : state'[s] \notin {"UNUSED", "EMBRYO"} => count'[s] = count[s] /\ Counted(s)
        BY <1>2, <2>4, <2>5 DEF ThreadInv, Tallies, Live
      <3> QED
        BY <3>1, <3>2, TalliesKept
    <2>13. Stacks'
      BY <1>2, <2>4, <2>5, StacksKept DEF Live
    <2> QED
      BY <2>7, <2>9, <2>10, <2>11, <2>12, <2>13 DEF ThreadInv
  <1> QED
    BY <1>3, <1>4, <1>5

LEMMA TSchedule == ASSUME ThreadInv, NEW c \in CPU, NEW s \in Slot, schedule(c, s) PROVE ThreadInv'
  <1>1. proc[c] = None /\ state[s] = "RUNNABLE" /\ state[s] \in Live
    BY DEF schedule, Live
  <1>2. CASE saved[s].pc \in {"zombie exit", "kthread_exit"}
    BY <1>2, Panics DEF schedule
  <1>3. CASE saved[s].pc \notin {"zombie exit", "kthread_exit"}
    <2>1. UNCHANGED <<isThread, tid, nextTid, count, saved>> /\ saved[s] \in Jobs
      BY <1>3 DEF schedule, ThreadInv, Fields
    <2>2. User \in Jobs /\ User.pc = "user" /\ User.pc \notin Filling
      BY Constants DEF User, At, Jobs, Mains, Filling
    <2>3. \A e \in Jobs : e.pc = "user" => e.pc \notin Filling /\ CallOK(s, e) /\ CallOK(s, e)'
      BY DEF CallOK, Filling
    <2>4. CASE saved[s].pc = "wait" /\ Zombies(s) # {}
      <3>1. PICK z : z = Lowest(Zombies(s))
        OBVIOUS
      <3>2. reap(z, s) /\ dispatch(c, s, User)
        BY <1>3, <2>4, <3>1 DEF schedule
      <3>3. z \in Slot /\ state[z] = "ZOMBIE" /\ parent[z] = s
        BY <2>4, <3>1, LowestZombie
      <3>4. s # z /\ state'[s] = "RUNNING" /\ state'[z] = "UNUSED" /\ \A r \in Slot \ {s, z} : state'[r] = state[r]
        BY <1>1, <3>2, <3>3 DEF reap, ThreadInv, Fields
      <3>5. /\ OneMain' /\ proc' \in [CPU -> 0..NPROC] /\ run' \in [CPU -> Jobs]
            /\ \A r \in Slot, f \in Jobs : Doing(r, f)' => Doing(r, f) \/ (r = s /\ f.pc = "user")
        <4>1. \A r \in Slot \ {s} : state'[r] = state[r] \/ (state[r] = "ZOMBIE" /\ state'[r] = "UNUSED")
          BY <3>3, <3>4
        <4>2. dispatch(c, s, IF saved[s].pc \in {"forkret", "wait"} THEN User ELSE saved[s])
          BY <2>4, <3>2
        <4> QED
          BY <1>1, <1>3, <2>1, <3>4, <4>1, <4>2, Dispatches DEF ThreadInv
      <3>6. Doing(s, saved[s]) /\ CallOK(s, saved[s]) /\ \A e \in Jobs : Doing(s, e) => e = saved[s]
        <4>1. Doing(s, saved[s])
          BY <1>1, <2>4 DEF Doing, MainSaved, Mains
        <4> QED
          BY <2>1, <4>1, DoingOne DEF ThreadInv, Calls
      <3>7. count[s] = 0 /\ ~isThread[s]
        BY <2>4, <3>6 DEF CallOK
      <3>8. ThreadsOf(s) = {}
        BY <1>1, <3>7, NoThreads
      <3>9. \A e \in Jobs : Doing(s, e)' => e.pc \notin Filling /\ CallOK(s, e)'
        <4>1. \A e \in Jobs : Doing(s, e)' => e.pc \in {"user", "wait"}
          BY <2>4, <3>5, <3>6
        <4>2. \A e \in Jobs : e.pc = "wait" => e.pc \notin Filling /\ CallOK(s, e)'
          BY <2>1, <3>7 DEF CallOK, Filling
        <4> QED
          BY <2>3, <4>1, <4>2
      <3>10. \A r \in Slot \ {s}, e \in Jobs : Doing(r, e)' => Doing(r, e) \/ e.pc = "forkret"
        BY <3>5
      <3> QED
        BY <1>1, <2>1, <3>2, <3>3, <3>5, <3>8, <3>9, <3>10, Reaping
    <2>5. CASE ~(saved[s].pc = "wait" /\ Zombies(s) # {}) /\ saved[s].pc = "wait" /\ ~GivesUp(s)
      <3>1. state' = [state EXCEPT ![s] = "SLEEPING"] /\ UNCHANGED <<parent, kstack, freelist, proc, run>>
        BY <1>3, <2>5 DEF schedule
      <3>2. /\ state' \in [Slot -> States] /\ state'[s] = "SLEEPING" /\ saved[s].pc \in Mains
            /\ \A r \in Slot \ {s} : state'[r] = state[r]
        BY <2>5, <3>1 DEF ThreadInv, Fields, States, Mains
      <3> QED
        BY <1>1, <2>1, <3>1, <3>2, Wakes DEF Dozes
    <2>6. CASE ~(saved[s].pc = "wait" /\ Zombies(s) # {}) /\ ~(saved[s].pc = "wait" /\ ~GivesUp(s))
      <3>1. /\ state' = [state EXCEPT ![s] = "RUNNING"] /\ UNCHANGED <<parent, kstack, freelist>>
            /\ dispatch(c, s, IF saved[s].pc \in {"forkret", "wait"} THEN User ELSE saved[s])
        BY <1>3, <2>6 DEF schedule
      <3>2. /\ state' \in [Slot -> States] /\ state'[s] = "RUNNING"
            /\ \A r \in Slot \ {s} : state'[r] = state[r]
        BY <3>1 DEF ThreadInv, Fields, States
      <3>3. /\ OneMain' /\ proc' \in [CPU -> 0..NPROC] /\ run' \in [CPU -> Jobs]
            /\ \A r \in Slot, f \in Jobs : Doing(r, f)' => Doing(r, f) \/ (r = s /\ f.pc = "user")
        BY <1>1, <1>3, <2>1, <3>1, <3>2, Dispatches DEF ThreadInv
      <3>4. /\ saved' \in [Slot -> Jobs]
            /\ \A r \in Slot : Stays(r) /\ (state'[r] = state[r] \/ (state[r] \in Live /\ state'[r] \in Live))
        BY <1>1, <2>1, <3>2 DEF ThreadInv, Fields, Stays, Live
      <3>5. \A r \in Slot, e \in Jobs : Doing(r, e)' => Doing(r, e) \/ (e.pc \notin Filling /\ CallOK(r, e))
        BY <2>3, <3>3
      <3> QED
        BY <2>1, <3>1, <3>2, <3>3, <3>4, <3>5, Quietly
    <2> QED
      BY <2>4, <2>5, <2>6
  <1> QED
    BY <1>2, <1>3

LEMMA TNext == ASSUME NoThreadCalls, ThreadInv, [Next]_vars PROVE ThreadInv'
  <1>1. CASE UNCHANGED vars
    BY <1>1, Stutters DEF vars, table
  <1>2. ASSUME NEW c \in CPU, NEW s \in Slot, schedule(c, s) PROVE ThreadInv'
    BY <1>2, TSchedule
  <1>3. ASSUME NEW c \in CPU, Step(c) PROVE ThreadInv'
    <2>1. CASE timer_yield(c)
      BY <2>1, TTimer
    <2>2. CASE KernelStep(c)
      BY <2>2, TAlloc, TCopyuvm, TTake, TSetTid, TReady, TJoinPoll, TExitSched DEF KernelStep
    <2>3. ASSUME NEW call \in {"fork", "kthread_create"}, allocproc(c, call) PROVE ThreadInv'
      BY <2>3, TAllocproc
    <2>4. ASSUME NEW t \in 1..MaxCreate, join_find(c, t) PROVE ThreadInv'
      BY <2>4, TJoinFind
    <2>5. CASE kthread_exit_zombie(c)
      BY <2>5, TExitZombie
    <2>6. CASE exit(c)
      BY <2>6, TExit
    <2>7. CASE wait(c)
      BY <2>7, TWait
    <2>8. ASSUME NEW z \in Slot, kill(c, z) PROVE ThreadInv'
      BY <2>8, TKill
    <2> QED
      BY <1>3, <2>1, <2>2, <2>3, <2>4, <2>5, <2>6, <2>7, <2>8 DEF Step
  <1> QED
    BY <1>1, <1>2, <1>3 DEF Next

LEMMA ThreadInvHolds == ASSUME NoThreadCalls PROVE Spec => []ThreadInv
  <1>1. ThreadInv /\ [Next]_vars => ThreadInv'
    BY TNext
  <1> QED
    BY InitThreads, <1>1, PTL DEF Spec

-----------------------------------------------------------------------------
(* Sleeping in wait().                                                     *)

\* Who sleeps in wait() has created no threads; nobody is his own parent, and the first
\* process has none.
WakeInv ==
  /\ NoLostWakeup
  /\ \A s \in Slot : state[s] = "SLEEPING" => count[s] = 0
  /\ parent[initproc] = None /\ \A s \in Slot : parent[s] # s

LEMMA InitWake == Init => WakeInv
  <1> SUFFICES ASSUME Init PROVE WakeInv
    OBVIOUS
  <1>1. \A s \in Slot : state[s] # "SLEEPING" /\ parent[s] = None
    BY DEF Init
  <1> QED
    BY <1>1, Constants DEF WakeInv, NoLostWakeup

LEMMA WakeKept ==
  ASSUME WakeInv,
         \A s \in Slot : state'[s] = "SLEEPING" =>
           state[s] = "SLEEPING" /\ count'[s] = count[s] /\ (killed'[s] => killed[s]),
         \A s, z \in Slot : state'[s] = "SLEEPING" /\ state'[z] = "ZOMBIE" /\ parent'[z] = s =>
           state[z] = "ZOMBIE" /\ parent[z] = s,
         \A s \in Slot : parent'[s] \in {parent[s], None} \/ (s # initproc /\ parent'[s] # s)
  PROVE  WakeInv'
  <1>1. ASSUME NEW s \in Slot, state'[s] = "SLEEPING" PROVE Zombies(s)' = {} /\ ~killed'[s]
    <2>1. Zombies(s) = {} /\ ~killed[s]
      BY <1>1 DEF WakeInv, NoLostWakeup
    <2>2. ASSUME NEW z \in Slot, parent'[z] = s, state'[z] = "ZOMBIE" PROVE z \in Zombies(s)
      BY <1>1, <2>2 DEF Zombies
    <2> QED
      BY <1>1, <2>1, <2>2 DEF Zombies
  <1>2. NoLostWakeup'
    BY <1>1 DEF NoLostWakeup
  <1>3. parent'[initproc] = None /\ \A s \in Slot : parent'[s] # s
    BY Constants DEF WakeInv
  <1> QED
    BY <1>2, <1>3 DEF WakeInv

\* wait() sleeps when it has found neither a zombie nor a reason to give up.
LEMMA WakeSleeps ==
  ASSUME ThreadInv, WakeInv, NEW p \in Slot, Zombies(p) = {}, ~GivesUp(p), count[p] = 0, state[p] # "ZOMBIE",
         state' = [state EXCEPT ![p] = "SLEEPING"], UNCHANGED <<parent, killed, count>>
  PROVE  WakeInv'
  <1>1. state'[p] = "SLEEPING" /\ \A s \in Slot \ {p} : state'[s] = state[s]
    BY DEF ThreadInv, Fields
  <1>2. \A s \in Slot : state'[s] = "SLEEPING" => Zombies(s) = {} /\ ~killed[s] /\ count[s] = 0
    BY <1>1 DEF WakeInv, NoLostWakeup, GivesUp
  <1>3. \A s \in Slot : Zombies(s)' = Zombies(s)
    BY <1>1 DEF Zombies
  <1> QED
    BY <1>2, <1>3 DEF WakeInv, NoLostWakeup

LEMMA WakeReaps ==
  ASSUME ThreadInv, WakeInv, NEW w \in Slot, NEW z \in Slot, state[w] \in Live, state[z] = "ZOMBIE", reap(z, w),
         \A s \in Slot \ {w} : count'[s] = count[s]
  PROVE  WakeInv'
  <1>1. w # z /\ state'[w] = "RUNNING" /\ state'[z] = "UNUSED" /\ \A s \in Slot \ {w, z} : state'[s] = state[s]
    BY DEF reap, ThreadInv, Fields, Live
  <1>2. parent'[z] = None /\ \A s \in Slot \ {z} : parent'[s] = parent[s]
    BY DEF reap, ThreadInv, Fields
  <1>3. \A s \in Slot \ {z} : killed'[s] = killed[s]
    BY DEF reap
  <1>4. \A s \in Slot : state'[s] = "SLEEPING" => s # w /\ s # z /\ state[s] = "SLEEPING"
    BY <1>1
  <1>5. \A s \in Slot : parent'[s] \in {parent[s], None}
    BY <1>2
  <1>6. \A s \in Slot : state'[s] = "ZOMBIE" => s # z /\ state[s] = "ZOMBIE" /\ parent'[s] = parent[s]
    BY <1>1, <1>2
  <1>7. \A s \in Slot : state'[s] = "SLEEPING" =>
          state[s] = "SLEEPING" /\ count'[s] = count[s] /\ (killed'[s] => killed[s])
    BY <1>3, <1>4
  <1>8. \A s, r \in Slot : state'[s] = "SLEEPING" /\ state'[r] = "ZOMBIE" /\ parent'[r] = s =>
          state[r] = "ZOMBIE" /\ parent[r] = s
    BY <1>6
  <1>9. \A s \in Slot : parent'[s] \in {parent[s], None} \/ (s # initproc /\ parent'[s] # s)
    BY <1>5
  <1> QED
    BY <1>7, <1>8, <1>9, WakeKept

LEMMA WakePanics == ASSUME WakeInv, NEW msg, panic(msg) PROVE WakeInv'
  <1>1. UNCHANGED <<state, parent, killed, count>>
    BY DEF panic, table
  <1> QED
    BY <1>1 DEF WakeInv, NoLostWakeup, Zombies

\* exit() wakes the parent, and init for the zombies that it adopts.
LEMMA WakeExit == ASSUME ThreadInv, WakeInv, NEW c \in CPU, exit(c) PROVE WakeInv'
  <1>1. PICK p \in Slot : p = proc[c]
    BY Serving DEF exit, Runs, Running, MainAt, Mains, ThreadInv
  <1>2. CASE HasThreads(p) \/ p = initproc
    BY <1>1, <1>2, WakePanics DEF exit, Unsupported
  <1>3. CASE ~HasThreads(p) /\ p # initproc
    <2>1. state' = ExitStates(p) /\ parent' = Adopted(p) /\ UNCHANGED <<killed, count>>
      BY <1>1, <1>3 DEF exit
    <2>2. \A z \in Slot : parent'[z] = IF parent[z] = p THEN initproc ELSE parent[z]
      BY <2>1 DEF Adopted
    <2> DEFINE orphan == \E z \in Slot : parent[z] = p /\ state[z] = "ZOMBIE"
    <2>3. /\ state'[p] = "ZOMBIE"
          /\ \A s \in Slot \ {p} : state'[s] = state[s] \/ (state[s] = "SLEEPING" /\ state'[s] = "RUNNABLE")
          /\ \A s \in Slot \ {p} : s = parent[p] \/ (orphan /\ s = initproc) => state'[s] # "SLEEPING"
      <3>1. state \in [Slot -> States]
        BY DEF ThreadInv, Fields
      <3>2. /\ wakeup1(state, parent[p]) \in [Slot -> States]
            /\ \A s \in Slot : /\ wakeup1(state, parent[p])[s] = state[s]
                                  \/ (state[s] = "SLEEPING" /\ wakeup1(state, parent[p])[s] = "RUNNABLE")
                               /\ s = parent[p] => wakeup1(state, parent[p])[s] # "SLEEPING"
        BY <3>1, Constants DEF wakeup1, States
      <3>3. PICK st \in [Slot -> States] :
              /\ st = wakeup1(state, parent[p])
              /\ \A s \in Slot : /\ st[s] = state[s] \/ (state[s] = "SLEEPING" /\ st[s] = "RUNNABLE")
                                 /\ s = parent[p] => st[s] # "SLEEPING"
        BY <3>2
      <3>4. PICK su \in [Slot -> States] :
              /\ su = IF orphan THEN wakeup1(st, initproc) ELSE st
              /\ \A s \in Slot : /\ su[s] = st[s] \/ (st[s] = "SLEEPING" /\ su[s] = "RUNNABLE")
                                 /\ orphan /\ s = initproc => su[s] # "SLEEPING"
        <4>1. CASE orphan
          <5>1. /\ wakeup1(st, initproc) \in [Slot -> States]
                /\ \A s \in Slot : /\ wakeup1(st, initproc)[s] = st[s]
                                      \/ (st[s] = "SLEEPING" /\ wakeup1(st, initproc)[s] = "RUNNABLE")
                                   /\ s = initproc => wakeup1(st, initproc)[s] # "SLEEPING"
            BY Constants DEF wakeup1, States
          <5> QED
            BY <4>1, <5>1
        <4>2. CASE ~orphan
          BY <4>2
        <4> QED
          BY <4>1, <4>2
      <3>5. state' = [su EXCEPT ![p] = "ZOMBIE"]
        BY <2>1, <3>3, <3>4 DEF ExitStates
      <3> QED
        BY <3>3, <3>4, <3>5
    <2>4. \A s \in Slot : state'[s] = "SLEEPING" => s # p /\ state[s] = "SLEEPING"
      BY <2>3
    <2>5. ASSUME NEW s \in Slot, NEW z \in Slot, state'[s] = "SLEEPING", state'[z] = "ZOMBIE", parent'[z] = s
          PROVE  state[z] = "ZOMBIE" /\ parent[z] = s
      <3>1. CASE z = p
        <4>1. parent'[p] = parent[p]
          BY <2>2 DEF WakeInv
        <4> QED
          BY <2>3, <2>4, <2>5, <3>1, <4>1
      <3>2. CASE z # p /\ parent[z] = p
        <4>1. state[z] = "ZOMBIE" /\ s = initproc
          BY <2>2, <2>3, <2>5, <3>2
        <4> QED
          BY <1>3, <2>3, <2>5, <3>2, <4>1
      <3>3. CASE z # p /\ parent[z] # p
        BY <2>2, <2>3, <2>5, <3>3
      <3> QED
        BY <3>1, <3>2, <3>3
    <2>6. ASSUME NEW s \in Slot
          PROVE  parent'[s] \in {parent[s], None} \/ (s # initproc /\ parent'[s] # s)
      <3>1. parent[initproc] = None
        BY DEF WakeInv
      <3> QED
        BY <2>2, <3>1, Constants
    <2> QED
      BY <2>1, <2>4, <2>5, <2>6, WakeKept
  <1> QED
    BY <1>2, <1>3

\* A thread that exits has a parent that has counted it, and so is not asleep in wait().
LEMMA WakeExitZombie == ASSUME ThreadInv, WakeInv, NEW c \in CPU, kthread_exit_zombie(c) PROVE WakeInv'
  <1>1. MainAt(c) /\ isThread[proc[c]]
    BY DEF kthread_exit_zombie, Runs, Running, MainAt, Mains
  <1>2. PICK p \in Slot : p = proc[c] /\ state[p] \in {"RUNNING", "RUNNABLE"} /\ isThread[p]
    BY <1>1, Serving DEF ThreadInv
  <1>3. UNCHANGED <<parent, killed, count>>
    BY DEF kthread_exit_zombie
  <1>4. state'[p] = "ZOMBIE" /\ \A s \in Slot \ {p} : state'[s] = state[s]
    BY <1>2 DEF kthread_exit_zombie, ThreadInv, Fields
  <1>5. ASSUME NEW s \in Slot, parent[p] = s PROVE state[s] # "SLEEPING"
    <2>1. p \in ThreadsOf(s)
      BY <1>2, <1>5 DEF ThreadInv, Family, ThreadsOf
    <2>2. Child(p)
      BY <1>5, Constants, ChildOf
    <2>3. Counted(s)
      BY <1>5, <2>2 DEF Child, Live, ThreadInv, Tallies
    <2>4. count[s] # 0
      BY <2>1, <2>3, Sizes DEF Counted
    <2> QED
      BY <2>4 DEF WakeInv
  <1>6. \A s \in Slot : state'[s] = "SLEEPING" => s # p /\ state[s] = "SLEEPING"
    BY <1>4
  <1>7. \A s, z \in Slot : state'[s] = "SLEEPING" /\ state'[z] = "ZOMBIE" /\ parent'[z] = s =>
          state[z] = "ZOMBIE" /\ parent[z] = s
    BY <1>3, <1>4, <1>5, <1>6
  <1>8. \A s \in Slot : state'[s] = "SLEEPING" =>
          state[s] = "SLEEPING" /\ count'[s] = count[s] /\ (killed'[s] => killed[s])
    BY <1>3, <1>6
  <1>9. \A s \in Slot : parent'[s] \in {parent[s], None} \/ (s # initproc /\ parent'[s] # s)
    BY <1>3
  <1> QED
    BY <1>7, <1>8, <1>9, WakeKept

LEMMA WakeWait == ASSUME ThreadInv, WakeInv, NEW c \in CPU, wait(c) PROVE WakeInv'
  <1>1. PICK p \in Slot : p = proc[c] /\ state[p] \in {"RUNNING", "RUNNABLE"} /\ state[p] \in Live
    BY Serving DEF wait, Runs, Running, MainAt, Mains, Live, ThreadInv
  <1>2. CASE HasThreads(p)
    BY <1>1, <1>2, WakePanics DEF wait, Unsupported
  <1>3. CASE ~HasThreads(p)
    <2>1. count' = count
      BY <1>1, <1>3 DEF wait
    <2>2. CASE Zombies(p) # {}
      <3>1. PICK z : z = Lowest(Zombies(p))
        OBVIOUS
      <3>2. z \in Zombies(p)
        BY <2>2, <3>1, LowestZombie
      <3>3. reap(z, p)
        BY <1>1, <1>3, <2>2, <3>1 DEF wait
      <3> QED
        BY <1>1, <2>1, <3>2, <3>3, WakeReaps DEF Zombies
    <2>3. CASE Zombies(p) = {}
      <3>1. ~GivesUp(p) /\ state' = [state EXCEPT ![p] = "SLEEPING"] /\ UNCHANGED <<parent, killed>>
        BY <1>1, <1>3, <2>3 DEF wait
      <3>2. count[p] = 0
        BY <1>1, <1>3, NoThreads DEF HasThreads
      <3> QED
        BY <1>1, <2>1, <2>3, <3>1, <3>2, WakeSleeps
    <2> QED
      BY <2>2, <2>3
  <1> QED
    BY <1>2, <1>3

LEMMA WakeSchedule == ASSUME ThreadInv, WakeInv, NEW c \in CPU, NEW s \in Slot, schedule(c, s) PROVE WakeInv'
  <1>1. state[s] = "RUNNABLE" /\ state[s] \in Live
    BY DEF schedule, Live
  <1>2. CASE saved[s].pc \in {"zombie exit", "kthread_exit"}
    BY <1>2, WakePanics DEF schedule
  <1>3. CASE saved[s].pc \notin {"zombie exit", "kthread_exit"}
    <2>1. count' = count
      BY <1>3 DEF schedule
    <2>2. CASE saved[s].pc = "wait" /\ Zombies(s) # {}
      <3>1. PICK z : z = Lowest(Zombies(s))
        OBVIOUS
      <3>2. z \in Zombies(s)
        BY <2>2, <3>1, LowestZombie
      <3>3. reap(z, s)
        BY <1>3, <2>2, <3>1 DEF schedule
      <3> QED
        BY <1>1, <2>1, <3>2, <3>3, WakeReaps DEF Zombies
    <2>3. CASE Zombies(s) = {} /\ saved[s].pc = "wait" /\ ~GivesUp(s)
      <3>1. state' = [state EXCEPT ![s] = "SLEEPING"] /\ UNCHANGED <<parent, killed>>
        BY <1>3, <2>3 DEF schedule
      <3>2. count[s] = 0
        <4>1. Doing(s, saved[s]) /\ saved[s] \in Jobs
          BY <1>1, <2>3 DEF Doing, MainSaved, Mains, ThreadInv, Fields
        <4>2. CallOK(s, saved[s])
          BY <4>1 DEF ThreadInv, Calls
        <4> QED
          BY <2>3, <4>2 DEF CallOK
      <3> QED
        BY <1>1, <2>1, <2>3, <3>1, <3>2, WakeSleeps
    <2>4. CASE ~(saved[s].pc = "wait" /\ Zombies(s) # {}) /\ ~(saved[s].pc = "wait" /\ ~GivesUp(s))
      <3>1. state' = [state EXCEPT ![s] = "RUNNING"] /\ UNCHANGED <<parent, killed>>
        BY <1>3, <2>4 DEF schedule
      <3>2. state'[s] = "RUNNING" /\ \A r \in Slot \ {s} : state'[r] = state[r]
        BY <3>1 DEF ThreadInv, Fields
      <3> QED
        BY <2>1, <3>1, <3>2, WakeKept
    <2> QED
      BY <2>2, <2>3, <2>4
  <1> QED
    BY <1>2, <1>3

LEMMA WakeKill == ASSUME ThreadInv, WakeInv, NEW c \in CPU, NEW z \in Slot, kill(c, z) PROVE WakeInv'
  <1>1. CASE HasThreads(proc[c])
    BY <1>1, WakePanics DEF kill, Unsupported
  <1>2. CASE ~HasThreads(proc[c])
    <2>1. killed' = [killed EXCEPT ![z] = TRUE] /\ state' = wakeup1(state, z) /\ UNCHANGED <<parent, count>>
      BY <1>2 DEF kill
    <2>2. /\ \A s \in Slot \ {z} : state'[s] = state[s] /\ killed'[s] = killed[s]
          /\ state'[z] # "SLEEPING" /\ (state'[z] = "ZOMBIE" => state[z] = "ZOMBIE")
      BY <2>1, Constants DEF wakeup1, ThreadInv, Fields
    <2> QED
      BY <2>1, <2>2, WakeKept
  <1> QED
    BY <1>1, <1>2

\* The steps of the running process inside fork(), kthread_create() and kthread_join().
LEMMA WakeKernel == ASSUME ThreadInv, WakeInv, NEW c \in CPU, KernelStep(c) PROVE WakeInv'
  <1>1. CASE alloc_kstack(c) \/ fork_copyuvm(c) \/ create_take_tid(c) \/ create_set_tid(c) \/ make_runnable(c)
    <2>1. MainAt(c) /\ run[c].pc \in Filling
      BY <1>1 DEF alloc_kstack, fork_copyuvm, create_take_tid, create_set_tid, make_runnable,
                  Runs, Running, MainAt, Mains, Filling
    <2>2. PICK p \in Slot, n \in Slot :
            /\ n # p /\ n # initproc
            /\ p = proc[c] /\ n = run[c].slot /\ state[n] = "EMBRYO"
            /\ state[p] \in {"RUNNING", "RUNNABLE"} /\ ~isThread[p] /\ Fills(p, run[c])
      <3>1. state[proc[c]] \in {"RUNNING", "RUNNABLE"}
        BY <2>1, Serving DEF ThreadInv
      <3> QED
        BY <2>1, <3>1, Filler DEF Alone, Fills
    <2>3. /\ killed' = killed /\ \A s \in Slot \ {n} : state'[s] = state[s] /\ parent'[s] = parent[s]
          /\ state'[n] \in {"UNUSED", "EMBRYO", "RUNNABLE"}
      BY <1>1, <2>2 DEF alloc_kstack, fork_copyuvm, create_take_tid, create_set_tid, make_runnable, ThreadInv, Fields
    <2>4. \A s \in Slot \ {n, p} : count'[s] = count[s]
      <3>1. CASE alloc_kstack(c)
        <4>1. count' = count \/ count' = [count EXCEPT ![n] = 0]
          BY <2>2, <3>1 DEF alloc_kstack
        <4> QED
          BY <4>1 DEF ThreadInv, Fields
      <3>2. CASE create_set_tid(c)
        <4>1. parent[n] = p
          BY <2>2, <3>2 DEF create_set_tid, Runs, Fills
        <4>2. count' = [count EXCEPT ![p] = @ + 1]
          BY <2>2, <3>2, <4>1 DEF create_set_tid
        <4> QED
          BY <4>2 DEF ThreadInv, Fields
      <3> QED
        BY <1>1, <3>1, <3>2 DEF fork_copyuvm, create_take_tid, make_runnable
    <2>5. parent'[n] \in {parent[n], p}
      <3>1. Owner(proc[c]) = p
        BY <2>2 DEF Owner
      <3> QED
        BY <1>1, <2>2, <3>1 DEF alloc_kstack, fork_copyuvm, create_take_tid, create_set_tid, make_runnable, ThreadInv, Fields
    <2>6. \A s \in Slot : /\ state'[s] = "SLEEPING" => s # n /\ s # p
                          /\ state'[s] = "ZOMBIE" => s # n
      BY <2>2, <2>3
    <2> QED
      BY <2>2, <2>3, <2>4, <2>5, <2>6, WakeKept
  <1>2. CASE join_poll(c)
    <2>1. MainAt(c) /\ run[c].pc = "join"
      BY <1>2 DEF join_poll, Runs, Running, MainAt, Mains
    <2>2. PICK p \in Slot : /\ p = proc[c] /\ state[p] \in {"RUNNING", "RUNNABLE"} /\ state[p] \in Live
                            /\ Joins(p, run[c]) /\ ~isThread[p]
      BY <2>1, Serving, Called DEF Live, CallOK, ThreadInv
    <2>3. PICK z \in Slot : z = run[c].slot
      BY <2>2 DEF Joins
    <2>4. CASE state[z] = "ZOMBIE"
      <3>1. reap(z, p) /\ count' = [count EXCEPT ![p] = @ - 1]
        BY <1>2, <2>2, <2>3, <2>4 DEF join_poll, Owner
      <3>2. \A s \in Slot \ {p} : count'[s] = count[s]
        BY <3>1 DEF ThreadInv, Fields
      <3> QED
        BY <2>2, <2>4, <3>1, <3>2, WakeReaps
    <2>5. CASE state[z] # "ZOMBIE"
      <3>1. state' = [state EXCEPT ![p] = "RUNNABLE"] /\ UNCHANGED <<parent, killed, count>>
        BY <1>2, <2>2, <2>3, <2>5 DEF join_poll
      <3>2. state'[p] = "RUNNABLE" /\ \A s \in Slot \ {p} : state'[s] = state[s]
        BY <3>1 DEF ThreadInv, Fields
      <3> QED
        BY <3>1, <3>2, WakeKept
    <2> QED
      BY <2>4, <2>5
  <1>3. CASE kthread_exit_sched(c)
    BY <1>3 DEF kthread_exit_sched, panic, table, WakeInv, NoLostWakeup, Zombies
  <1> QED
    BY <1>1, <1>2, <1>3 DEF KernelStep

LEMMA WakeNext == ASSUME ThreadInv, WakeInv, [Next]_vars PROVE WakeInv'
  <1>1. CASE UNCHANGED vars
    BY <1>1 DEF vars, table, WakeInv, NoLostWakeup, Zombies
  <1>2. ASSUME NEW c \in CPU, NEW s \in Slot, schedule(c, s) PROVE WakeInv'
    BY <1>2, WakeSchedule
  <1>3. ASSUME NEW c \in CPU, Step(c) PROVE WakeInv'
    <2>1. CASE timer_yield(c)
      <3>1. state' = [state EXCEPT ![proc[c]] = "RUNNABLE"] /\ UNCHANGED <<parent, killed, count>>
        BY <2>1 DEF timer_yield
      <3>2. PICK p \in Slot : p = proc[c]
        BY <2>1, RunnerSlot DEF timer_yield, ThreadInv
      <3>3. state'[p] = "RUNNABLE" /\ \A s \in Slot \ {p} : state'[s] = state[s]
        BY <3>1, <3>2 DEF ThreadInv, Fields
      <3> QED
        BY <3>1, <3>3, WakeKept
    <2>2. ASSUME NEW call \in {"fork", "kthread_create"}, allocproc(c, call) PROVE WakeInv'
      <3>1. \A s \in Slot : state'[s] \in {state[s], "EMBRYO"}
        BY <2>2 DEF allocproc, ThreadInv, Fields
      <3>2. UNCHANGED <<parent, killed, count>>
        BY <2>2 DEF allocproc
      <3> QED
        BY <3>1, <3>2, WakeKept
    <2>3. ASSUME NEW t \in 1..MaxCreate, join_find(c, t) PROVE WakeInv'
      BY <2>3 DEF join_find, table, WakeInv, NoLostWakeup, Zombies
    <2>4. ASSUME NEW z \in Slot, kill(c, z) PROVE WakeInv'
      BY <2>4, WakeKill
    <2> QED
      BY <1>3, <2>1, <2>2, <2>3, <2>4, WakeKernel, WakeExitZombie, WakeExit, WakeWait DEF Step
  <1> QED
    BY <1>1, <1>2, <1>3 DEF Next

LEMMA WakeInvHolds == ASSUME NoThreadCalls PROVE Spec => [](ThreadInv /\ WakeInv)
  <1>1. Init => ThreadInv /\ WakeInv
    BY InitThreads, InitWake
  <1>2. (ThreadInv /\ WakeInv) /\ [Next]_vars => (ThreadInv /\ WakeInv)'
    BY TNext, WakeNext
  <1> QED
    BY <1>1, <1>2, PTL DEF Spec

-----------------------------------------------------------------------------
(* The stacks in use.  kthread_exit() makes a thread a zombie before it has    *)
(* left its stack, so that a joiner on another CPU may free it: what follows   *)
(* is for the kernel without threads, or for one CPU.                          *)

OneStack == ~Threads \/ \A c, d \in CPU : c = d

\* A CPU is on the stack of the process it runs, which is RUNNING or a thread that exits.
Leaving(c) == run[c].pc = "exiting" /\ state[proc[c]] = "ZOMBIE" /\ isThread[proc[c]]
OnStack(c) == page[c] = kstack[proc[c]] /\ ((MainAt(c) /\ state[proc[c]] = "RUNNING") \/ Leaving(c))
\* The scheduler may run s next, or once fork() or kthread_create() has made it runnable.
Resumes(s) == state[s] \in {"RUNNABLE", "SLEEPING"} \/ (state[s] = "EMBRYO" /\ kstack[s] # None)

StacksInUse ==
  /\ page \in [CPU -> 0..NPAGE] /\ NoSchedPanic
  /\ \A c \in CPU : IF proc[c] = None THEN page[c] = None ELSE OnStack(c)
  /\ \A s \in Slot : Resumes(s) => saved[s].pc \in Mains

LEMMA InitInUse == Init => StacksInUse
  <1> SUFFICES ASSUME Init PROVE StacksInUse
    OBVIOUS
  <1>1. page \in [CPU -> 0..NPAGE] /\ \A c \in CPU : proc[c] = None /\ page[c] = None
    BY Constants DEF Init
  <1>2. \A s \in Slot : saved[s].pc \in Mains
    BY DEF Init, Forkret, At, Mains
  <1>3. NoSchedPanic
    BY DEF Init, NoSchedPanic
  <1> QED
    BY <1>1, <1>2, <1>3 DEF StacksInUse

\* What another CPU runs is RUNNING and not what this one runs.
LEMMA Apart ==
  ASSUME OneStack, ThreadInv, StacksInUse, NEW c \in CPU, NEW d \in CPU \ {c}, proc[d] # None
  PROVE  MainAt(d) /\ proc[d] \in Slot /\ state[proc[d]] = "RUNNING" /\ proc[d] # proc[c]
  <1>1. ~Threads
    BY DEF OneStack
  <1>2. ASSUME NEW b \in CPU, proc[b] # None
        PROVE  MainAt(b) /\ proc[b] \in Slot /\ state[proc[b]] = "RUNNING"
    <2>1. proc[b] \in Slot
      BY <1>2, Constants DEF ThreadInv, Fields, Slot, None
    <2>2. ~isThread[proc[b]]
      BY <1>1, <2>1 DEF ThreadInv, Fields
    <2>3. OnStack(b)
      BY <1>2 DEF StacksInUse
    <2> QED
      BY <2>1, <2>2, <2>3 DEF OnStack, Leaving
  <1>3. proc[d] # proc[c]
    BY <1>2 DEF ThreadInv, OneMain
  <1> QED
    BY <1>2, <1>3

\* A step of the CPU c.
LEMMA InUseKept ==
  ASSUME OneStack, ThreadInv, StacksInUse, NEW c \in CPU, page' \in [CPU -> 0..NPAGE], NoSchedPanic',
         \A d \in CPU \ {c} : proc'[d] = proc[d] /\ page'[d] = page[d] /\ run'[d] = run[d],
         \A s \in Slot : state[s] = "RUNNING" /\ s # proc[c] => state'[s] = "RUNNING" /\ kstack'[s] = kstack[s],
         IF proc'[c] = None THEN page'[c] = None ELSE OnStack(c)',
         \A s \in Slot : Resumes(s)' => (Resumes(s) /\ saved'[s] = saved[s]) \/ saved'[s].pc \in Mains
  PROVE  StacksInUse'
  <1>1. ASSUME NEW d \in CPU \ {c}, proc'[d] # None PROVE OnStack(d)'
    <2>1. PICK q \in Slot : q = proc[d] /\ q = proc'[d]
      BY <1>1, Apart
    <2>2. MainAt(d) /\ state[q] = "RUNNING" /\ q # proc[c]
      BY <1>1, <2>1, Apart
    <2>3. page[d] = kstack[q]
      BY <1>1, <2>1 DEF StacksInUse, OnStack
    <2>4. state'[q] = "RUNNING" /\ kstack'[q] = kstack[q]
      BY <2>2
    <2>5. MainAt(d)'
      BY <2>2 DEF MainAt
    <2> QED
      BY <2>1, <2>3, <2>4, <2>5 DEF OnStack
  <1>2. \A d \in CPU : IF proc'[d] = None THEN page'[d] = None ELSE OnStack(d)'
    BY <1>1 DEF StacksInUse
  <1>3. \A s \in Slot : Resumes(s)' => saved'[s].pc \in Mains
    BY DEF StacksInUse
  <1> QED
    BY <1>2, <1>3 DEF StacksInUse

\* The CPU gives up the process it runs.
LEMMA InUseSwitches ==
  ASSUME OneStack, ThreadInv, StacksInUse, NEW c \in CPU, Running(c), NEW e, swtch(c, e),
         UNCHANGED <<kstack, panicked>>,
         state'[proc[c]] \in {"RUNNABLE", "SLEEPING"} => e.pc \in Mains, state'[proc[c]] # "EMBRYO",
         \A s \in Slot \ {proc[c]} : state'[s] = state[s] \/ (state[s] = "SLEEPING" /\ state'[s] = "RUNNABLE")
  PROVE  StacksInUse'
  <1>1. proc[c] \in Slot
    BY RunnerSlot DEF ThreadInv
  <1>2. /\ \A d \in CPU \ {c} : proc'[d] = proc[d] /\ page'[d] = page[d] /\ run'[d] = run[d]
        /\ page' \in [CPU -> 0..NPAGE] /\ proc'[c] = None /\ page'[c] = None
    BY Constants DEF swtch, Continue, ThreadInv, Fields, StacksInUse
  <1>3. saved'[proc[c]] = e /\ \A s \in Slot \ {proc[c]} : saved'[s] = saved[s]
    BY <1>1 DEF swtch, ThreadInv, Fields
  <1>4. NoSchedPanic'
    BY DEF NoSchedPanic, StacksInUse
  <1>5. ASSUME NEW s \in Slot, Resumes(s)' PROVE (Resumes(s) /\ saved'[s] = saved[s]) \/ saved'[s].pc \in Mains
    BY <1>3, <1>5 DEF Resumes
  <1>6. \A s \in Slot : state[s] = "RUNNING" /\ s # proc[c] => state'[s] = "RUNNING" /\ kstack'[s] = kstack[s]
    OBVIOUS
  <1>7. IF proc'[c] = None THEN page'[c] = None ELSE OnStack(c)'
    BY <1>2
  <1> QED
    BY <1>2, <1>4, <1>5, <1>6, <1>7, InUseKept

\* The process goes on in e.
LEMMA InUseGoesOn ==
  ASSUME OneStack, ThreadInv, StacksInUse, NEW c \in CPU, MainAt(c), NEW e, e.pc \in Mains, Continue(c, e),
         UNCHANGED <<proc, page, panicked>>, state'[proc[c]] = "RUNNING", kstack'[proc[c]] = kstack[proc[c]],
         \A s \in Slot : state[s] = "RUNNING" /\ s # proc[c] => state'[s] = "RUNNING" /\ kstack'[s] = kstack[s],
         \A s \in Slot : Resumes(s)' => (Resumes(s) /\ saved'[s] = saved[s]) \/ saved'[s].pc \in Mains
  PROVE  StacksInUse'
  <1>1. PICK q \in Slot : q = proc[c] /\ q = proc'[c] /\ proc[c] # None
    <2>1. proc[c] \in Slot /\ proc[c] # None
      BY Serving, Constants DEF ThreadInv
    <2> QED
      BY <2>1
  <1>2. run'[c] = e /\ \A d \in CPU \ {c} : run'[d] = run[d]
    BY DEF Continue, ThreadInv, Fields
  <1>3. page[c] = kstack[q]
    BY <1>1 DEF StacksInUse, OnStack
  <1>4. MainAt(c)'
    BY <1>1, <1>2 DEF MainAt
  <1>5. OnStack(c)'
    BY <1>1, <1>3, <1>4 DEF OnStack
  <1>6. page' \in [CPU -> 0..NPAGE] /\ NoSchedPanic'
    BY DEF StacksInUse, NoSchedPanic
  <1>7. IF proc'[c] = None THEN page'[c] = None ELSE OnStack(c)'
    BY <1>1, <1>5
  <1> QED
    BY <1>2, <1>6, <1>7, InUseKept

\* Whoever calls or fills is RUNNING.
LEMMA CallerRuns ==
  ASSUME ThreadInv, StacksInUse, NEW c \in CPU, MainAt(c)
  PROVE  proc[c] \in Slot /\ state[proc[c]] = "RUNNING"
  <1>1. proc[c] \in Slot /\ proc[c] # None /\ run[c].pc # "exiting"
    BY Serving, Constants DEF MainAt, Mains, Filling, ThreadInv
  <1> QED
    BY <1>1 DEF StacksInUse, OnStack, Leaving

\* wait() and kthread_join() give back a slot.
LEMMA InUseReaps ==
  ASSUME OneStack, ThreadInv, StacksInUse, NEW c \in CPU, MainAt(c), NEW z \in Slot, state[z] = "ZOMBIE",
         reap(z, proc[c]), NEW e, e.pc \in Mains, Continue(c, e), UNCHANGED <<saved, proc, page, panicked>>
  PROVE  StacksInUse'
  <1>1. PICK p \in Slot : p = proc[c] /\ state[p] = "RUNNING" /\ p # z
    BY CallerRuns
  <1>2. /\ state'[p] = "RUNNING" /\ state'[z] = "UNUSED" /\ \A s \in Slot \ {p, z} : state'[s] = state[s]
        /\ \A s \in Slot \ {z} : kstack'[s] = kstack[s]
    BY <1>1 DEF reap, ThreadInv, Fields, Stacks, StackTypes
  <1>3. ASSUME NEW s \in Slot, Resumes(s)' PROVE Resumes(s)
    BY <1>2, <1>3 DEF Resumes
  <1> QED
    BY <1>1, <1>2, <1>3, InUseGoesOn

LEMMA InUsePanics ==
  ASSUME StacksInUse, NEW msg, msg \notin {"sched running", "zombie exit", "kthread_exit"}, panic(msg)
  PROVE  StacksInUse'
  <1>1. NoSchedPanic'
    BY DEF panic, NoSchedPanic
  <1>2. UNCHANGED <<state, isThread, kstack, saved, proc, page, run>>
    BY DEF panic, table
  <1> QED
    BY <1>1, <1>2 DEF StacksInUse, OnStack, Leaving, MainAt, Resumes

LEMMA InUseTimer ==
  ASSUME OneStack, ThreadInv, StacksInUse, NEW c \in CPU, timer_yield(c) PROVE StacksInUse'
  <1>1. Running(c) /\ state[proc[c]] = "RUNNING" /\ swtch(c, run[c]) /\ UNCHANGED <<kstack, panicked>>
    BY DEF timer_yield
  <1>2. PICK p \in Slot : p = proc[c] /\ p # None
    BY <1>1, RunnerSlot, Constants DEF ThreadInv
  <1>3. run[c].pc \in Mains
    BY <1>1, <1>2 DEF StacksInUse, OnStack, Leaving, MainAt
  <1>4. state'[p] = "RUNNABLE" /\ \A s \in Slot \ {p} : state'[s] = state[s]
    BY <1>2 DEF timer_yield, ThreadInv, Fields
  <1> QED
    BY <1>1, <1>2, <1>3, <1>4, InUseSwitches

\* fork() and kthread_create() fill a slot.
LEMMA InUseFilling ==
  ASSUME OneStack, ThreadInv, StacksInUse, NEW c \in CPU,
         alloc_kstack(c) \/ fork_copyuvm(c) \/ create_take_tid(c) \/ create_set_tid(c) \/ make_runnable(c)
  PROVE  StacksInUse'
  <1>1. MainAt(c) /\ run[c].pc \in Filling
    BY DEF alloc_kstack, fork_copyuvm, create_take_tid, create_set_tid, make_runnable,
           Runs, Running, MainAt, Mains, Filling
  <1>2. PICK p \in Slot, n \in Slot :
          /\ p = proc[c] /\ n = run[c].slot /\ n # p /\ state[p] = "RUNNING" /\ state[n] = "EMBRYO"
          /\ Fills(p, run[c])
    BY <1>1, CallerRuns, Filler DEF Fills
  <1>3. UNCHANGED <<proc, page, panicked>>
    BY DEF alloc_kstack, fork_copyuvm, create_take_tid, create_set_tid, make_runnable
  <1>4. \E e : Continue(c, e) /\ e.pc \in Mains
    <2>1. User.pc \in Mains /\ \A where \in Filling : \A s, t : At(where, s, t).pc \in Mains
      BY DEF User, At, Mains
    <2>2. CASE alloc_kstack(c)
      <3>1. Continue(c, User) \/ \E where \in {"copyuvm", "take_tid"} : Continue(c, At(where, n, 0))
        BY <1>2, <2>2 DEF alloc_kstack
      <3> QED
        BY <2>1, <3>1 DEF Filling
    <2>3. CASE fork_copyuvm(c) \/ create_set_tid(c) \/ make_runnable(c)
      <3>1. Continue(c, User) \/ Continue(c, At("ready", n, 0))
        BY <1>2, <2>3 DEF fork_copyuvm, create_set_tid, make_runnable
      <3> QED
        BY <2>1, <3>1 DEF Filling
    <2>4. CASE create_take_tid(c)
      <3>1. \E t : Continue(c, At("set_tid", n, t))
        BY <1>2, <2>4 DEF create_take_tid
      <3> QED
        BY <2>1, <3>1 DEF Filling
    <2> QED
      BY <2>2, <2>3, <2>4
  <1>5. /\ \A s \in Slot \ {n} : state'[s] = state[s] /\ saved'[s] = saved[s] /\ kstack'[s] = kstack[s]
        /\ state'[n] \in {"UNUSED", "EMBRYO", "RUNNABLE"}
    <2>1. state \in [Slot -> States] /\ saved \in [Slot -> Jobs] /\ kstack \in [Slot -> 0..NPAGE]
      BY DEF ThreadInv, Fields, Stacks, StackTypes
    <2>2. CASE alloc_kstack(c)
      BY <1>2, <2>1, <2>2 DEF alloc_kstack
    <2>3. CASE fork_copyuvm(c)
      BY <1>2, <2>1, <2>3 DEF fork_copyuvm
    <2>4. CASE create_take_tid(c) \/ create_set_tid(c)
      BY <1>2, <2>4 DEF create_take_tid, create_set_tid
    <2>5. CASE make_runnable(c)
      BY <1>2, <2>1, <2>5 DEF make_runnable
    <2> QED
      BY <2>2, <2>3, <2>4, <2>5
  <1>6. Resumes(n)' => (Resumes(n) /\ saved'[n] = saved[n]) \/ saved'[n].pc \in Mains
    <2>1. CASE alloc_kstack(c)
      <3>1. state'[n] = "UNUSED" \/ saved'[n] = Forkret
        BY <1>2, <2>1 DEF alloc_kstack, ThreadInv, Fields
      <3> QED
        BY <3>1 DEF Resumes, Forkret, At, Mains
    <2>2. CASE fork_copyuvm(c) \/ create_take_tid(c) \/ create_set_tid(c) \/ make_runnable(c)
      <3>1. run[c].pc \notin {"fork", "kthread_create"} /\ saved' = saved
        BY <2>2 DEF fork_copyuvm, create_take_tid, create_set_tid, make_runnable, Runs
      <3>2. Resumes(n)
        BY <1>1, <1>2, <3>1 DEF Fills, Resumes
      <3> QED
        BY <3>1, <3>2
    <2> QED
      BY <2>1, <2>2
  <1>7. \A s \in Slot \ {n} : Resumes(s)' => Resumes(s)
    BY <1>5 DEF Resumes
  <1> QED
    BY <1>1, <1>2, <1>3, <1>4, <1>5, <1>6, <1>7, InUseGoesOn

LEMMA InUseAllocproc ==
  ASSUME OneStack, ThreadInv, StacksInUse, NEW c \in CPU, NEW call \in {"fork", "kthread_create"}, allocproc(c, call)
  PROVE  StacksInUse'
  <1>1. MainAt(c) /\ UNCHANGED <<proc, page, panicked, saved, kstack>>
    BY DEF allocproc, MayCall, Runs, Running, MainAt, Mains
  <1>2. PICK p \in Slot : p = proc[c] /\ state[p] = "RUNNING"
    BY <1>1, CallerRuns
  <1>3. \E e : Continue(c, e) /\ e.pc \in Mains
    <2>1. run[c].pc \in Mains /\ \A s : At(call, s, 0).pc \in Mains
      BY <1>1 DEF MainAt, At, Mains, Filling
    <2>2. run = [run EXCEPT ![c] = run[c]]
      BY DEF ThreadInv, Fields
    <2> QED
      BY <2>1, <2>2 DEF allocproc, Continue
  <1>4. \A s \in Slot : state'[s] = state[s] \/ (state[s] = "UNUSED" /\ state'[s] = "EMBRYO")
    <2> DEFINE U == {r \in Slot : state[r] = "UNUSED"}
    <2>1. state' = state \/ (U # {} /\ state' = [state EXCEPT ![Lowest(U)] = "EMBRYO"])
      BY DEF allocproc
    <2>2. U # {} => Lowest(U) \in U
      BY LowestIn, Constants DEF Slot
    <2> QED
      BY <2>1, <2>2 DEF ThreadInv, Fields
  <1>5. \A s \in Slot : state[s] = "UNUSED" => kstack[s] = None
    BY DEF ThreadInv, Stacks
  <1>6. \A s \in Slot : Resumes(s)' => Resumes(s)
    BY <1>1, <1>4, <1>5 DEF Resumes
  <1> QED
    BY <1>1, <1>2, <1>3, <1>4, <1>6, InUseGoesOn

LEMMA InUseExitZombie ==
  ASSUME OneStack, ThreadInv, StacksInUse, NEW c \in CPU, kthread_exit_zombie(c) PROVE StacksInUse'
  <1>1. MainAt(c) /\ isThread[proc[c]] /\ UNCHANGED <<isThread, kstack, saved, proc, page, panicked>>
    BY DEF kthread_exit_zombie, Runs, Running, MainAt, Mains
  <1>2. PICK p \in Slot : p = proc[c] /\ p = proc'[c] /\ p # None
    BY <1>1, CallerRuns, Constants
  <1>3. state'[p] = "ZOMBIE" /\ \A s \in Slot \ {p} : state'[s] = state[s]
    BY <1>2 DEF kthread_exit_zombie, ThreadInv, Fields
  <1>4. run'[c].pc = "exiting" /\ \A d \in CPU \ {c} : run'[d] = run[d]
    BY DEF kthread_exit_zombie, Continue, At, ThreadInv, Fields
  <1>5. page[c] = kstack[p]
    BY <1>2 DEF StacksInUse, OnStack
  <1>6. OnStack(c)'
    BY <1>1, <1>2, <1>3, <1>4, <1>5 DEF OnStack, Leaving
  <1>7. \A s \in Slot : Resumes(s)' => Resumes(s)
    BY <1>1, <1>3 DEF Resumes
  <1>8. page' \in [CPU -> 0..NPAGE] /\ NoSchedPanic'
    BY <1>1 DEF StacksInUse, NoSchedPanic
  <1>9. IF proc'[c] = None THEN page'[c] = None ELSE OnStack(c)'
    BY <1>2, <1>6
  <1> QED
    BY <1>1, <1>2, <1>3, <1>4, <1>7, <1>8, <1>9, InUseKept

\* The process is a zombie by then: sched() finds nothing to panic about.
LEMMA InUseExitSched ==
  ASSUME OneStack, ThreadInv, StacksInUse, NEW c \in CPU, kthread_exit_sched(c) PROVE StacksInUse'
  <1>1. Running(c) /\ run[c].pc = "exiting"
    BY DEF kthread_exit_sched, Runs
  <1>2. PICK p \in Slot : p = proc[c] /\ p # None
    BY <1>1, RunnerSlot, Constants DEF ThreadInv
  <1>3. state[p] = "ZOMBIE"
    BY <1>1, <1>2 DEF StacksInUse, OnStack, Leaving, MainAt, Mains, Filling
  <1>4. swtch(c, At("kthread_exit", None, 0)) /\ UNCHANGED <<state, kstack, panicked>>
    BY <1>2, <1>3 DEF kthread_exit_sched, table
  <1> QED
    BY <1>1, <1>2, <1>3, <1>4, InUseSwitches

LEMMA InUseExit == ASSUME OneStack, ThreadInv, StacksInUse, NEW c \in CPU, exit(c) PROVE StacksInUse'
  <1>1. MainAt(c) /\ Running(c)
    BY DEF exit, Runs, Running, MainAt, Mains
  <1>2. PICK p \in Slot : p = proc[c] /\ state[p] = "RUNNING"
    BY <1>1, CallerRuns
  <1>3. CASE HasThreads(p)
    BY <1>2, <1>3, InUsePanics DEF exit, Unsupported
  <1>4. CASE ~HasThreads(p) /\ p = initproc
    BY <1>2, <1>4, InUsePanics DEF exit
  <1>5. CASE ~HasThreads(p) /\ p # initproc
    <2>1. /\ state' = ExitStates(p) /\ swtch(c, At("zombie exit", None, 0)) /\ UNCHANGED <<kstack, panicked>>
      BY <1>2, <1>5 DEF exit
    <2>2. /\ state'[p] = "ZOMBIE"
          /\ \A s \in Slot \ {p} : state'[s] = state[s] \/ (state[s] = "SLEEPING" /\ state'[s] = "RUNNABLE")
      BY <2>1, Constants DEF ExitStates, wakeup1, ThreadInv, Fields
    <2> QED
      BY <1>1, <1>2, <2>1, <2>2, InUseSwitches
  <1> QED
    BY <1>3, <1>4, <1>5

LEMMA InUseWait == ASSUME OneStack, ThreadInv, StacksInUse, NEW c \in CPU, wait(c) PROVE StacksInUse'
  <1>1. MainAt(c) /\ Running(c)
    BY DEF wait, Runs, Running, MainAt, Mains
  <1>2. PICK p \in Slot : p = proc[c] /\ state[p] = "RUNNING"
    BY <1>1, CallerRuns
  <1>3. CASE HasThreads(p)
    BY <1>2, <1>3, InUsePanics DEF wait, Unsupported
  <1>4. CASE ~HasThreads(p) /\ Zombies(p) # {}
    <2>1. PICK z : z = Lowest(Zombies(p))
      OBVIOUS
    <2>2. z \in Zombies(p)
      BY <1>4, <2>1, LowestZombie
    <2>3. reap(z, proc[c]) /\ UNCHANGED <<saved, proc, page, run, panicked>>
      BY <1>2, <1>4, <2>1 DEF wait
    <2>4. Continue(c, run[c]) /\ run[c].pc \in Mains
      BY <1>1, <2>3 DEF Continue, MainAt, ThreadInv, Fields
    <2> QED
      BY <1>1, <2>2, <2>3, <2>4, InUseReaps DEF Zombies
  <1>5. CASE ~HasThreads(p) /\ Zombies(p) = {}
    <2>1. /\ state' = [state EXCEPT ![p] = "SLEEPING"] /\ swtch(c, At("wait", None, 0))
          /\ UNCHANGED <<kstack, panicked>>
      BY <1>2, <1>5 DEF wait
    <2>2. state'[p] = "SLEEPING" /\ \A s \in Slot \ {p} : state'[s] = state[s]
      BY <2>1 DEF ThreadInv, Fields
    <2>3. At("wait", None, 0).pc \in Mains
      BY DEF At, Mains
    <2> QED
      BY <1>1, <1>2, <2>1, <2>2, <2>3, InUseSwitches
  <1> QED
    BY <1>3, <1>4, <1>5

LEMMA InUseJoinPoll == ASSUME OneStack, ThreadInv, StacksInUse, NEW c \in CPU, join_poll(c) PROVE StacksInUse'
  <1>1. MainAt(c) /\ Running(c) /\ run[c].pc = "join" /\ panicked' = panicked
    BY DEF join_poll, Runs, Running, MainAt, Mains
  <1>2. PICK p \in Slot : p = proc[c] /\ state[p] = "RUNNING"
    BY <1>1, CallerRuns
  <1>3. PICK z \in Slot : z = run[c].slot
    BY <1>1, Serving, Called DEF CallOK, Joins, ThreadInv
  <1>4. CASE state[z] = "ZOMBIE"
    <2>1. reap(z, proc[c]) /\ Continue(c, User) /\ UNCHANGED <<saved, proc, page>> /\ User.pc \in Mains
      BY <1>3, <1>4 DEF join_poll, User, At, Mains
    <2> QED
      BY <1>1, <1>4, <2>1, InUseReaps
  <1>5. CASE state[z] # "ZOMBIE"
    <2>1. state' = [state EXCEPT ![p] = "RUNNABLE"] /\ swtch(c, run[c]) /\ kstack' = kstack
      BY <1>2, <1>3, <1>5 DEF join_poll
    <2>2. state'[p] = "RUNNABLE" /\ \A s \in Slot \ {p} : state'[s] = state[s]
      BY <2>1 DEF ThreadInv, Fields
    <2> QED
      BY <1>1, <1>2, <2>1, <2>2, InUseSwitches DEF MainAt
  <1> QED
    BY <1>4, <1>5

LEMMA InUseJoinFind ==
  ASSUME OneStack, ThreadInv, StacksInUse, NEW c \in CPU, NEW t \in 1..MaxCreate, join_find(c, t)
  PROVE  StacksInUse'
  <1>1. MainAt(c) /\ UNCHANGED <<proc, page, panicked, saved, kstack, state>>
    BY DEF join_find, MayCall, Runs, Running, MainAt, Mains, table
  <1>2. PICK p \in Slot : p = proc[c] /\ state[p] = "RUNNING"
    BY <1>1, CallerRuns
  <1>3. \E e : Continue(c, e) /\ e.pc \in Mains
    BY DEF join_find, At, Mains
  <1>4. \A s \in Slot : Resumes(s)' => Resumes(s)
    BY <1>1 DEF Resumes
  <1> QED
    BY <1>1, <1>2, <1>3, <1>4, InUseGoesOn

LEMMA InUseKill ==
  ASSUME OneStack, ThreadInv, StacksInUse, NEW c \in CPU, NEW z \in Slot, kill(c, z) PROVE StacksInUse'
  <1>1. MainAt(c)
    BY DEF kill, Runs, Running, MainAt, Mains
  <1>2. PICK p \in Slot : p = proc[c] /\ state[p] = "RUNNING"
    BY <1>1, CallerRuns
  <1>3. CASE HasThreads(p)
    BY <1>2, <1>3, InUsePanics DEF kill, Unsupported
  <1>4. CASE ~HasThreads(p)
    <2>1. state' = wakeup1(state, z) /\ UNCHANGED <<kstack, saved, proc, page, run, panicked>>
      BY <1>2, <1>4 DEF kill
    <2>2. \A s \in Slot : state'[s] = state[s] \/ (state[s] = "SLEEPING" /\ state'[s] = "RUNNABLE")
      BY <2>1 DEF wakeup1, ThreadInv, Fields
    <2>3. Continue(c, run[c]) /\ run[c].pc \in Mains
      BY <1>1, <2>1 DEF Continue, MainAt, ThreadInv, Fields
    <2>4. \A s \in Slot : Resumes(s)' => Resumes(s)
      BY <2>1, <2>2 DEF Resumes
    <2>5. state'[p] = "RUNNING"
      BY <1>2, <2>2
    <2>6. \A s \in Slot : state[s] = "RUNNING" => state'[s] = "RUNNING"
      BY <2>2
    <2> QED
      BY <1>1, <1>2, <2>1, <2>3, <2>4, <2>5, <2>6, InUseGoesOn
  <1> QED
    BY <1>3, <1>4

\* What the scheduler resumes is in a system call, in user space or new: nobody who has
\* exited is RUNNABLE.
LEMMA InUseSchedule ==
  ASSUME OneStack, ThreadInv, StacksInUse, NEW c \in CPU, NEW s \in Slot, schedule(c, s) PROVE StacksInUse'
  <1>1. state[s] = "RUNNABLE" /\ proc[c] = None /\ s # None
    BY Constants DEF schedule
  <1>2. saved[s].pc \in Mains
    BY <1>1 DEF StacksInUse, Resumes
  <1>3. saved[s].pc \notin {"zombie exit", "kthread_exit"}
    BY <1>2 DEF Mains, Filling
  <1>4. UNCHANGED <<saved, panicked>>
    BY <1>3 DEF schedule
  <1>5. NoSchedPanic'
    BY <1>4 DEF StacksInUse, NoSchedPanic
  <1>6. CASE saved[s].pc = "wait" /\ Zombies(s) = {} /\ ~GivesUp(s)
    <2>1. state' = [state EXCEPT ![s] = "SLEEPING"] /\ UNCHANGED <<kstack, proc, page, run>>
      BY <1>3, <1>6 DEF schedule
    <2>2. state'[s] = "SLEEPING" /\ \A r \in Slot \ {s} : state'[r] = state[r]
      BY <2>1 DEF ThreadInv, Fields
    <2>3. \A r \in Slot : Resumes(r)' => Resumes(r)
      BY <1>1, <2>1, <2>2 DEF Resumes
    <2>4. page' \in [CPU -> 0..NPAGE] /\ proc'[c] = None /\ page'[c] = None
      BY <1>1, <2>1 DEF StacksInUse
    <2> QED
      BY <1>1, <1>4, <1>5, <2>1, <2>2, <2>3, <2>4, InUseKept
  <1>7. CASE ~(saved[s].pc = "wait" /\ Zombies(s) = {} /\ ~GivesUp(s))
    <2>1. PICK e : /\ dispatch(c, s, e)
                   /\ e.pc \in Mains
      <3>1. PICK e : e = IF saved[s].pc \in {"forkret", "wait"} THEN User ELSE saved[s]
        OBVIOUS
      <3>2. e.pc \in Mains
        BY <1>2, <3>1 DEF User, At, Mains
      <3>3. dispatch(c, s, e)
        <4>1. CASE saved[s].pc = "wait" /\ Zombies(s) # {}
          <5>1. dispatch(c, s, User)
            BY <1>3, <4>1 DEF schedule
          <5> QED
            BY <3>1, <4>1, <5>1
        <4>2. CASE ~(saved[s].pc = "wait" /\ Zombies(s) # {})
          <5>1. ~(saved[s].pc = "wait" /\ ~GivesUp(s))
            BY <1>7, <4>2
          <5>2. dispatch(c, s, IF saved[s].pc \in {"forkret", "wait"} THEN User ELSE saved[s])
            BY <1>3, <4>2, <5>1 DEF schedule
          <5> QED
            BY <3>1, <5>2
        <4> QED
          BY <4>1, <4>2
      <3> QED
        BY <3>2, <3>3
    <2>2. /\ state'[s] = "RUNNING" /\ kstack'[s] = kstack[s]
          /\ \A r \in Slot \ {s} : \/ state'[r] = state[r] /\ kstack'[r] = kstack[r]
                                   \/ state[r] = "ZOMBIE" /\ state'[r] = "UNUSED"
      <3>1. CASE saved[s].pc = "wait" /\ Zombies(s) # {}
        <4>1. PICK z : z = Lowest(Zombies(s))
          OBVIOUS
        <4>2. z \in Slot /\ state[z] = "ZOMBIE"
          BY <3>1, <4>1, LowestZombie
        <4>3. reap(z, s)
          BY <1>3, <3>1, <4>1 DEF schedule
        <4> QED
          BY <1>1, <4>2, <4>3 DEF reap, ThreadInv, Fields, Stacks, StackTypes
      <3>2. CASE ~(saved[s].pc = "wait" /\ Zombies(s) # {})
        <4>1. state' = [state EXCEPT ![s] = "RUNNING"] /\ kstack' = kstack
          BY <1>3, <1>7, <3>2 DEF schedule
        <4> QED
          BY <4>1 DEF ThreadInv, Fields
      <3> QED
        BY <3>1, <3>2
    <2>3. /\ proc'[c] = s /\ page'[c] = kstack[s] /\ run'[c] = e /\ page' \in [CPU -> 0..NPAGE]
          /\ \A d \in CPU \ {c} : proc'[d] = proc[d] /\ page'[d] = page[d] /\ run'[d] = run[d]
      BY <2>1 DEF dispatch, Continue, ThreadInv, Fields, Stacks, StackTypes, StacksInUse
    <2>4. OnStack(c)'
      <3>1. MainAt(c)'
        BY <1>1, <2>1, <2>3 DEF MainAt
      <3> QED
        BY <2>2, <2>3, <3>1 DEF OnStack
    <2>5. \A r \in Slot : Resumes(r)' => Resumes(r)
      BY <2>2 DEF Resumes
    <2>6. IF proc'[c] = None THEN page'[c] = None ELSE OnStack(c)'
      BY <1>1, <2>3, <2>4
    <2> QED
      BY <1>1, <1>4, <1>5, <2>2, <2>3, <2>5, <2>6, InUseKept
  <1> QED
    BY <1>6, <1>7

LEMMA InUseNext == ASSUME OneStack, ThreadInv, StacksInUse, [Next]_vars PROVE StacksInUse'
  <1>1. CASE UNCHANGED vars
    BY <1>1 DEF vars, table, StacksInUse, NoSchedPanic, OnStack, Leaving, MainAt, Resumes
  <1>2. ASSUME NEW c \in CPU, NEW s \in Slot, schedule(c, s) PROVE StacksInUse'
    BY <1>2, InUseSchedule
  <1>3. ASSUME NEW c \in CPU, Step(c) PROVE StacksInUse'
    <2>1. CASE KernelStep(c)
      BY <2>1, InUseFilling, InUseJoinPoll, InUseExitSched DEF KernelStep
    <2>2. ASSUME NEW call \in {"fork", "kthread_create"}, allocproc(c, call) PROVE StacksInUse'
      BY <2>2, InUseAllocproc
    <2>3. ASSUME NEW t \in 1..MaxCreate, join_find(c, t) PROVE StacksInUse'
      BY <2>3, InUseJoinFind
    <2>4. ASSUME NEW z \in Slot, kill(c, z) PROVE StacksInUse'
      BY <2>4, InUseKill
    <2> QED
      BY <1>3, <2>1, <2>2, <2>3, <2>4, InUseTimer, InUseExitZombie, InUseExit, InUseWait DEF Step
  <1> QED
    BY <1>1, <1>2, <1>3 DEF Next

LEMMA StacksInUseHolds == ASSUME NoThreadCalls, OneStack PROVE Spec => [](ThreadInv /\ StacksInUse)
  <1>1. Init => ThreadInv /\ StacksInUse
    BY InitThreads, InitInUse
  <1>2. (ThreadInv /\ StacksInUse) /\ [Next]_vars => (ThreadInv /\ StacksInUse)'
    BY TNext, InUseNext
  <1> QED
    BY <1>1, <1>2, PTL DEF Spec

\* Which CPU is on which stack.
LEMMA InUseDiffers ==
  ASSUME OneStack, ThreadInv, StacksInUse, NEW c \in CPU, proc[c] # None
  PROVE  /\ proc[c] \in Slot /\ page[c] = kstack[proc[c]] /\ page[c] # None
         /\ \A d \in CPU \ {c} : page[d] # page[c]
  <1>1. ASSUME NEW b \in CPU, proc[b] # None
        PROVE  proc[b] \in Slot /\ page[b] = kstack[proc[b]] /\ kstack[proc[b]] # None
    <2>1. PICK p \in Slot : p = proc[b]
      BY <1>1, Constants DEF ThreadInv, Fields, Slot, None
    <2>2. page[b] = kstack[p] /\ state[p] \in {"RUNNING", "ZOMBIE"}
      BY <1>1, <2>1 DEF StacksInUse, OnStack, Leaving
    <2>3. kstack[p] # None
      BY <2>2 DEF ThreadInv, Stacks
    <2> QED
      BY <2>1, <2>2, <2>3
  <1>2. ASSUME NEW d \in CPU \ {c}, page[d] = page[c] PROVE FALSE
    <2>1. proc[d] # None
      BY <1>1, <1>2 DEF StacksInUse
    <2>2. proc[d] # proc[c]
      BY <2>1, Apart
    <2>3. \A s, z \in Slot : kstack[s] = kstack[z] /\ kstack[s] # None => s = z
      BY DEF ThreadInv, Stacks, PagesOK
    <2> QED
      BY <1>1, <1>2, <2>1, <2>2, <2>3
  <1> QED
    BY <1>1, <1>2

-----------------------------------------------------------------------------
(* Threads that call.  A thread that forks leaves its child without a living   *)
(* parent when it exits, and threads that create and join race for thread_count *)
(* and next_tid, so ThreadInv does not hold.  LineageInv does, for every        *)
(* ThreadsCall: what a call that fills a slot relies on (Crew), and that init   *)
(* and the parents of threads live and are no threads (Kin), and everybody's    *)
(* parent unless threads fork.                                                  *)

NoThreadForks == ~Threads \/ "fork" \notin ThreadsCall
Rooted(z) == isThread[z] \/ NoThreadForks

Raises(s, e) ==
  /\ e.slot \in Slot /\ state[e.slot] = "EMBRYO"
  /\ e.pc \in {"kthread_create", "take_tid", "set_tid"} => Threads
  /\ e.pc \in {"fork", "kthread_create", "copyuvm", "take_tid"} => parent[e.slot] = None
  /\ e.pc \notin {"fork", "kthread_create"} => saved[e.slot].pc \notin Mains \ {"forkret"}
  /\ e.pc \in {"fork", "copyuvm"} /\ isThread[s] => ~NoThreadForks
  /\ e.pc = "copyuvm" => ~isThread[e.slot]
  /\ e.pc = "set_tid" => isThread[e.slot]
  /\ e.pc \in {"set_tid", "ready"} => IF isThread[e.slot] THEN parent[e.slot] # None ELSE parent[e.slot] = s
Crew ==
  /\ \A s \in Slot, e \in Jobs : Doing(s, e) =>
       (e.pc \in Filling => Raises(s, e)) /\ (e.pc = "join" => e.slot \in Slot)
  /\ \A s, t \in Slot, e, f \in Jobs :
       Doing(s, e) /\ Doing(t, f) /\ e.pc \in Filling /\ f.pc \in Filling /\ e.slot = f.slot => s = t
Kin ==
  /\ state[initproc] \in Live /\ ~isThread[initproc]
  /\ \A s \in Slot : state[s] = "UNUSED" => parent[s] = None
  /\ \A s \in Slot \ {initproc} : state[s] \notin {"UNUSED", "EMBRYO"} => parent[s] # None
  /\ \A z \in Slot : Rooted(z) /\ parent[z] # None => state[parent[z]] \in Live /\ ~isThread[parent[z]]

LineageInv == Fields /\ OneMain /\ Crew /\ Kin

\* Who becomes an orphan in a step is left behind by a thread that exits.
LeftByThread ==
  \A s \in Slot \ {initproc} : Orphan(s)' /\ ~Orphan(s) =>
    isThread[parent[s]] /\ state[parent[s]] \in Live /\ state'[parent[s]] = "ZOMBIE"

LEMMA RootedParent ==
  ASSUME LineageInv, NEW z \in Slot, Rooted(z), parent[z] # None
  PROVE  parent[z] \in Slot /\ state[parent[z]] \in Live /\ ~isThread[parent[z]]
  <1>1. parent[z] \in 0..NPROC
    BY DEF LineageInv, Fields
  <1> QED
    BY <1>1 DEF LineageInv, Kin, Slot, None

LEMMA InitLineage == Init => LineageInv
  <1> SUFFICES ASSUME Init PROVE LineageInv
    OBVIOUS
  <1>1. Fields /\ OneMain
    BY InitThreads DEF ThreadInv
  <1>2. \A s \in Slot, e \in Jobs : Doing(s, e) => e.pc = "forkret"
    <2>1. (\A c \in CPU : ~MainAt(c)) /\ Forkret.pc = "forkret"
      BY DEF Init, MainAt, Forkret, At
    <2> QED
      BY <2>1 DEF Init, Doing
  <1>3. Crew
    BY <1>2 DEF Crew, Filling
  <1>4. Kin
    BY Constants DEF Init, Kin, Live
  <1> QED
    BY <1>1, <1>3, <1>4 DEF LineageInv

\* A filler may rely on its slot as long as that stays what it is.
LEMMA RaisesKept ==
  ASSUME NEW s \in Slot, NEW e \in Jobs, Raises(s, e), Stays(e.slot),
         isThread'[s] = isThread[s], isThread'[e.slot] = isThread[e.slot],
         parent'[e.slot] = parent[e.slot] \/ (isThread[e.slot] /\ parent[e.slot] # None /\ parent'[e.slot] # None)
  PROVE  Raises(s, e)'
  BY DEF Raises, Stays

\* The calls after a step of p: the others go on, and nobody fills the slot of p.
LEMMA CrewKept ==
  ASSUME LineageInv, NEW p \in Slot,
         \A s \in Slot \ {p}, e \in Jobs : Doing(s, e)' => Doing(s, e) \/ e.pc = "forkret",
         \A s \in Slot \ {p}, e \in Jobs : Doing(s, e) /\ e.pc \in Filling => Raises(s, e)',
         \A e \in Jobs : Doing(p, e)' =>
           /\ e.pc \in Filling => Raises(p, e)'
           /\ e.pc = "join" => e.slot \in Slot
           /\ e.pc \in Filling => \A s \in Slot \ {p}, f \in Jobs :
                Doing(s, f) /\ f.pc \in Filling => f.slot # e.slot,
         \A e, f \in Jobs : Doing(p, e)' /\ Doing(p, f)' => e = f
  PROVE  Crew'
  <1>1. ASSUME NEW s \in Slot, NEW e \in Jobs, Doing(s, e)'
        PROVE  (e.pc \in Filling => Raises(s, e)') /\ (e.pc = "join" => e.slot \in Slot)
    <2>1. CASE s = p
      BY <1>1, <2>1
    <2>2. CASE s # p
      <3>1. Doing(s, e) \/ e.pc = "forkret"
        BY <1>1, <2>2
      <3> QED
        BY <2>2, <3>1 DEF LineageInv, Crew, Filling
    <2> QED
      BY <2>1, <2>2
  <1>2. ASSUME NEW s \in Slot, NEW t \in Slot, NEW e \in Jobs, NEW f \in Jobs, Doing(s, e)', Doing(t, f)',
               e.pc \in Filling, f.pc \in Filling, e.slot = f.slot
        PROVE  s = t
    <2>1. (s # p => Doing(s, e)) /\ (t # p => Doing(t, f))
      BY <1>2 DEF Filling
    <2>2. CASE s # p /\ t # p
      BY <1>2, <2>1, <2>2 DEF LineageInv, Crew
    <2>3. CASE s = p /\ t # p
      BY <1>2, <2>1, <2>3
    <2>4. CASE s # p /\ t = p
      BY <1>2, <2>1, <2>4
    <2> QED
      BY <2>2, <2>3, <2>4
  <1> QED
    BY <1>1, <1>2 DEF Crew

\* Processes move between the states of life; no call begins that fills a slot.
LEMMA LineageQuiet ==
  ASSUME LineageInv, UNCHANGED <<parent, isThread>>,
         tid' \in [Slot -> Nat], nextTid' \in [Slot -> Nat], count' \in [Slot -> Int], state' \in [Slot -> States],
         \A s \in Slot : Stays(s) /\ (state'[s] = state[s] \/ (state[s] \in Live /\ state'[s] \in Live)),
         OneMain', saved' \in [Slot -> Jobs], proc' \in [CPU -> 0..NPROC], run' \in [CPU -> Jobs],
         \A s \in Slot, e \in Jobs : Doing(s, e)' =>
           Doing(s, e) \/ (e.pc \notin Filling /\ (e.pc = "join" => e.slot \in Slot))
  PROVE  LineageInv' /\ LeftByThread
  <1>1. Fields'
    BY DEF LineageInv, Fields
  <1>2. ASSUME NEW s \in Slot, NEW e \in Jobs, Doing(s, e)'
        PROVE  (e.pc \in Filling => Raises(s, e)') /\ (e.pc = "join" => e.slot \in Slot)
    <2>1. CASE Doing(s, e)
      <3>1. (e.pc \in Filling => Raises(s, e)) /\ (e.pc = "join" => e.slot \in Slot)
        BY <2>1 DEF LineageInv, Crew
      <3>2. ASSUME e.pc \in Filling PROVE Raises(s, e)'
        <4>1. Raises(s, e) /\ e.slot \in Slot
          BY <3>1, <3>2 DEF Raises
        <4> QED
          BY <4>1, RaisesKept
      <3> QED
        BY <3>1, <3>2
    <2>2. CASE e.pc \notin Filling /\ (e.pc = "join" => e.slot \in Slot)
      BY <2>2
    <2> QED
      BY <1>2, <2>1, <2>2
  <1>3. Crew'
    <2>1. \A s \in Slot, e \in Jobs : Doing(s, e)' /\ e.pc \in Filling => Doing(s, e)
      OBVIOUS
    <2> QED
      BY <1>2, <2>1 DEF LineageInv, Crew
  <1>4. Kin'
    <2>1. state'[initproc] \in Live /\ ~isThread'[initproc]
      BY Constants DEF LineageInv, Kin
    <2>2. \A s \in Slot : /\ state'[s] = "UNUSED" => parent'[s] = None
                          /\ s # initproc /\ state'[s] \notin {"UNUSED", "EMBRYO"} => parent'[s] # None
      BY DEF LineageInv, Kin, Live
    <2>3. ASSUME NEW z \in Slot, Rooted(z)', parent'[z] # None
          PROVE  state'[parent'[z]] \in Live /\ ~isThread'[parent'[z]]
      <3>1. parent[z] \in Slot /\ state[parent[z]] \in Live /\ ~isThread[parent[z]]
        BY <2>3, RootedParent DEF Rooted
      <3> QED
        BY <3>1
    <2> QED
      BY <2>1, <2>2, <2>3 DEF Kin
  <1>5. LeftByThread
    <2> SUFFICES ASSUME NEW s \in Slot \ {initproc}, Orphan(s)' PROVE Orphan(s)
      BY DEF LeftByThread
    <2>1. state[s] \notin {"UNUSED", "EMBRYO"} /\ parent' = parent
      BY DEF Orphan, Live
    <2>2. parent[s] \in 0..NPROC
      BY DEF LineageInv, Fields
    <2>3. parent[s] # None => parent[s] \in Slot
      BY <2>2 DEF Slot, None
    <2> QED
      BY <2>1, <2>3 DEF Orphan
  <1> QED
    BY <1>1, <1>3, <1>4, <1>5 DEF LineageInv

\* A process gives up its CPU: it is preempted, polls, sleeps or was an exit.
LEMMA LineageGivesWay ==
  ASSUME LineageInv, NEW c \in CPU, Running(c), NEW e \in Jobs, swtch(c, e),
         UNCHANGED <<parent, isThread, tid, nextTid, count>>,
         NEW v \in States, state' = [state EXCEPT ![proc[c]] = v],
         e.pc \in Mains => MainAt(c) /\ (e = run[c] \/ e.pc = "wait"),
         v = state[proc[c]] \/ (state[proc[c]] \in Live /\ v \in Live),
         MainAt(c) \/ v \in {state[proc[c]], "RUNNABLE"}
  PROVE  LineageInv' /\ LeftByThread
  <1>1. proc[c] \in Slot
    BY RunnerSlot DEF LineageInv
  <1> DEFINE p == proc[c]
  <1>2. /\ state' \in [Slot -> States] /\ state'[p] = v
        /\ \A s \in Slot \ {p} : state'[s] = state[s]
    BY <1>1 DEF LineageInv, Fields
  <1>3. /\ OneMain' /\ saved' \in [Slot -> Jobs] /\ proc' \in [CPU -> 0..NPROC] /\ run' \in [CPU -> Jobs]
        /\ saved'[p] = e /\ \A s \in Slot \ {p} : saved'[s] = saved[s]
        /\ \A s \in Slot, f \in Jobs : Doing(s, f)' =>
             IF MainAt(c) /\ s = p THEN f = e /\ state'[s] \in {"RUNNABLE", "SLEEPING"} ELSE Doing(s, f)
    BY <1>2, Switches DEF LineageInv
  <1>4. MainAt(c) => Doing(p, run[c]) /\ state[p] \in Live
    BY Serving DEF Live, LineageInv
  <1> HIDE DEF p
  <1>5. ASSUME NEW s \in Slot, NEW f \in Jobs, Doing(s, f)'
        PROVE  Doing(s, f) \/ (f.pc \notin Filling /\ (f.pc = "join" => f.slot \in Slot))
    <2>1. CASE MainAt(c) /\ s = p
      <3>1. f = e
        BY <1>3, <1>5, <2>1
      <3>2. CASE e = run[c]
        BY <3>1, <3>2, <2>1, <1>4
      <3>3. CASE e.pc \notin Mains \/ e.pc = "wait"
        BY <3>1, <3>3 DEF Mains, Filling
      <3> QED
        BY <3>2, <3>3
    <2>2. CASE ~(MainAt(c) /\ s = p)
      BY <1>3, <1>5, <2>2
    <2> QED
      BY <2>1, <2>2
  <1>6. \A s \in Slot : Stays(s) /\ (state'[s] = state[s] \/ (state[s] \in Live /\ state'[s] \in Live))
    <2>1. Stays(p)
      BY <1>2, <1>3, <1>4 DEF Stays, Live, p
    <2>2. state'[p] = state[p] \/ (state[p] \in Live /\ state'[p] \in Live)
      BY <1>2 DEF p
    <2>3. \A s \in Slot \ {p} : Stays(s) /\ state'[s] = state[s]
      BY <1>2, <1>3 DEF Stays
    <2> QED
      BY <2>1, <2>2, <2>3
  <1>7. tid' \in [Slot -> Nat] /\ nextTid' \in [Slot -> Nat] /\ count' \in [Slot -> Int]
    BY DEF LineageInv, Fields
  <1> QED
    BY <1>2, <1>3, <1>5, <1>6, <1>7, LineageQuiet

\* Processes are woken, sleep on or are left alone.
LEMMA LineageDozes ==
  ASSUME LineageInv, Dozes, UNCHANGED <<tid, nextTid, count>>
  PROVE  LineageInv' /\ LeftByThread
  <1>1. /\ OneMain' /\ saved' \in [Slot -> Jobs] /\ proc' \in [CPU -> 0..NPROC] /\ run' \in [CPU -> Jobs]
        /\ \A s \in Slot : Stays(s) /\ (state'[s] = state[s] \/ (state[s] \in Live /\ state'[s] \in Live))
        /\ \A s \in Slot, e \in Jobs : Doing(s, e)' => Doing(s, e)
    BY Dozing DEF LineageInv
  <1>2. tid' \in [Slot -> Nat] /\ nextTid' \in [Slot -> Nat] /\ count' \in [Slot -> Int]
    BY DEF LineageInv, Fields
  <1> QED
    BY <1>1, <1>2, LineageQuiet DEF Dozes

LEMMA LineageStutters ==
  ASSUME LineageInv, UNCHANGED <<state, parent, isThread, tid, nextTid, count, saved, proc, run>>
  PROVE  LineageInv' /\ LeftByThread
  <1>1. Dozes
    BY DEF Dozes, LineageInv, Fields
  <1> QED
    BY <1>1, LineageDozes

LEMMA LineagePanics == ASSUME LineageInv, NEW msg, panic(msg) PROVE LineageInv' /\ LeftByThread
  BY LineageStutters DEF panic, table

LEMMA LTimer == ASSUME LineageInv, NEW c \in CPU, timer_yield(c) PROVE LineageInv' /\ LeftByThread
  <1>1. Running(c) /\ state[proc[c]] = "RUNNING" /\ swtch(c, run[c])
        /\ state' = [state EXCEPT ![proc[c]] = "RUNNABLE"]
        /\ UNCHANGED <<parent, isThread, tid, nextTid, count>>
    BY DEF timer_yield
  <1>2. run[c] \in Jobs /\ (run[c].pc \in Mains => MainAt(c))
    BY <1>1, RunnerSlot DEF LineageInv
  <1>3. "RUNNABLE" \in States /\ state[proc[c]] \in Live /\ "RUNNABLE" \in Live
    BY <1>1 DEF States, Live
  <1> QED
    BY <1>1, <1>2, <1>3, LineageGivesWay

LEMMA LExitSched ==
  ASSUME LineageInv, NEW c \in CPU, kthread_exit_sched(c) PROVE LineageInv' /\ LeftByThread
  <1>1. Running(c) /\ run[c].pc = "exiting"
    BY DEF kthread_exit_sched, Runs
  <1>2. CASE panic("sched running")
    BY <1>2, LineagePanics
  <1>3. CASE swtch(c, At("kthread_exit", None, 0)) /\ UNCHANGED table
    <2> DEFINE e == At("kthread_exit", None, 0)
    <2>1. e \in Jobs /\ e.pc \notin Mains
      BY Constants DEF At, Jobs, Mains, Filling
    <2>2. state[proc[c]] \in States /\ state = [state EXCEPT ![proc[c]] = state[proc[c]]]
      BY <1>1, RunnerSlot DEF LineageInv, Fields
    <2>3. /\ swtch(c, e) /\ UNCHANGED <<parent, isThread, tid, nextTid, count>>
          /\ state' = [state EXCEPT ![proc[c]] = state[proc[c]]]
      BY <1>3, <2>2 DEF table
    <2> HIDE DEF e
    <2> QED
      BY <1>1, <2>1, <2>2, <2>3, LineageGivesWay
  <1> QED
    BY <1>2, <1>3 DEF kthread_exit_sched

LEMMA LKill ==
  ASSUME LineageInv, NEW c \in CPU, NEW z \in Slot, kill(c, z) PROVE LineageInv' /\ LeftByThread
  <1>1. CASE HasThreads(proc[c])
    BY <1>1, LineagePanics DEF kill, Unsupported
  <1>2. CASE ~HasThreads(proc[c])
    <2>1. state' = wakeup1(state, z) /\ UNCHANGED <<parent, isThread, tid, nextTid, count, saved, proc, run>>
      BY <1>2 DEF kill
    <2>2. /\ state' \in [Slot -> States]
          /\ \A s \in Slot : state'[s] = state[s] \/ (state[s] = "SLEEPING" /\ state'[s] = "RUNNABLE")
      BY <2>1 DEF wakeup1, LineageInv, Fields, States
    <2> QED
      BY <2>1, <2>2, LineageDozes DEF Dozes
  <1> QED
    BY <1>1, <1>2

\* The slot n is no process yet and p's to fill.
Hatching(p, n) ==
  /\ n \in Slot \ {p, initproc} /\ state[n] \in {"UNUSED", "EMBRYO"}
  /\ \A s \in Slot \ {p}, e \in Jobs : Doing(s, e) /\ e.pc \in Filling => e.slot # n
  /\ \A z \in Slot : Rooted(z) /\ parent[z] # None => parent[z] # n

LEMMA Raiser ==
  ASSUME LineageInv, NEW c \in CPU, MainAt(c), run[c].pc \in Filling
  PROVE  /\ proc[c] \in Slot /\ state[proc[c]] \in Live
         /\ Raises(proc[c], run[c]) /\ Hatching(proc[c], run[c].slot)
  <1>1. /\ proc[c] \in Slot /\ run[c] \in Jobs /\ Doing(proc[c], run[c]) /\ state[proc[c]] \in Live
    BY Serving DEF Live, LineageInv
  <1>2. Raises(proc[c], run[c])
    BY <1>1 DEF LineageInv, Crew
  <1>3. run[c].slot \in Slot \ {proc[c], initproc} /\ state[run[c].slot] = "EMBRYO"
    BY <1>1, <1>2 DEF Raises, Live, LineageInv, Kin
  <1>4. \A s \in Slot \ {proc[c]}, e \in Jobs : Doing(s, e) /\ e.pc \in Filling => e.slot # run[c].slot
    BY <1>1 DEF LineageInv, Crew
  <1>5. \A z \in Slot : Rooted(z) /\ parent[z] # None => parent[z] # run[c].slot
    BY <1>3, RootedParent DEF Live
  <1> QED
    BY <1>1, <1>2, <1>3, <1>4, <1>5 DEF Hatching

\* A step of proc[c] that changes the slot n it fills and nothing else.
LEMMA LineageFills ==
  ASSUME LineageInv, NEW c \in CPU, MainAt(c), NEW p, p = proc[c], NEW n, Hatching(p, n),
         NEW g \in Jobs, g.pc \in Filling \cup {"user"}, g.pc \in Filling => g.slot = n /\ Raises(p, g)',
         Continue(c, g), proc' = proc, saved' \in [Slot -> Jobs], ~MainSaved(n)' \/ saved'[n].pc = "forkret",
         \A s \in Slot \ {n} : /\ state'[s] = state[s] /\ saved'[s] = saved[s]
                               /\ isThread'[s] = isThread[s] /\ parent'[s] = parent[s],
         state' \in [Slot -> States], parent' \in [Slot -> 0..NPROC],
         isThread' \in [Slot -> BOOLEAN], isThread'[n] => Threads,
         tid' \in [Slot -> Nat], nextTid' \in [Slot -> Nat], count' \in [Slot -> Int],
         state'[n] = "UNUSED" => parent'[n] = None,
         Rooted(n)' /\ parent'[n] # None => state[parent'[n]] \in Live /\ ~isThread[parent'[n]],
         state'[n] \notin {"UNUSED", "EMBRYO"} => parent'[n] # None /\ state[parent'[n]] \in Live
  PROVE  LineageInv' /\ LeftByThread
  <1>1. /\ p \in Slot /\ state[p] \in {"RUNNING", "RUNNABLE"} /\ ~MainSaved(p) /\ n \in Slot \ {p, initproc}
        /\ state[n] \in {"UNUSED", "EMBRYO"}
    BY Serving DEF Hatching, LineageInv
  <1>2. ~MainSaved(proc[c])' /\ state'[p] = state[p]
    BY <1>1 DEF MainSaved
  <1>3. /\ OneMain' /\ run' \in [CPU -> Jobs]
        /\ \A s \in Slot, f \in Jobs : Doing(s, f)' =>
             IF s = p THEN f = g ELSE Doing(s, f) \/ f.pc = "forkret"
    <2>1. \A s \in Slot \ {p} : \/ state'[s] = state[s] /\ saved'[s] = saved[s]
                                \/ /\ state[s] \notin {"RUNNING", "RUNNABLE"}
                                   /\ MainSaved(s)' => saved'[s].pc = "forkret"
      BY <1>1
    <2> QED
      BY <1>1, <1>2, <2>1, GoesOn DEF LineageInv
  <1>4. Fields'
    BY <1>1, <1>3 DEF LineageInv, Fields
  <1>5. Crew'
    <2>1. ASSUME NEW s \in Slot \ {p}, NEW e \in Jobs, Doing(s, e), e.pc \in Filling PROVE Raises(s, e)'
      <3>1. Raises(s, e) /\ e.slot # n /\ e.slot \in Slot
        BY <2>1 DEF LineageInv, Crew, Hatching, Raises
      <3>2. /\ Stays(e.slot) /\ isThread'[e.slot] = isThread[e.slot] /\ parent'[e.slot] = parent[e.slot]
            /\ isThread'[s] = isThread[s]
        <4>1. state[s] \in Live
          BY <2>1, DoingOne DEF LineageInv
        <4> QED
          BY <1>1, <3>1, <4>1 DEF Stays, Live
      <3> QED
        BY <3>1, <3>2, RaisesKept
    <2>2. ASSUME NEW e \in Jobs, Doing(p, e)'
          PROVE  /\ e.pc \in Filling => Raises(p, e)'
                 /\ e.pc = "join" => e.slot \in Slot
                 /\ e.pc \in Filling => \A s \in Slot \ {p}, f \in Jobs :
                      Doing(s, f) /\ f.pc \in Filling => f.slot # e.slot
      <3>1. e = g
        BY <1>1, <1>3, <2>2
      <3> QED
        BY <3>1 DEF Filling, Hatching
    <2>3. \A s \in Slot \ {p}, e \in Jobs : Doing(s, e)' => Doing(s, e) \/ e.pc = "forkret"
      BY <1>3
    <2>4. \A e, f \in Jobs : Doing(p, e)' /\ Doing(p, f)' => e = f
      BY <1>1, <1>3
    <2> QED
      BY <1>1, <2>1, <2>2, <2>3, <2>4, CrewKept
  <1>6. \A s \in Slot : state[s] \in Live => s # n /\ state'[s] \in Live /\ isThread'[s] = isThread[s]
    BY <1>1 DEF Live
  <1>7. \A z \in Slot : parent'[z] \in Slot \cup {None}
    BY DEF Slot, None
  <1>8. Kin'
    <2>1. state'[initproc] \in Live /\ ~isThread'[initproc]
      BY <1>6, Constants DEF LineageInv, Kin
    <2>2. \A s \in Slot : /\ state'[s] = "UNUSED" => parent'[s] = None
                          /\ s # initproc /\ state'[s] \notin {"UNUSED", "EMBRYO"} => parent'[s] # None
      BY DEF LineageInv, Kin
    <2>3. ASSUME NEW z \in Slot, Rooted(z)', parent'[z] # None
          PROVE  state'[parent'[z]] \in Live /\ ~isThread'[parent'[z]]
      <3>1. state[parent'[z]] \in Live /\ ~isThread[parent'[z]]
        BY <2>3, RootedParent DEF Rooted
      <3> QED
        BY <2>3, <3>1, <1>6, <1>7
    <2> QED
      BY <2>1, <2>2, <2>3 DEF Kin
  <1>9. LeftByThread
    <2> SUFFICES ASSUME NEW s \in Slot \ {initproc}, Orphan(s)' PROVE Orphan(s)
      BY DEF LeftByThread
    <2>1. s # n
      BY <1>6, <1>7 DEF Orphan
    <2>2. parent[s] = None \/ state[parent[s]] \notin Live
      BY <1>6, <1>7, <2>1 DEF Orphan
    <2> QED
      BY <2>1, <2>2 DEF Orphan
  <1> QED
    BY <1>3, <1>4, <1>5, <1>8, <1>9 DEF LineageInv

LEMMA LAllocproc ==
  ASSUME LineageInv, NEW c \in CPU, NEW call \in {"fork", "kthread_create"}, allocproc(c, call)
  PROVE  LineageInv' /\ LeftByThread
  <1> DEFINE U == {r \in Slot : state[r] = "UNUSED"}
  <1>1. MainAt(c) /\ UNCHANGED <<parent, isThread, tid, nextTid, count, saved, proc>>
    BY DEF allocproc, MayCall, Runs, Running, MainAt, Mains
  <1>2. CASE U = {}
    <2>1. UNCHANGED <<state, run>>
      BY <1>2 DEF allocproc
    <2> QED
      BY <1>1, <2>1, LineageStutters
  <1>3. CASE U # {}
    <2>1. PICK n : n = Lowest(U)
      OBVIOUS
    <2>2. n \in Slot /\ state[n] = "UNUSED"
      <3>1. n \in U
        BY <1>3, <2>1, LowestIn, Constants DEF Slot
      <3> QED
        BY <3>1
    <2>3. PICK g : g = At(call, n, 0)
      OBVIOUS
    <2>4. state' = [state EXCEPT ![n] = "EMBRYO"] /\ Continue(c, g)
      BY <1>3, <2>1, <2>3 DEF allocproc
    <2>5. PICK p \in Slot : p = proc[c] /\ state[p] \in Live
      BY <1>1, Serving DEF Live, LineageInv
    <2>6. /\ state' \in [Slot -> States] /\ state'[n] = "EMBRYO"
          /\ \A s \in Slot \ {n} : state'[s] = state[s]
      BY <2>2, <2>4 DEF LineageInv, Fields, States
    <2>7. g \in Jobs /\ g.pc = call /\ g.pc \in Filling /\ g.slot = n
      BY <2>2, <2>3, Constants DEF At, Jobs, Mains, Filling
    <2>8. parent[n] = None
      BY <2>2 DEF LineageInv, Kin
    <2>9. Hatching(p, n)
      <3>1. \A s \in Slot, e \in Jobs : Doing(s, e) /\ e.pc \in Filling => e.slot # n
        BY <2>2 DEF LineageInv, Crew, Raises
      <3>2. \A z \in Slot : Rooted(z) /\ parent[z] # None => parent[z] # n
        BY <2>2, RootedParent DEF Live
      <3> QED
        BY <2>2, <2>5, <3>1, <3>2 DEF Hatching, LineageInv, Kin, Live
    <2>10. Raises(p, g)'
      <3>1. isThread[p] => call \in ThreadsCall
        BY <2>5 DEF allocproc, MayCall
      <3>2. isThread[p] => Threads
        BY DEF LineageInv, Fields
      <3> QED
        BY <1>1, <2>2, <2>6, <2>7, <2>8, <3>1, <3>2 DEF Raises, allocproc, NoThreadForks
    <2>11. /\ saved' \in [Slot -> Jobs] /\ ~MainSaved(n)' /\ parent' \in [Slot -> 0..NPROC]
           /\ isThread' \in [Slot -> BOOLEAN] /\ (isThread'[n] => Threads)
           /\ tid' \in [Slot -> Nat] /\ nextTid' \in [Slot -> Nat] /\ count' \in [Slot -> Int]
      BY <1>1, <2>2, <2>6 DEF LineageInv, Fields, MainSaved
    <2>12. /\ \A s \in Slot \ {n} : /\ state'[s] = state[s] /\ saved'[s] = saved[s]
                                    /\ isThread'[s] = isThread[s] /\ parent'[s] = parent[s]
           /\ parent'[n] = None
      BY <1>1, <2>6, <2>8
    <2> QED
      BY <1>1, <2>4, <2>5, <2>6, <2>7, <2>9, <2>10, <2>11, <2>12, LineageFills
  <1> QED
    BY <1>2, <1>3

LEMMA LAlloc == ASSUME LineageInv, NEW c \in CPU, alloc_kstack(c) PROVE LineageInv' /\ LeftByThread
  <1>1. MainAt(c) /\ run[c].pc \in {"fork", "kthread_create"} /\ run[c].pc \in Filling
    BY DEF alloc_kstack, Running, MainAt, Mains, Filling
  <1>2. PICK p : p = proc[c]
    OBVIOUS
  <1>3. PICK n : n = run[c].slot
    OBVIOUS
  <1>4. Hatching(p, n) /\ Raises(p, run[c])
    BY <1>1, <1>2, <1>3, Raiser
  <1>5. /\ n \in Slot /\ state[n] = "EMBRYO" /\ parent[n] = None
        /\ run[c].pc = "kthread_create" => Threads
        /\ run[c].pc = "fork" /\ isThread[p] => ~NoThreadForks
    BY <1>1, <1>3, <1>4 DEF Raises
  <1>6. parent' = parent /\ proc' = proc /\ parent' \in [Slot -> 0..NPROC]
    BY DEF alloc_kstack, LineageInv, Fields
  <1>7. CASE /\ state' = [state EXCEPT ![n] = "UNUSED"] /\ Continue(c, User)
             /\ UNCHANGED <<isThread, tid, nextTid, count, saved>>
    <2>1. /\ state' \in [Slot -> States] /\ state'[n] = "UNUSED"
          /\ \A s \in Slot \ {n} : state'[s] = state[s]
      BY <1>5, <1>7 DEF LineageInv, Fields, States
    <2>2. User \in Jobs /\ User.pc = "user" /\ User.pc \notin Filling
      BY Constants DEF User, At, Jobs, Mains, Filling
    <2>3. /\ saved' \in [Slot -> Jobs] /\ ~MainSaved(n)'
          /\ isThread' \in [Slot -> BOOLEAN] /\ (isThread'[n] => Threads)
          /\ tid' \in [Slot -> Nat] /\ nextTid' \in [Slot -> Nat] /\ count' \in [Slot -> Int]
      BY <1>5, <1>7, <2>1 DEF LineageInv, Fields, MainSaved
    <2>4. \A s \in Slot \ {n} : /\ state'[s] = state[s] /\ saved'[s] = saved[s]
                                /\ isThread'[s] = isThread[s] /\ parent'[s] = parent[s]
      BY <1>6, <1>7, <2>1
    <2> QED
      BY <1>1, <1>2, <1>4, <1>5, <1>6, <1>7, <2>1, <2>2, <2>3, <2>4, LineageFills
  <1>8. CASE /\ saved' = [saved EXCEPT ![n] = Forkret] /\ isThread' = [isThread EXCEPT ![n] = FALSE]
             /\ tid' = [tid EXCEPT ![n] = 0] /\ nextTid' = [nextTid EXCEPT ![n] = 1]
             /\ count' = [count EXCEPT ![n] = 0] /\ state' = state
             /\ Continue(c, At(IF run[c].pc = "fork" THEN "copyuvm" ELSE "take_tid", n, 0))
    <2>1. PICK g : g = At(IF run[c].pc = "fork" THEN "copyuvm" ELSE "take_tid", n, 0)
      OBVIOUS
    <2>2. g \in Jobs /\ g.pc \in {"copyuvm", "take_tid"} /\ g.pc \in Filling /\ g.slot = n
      BY <1>5, <2>1, Constants DEF At, Jobs, Mains, Filling
    <2>3. (g.pc = "take_tid" => Threads) /\ (g.pc = "copyuvm" /\ isThread[p] => ~NoThreadForks)
      BY <1>1, <1>5, <2>1 DEF At
    <2>4. Forkret \in Jobs /\ Forkret.pc = "forkret"
      BY Constants DEF Forkret, At, Jobs, Mains
    <2>5. /\ saved' \in [Slot -> Jobs] /\ saved'[n].pc = "forkret"
          /\ \A s \in Slot \ {n} : saved'[s] = saved[s]
      BY <1>5, <1>8, <2>4 DEF LineageInv, Fields
    <2>6. /\ isThread' \in [Slot -> BOOLEAN] /\ isThread'[n] = FALSE
          /\ \A s \in Slot \ {n} : isThread'[s] = isThread[s]
      BY <1>5, <1>8 DEF LineageInv, Fields
    <2>7. tid' \in [Slot -> Nat] /\ nextTid' \in [Slot -> Nat]
      BY <1>8 DEF LineageInv, Fields
    <2>8. count' \in [Slot -> Int] /\ state' \in [Slot -> States]
      <3>1. /\ count' \in [Slot -> Int] /\ count'[n] = 0
            /\ \A s \in Slot \ {n} : count'[s] = count[s]
        BY <1>5, <1>8 DEF LineageInv, Fields
      <3>2. state' \in [Slot -> States]
        BY <1>8 DEF LineageInv, Fields
      <3> QED
        BY <3>1, <3>2
    <2>9. isThread'[p] => isThread[p]
      <3>1. p \in Slot \ {n}
        BY <1>1, <1>2, <1>4, Raiser DEF Hatching
      <3> QED
        BY <2>6, <3>1
    <2>10. Raises(p, g)'
      BY <1>4, <1>5, <1>6, <1>8, <2>2, <2>3, <2>5, <2>6, <2>9 DEF Raises
    <2>11. \A s \in Slot \ {n} : /\ state'[s] = state[s] /\ saved'[s] = saved[s]
                                 /\ isThread'[s] = isThread[s] /\ parent'[s] = parent[s]
      BY <1>6, <1>8, <2>5, <2>6
    <2>12. Continue(c, g) /\ state'[n] = "EMBRYO"
      BY <1>5, <1>8, <2>1
    <2> QED
      BY <1>1, <1>2, <1>4, <1>5, <1>6, <2>2, <2>5, <2>6, <2>7, <2>8, <2>10, <2>11, <2>12, LineageFills
  <1> QED
    BY <1>3, <1>7, <1>8 DEF alloc_kstack

LEMMA LCopyuvm == ASSUME LineageInv, NEW c \in CPU, fork_copyuvm(c) PROVE LineageInv' /\ LeftByThread
  <1>1. MainAt(c) /\ run[c].pc = "copyuvm" /\ run[c].pc \in Filling
    BY DEF fork_copyuvm, Runs, Running, MainAt, Mains, Filling
  <1>2. PICK p \in Slot : p = proc[c] /\ state[p] \in Live
    BY <1>1, Raiser
  <1>3. PICK n : n = run[c].slot
    OBVIOUS
  <1>4. Hatching(p, n) /\ Raises(p, run[c])
    BY <1>1, <1>2, <1>3, Raiser
  <1>5. /\ n \in Slot /\ state[n] = "EMBRYO" /\ parent[n] = None
        /\ saved[n].pc \notin Mains \ {"forkret"} /\ ~isThread[n]
        /\ isThread[p] => ~NoThreadForks
    BY <1>1, <1>3, <1>4 DEF Raises
  <1>6. /\ UNCHANGED <<isThread, tid, nextTid, count, saved, proc>>
        /\ isThread'[n] => Threads
        /\ saved' \in [Slot -> Jobs] /\ isThread' \in [Slot -> BOOLEAN]
        /\ tid' \in [Slot -> Nat] /\ nextTid' \in [Slot -> Nat] /\ count' \in [Slot -> Int]
    BY <1>5 DEF fork_copyuvm, LineageInv, Fields
  <1>7. CASE parent' = [parent EXCEPT ![n] = p] /\ Continue(c, At("ready", n, 0)) /\ state' = state
    <2>1. PICK g : g = At("ready", n, 0)
      OBVIOUS
    <2>2. g \in Jobs /\ g.pc = "ready" /\ g.pc \in Filling /\ g.slot = n /\ Continue(c, g)
      BY <1>5, <1>7, <2>1, Constants DEF At, Jobs, Mains, Filling
    <2>3. /\ parent' \in [Slot -> 0..NPROC] /\ parent'[n] = p
          /\ \A s \in Slot \ {n} : parent'[s] = parent[s]
      BY <1>5, <1>7, Constants DEF LineageInv, Fields
    <2>4. Raises(p, g)'
      BY <1>5, <1>6, <1>7, <2>2, <2>3 DEF Raises
    <2>5. ~MainSaved(n)' /\ state' \in [Slot -> States] /\ state'[n] = "EMBRYO" /\ (Rooted(n)' => ~isThread[p])
      BY <1>5, <1>6, <1>7 DEF MainSaved, LineageInv, Fields, Rooted
    <2>6. \A s \in Slot \ {n} : /\ state'[s] = state[s] /\ saved'[s] = saved[s]
                                /\ isThread'[s] = isThread[s] /\ parent'[s] = parent[s]
      BY <1>6, <1>7, <2>3
    <2> QED
      BY <1>1, <1>2, <1>4, <1>6, <2>2, <2>3, <2>4, <2>5, <2>6, LineageFills
  <1>8. CASE state' = [state EXCEPT ![n] = "UNUSED"] /\ Continue(c, User) /\ parent' = parent
    <2>1. /\ state' \in [Slot -> States] /\ state'[n] = "UNUSED"
          /\ \A s \in Slot \ {n} : state'[s] = state[s]
      BY <1>5, <1>8 DEF LineageInv, Fields, States
    <2>2. User \in Jobs /\ User.pc = "user" /\ User.pc \notin Filling
      BY Constants DEF User, At, Jobs, Mains, Filling
    <2>3. ~MainSaved(n)' /\ parent' \in [Slot -> 0..NPROC] /\ ~isThread'[n] /\ parent'[n] = None
      BY <1>5, <1>6, <1>8, <2>1 DEF MainSaved, LineageInv, Fields
    <2>4. \A s \in Slot \ {n} : /\ state'[s] = state[s] /\ saved'[s] = saved[s]
                                /\ isThread'[s] = isThread[s] /\ parent'[s] = parent[s]
      BY <1>6, <1>8, <2>1
    <2> QED
      BY <1>1, <1>2, <1>4, <1>6, <1>8, <2>1, <2>2, <2>3, <2>4, LineageFills
  <1> QED
    BY <1>2, <1>3, <1>7, <1>8 DEF fork_copyuvm

\* A thread is created for the process that the caller belongs to, which lives.
LEMMA OwnerLives ==
  ASSUME LineageInv, NEW s \in Slot, state[s] \in Live
  PROVE  Owner(s) \in Slot /\ state[Owner(s)] \in Live /\ ~isThread[Owner(s)]
  <1>1. isThread[s] => Rooted(s) /\ parent[s] # None
    BY DEF LineageInv, Kin, Live, Rooted
  <1> QED
    BY <1>1, RootedParent DEF Owner

LEMMA LTake == ASSUME LineageInv, NEW c \in CPU, create_take_tid(c) PROVE LineageInv' /\ LeftByThread
  <1>1. MainAt(c) /\ run[c].pc = "take_tid" /\ run[c].pc \in Filling
    BY DEF create_take_tid, Runs, Running, MainAt, Mains, Filling
  <1>2. PICK p \in Slot : p = proc[c] /\ state[p] \in Live
    BY <1>1, Raiser
  <1>3. PICK n : n = run[c].slot
    OBVIOUS
  <1>4. Hatching(p, n) /\ Raises(p, run[c])
    BY <1>1, <1>2, <1>3, Raiser
  <1>5. n \in Slot /\ state[n] = "EMBRYO" /\ saved[n].pc \notin Mains \ {"forkret"} /\ Threads
    BY <1>1, <1>3, <1>4 DEF Raises
  <1>6. PICK o \in Slot : o = Owner(p) /\ state[o] \in Live /\ ~isThread[o]
    BY <1>2, OwnerLives
  <1>7. PICK g : g = At("set_tid", n, nextTid[o])
    OBVIOUS
  <1>8. /\ parent' = [parent EXCEPT ![n] = o] /\ isThread' = [isThread EXCEPT ![n] = TRUE] /\ Continue(c, g)
        /\ UNCHANGED <<state, tid, nextTid, count, saved, proc>>
    BY <1>2, <1>3, <1>6, <1>7 DEF create_take_tid
  <1>9. g \in Jobs /\ g.pc = "set_tid" /\ g.pc \in Filling /\ g.slot = n
    <2>1. nextTid[o] \in Nat
      BY DEF LineageInv, Fields
    <2> QED
      BY <1>5, <1>7, <2>1, Constants DEF At, Jobs, Mains, Filling
  <1>10. /\ parent' \in [Slot -> 0..NPROC] /\ parent'[n] = o
         /\ \A s \in Slot \ {n} : parent'[s] = parent[s]
    BY <1>5, <1>8, Constants DEF LineageInv, Fields
  <1>11. /\ isThread' \in [Slot -> BOOLEAN] /\ isThread'[n] = TRUE
         /\ \A s \in Slot \ {n} : isThread'[s] = isThread[s]
    BY <1>5, <1>8 DEF LineageInv, Fields
  <1>12. Raises(p, g)'
    BY <1>5, <1>8, <1>9, <1>10, <1>11, Constants DEF Raises
  <1>13. /\ saved' \in [Slot -> Jobs] /\ ~MainSaved(n)' /\ state' \in [Slot -> States] /\ state'[n] = "EMBRYO"
         /\ tid' \in [Slot -> Nat] /\ nextTid' \in [Slot -> Nat] /\ count' \in [Slot -> Int]
    BY <1>5, <1>8 DEF LineageInv, Fields, MainSaved
  <1>14. \A s \in Slot \ {n} : /\ state'[s] = state[s] /\ saved'[s] = saved[s]
                               /\ isThread'[s] = isThread[s] /\ parent'[s] = parent[s]
    BY <1>8, <1>10, <1>11
  <1> QED
    BY <1>1, <1>2, <1>4, <1>5, <1>6, <1>8, <1>9, <1>10, <1>11, <1>12, <1>13, <1>14, LineageFills

LEMMA LSetTid == ASSUME LineageInv, NEW c \in CPU, create_set_tid(c) PROVE LineageInv' /\ LeftByThread
  <1>1. MainAt(c) /\ run[c].pc = "set_tid" /\ run[c].pc \in Filling
    BY DEF create_set_tid, Runs, Running, MainAt, Mains, Filling
  <1>2. PICK p \in Slot : p = proc[c] /\ run[c] \in Jobs
    BY <1>1, Serving DEF LineageInv
  <1>3. PICK n : n = run[c].slot
    OBVIOUS
  <1>4. Hatching(p, n) /\ Raises(p, run[c])
    BY <1>1, <1>2, <1>3, Raiser
  <1>5. /\ n \in Slot /\ state[n] = "EMBRYO" /\ saved[n].pc \notin Mains \ {"forkret"} /\ Threads
        /\ isThread[n] /\ parent[n] # None
    BY <1>1, <1>3, <1>4 DEF Raises
  <1>6. PICK o \in Slot : o = parent[n] /\ state[o] \in Live /\ ~isThread[o]
    BY <1>5, RootedParent DEF Rooted
  <1>7. PICK g : g = At("ready", n, 0)
    OBVIOUS
  <1>8. PICK t \in Nat : t = run[c].tid
    BY <1>2 DEF Jobs
  <1>9. /\ tid' = [tid EXCEPT ![n] = t] /\ nextTid' = [nextTid EXCEPT ![o] = t + 1]
        /\ count' = [count EXCEPT ![o] = @ + 1] /\ Continue(c, g)
        /\ UNCHANGED <<state, parent, isThread, saved, proc>>
    BY <1>3, <1>6, <1>7, <1>8 DEF create_set_tid
  <1>10. g \in Jobs /\ g.pc = "ready" /\ g.pc \in Filling /\ g.slot = n
    BY <1>5, <1>7, Constants DEF At, Jobs, Mains, Filling
  <1>11. tid' \in [Slot -> Nat] /\ nextTid' \in [Slot -> Nat] /\ count' \in [Slot -> Int]
    <2>1. count \in [Slot -> Int] /\ count[o] \in Int /\ count' = [count EXCEPT ![o] = count[o] + 1]
      BY <1>6, <1>9 DEF LineageInv, Fields
    <2>2. count' \in [Slot -> Int]
      <3>1. count[o] + 1 \in Int
        BY <2>1
      <3> QED
        BY <2>1, <3>1
    <2>3. tid' \in [Slot -> Nat]
      BY <1>9 DEF LineageInv, Fields
    <2>4. nextTid' \in [Slot -> Nat]
      <3>1. t + 1 \in Nat /\ nextTid \in [Slot -> Nat]
        BY DEF LineageInv, Fields
      <3> QED
        BY <1>9, <3>1
    <2> QED
      BY <2>2, <2>3, <2>4
  <1>12. Raises(p, g)'
    BY <1>5, <1>9, <1>10 DEF Raises
  <1>13. /\ saved' \in [Slot -> Jobs] /\ ~MainSaved(n)' /\ state' \in [Slot -> States] /\ state'[n] = "EMBRYO"
         /\ parent' \in [Slot -> 0..NPROC] /\ isThread' \in [Slot -> BOOLEAN]
    BY <1>5, <1>9 DEF LineageInv, Fields, MainSaved
  <1> QED
    BY <1>1, <1>2, <1>4, <1>5, <1>6, <1>9, <1>10, <1>11, <1>12, <1>13, LineageFills

LEMMA LReady == ASSUME LineageInv, NEW c \in CPU, make_runnable(c) PROVE LineageInv' /\ LeftByThread
  <1>1. MainAt(c) /\ run[c].pc = "ready" /\ run[c].pc \in Filling
    BY DEF make_runnable, Runs, Running, MainAt, Mains, Filling
  <1>2. PICK p \in Slot : p = proc[c] /\ state[p] \in Live
    BY <1>1, Raiser
  <1>3. PICK n : n = run[c].slot
    OBVIOUS
  <1>4. Hatching(p, n) /\ Raises(p, run[c])
    BY <1>1, <1>2, <1>3, Raiser
  <1>5. /\ n \in Slot /\ state[n] = "EMBRYO" /\ saved[n].pc \notin Mains \ {"forkret"}
        /\ IF isThread[n] THEN parent[n] # None ELSE parent[n] = p
    BY <1>1, <1>3, <1>4 DEF Raises
  <1>6. /\ parent[n] # None /\ state[parent[n]] \in Live
        /\ Rooted(n) => ~isThread[parent[n]]
    <2>1. CASE isThread[n]
      BY <1>5, <2>1, RootedParent DEF Rooted
    <2>2. CASE ~isThread[n]
      BY <1>2, <1>5, <2>2, RootedParent, Constants
    <2> QED
      BY <2>1, <2>2
  <1>7. /\ state' = [state EXCEPT ![n] = "RUNNABLE"] /\ Continue(c, User)
        /\ UNCHANGED <<parent, isThread, tid, nextTid, count, saved, proc>>
    BY <1>3 DEF make_runnable
  <1>8. User \in Jobs /\ User.pc = "user" /\ User.pc \notin Filling
    BY Constants DEF User, At, Jobs, Mains, Filling
  <1>9. /\ state' \in [Slot -> States] /\ state'[n] = "RUNNABLE"
        /\ \A s \in Slot \ {n} : state'[s] = state[s]
    BY <1>5, <1>7 DEF LineageInv, Fields, States
  <1>10. /\ saved' \in [Slot -> Jobs] /\ (~MainSaved(n)' \/ saved'[n].pc = "forkret")
         /\ parent' \in [Slot -> 0..NPROC] /\ isThread' \in [Slot -> BOOLEAN] /\ (isThread'[n] => Threads)
         /\ tid' \in [Slot -> Nat] /\ nextTid' \in [Slot -> Nat] /\ count' \in [Slot -> Int]
    BY <1>5, <1>7 DEF LineageInv, Fields, MainSaved
  <1>11. /\ \A s \in Slot \ {n} : /\ state'[s] = state[s] /\ saved'[s] = saved[s]
                                  /\ isThread'[s] = isThread[s] /\ parent'[s] = parent[s]
         /\ parent'[n] = parent[n] /\ (Rooted(n)' => Rooted(n))
    BY <1>7, <1>9 DEF Rooted
  <1> QED
    BY <1>1, <1>2, <1>4, <1>6, <1>7, <1>8, <1>9, <1>10, <1>11, LineageFills

LEMMA LJoinFind ==
  ASSUME LineageInv, NEW c \in CPU, NEW t \in 1..MaxCreate, join_find(c, t) PROVE LineageInv' /\ LeftByThread
  <1>1. MainAt(c)
    BY DEF join_find, MayCall, Runs, Running, MainAt, Mains
  <1>2. PICK p \in Slot : p = proc[c] /\ state[p] \in {"RUNNING", "RUNNABLE"} /\ ~MainSaved(p)
    BY <1>1, Serving DEF LineageInv
  <1>3. PICK found : found = {s \in Slot : parent[s] = Owner(proc[c]) /\ tid[s] = t}
    OBVIOUS
  <1>4. PICK z : z = Lowest(found)
    OBVIOUS
  <1>5. PICK g : g = At("join", z, t)
    OBVIOUS
  <1>6. found # {} /\ Continue(c, g)
    BY <1>3, <1>4, <1>5 DEF join_find
  <1>7. z \in Slot
    <2>1. found \in SUBSET (1..NPROC)
      BY <1>3 DEF Slot
    <2>2. z \in found
      BY <1>4, <1>6, <2>1, LowestIn, Constants
    <2> QED
      BY <1>3, <2>2
  <1>8. g \in Jobs /\ g.pc = "join" /\ g.slot = z /\ g.pc \notin Filling
    BY <1>5, <1>7, Constants DEF At, Jobs, Mains, Filling
  <1>9. UNCHANGED <<state, parent, isThread, tid, nextTid, count, saved, proc>>
    BY DEF join_find, table
  <1>10. /\ saved' \in [Slot -> Jobs] /\ state' \in [Slot -> States] /\ proc' \in [CPU -> 0..NPROC]
         /\ tid' \in [Slot -> Nat] /\ nextTid' \in [Slot -> Nat] /\ count' \in [Slot -> Int]
    BY <1>9 DEF LineageInv, Fields
  <1>11. /\ OneMain' /\ run' \in [CPU -> Jobs]
         /\ \A s \in Slot, f \in Jobs : Doing(s, f)' =>
              IF s = p THEN f = g ELSE Doing(s, f) \/ f.pc = "forkret"
    <2>1. ~MainSaved(proc[c])' /\ \A s \in Slot : state'[s] = state[s] /\ saved'[s] = saved[s]
      BY <1>2, <1>9 DEF MainSaved
    <2> QED
      BY <1>1, <1>2, <1>6, <1>8, <1>9, <1>10, <2>1, GoesOn DEF LineageInv
  <1>12. \A s \in Slot, e \in Jobs : Doing(s, e)' =>
           Doing(s, e) \/ (e.pc \notin Filling /\ (e.pc = "join" => e.slot \in Slot))
    <2>1. \A e \in Jobs : e.pc = "forkret" => e.pc \notin Filling /\ e.pc # "join"
      BY DEF Filling
    <2> QED
      BY <1>7, <1>8, <1>11, <2>1
  <1>13. \A s \in Slot : Stays(s) /\ state'[s] = state[s]
    BY <1>9 DEF Stays
  <1> QED
    BY <1>9, <1>10, <1>11, <1>12, <1>13, LineageQuiet

\* A living process w gives back the slot of the zombie z, whosever child that is.
LEMMA LineageReaps ==
  ASSUME LineageInv, NEW w \in Slot, NEW z \in Slot, state[w] \in Live, state[z] = "ZOMBIE", reap(z, w),
         UNCHANGED <<isThread, tid, nextTid, saved>>, count' \in [Slot -> Int],
         OneMain', proc' \in [CPU -> 0..NPROC], run' \in [CPU -> Jobs],
         \A s \in Slot \ {w}, e \in Jobs : Doing(s, e)' => Doing(s, e) \/ e.pc = "forkret",
         \A e \in Jobs : Doing(w, e)' => e.pc \in {"user", "wait"},
         \A e, f \in Jobs : Doing(w, e)' /\ Doing(w, f)' => e = f
  PROVE  LineageInv' /\ LeftByThread
  <1>1. w # z /\ z # initproc
    BY DEF LineageInv, Kin, Live
  <1>2. state' = [state EXCEPT ![w] = "RUNNING", ![z] = "UNUSED"] /\ parent' = [parent EXCEPT ![z] = None]
    BY DEF reap
  <1>3. /\ state' \in [Slot -> States] /\ state'[w] = "RUNNING" /\ state'[z] = "UNUSED"
        /\ \A s \in Slot \ {w, z} : state'[s] = state[s]
    BY <1>1, <1>2 DEF LineageInv, Fields, States
  <1>4. /\ parent' \in [Slot -> 0..NPROC] /\ parent'[z] = None
        /\ \A s \in Slot \ {z} : parent'[s] = parent[s]
    BY <1>2, Constants DEF LineageInv, Fields
  <1>5. Fields'
    BY <1>3, <1>4 DEF LineageInv, Fields
  <1>6. Crew'
    <2>1. ASSUME NEW s \in Slot \ {w}, NEW e \in Jobs, Doing(s, e), e.pc \in Filling PROVE Raises(s, e)'
      <3>1. Raises(s, e) /\ e.slot \in Slot \ {w, z}
        BY <2>1 DEF LineageInv, Crew, Raises, Live
      <3>2. /\ Stays(e.slot) /\ parent'[e.slot] = parent[e.slot]
            /\ isThread'[s] = isThread[s] /\ isThread'[e.slot] = isThread[e.slot]
        BY <1>3, <1>4, <3>1 DEF Stays
      <3> QED
        BY <2>1, <3>1, <3>2, RaisesKept
    <2>2. \A e \in Jobs : Doing(w, e)' => e.pc \notin Filling /\ e.pc # "join"
      BY DEF Filling
    <2> QED
      BY <2>1, <2>2, CrewKept
  <1>7. \A s \in Slot : state[s] \in Live => s # z /\ state'[s] \in Live
    BY <1>3 DEF Live
  <1>8. \A s \in Slot : state'[s] \in Live => state[s] \in Live
    BY <1>3 DEF Live
  <1>9. Kin'
    <2>1. state'[initproc] \in Live /\ ~isThread'[initproc]
      BY <1>7, Constants DEF LineageInv, Kin
    <2>2. ASSUME NEW s \in Slot
          PROVE  /\ state'[s] = "UNUSED" => parent'[s] = None
                 /\ s # initproc /\ state'[s] \notin {"UNUSED", "EMBRYO"} => parent'[s] # None
      <3>1. CASE s = z
        BY <1>3, <1>4, <3>1
      <3>2. CASE s # z
        BY <1>3, <1>4, <3>2 DEF LineageInv, Kin, Live
      <3> QED
        BY <3>1, <3>2
    <2>3. ASSUME NEW s \in Slot, Rooted(s)', parent'[s] # None
          PROVE  state'[parent'[s]] \in Live /\ ~isThread'[parent'[s]]
      <3>1. s # z /\ parent'[s] = parent[s]
        BY <1>4, <2>3
      <3>2. parent[s] \in Slot /\ state[parent[s]] \in Live /\ ~isThread[parent[s]]
        BY <2>3, <3>1, RootedParent DEF Rooted
      <3> QED
        BY <1>7, <3>1, <3>2
    <2> QED
      BY <2>1, <2>2, <2>3 DEF Kin
  <1>10. LeftByThread
    <2> SUFFICES ASSUME NEW s \in Slot \ {initproc}, Orphan(s)' PROVE Orphan(s)
      BY DEF LeftByThread
    <2>1. s # z /\ parent'[s] = parent[s] /\ state[s] \notin {"UNUSED", "EMBRYO"}
      BY <1>3, <1>4 DEF Orphan, Live
    <2>2. parent[s] = None \/ parent[s] \in Slot
      BY DEF LineageInv, Fields, Slot, None
    <2>3. parent[s] # None => state[parent[s]] \notin Live
      BY <1>7, <2>1, <2>2 DEF Orphan
    <2> QED
      BY <2>1, <2>3 DEF Orphan
  <1> QED
    BY <1>5, <1>6, <1>9, <1>10 DEF LineageInv

LEMMA LJoinPoll == ASSUME LineageInv, NEW c \in CPU, join_poll(c) PROVE LineageInv' /\ LeftByThread
  <1>1. Running(c) /\ MainAt(c) /\ run[c].pc = "join"
    BY DEF join_poll, Runs, Running, MainAt, Mains
  <1>2. PICK p \in Slot : p = proc[c] /\ state[p] \in {"RUNNING", "RUNNABLE"} /\ state[p] \in Live /\ run[c] \in Jobs
    BY <1>1, Serving DEF LineageInv, Live
  <1>3. PICK z \in Slot : z = run[c].slot
    BY <1>1, <1>2, Serving DEF LineageInv, Crew
  <1>4. UNCHANGED <<isThread, tid, nextTid>>
    BY DEF join_poll
  <1>5. CASE state[z] = "ZOMBIE"
    <2>1. PICK o \in Slot : o = Owner(p)
      BY <1>2, OwnerLives
    <2>2. /\ reap(z, p) /\ count' = [count EXCEPT ![o] = @ - 1] /\ Continue(c, User)
          /\ saved' = saved /\ proc' = proc
      BY <1>2, <1>3, <1>5, <2>1 DEF join_poll
    <2>3. User \in Jobs /\ User.pc = "user"
      BY Constants DEF User, At, Jobs, Mains
    <2>4. p # z /\ state'[p] = "RUNNING" /\ state'[z] = "UNUSED" /\ \A s \in Slot \ {p, z} : state'[s] = state[s]
      BY <1>2, <1>5, <2>2 DEF reap, LineageInv, Fields
    <2>5. saved' \in [Slot -> Jobs] /\ proc' \in [CPU -> 0..NPROC] /\ count' \in [Slot -> Int]
      <3>1. count \in [Slot -> Int] /\ count[o] \in Int /\ count' = [count EXCEPT ![o] = count[o] - 1]
        BY <2>2 DEF LineageInv, Fields
      <3>2. count' \in [Slot -> Int]
        BY <3>1
      <3> QED
        BY <2>2, <3>2 DEF LineageInv, Fields
    <2>6. ~MainSaved(proc[c])'
      BY <1>2, <2>2, <2>4 DEF MainSaved
    <2>7. \A s \in Slot \ {p} : \/ state'[s] = state[s] /\ saved'[s] = saved[s]
                                \/ /\ state[s] \notin {"RUNNING", "RUNNABLE"}
                                   /\ MainSaved(s)' => saved'[s].pc = "forkret"
      BY <1>5, <2>2, <2>4 DEF MainSaved
    <2>8. /\ OneMain' /\ run' \in [CPU -> Jobs]
          /\ \A s \in Slot, f \in Jobs : Doing(s, f)' =>
               IF s = p THEN f = User ELSE Doing(s, f) \/ f.pc = "forkret"
      BY <1>1, <1>2, <2>2, <2>3, <2>4, <2>5, <2>6, <2>7, GoesOn DEF LineageInv
    <2>9. /\ \A e \in Jobs : Doing(p, e)' => e.pc \in {"user", "wait"}
          /\ \A e, f \in Jobs : Doing(p, e)' /\ Doing(p, f)' => e = f
          /\ \A s \in Slot \ {p}, e \in Jobs : Doing(s, e)' => Doing(s, e) \/ e.pc = "forkret"
      BY <2>3, <2>8
    <2> QED
      BY <1>2, <1>4, <1>5, <2>2, <2>5, <2>8, <2>9, LineageReaps
  <1>6. CASE state[z] # "ZOMBIE"
    <2>1. state' = [state EXCEPT ![proc[c]] = "RUNNABLE"] /\ swtch(c, run[c]) /\ UNCHANGED <<parent, count>>
      BY <1>3, <1>6 DEF join_poll
    <2>2. "RUNNABLE" \in States /\ state[proc[c]] \in Live /\ "RUNNABLE" \in Live
      BY <1>2 DEF States, Live
    <2> QED
      BY <1>1, <1>2, <1>4, <2>1, <2>2, LineageGivesWay
  <1> QED
    BY <1>5, <1>6

LEMMA LWait == ASSUME LineageInv, NEW c \in CPU, wait(c) PROVE LineageInv' /\ LeftByThread
  <1>1. Running(c) /\ MainAt(c) /\ run[c].pc = "user"
    BY DEF wait, Runs, Running, MainAt, Mains
  <1>2. PICK p \in Slot : p = proc[c] /\ state[p] \in {"RUNNING", "RUNNABLE"} /\ state[p] \in Live /\ run[c] \in Jobs
    BY <1>1, Serving DEF Live, LineageInv
  <1>3. CASE HasThreads(p)
    BY <1>2, <1>3, LineagePanics DEF wait, Unsupported
  <1>4. CASE ~HasThreads(p) /\ Zombies(p) # {}
    <2>1. PICK z : z = Lowest(Zombies(p))
      OBVIOUS
    <2>2. reap(z, p) /\ UNCHANGED <<isThread, tid, nextTid, count, saved, proc, run>>
      BY <1>2, <1>4, <2>1 DEF wait
    <2>3. z \in Slot /\ state[z] = "ZOMBIE"
      BY <1>4, <2>1, LowestZombie
    <2>4. p # z /\ state'[p] = "RUNNING" /\ state'[z] = "UNUSED" /\ \A s \in Slot \ {p, z} : state'[s] = state[s]
      BY <1>2, <2>2, <2>3 DEF reap, LineageInv, Fields
    <2>5. saved' \in [Slot -> Jobs] /\ proc' \in [CPU -> 0..NPROC] /\ count' \in [Slot -> Int]
      BY <2>2 DEF LineageInv, Fields
    <2>6. ~MainSaved(proc[c])'
      BY <1>2, <2>2, <2>4 DEF MainSaved
    <2>7. \A s \in Slot \ {p} : \/ state'[s] = state[s] /\ saved'[s] = saved[s]
                                \/ /\ state[s] \notin {"RUNNING", "RUNNABLE"}
                                   /\ MainSaved(s)' => saved'[s].pc = "forkret"
      BY <2>2, <2>3, <2>4 DEF MainSaved
    <2>8. Continue(c, run[c])
      BY <2>2 DEF Continue, LineageInv, Fields
    <2>9. /\ OneMain' /\ run' \in [CPU -> Jobs]
          /\ \A s \in Slot, f \in Jobs : Doing(s, f)' =>
               IF s = p THEN f = run[c] ELSE Doing(s, f) \/ f.pc = "forkret"
      BY <1>1, <1>2, <2>2, <2>4, <2>5, <2>6, <2>7, <2>8, GoesOn DEF LineageInv
    <2>10. /\ \A e \in Jobs : Doing(p, e)' => e.pc \in {"user", "wait"}
           /\ \A e, f \in Jobs : Doing(p, e)' /\ Doing(p, f)' => e = f
           /\ \A s \in Slot \ {p}, e \in Jobs : Doing(s, e)' => Doing(s, e) \/ e.pc = "forkret"
      BY <1>1, <2>9
    <2> QED
      BY <1>2, <2>2, <2>3, <2>5, <2>9, <2>10, LineageReaps
  <1>5. CASE ~HasThreads(p) /\ Zombies(p) = {}
    <2> DEFINE g == At("wait", None, 0)
    <2>1. g \in Jobs /\ g.pc = "wait"
      BY Constants DEF At, Jobs, Mains, Filling
    <2>2. /\ state' = [state EXCEPT ![proc[c]] = "SLEEPING"] /\ swtch(c, g)
          /\ UNCHANGED <<parent, isThread, tid, nextTid, count>>
      BY <1>2, <1>5 DEF wait
    <2> HIDE DEF g
    <2>3. "SLEEPING" \in States /\ state[proc[c]] \in Live /\ "SLEEPING" \in Live
      BY <1>2 DEF States, Live
    <2> QED
      BY <1>1, <2>1, <2>2, <2>3, LineageGivesWay
  <1> QED
    BY <1>3, <1>4, <1>5

LEMMA LSchedule ==
  ASSUME LineageInv, NEW c \in CPU, NEW s \in Slot, schedule(c, s) PROVE LineageInv' /\ LeftByThread
  <1>1. proc[c] = None /\ state[s] = "RUNNABLE" /\ state[s] \in Live
    BY DEF schedule, Live
  <1>2. CASE saved[s].pc \in {"zombie exit", "kthread_exit"}
    BY <1>2, LineagePanics DEF schedule
  <1>3. CASE saved[s].pc \notin {"zombie exit", "kthread_exit"}
    <2>1. UNCHANGED <<isThread, tid, nextTid, count, saved>> /\ saved[s] \in Jobs
      BY <1>3 DEF schedule, LineageInv, Fields
    <2>2. User \in Jobs /\ User.pc = "user" /\ User.pc \notin Filling
      BY Constants DEF User, At, Jobs, Mains, Filling
    <2>3. /\ saved' \in [Slot -> Jobs] /\ isThread' \in [Slot -> BOOLEAN]
          /\ tid' \in [Slot -> Nat] /\ nextTid' \in [Slot -> Nat] /\ count' \in [Slot -> Int]
      BY <2>1 DEF LineageInv, Fields
    <2>4. CASE saved[s].pc = "wait" /\ Zombies(s) # {}
      <3>1. PICK z : z = Lowest(Zombies(s))
        OBVIOUS
      <3>2. reap(z, s) /\ dispatch(c, s, User)
        BY <1>3, <2>4, <3>1 DEF schedule
      <3>3. z \in Slot /\ state[z] = "ZOMBIE"
        BY <2>4, <3>1, LowestZombie
      <3>4. s # z /\ state'[s] = "RUNNING" /\ state'[z] = "UNUSED" /\ \A r \in Slot \ {s, z} : state'[r] = state[r]
        BY <1>1, <3>2, <3>3 DEF reap, LineageInv, Fields
      <3>5. /\ OneMain' /\ proc' \in [CPU -> 0..NPROC] /\ run' \in [CPU -> Jobs]
            /\ \A r \in Slot, f \in Jobs : Doing(r, f)' => Doing(r, f) \/ (r = s /\ f.pc = "user")
        <4>1. \A r \in Slot \ {s} : state'[r] = state[r] \/ (state[r] = "ZOMBIE" /\ state'[r] = "UNUSED")
          BY <3>3, <3>4
        <4>2. dispatch(c, s, IF saved[s].pc \in {"forkret", "wait"} THEN User ELSE saved[s])
          BY <2>4, <3>2
        <4> QED
          BY <1>1, <1>3, <2>1, <3>4, <4>1, <4>2, Dispatches DEF LineageInv
      <3>6. Fields'
        BY <2>1, <2>3, <3>2, <3>4, <3>5, Constants DEF reap, LineageInv, Fields, States
      <3>7. \A e, f \in Jobs : Doing(s, e)' /\ Doing(s, f)' => e = f
        <4>1. Fields' /\ OneMain'
          BY <3>5, <3>6
        <4> QED
          BY <4>1 DEF OneMain, Doing, MainAt, MainSaved
      <3>8. \A e \in Jobs : Doing(s, e)' => e.pc \in {"user", "wait"}
        <4>1. Doing(s, saved[s])
          BY <1>1, <2>4 DEF Doing, MainSaved, Mains
        <4>2. \A e \in Jobs : Doing(s, e) => e = saved[s]
          BY <2>1, <4>1, DoingOne DEF LineageInv
        <4> QED
          BY <2>4, <3>5, <4>2
      <3>9. \A r \in Slot \ {s}, e \in Jobs : Doing(r, e)' => Doing(r, e) \/ e.pc = "forkret"
        BY <3>5
      <3> QED
        BY <1>1, <2>1, <2>3, <3>2, <3>3, <3>5, <3>7, <3>8, <3>9, LineageReaps
    <2>5. CASE ~(saved[s].pc = "wait" /\ Zombies(s) # {}) /\ saved[s].pc = "wait" /\ ~GivesUp(s)
      <3>1. state' = [state EXCEPT ![s] = "SLEEPING"] /\ UNCHANGED <<parent, proc, run>>
        BY <1>3, <2>5 DEF schedule
      <3>2. /\ state' \in [Slot -> States] /\ state'[s] = "SLEEPING" /\ saved[s].pc \in Mains
            /\ \A r \in Slot \ {s} : state'[r] = state[r]
        BY <2>5, <3>1 DEF LineageInv, Fields, States, Mains
      <3> QED
        BY <1>1, <2>1, <3>1, <3>2, LineageDozes DEF Dozes
    <2>6. CASE ~(saved[s].pc = "wait" /\ Zombies(s) # {}) /\ ~(saved[s].pc = "wait" /\ ~GivesUp(s))
      <3>1. /\ state' = [state EXCEPT ![s] = "RUNNING"] /\ UNCHANGED parent
            /\ dispatch(c, s, IF saved[s].pc \in {"forkret", "wait"} THEN User ELSE saved[s])
        BY <1>3, <2>6 DEF schedule
      <3>2. /\ state' \in [Slot -> States] /\ state'[s] = "RUNNING"
            /\ \A r \in Slot \ {s} : state'[r] = state[r]
        BY <3>1 DEF LineageInv, Fields, States
      <3>3. /\ OneMain' /\ proc' \in [CPU -> 0..NPROC] /\ run' \in [CPU -> Jobs]
            /\ \A r \in Slot, f \in Jobs : Doing(r, f)' => Doing(r, f) \/ (r = s /\ f.pc = "user")
        BY <1>1, <1>3, <2>1, <3>1, <3>2, Dispatches DEF LineageInv
      <3>4. \A r \in Slot : Stays(r) /\ (state'[r] = state[r] \/ (state[r] \in Live /\ state'[r] \in Live))
        BY <1>1, <2>1, <3>2 DEF Stays, Live
      <3>5. \A r \in Slot, e \in Jobs : Doing(r, e)' =>
              Doing(r, e) \/ (e.pc \notin Filling /\ (e.pc = "join" => e.slot \in Slot))
        BY <3>3 DEF Filling
      <3> QED
        BY <2>1, <2>3, <3>1, <3>2, <3>3, <3>4, <3>5, LineageQuiet
    <2> QED
      BY <2>4, <2>5, <2>6
  <1> QED
    BY <1>2, <1>3

LEMMA LExitZombie ==
  ASSUME LineageInv, NEW c \in CPU, kthread_exit_zombie(c) PROVE LineageInv' /\ LeftByThread
  <1>1. MainAt(c) /\ isThread[proc[c]]
    BY DEF kthread_exit_zombie, Runs, Running, MainAt, Mains
  <1>2. PICK p \in Slot : p = proc[c] /\ state[p] \in {"RUNNING", "RUNNABLE"} /\ state[p] \in Live
    BY <1>1, Serving DEF Live, LineageInv
  <1>3. UNCHANGED <<parent, isThread, tid, nextTid, count, saved, proc>>
    BY DEF kthread_exit_zombie
  <1>4. /\ state' \in [Slot -> States] /\ state'[p] = "ZOMBIE"
        /\ \A s \in Slot \ {p} : state'[s] = state[s]
    BY <1>2 DEF kthread_exit_zombie, LineageInv, Fields, States
  <1>5. PICK g : g = At("exiting", None, 0)
    OBVIOUS
  <1>6. g \in Jobs /\ g.pc = "exiting" /\ g.pc \notin Mains /\ Continue(c, g)
    BY <1>5, Constants DEF At, Jobs, Mains, Filling, kthread_exit_zombie
  <1>7. /\ saved' \in [Slot -> Jobs] /\ ~MainSaved(proc[c])'
    BY <1>2, <1>3, <1>4 DEF LineageInv, Fields, MainSaved
  <1>8. /\ OneMain' /\ run' \in [CPU -> Jobs]
        /\ \A s \in Slot, f \in Jobs : Doing(s, f)' =>
             IF s = p THEN f = g ELSE Doing(s, f) \/ f.pc = "forkret"
    BY <1>1, <1>2, <1>3, <1>4, <1>6, <1>7, GoesOn DEF LineageInv
  <1>9. Fields'
    BY <1>3, <1>4, <1>7, <1>8 DEF LineageInv, Fields
  <1>10. Crew'
    <2>1. ASSUME NEW s \in Slot \ {p}, NEW e \in Jobs, Doing(s, e), e.pc \in Filling PROVE Raises(s, e)'
      <3>1. Raises(s, e) /\ e.slot \in Slot \ {p}
        BY <1>2, <2>1 DEF LineageInv, Crew, Raises, Live
      <3>2. /\ Stays(e.slot) /\ parent'[e.slot] = parent[e.slot]
            /\ isThread'[s] = isThread[s] /\ isThread'[e.slot] = isThread[e.slot]
        BY <1>3, <1>4, <3>1 DEF Stays
      <3> QED
        BY <2>1, <3>1, <3>2, RaisesKept
    <2>2. \A e \in Jobs : Doing(p, e)' => e = g
      BY <1>8
    <2>3. g.pc \notin Filling /\ g.pc # "join"
      BY <1>6 DEF Filling, Mains
    <2>4. \A s \in Slot \ {p}, e \in Jobs : Doing(s, e)' => Doing(s, e) \/ e.pc = "forkret"
      BY <1>8
    <2> QED
      BY <2>1, <2>2, <2>3, <2>4, CrewKept
  <1>11. Kin'
    <2>1. initproc # p /\ state'[initproc] \in Live /\ ~isThread'[initproc]
      BY <1>1, <1>2, <1>3, <1>4, Constants DEF LineageInv, Kin
    <2>2. \A s \in Slot : /\ state'[s] = "UNUSED" => parent'[s] = None
                          /\ s # initproc /\ state'[s] \notin {"UNUSED", "EMBRYO"} => parent'[s] # None
      BY <1>2, <1>3, <1>4 DEF LineageInv, Kin, Live
    <2>3. ASSUME NEW z \in Slot, Rooted(z)', parent'[z] # None
          PROVE  state'[parent'[z]] \in Live /\ ~isThread'[parent'[z]]
      <3>1. parent[z] \in Slot /\ state[parent[z]] \in Live /\ ~isThread[parent[z]]
        BY <1>3, <2>3, RootedParent DEF Rooted
      <3>2. parent[z] # p
        BY <1>1, <1>2, <3>1
      <3> QED
        BY <1>3, <1>4, <3>1, <3>2
    <2> QED
      BY <2>1, <2>2, <2>3 DEF Kin
  <1>12. LeftByThread
    <2> SUFFICES ASSUME NEW s \in Slot \ {initproc}, Orphan(s)', ~Orphan(s)
                 PROVE  isThread[parent[s]] /\ state[parent[s]] \in Live /\ state'[parent[s]] = "ZOMBIE"
      BY DEF LeftByThread
    <2>1. state[s] \notin {"UNUSED", "EMBRYO"}
      BY <1>2, <1>4 DEF Orphan, Live
    <2>2. parent[s] # None /\ state[parent[s]] \in Live /\ parent[s] \in Slot
      BY <2>1 DEF Orphan, LineageInv, Fields, Slot, None
    <2>3. state'[parent[s]] \notin Live
      BY <1>3, <2>2 DEF Orphan
    <2>4. parent[s] = p
      BY <1>4, <2>2, <2>3
    <2> QED
      BY <1>1, <1>2, <1>4, <2>4
  <1> QED
    BY <1>8, <1>9, <1>10, <1>11, <1>12 DEF LineageInv

LEMMA LExit == ASSUME LineageInv, NEW c \in CPU, exit(c) PROVE LineageInv' /\ LeftByThread
  <1>1. Running(c) /\ MainAt(c)
    BY DEF exit, Runs, Running, MainAt, Mains
  <1>2. PICK p \in Slot : p = proc[c] /\ state[p] \in Live
    BY <1>1, Serving DEF Live, LineageInv
  <1>3. CASE HasThreads(p)
    BY <1>2, <1>3, LineagePanics DEF exit, Unsupported
  <1>4. CASE p = initproc
    BY <1>2, <1>3, <1>4, LineagePanics DEF exit
  <1>5. CASE ~HasThreads(p) /\ p # initproc
    <2>1. ~isThread[p]
      BY <1>5 DEF HasThreads
    <2>2. PICK g : g = At("zombie exit", None, 0)
      OBVIOUS
    <2>3. g \in Jobs /\ g.pc \notin Mains
      BY <2>2, Constants DEF At, Jobs, Mains, Filling
    <2>4. /\ state' = ExitStates(p) /\ parent' = Adopted(p) /\ swtch(c, g)
          /\ UNCHANGED <<isThread, tid, nextTid, count>>
      BY <1>2, <1>5, <2>2 DEF exit
    <2>5. /\ state' \in [Slot -> States] /\ state'[p] = "ZOMBIE"
          /\ \A s \in Slot \ {p} : state'[s] = state[s] \/ (state[s] = "SLEEPING" /\ state'[s] = "RUNNABLE")
      BY <1>2, <2>4, Constants DEF ExitStates, wakeup1, LineageInv, Fields, States
    <2>6. /\ parent' \in [Slot -> 0..NPROC]
          /\ \A z \in Slot : parent'[z] = IF parent[z] = p THEN initproc ELSE parent[z]
      BY <2>4, Constants DEF Adopted, LineageInv, Fields, Slot
    <2>7. /\ OneMain' /\ saved' \in [Slot -> Jobs] /\ proc' \in [CPU -> 0..NPROC] /\ run' \in [CPU -> Jobs]
          /\ \A s \in Slot \ {p} : saved'[s] = saved[s]
          /\ \A s \in Slot, f \in Jobs : Doing(s, f)' =>
               IF s = p THEN f = g /\ state'[s] \in {"RUNNABLE", "SLEEPING"} ELSE Doing(s, f)
      BY <1>1, <1>2, <2>3, <2>4, <2>5, Switches DEF LineageInv
    <2>8. Fields'
      BY <2>4, <2>5, <2>6, <2>7 DEF LineageInv, Fields
    <2>9. \A s \in Slot : state[s] \in Live /\ s # p => state'[s] \in Live
      BY <2>5 DEF Live
    <2>10. state'[initproc] \in Live
      BY <1>5, <2>9, Constants DEF LineageInv, Kin
    <2>11. Crew'
      <3>1. ASSUME NEW s \in Slot \ {p}, NEW e \in Jobs, Doing(s, e), e.pc \in Filling PROVE Raises(s, e)'
        <4>1. Raises(s, e) /\ e.slot \in Slot \ {p} /\ state[e.slot] = "EMBRYO"
          BY <1>2, <3>1 DEF LineageInv, Crew, Raises, Live
        <4>2. Stays(e.slot) /\ isThread'[s] = isThread[s] /\ isThread'[e.slot] = isThread[e.slot]
          BY <2>4, <2>5, <2>7, <4>1 DEF Stays
        <4>3. parent[e.slot] = p => isThread[e.slot]
          BY <3>1, <4>1, Constants DEF Raises, Filling
        <4>4. parent'[e.slot] = parent[e.slot] \/ (isThread[e.slot] /\ parent[e.slot] # None /\ parent'[e.slot] # None)
          BY <2>6, <4>1, <4>3, Constants
        <4> QED
          BY <3>1, <4>1, <4>2, <4>4, RaisesKept
      <3>2. \A e \in Jobs : ~Doing(p, e)'
        BY <2>5, <2>7
      <3>3. \A s \in Slot \ {p}, e \in Jobs : Doing(s, e)' => Doing(s, e) \/ e.pc = "forkret"
        BY <2>7
      <3> QED
        BY <3>1, <3>2, <3>3, CrewKept
    <2>12. Kin'
      <3>1. ASSUME NEW s \in Slot
            PROVE  /\ state'[s] = "UNUSED" => parent'[s] = None
                   /\ s # initproc /\ state'[s] \notin {"UNUSED", "EMBRYO"} => parent'[s] # None
        <4>1. /\ state'[s] = "UNUSED" => state[s] = "UNUSED"
              /\ state'[s] \notin {"UNUSED", "EMBRYO"} => state[s] \notin {"UNUSED", "EMBRYO"}
          BY <1>2, <2>5 DEF Live
        <4>2. parent[s] = None <=> parent'[s] = None
          BY <2>6, Constants
        <4> QED
          BY <2>4, <4>1, <4>2 DEF LineageInv, Kin
      <3>2. ASSUME NEW z \in Slot, Rooted(z)', parent'[z] # None
            PROVE  state'[parent'[z]] \in Live /\ ~isThread'[parent'[z]]
        <4>1. parent[z] # None /\ Rooted(z)
          BY <2>4, <2>6, <3>2, Constants DEF Rooted
        <4>2. parent[z] \in Slot /\ state[parent[z]] \in Live /\ ~isThread[parent[z]]
          BY <4>1, RootedParent
        <4>3. CASE parent[z] = p
          <5>1. parent'[z] = initproc
            BY <2>6, <4>3
          <5> QED
            BY <2>4, <2>10, <5>1 DEF LineageInv, Kin
        <4>4. CASE parent[z] # p
          <5>1. parent'[z] = parent[z]
            BY <2>6, <4>4
          <5> QED
            BY <2>4, <2>9, <4>2, <4>4, <5>1
        <4> QED
          BY <4>3, <4>4
      <3> QED
        BY <2>4, <2>10, <3>1, <3>2 DEF LineageInv, Kin
    <2>13. LeftByThread
      <3> SUFFICES ASSUME NEW s \in Slot \ {initproc}, Orphan(s)' PROVE Orphan(s)
        BY DEF LeftByThread
      <3>1. state[s] \notin {"UNUSED", "EMBRYO"} /\ parent'[s] # initproc
        <4>1. state[s] \notin {"UNUSED", "EMBRYO"}
          BY <1>2, <2>5 DEF Orphan, Live
        <4>2. parent'[s] # initproc
          BY <2>10, Constants DEF Orphan
        <4> QED
          BY <4>1, <4>2
      <3>2. parent[s] # p /\ parent'[s] = parent[s]
        BY <2>6, <3>1
      <3>3. parent[s] = None \/ parent[s] \in Slot
        BY DEF LineageInv, Fields, Slot, None
      <3>4. parent[s] # None => state[parent[s]] \notin Live
        BY <2>9, <3>2, <3>3 DEF Orphan
      <3> QED
        BY <3>1, <3>4 DEF Orphan
    <2> QED
      BY <2>7, <2>8, <2>11, <2>12, <2>13 DEF LineageInv
  <1> QED
    BY <1>3, <1>4, <1>5

LEMMA LNext == ASSUME LineageInv, [Next]_vars PROVE LineageInv' /\ LeftByThread
  <1>1. CASE UNCHANGED vars
    BY <1>1, LineageStutters DEF vars, table
  <1>2. ASSUME NEW c \in CPU, NEW s \in Slot, schedule(c, s) PROVE LineageInv' /\ LeftByThread
    BY <1>2, LSchedule
  <1>3. ASSUME NEW c \in CPU, Step(c) PROVE LineageInv' /\ LeftByThread
    <2>1. CASE timer_yield(c)
      BY <2>1, LTimer
    <2>2. CASE KernelStep(c)
      BY <2>2, LAlloc, LCopyuvm, LTake, LSetTid, LReady, LJoinPoll, LExitSched DEF KernelStep
    <2>3. ASSUME NEW call \in {"fork", "kthread_create"}, allocproc(c, call) PROVE LineageInv' /\ LeftByThread
      BY <2>3, LAllocproc
    <2>4. ASSUME NEW t \in 1..MaxCreate, join_find(c, t) PROVE LineageInv' /\ LeftByThread
      BY <2>4, LJoinFind
    <2>5. CASE kthread_exit_zombie(c)
      BY <2>5, LExitZombie
    <2>6. CASE exit(c)
      BY <2>6, LExit
    <2>7. CASE wait(c)
      BY <2>7, LWait
    <2>8. ASSUME NEW z \in Slot, kill(c, z) PROVE LineageInv' /\ LeftByThread
      BY <2>8, LKill
    <2> QED
      BY <1>3, <2>1, <2>2, <2>3, <2>4, <2>5, <2>6, <2>7, <2>8 DEF Step
  <1> QED
    BY <1>1, <1>2, <1>3 DEF Next

-----------------------------------------------------------------------------
(* The theorems.                                                               *)

\* The kernel stack a CPU executes on is that of the process it runs, is not free, and
\* no other CPU is on it: exit() leaves its stack for good before wait() can free it, and
\* on one CPU kthread_exit() does before kthread_join() can.  Kernel threads themselves
\* make none of the three calls of NoThreadCalls, here and where that is assumed below.
THEOREM StacksAreExclusive == ASSUME NoThreadCalls, OneStack PROVE Spec => []StackExclusive
  <1>1. ASSUME ThreadInv, StacksInUse PROVE StackExclusive
    <2> SUFFICES ASSUME NEW c \in CPU, proc[c] # None
                 PROVE  /\ page[c] = kstack[proc[c]] /\ ~Free(page[c])
                        /\ \A d \in CPU \ {c} : page[d] # page[c]
      BY DEF StackExclusive
    <2>1. /\ proc[c] \in Slot /\ page[c] = kstack[proc[c]]
          /\ \A d \in CPU \ {c} : page[d] # page[c]
      BY <1>1, InUseDiffers
    <2>2. DOMAIN freelist = 1..Len(freelist)
      BY <1>1 DEF ThreadInv, Stacks, StackTypes
    <2>3. ~Free(page[c])
      BY <1>1, <2>1, <2>2 DEF ThreadInv, Stacks, PagesOK, Free
    <2> QED
      BY <2>1, <2>3
  <1> QED
    BY <1>1, StacksInUseHolds, PTL

\* The panics of sched(), exit() and kthread_exit() that say that a process which gave up
\* its CPU was still running, or that one which exited was run again, are never reached.
THEOREM SchedNeverPanics == ASSUME NoThreadCalls, OneStack PROVE Spec => []NoSchedPanic
  <1>1. StacksInUse => NoSchedPanic
    BY DEF StacksInUse
  <1> QED
    BY <1>1, StacksInUseHolds, PTL

\* fork() and kthread_create(), their failures, exit(), wait(), kthread_exit() and
\* kthread_join() together neither lose a kernel stack nor give one out twice.
THEOREM PagesAreConserved == ASSUME NoThreadCalls PROVE Spec => []PagesConserved
  <1>1. ASSUME ThreadInv PROVE PagesConserved
    <2> SUFFICES ASSUME NEW pg \in Page
                 PROVE  Cardinality({i \in DOMAIN freelist : freelist[i] = pg})
                          + Cardinality({s \in Slot : kstack[s] = pg}) = 1
      BY DEF PagesConserved
    <2> DEFINE F == {i \in DOMAIN freelist : freelist[i] = pg}
               K == {s \in Slot : kstack[s] = pg}
    <2>1. DOMAIN freelist = 1..Len(freelist) /\ pg # None
      BY <1>1, Constants DEF ThreadInv, Stacks, StackTypes
    <2>2. /\ \A i, j \in F : i = j
          /\ \A s, z \in K : s = z
          /\ F = {} \/ K = {}
          /\ F # {} \/ K # {}
      BY <1>1, <2>1 DEF ThreadInv, Stacks, PagesOK
    <2> HIDE DEF F, K
    <2>3. CASE F = {}
      <3>1. PICK s \in K : TRUE
        BY <2>2, <2>3
      <3>2. K = {s}
        BY <2>2, <3>1
      <3>3. Cardinality(K) = 1
        BY <3>2, FS_Singleton
      <3>4. Cardinality(F) = 0
        BY <2>3, FS_EmptySet
      <3> QED
        BY <3>3, <3>4 DEF F, K
    <2>4. CASE K = {}
      <3>1. PICK i \in F : TRUE
        BY <2>2, <2>4
      <3>2. F = {i}
        BY <2>2, <3>1
      <3>3. Cardinality(F) = 1
        BY <3>2, FS_Singleton
      <3>4. Cardinality(K) = 0
        BY <2>4, FS_EmptySet
      <3> QED
        BY <3>3, <3>4 DEF F, K
    <2> QED
      BY <2>2, <2>3, <2>4
  <1> QED
    BY <1>1, ThreadInvHolds, PTL

\* Whatever kernel threads call, on any number of CPUs, a process or thread loses a living
\* parent only when that is a thread and leaves in kthread_exit(): exit() hands its
\* children to init, no fork() or kthread_create() begins with a parent that is gone, and
\* no reaping by wait() or kthread_join(), also of a slot somebody else has reaped and
\* filled again in the meantime, takes a living parent away.
THEOREM OrphansComeFromThreads == Spec => OnlyThreadsOrphan
  <1>1. LineageInv /\ [Next]_vars => LineageInv'
    BY LNext
  <1>2. LineageInv /\ [Next]_vars =>
          [\A s \in Slot \ {initproc} : Orphan(s)' /\ ~Orphan(s) =>
             isThread[parent[s]] /\ state[parent[s]] \in Live /\ state'[parent[s]] = "ZOMBIE"]_vars
    BY LNext DEF LeftByThread
  <1> QED
    BY InitLineage, <1>1, <1>2, PTL DEF Spec, OnlyThreadsOrphan

\* Unless kernel threads fork, the parent of a process or thread that is left is alive to
\* wait() for it or join it, in whatever order processes and threads exit.
THEOREM NobodyIsOrphaned == ASSUME NoThreadForks PROVE Spec => []NoOrphan
  <1>1. LineageInv /\ [Next]_vars => LineageInv'
    BY LNext
  <1>2. LineageInv => NoOrphan
    <2> SUFFICES ASSUME LineageInv, NEW s \in Slot \ {initproc}, state[s] \notin {"UNUSED", "EMBRYO"}
                 PROVE  parent[s] # None /\ state[parent[s]] \in Live
      BY DEF NoOrphan, Orphan
    <2>1. parent[s] # None
      BY DEF LineageInv, Kin
    <2> QED
      BY <2>1, RootedParent DEF Rooted
  <1> QED
    BY InitLineage, <1>1, <1>2, PTL DEF Spec

\* A process sleeps in wait() only as long as it has no zombie child and is not killed:
\* no order of exit(), kthread_exit(), kill(), wait() and the schedulers loses the wakeup.
THEOREM WakeupsAreNotLost == ASSUME NoThreadCalls PROVE Spec => []NoLostWakeup
  <1>1. WakeInv => NoLostWakeup
    BY DEF WakeInv
  <1> QED
    BY <1>1, WakeInvHolds, PTL

\* thread_count is the number of threads that a process has created and not yet joined,
\* on any number of CPUs: no increment or decrement is lost and no join counts a thread
\* twice.
THEOREM ThreadCountsAreExact == ASSUME NoThreadCalls PROVE Spec => []ThreadCountExact
  <1>1. ThreadInv => ThreadCountExact
    BY DEF ThreadInv, Tallies, Counted, ThreadsOf, ThreadCountExact
  <1> QED
    BY <1>1, ThreadInvHolds, PTL

\* No two threads of a process have the same tid, although kthread_create() reads
\* next_tid and stores it incremented with no lock in between.
THEOREM TidsAreUnique == ASSUME NoThreadCalls PROVE Spec => []UniqueTids
  <1>1. ThreadInv => UniqueTids
    BY DEF ThreadInv, Tallies
  <1> QED
    BY <1>1, ThreadInvHolds, PTL

=============================================================================
