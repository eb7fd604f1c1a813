------------------------------ MODULE Lottery ------------------------------
(***************************************************************************)
(* The lottery scheduler (proc.c of the lottery kernel, one CPU).  Every    *)
(* round draws a ticket among the tickets (nice values) of the runnable     *)
(* processes and scans the table; the process that runs gives ptable.lock   *)
(* back meanwhile, so the table changes under the scan.                     *)
(*                                                                         *)
(* One step of the scan is one slot.  pid is not modelled: a process is     *)
(* named by its slot.  Zombies wait for nothing here: exit frees the slot.  *)
(***************************************************************************)
EXTENDS Naturals, FiniteSets, FiniteSetsExt

CONSTANTS
  NPROC,                \* size of the process table
  Nice,                 \* the values user programs pass to renice(), positive numbers
  DEFAULT_NICE_VALUE    \* one of them

Slot == 1..NPROC

VARIABLES
  state, nice,             \* p->state and p->nice_value, by slot
  pc,                      \* the scheduler draws, scans or has switched to a process
  p, count, rand_val       \* its variables; p is a slot number
vars == <<state, nice, pc, p, count, rand_val>>

Runnable == {s \in Slot : state[s] = "RUNNABLE"}
total_nice == FoldSet(LAMBDA s, sum : nice[s] + sum, 0, Runnable)

\* rand() % total_nice + 1; without tickets the scheduler goes round again.
draw(r) ==
  /\ pc = "draw" /\ r < total_nice
  /\ rand_val' = r + 1
  /\ count' = 0 /\ p' = 1
  /\ pc' = "scan"
  /\ UNCHANGED <<state, nice>>

\* The slot p is not runnable, or its tickets end before the drawn one or with it.
pass_over ==
  /\ pc = "scan" /\ p \in Slot
  /\ IF state[p] = "RUNNABLE"
     THEN count + nice[p] <= rand_val /\ count' = count + nice[p]
     ELSE UNCHANGED count
  /\ p' = p + 1
  /\ UNCHANGED <<state, nice, pc, rand_val>>

\* The process p runs; the scan goes on behind it afterwards, with the same ticket.
select ==
  /\ pc = "scan" /\ p \in Slot /\ state[p] = "RUNNABLE"
  /\ count + nice[p] > rand_val
  /\ count' = count + nice[p]
  /\ state' = [state EXCEPT ![p] = "RUNNING"]
  /\ pc' = "run"
  /\ UNCHANGED <<nice, p, rand_val>>

end_of_scan ==
  /\ pc = "scan" /\ p \notin Slot
  /\ pc' = "draw"
  /\ UNCHANGED <<state, nice, p, count, rand_val>>

-----------------------------------------------------------------------------
(* What the running process p does, and interrupts.                         *)

\* yield() on a timer tick, sleep() or exit(): back to the scheduler.
leaves(st) ==
  /\ pc = "run"
  /\ state' = [state EXCEPT ![p] = st]
  /\ p' = p + 1 /\ pc' = "scan"
  /\ UNCHANGED <<nice, count, rand_val>>
yield == leaves("RUNNABLE")
sleep == leaves("SLEEPING")
exit == leaves("UNUSED")

\* The child has as many tickets as its parent.
fork(s) ==
  /\ pc = "run" /\ state[s] = "UNUSED" /\ \A r \in 1..s - 1 : state[r] # "UNUSED"
  /\ state' = [state EXCEPT ![s] = "RUNNABLE"]
  /\ nice' = [nice EXCEPT ![s] = nice[p]]
  /\ UNCHANGED <<pc, p, count, rand_val>>

\* renice() takes every value: its range test can never be true.
renice(s, v) ==
  /\ pc = "run" /\ state[s] # "UNUSED"
  /\ nice' = [nice EXCEPT ![s] = v]
  /\ UNCHANGED <<state, pc, p, count, rand_val>>

\* wakeup() by the running process or by an interrupt; those come when ptable.lock is free.
wakeup(s) ==
  /\ pc \in {"run", "draw"} /\ state[s] = "SLEEPING"
  /\ state' = [state EXCEPT ![s] = "RUNNABLE"]
  /\ UNCHANGED <<nice, pc, p, count, rand_val>>

Init ==
  /\ state = [s \in Slot |-> IF s = 1 THEN "RUNNABLE" ELSE "UNUSED"]
  /\ nice = [s \in Slot |-> IF s = 1 THEN DEFAULT_NICE_VALUE ELSE 0]
  /\ pc = "draw" /\ p = 1 /\ count = 0 /\ rand_val = 1

MaxTotal == NPROC * Max(Nice)

Scan == pass_over \/ select \/ end_of_scan

Next ==
  \/ \E r \in 0..MaxTotal - 1 : draw(r)
  \/ Scan
  \/ yield \/ sleep \/ (p # 1 /\ exit)
  \/ \E s \in Slot : fork(s) \/ wakeup(s) \/ \E v \in Nice : renice(s, v)

Spec == Init /\ [][Next]_vars

(* Fairness: the scheduler and the timer go on, and luck is with everybody:  *)
(* every ticket that can be drawn again and again is drawn again and again.   *)
(* That is more than rand.c promises, whose period says nothing of a total    *)
(* that changes; a process that starves all the same does not starve for luck. *)
FairSpec ==
  /\ Spec /\ WF_vars(Scan) /\ WF_vars(yield)
  /\ \A r \in 0..MaxTotal - 1 : SF_vars(draw(r))

-----------------------------------------------------------------------------
(* Properties.                                                             *)

\* A runnable process gets the CPU, whatever tickets it and the others have.  The
\* scheduler violates it: draw() gives tickets 1..total_nice, and the test
\* `count <= rand_val` makes a process win with the tickets before its last one and
\* the last one of its predecessor.  Nobody wins with the last ticket of all; the
\* first process of the table with one ticket has none left.
NoStarvation == \A s \in Slot : state[s] = "RUNNABLE" ~> state[s] = "RUNNING"
=============================================================================
