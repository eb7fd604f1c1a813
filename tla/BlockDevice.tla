---------------------------- MODULE BlockDevice ----------------------------
(***************************************************************************)
(* What the buffer cache and the disk driver promise to the log and the    *)
(* inode layer: blocks that one process at a time has for itself, reads    *)
(* that return what was written last, and writes that are on the platter   *)
(* when bwrite() returns.  Log.tla relies on this; Disk.tla implements it. *)
(***************************************************************************)
CONSTANTS Proc, Block, Value,
          Nothing       \* no block, and no value

VARIABLES mem,      \* contents of each block as the kernel sees it
          stable,   \* contents of the disk
          holder,   \* the block each process has
          seen      \* what it reads there

vars == <<mem, stable, holder, seen>>

Init ==
  /\ mem \in [Block -> Value]
  /\ stable = mem
  /\ holder = [p \in Proc |-> Nothing]
  /\ seen = [p \in Proc |-> Nothing]

Take(p, b) ==
  /\ holder[p] = Nothing
  /\ \A q \in Proc : holder[q] # b
  /\ holder' = [holder EXCEPT ![p] = b]
  /\ seen' = [seen EXCEPT ![p] = mem[b]]
  /\ UNCHANGED <<mem, stable>>

Write(p, v) ==
  /\ holder[p] # Nothing
  /\ mem' = [mem EXCEPT ![holder[p]] = v]
  /\ seen' = [seen EXCEPT ![p] = v]
  /\ UNCHANGED <<stable, holder>>

\* The disk gets what the process that has the block sees.
Sync(p) ==
  /\ holder[p] # Nothing
  /\ stable' = [stable EXCEPT ![holder[p]] = seen[p]]
  /\ UNCHANGED <<mem, holder, seen>>

Drop(p) ==
  /\ holder[p] # Nothing
  /\ holder' = [holder EXCEPT ![p] = Nothing]
  /\ seen' = [seen EXCEPT ![p] = Nothing]
  /\ UNCHANGED <<mem, stable>>

Next == \E p \in Proc :
  \/ \E b \in Block : Take(p, b)
  \/ \E v \in Value : Write(p, v)
  \/ Sync(p)
  \/ Drop(p)

Spec == Init /\ [][Next]_vars
=============================================================================
