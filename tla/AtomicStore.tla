----------------------------- MODULE AtomicStore -----------------------------
(***************************************************************************)
(* What the logging layer promises to the file system: a store of disk     *)
(* blocks with transactions.  A file system call opens a transaction,      *)
(* writes blocks and closes it; the writes of all the transactions that    *)
(* overlap become durable together, in one step that happens while no      *)
(* transaction is open; a crash forgets exactly the writes that are not    *)
(* durable.  Log.tla is shown to implement this specification.             *)
(***************************************************************************)
CONSTANTS Proc,     \* processes that make file system calls
          Block,    \* blocks of the file system
          Value,    \* contents of a block
          Zero      \* contents of every block of a fresh disk

VARIABLES durable,  \* contents a restart brings back
          current,  \* contents the running system reads
          open      \* processes inside a transaction

vars == <<durable, current, open>>

Init ==
  /\ durable = [b \in Block |-> Zero]
  /\ current = durable
  /\ open = {}

Begin(p) ==
  /\ p \notin open
  /\ open' = open \cup {p}
  /\ UNCHANGED <<durable, current>>

Write(p, b, v) ==
  /\ p \in open
  /\ current' = [current EXCEPT ![b] = v]
  /\ UNCHANGED <<durable, open>>

End(p) ==
  /\ p \in open
  /\ open' = open \ {p}
  /\ UNCHANGED <<durable, current>>

\* Group commit: never while a transaction is half done.
Commit ==
  /\ open = {}
  /\ durable' = current
  /\ UNCHANGED <<current, open>>

Crash ==
  /\ current' = durable
  /\ open' = {}
  /\ UNCHANGED durable

Next ==
  \/ \E p \in Proc : Begin(p) \/ End(p)
  \/ \E p \in Proc, b \in Block, v \in Value : Write(p, b, v)
  \/ Commit
  \/ Crash

Spec == Init /\ [][Next]_vars
=============================================================================
