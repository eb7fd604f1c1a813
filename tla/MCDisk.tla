------------------------------- MODULE MCDisk -------------------------------
(* Instance of Disk for TLC, see MCDisk.cfg: a process that uses two buffers *)
(* at a time and one that uses one; the block w is the second of every pair. *)
EXTENDS Disk, TLC

CONSTANTS a1, a2, b0, w

TwoAndOne == [p \in Proc |-> IF p = b0 THEN 2 ELSE 1]
BeforeW == (Block \ {w}) \X {w}

Perms == Permutations({a1, a2}) \cup Permutations(Block \ {w}) \cup Permutations(Lock)
           \cup Permutations(Value)
=============================================================================
