-------------------------------- MODULE MCLog --------------------------------
(* Instances of Log for TLC: which processes, blocks and bounds, see the    *)
(* .cfg files.                                                              *)
EXTENDS Log, TLC

Perms == Permutations(Proc)
=============================================================================
