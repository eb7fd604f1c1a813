------------------------------- MODULE MCPipe -------------------------------
(* Instances of Pipe for TLC; see the .cfg files.                           *)
EXTENDS Pipe, TLC

Perms == Permutations(Proc)
=============================================================================
