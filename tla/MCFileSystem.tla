---------------------------- MODULE MCFileSystem ----------------------------
(* Instances of FileSystem for TLC; see the .cfg files.                     *)
EXTENDS FileSystem, TLC

CONSTANTS a, b

\* A directory a and what is in it, names for two inodes.
MCPaths == {<<a>>, <<b>>, <<a, b>>}

\* What mkfs makes: an empty root directory.
EmptyFS == [i \in Inum |-> IF i = Root THEN [FreeNode EXCEPT !.type = "DIR", !.nlink = 1, !.parent = Root]
                                       ELSE FreeNode]

\* After mkdir("a").
Populated == [EmptyFS EXCEPT ![Root].nlink = 2, ![Root].ent[a] = 2,
  ![2] = [FreeNode EXCEPT !.type = "DIR", !.nlink = 1, !.parent = Root]]

MCImages == {Populated}

Perms == Permutations(Proc)
=============================================================================
