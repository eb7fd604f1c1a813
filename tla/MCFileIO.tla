------------------------------ MODULE MCFileIO ------------------------------
(* Instance of FileIO for TLC; see MCFileIO.cfg.                            *)
EXTENDS FileIO, TLC

\* One file for writing and one for appending, in either order for the symmetry.
OneOfEach == {m \in [File -> {"write", "append"}] : \A g, h \in File : g # h => m[g] # m[h]}

Perms == Permutations(Proc) \cup Permutations(File)
=============================================================================
