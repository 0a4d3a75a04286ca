--------------------------- MODULE MCDirectories ----------------------------
(* Values for model-checking Directories. *)
EXTENDS Directories, TLC

NameSymmetry == Permutations(Names)
=============================================================================
