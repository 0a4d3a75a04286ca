---------------------------- MODULE MCMediaChange ----------------------------
(* Values for model-checking MediaChange. *)
EXTENDS MediaChange, TLC

DiskSymmetry == Permutations(Disks)
=============================================================================
