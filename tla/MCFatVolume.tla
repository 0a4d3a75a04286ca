---------------------------- MODULE MCFatVolume -----------------------------
(* Values for model-checking FatVolume. *)
EXTENDS FatVolume, TLC

FileSymmetry == Permutations(Files)
=============================================================================
