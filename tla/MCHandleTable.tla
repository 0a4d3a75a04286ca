--------------------------- MODULE MCHandleTable ---------------------------
(* Values for model-checking HandleTable. *)
EXTENDS HandleTable, TLC

FileSymmetry == Permutations(Files)
=============================================================================
