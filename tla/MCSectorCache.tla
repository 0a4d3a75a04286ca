--------------------------- MODULE MCSectorCache ---------------------------
(* Values for model-checking SectorCache. *)
EXTENDS SectorCache
=============================================================================
