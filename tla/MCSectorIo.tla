----------------------------- MODULE MCSectorIo -----------------------------
(* Values for model-checking SectorIo: three sectors on a track, four to a *)
(* page.                                                                   *)
EXTENDS SectorIo

MCStarts == 0 .. 13
MCAddresses == {0, 2, 3, 6}
=============================================================================
