----------------------------- MODULE MCSiteApp ------------------------------
(* Values for model-checking SiteApp: the observer's band is empty, holds  *)
(* one stage, or holds two neighbours.                                     *)
EXTENDS SiteApp

MCBands == {{}, {"s0"}, {"s1", "s1b"}, {"s1b", "s2"}, {"s5"}, {"s7"}}
=============================================================================
