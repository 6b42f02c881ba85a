--------------------------- MODULE MC_Playground ---------------------------
(* Two accounts on one browser; see Playground.cfg for the bounds.          *)
EXTENDS Playground
=============================================================================
