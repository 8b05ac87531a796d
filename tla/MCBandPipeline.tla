--------------------------- MODULE MCBandPipeline ---------------------------
(* Instances of BandPipeline for TLC: the configurations give MaxReworks,  *)
(* the bound on the chat and the failures to explore.                      *)
EXTENDS BandPipeline

=============================================================================
