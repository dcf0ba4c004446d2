---------------------------- MODULE MCLayerSurface ----------------------------
(* Instances of LayerSurface. *)
EXTENDS LayerSurface, TLC
=============================================================================
