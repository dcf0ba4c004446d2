--------------------------- MODULE MCOverlayDriver ---------------------------
(* Instances of OverlayDriver for TLC. *)
EXTENDS OverlayDriver
=============================================================================
