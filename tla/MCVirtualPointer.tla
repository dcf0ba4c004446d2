--------------------------- MODULE MCVirtualPointer ---------------------------
(* VirtualPointer for TLC: the bounds are in the configurations. *)
EXTENDS VirtualPointer
=============================================================================
