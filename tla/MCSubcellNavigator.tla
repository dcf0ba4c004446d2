------------------------- MODULE MCSubcellNavigator -------------------------
(* Instances of SubcellNavigator.  One size is below the grid size, and the   *)
(* grid divides no other: cells differ in pixels and in sub-cells.  Colours   *)
(* are blended at the ends and around the middle of a channel.               *)
EXTENDS OverlayFrame, PixelBlending, TLC
MCPlaces == {-20, 20}
MCSizes == {2, 22}

MCPixels == LET some == {0, 1, 102, 127, 128, 254, 255} IN [a : some, c : some]
ASSUME BlendingAssumption ==
  /\ \A p \in Pixel : Premultiplied(p)
  /\ \A src, dst \in MCPixels : Covers(src, dst) /\ Fits(src, dst)
=============================================================================
