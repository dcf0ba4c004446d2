---------------------------- MODULE PixelBlending ----------------------------
(***************************************************************************)
(* The arithmetic of renderer.go on one pixel: what a rectangle or a glyph    *)
(* that is drawn over it makes of it, and what goes into the shm buffer.  A   *)
(* pixel is its alpha and one of its three colour channels, which are alike.  *)
(***************************************************************************)
EXTENDS CellGeometry

Channel == 0..255
Pixel == [a : Channel, c : Channel]

\* The conversion to uint8 drops what does not fit.
Byte(n) == n % 256

\* PremultiplyARGBPixel
Premultiply(p) == [a |-> p.a, c |-> Byte((p.c * p.a + 127) \div 255)]

\* AlphaOverStraightARGB: the weights of the two colours, whose sum is 255
\* times the new alpha.
Weight(src) == 255 * src.a
Rest(src, dst) == dst.a * (255 - src.a)
Total(src, dst) == Weight(src) + Rest(src, dst)

\* blendStraightChannel
Mixed(src, dst) == src.c * Weight(src) + dst.c * Rest(src, dst)
Blend(src, dst) == (Mixed(src, dst) + Total(src, dst) \div 2) \div Total(src, dst)

AlphaOver(src, dst) ==
  IF src.a = 0 THEN dst
  ELSE IF src.a = 255 \/ dst.a = 0 THEN src
  ELSE [a |-> Byte((Total(src, dst) + 127) \div 255), c |-> Byte(Blend(src, dst))]

-----------------------------------------------------------------------------
\* What the shm buffer gets is a premultiplied pixel, as wl_shm's argb8888
\* wants it: PRD.md says that semi-transparent pixels do not become white.
Premultiplied(p) == Premultiply(p) \in Pixel /\ Premultiply(p).c <= p.a

\* What is drawn over a pixel makes it no more transparent than it was or than
\* what is drawn, and gives it a colour between the two.
Covers(src, dst) ==
  LET out == AlphaOver(src, dst)
  IN /\ out \in Pixel
     /\ out.a >= Higher(src.a, dst.a)
     /\ out.c \in Lower(src.c, dst.c) .. Higher(src.c, dst.c)

\* The sums of blendStraightChannel fit into a uint32, even into half of one.
HalfUint32 == 32767 * 65536 + 65535
Fits(src, dst) == Mixed(src, dst) + Total(src, dst) \div 2 \in 0 .. HalfUint32
=============================================================================
