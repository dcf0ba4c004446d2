----------------------------- MODULE OverlayFrame -----------------------------
(***************************************************************************)
(* The frames of a session: SubcellNavigator has the letters and the size of  *)
(* the monitor, GridRenderer what is drawn for them.  Every letter, backspace *)
(* and reconfiguration draws (configureAndRender and                        *)
(* configureAndRenderSelectedCell in overlay.go), and a move does not.       *)
(***************************************************************************)
EXTENDS SubcellNavigator, GridRenderer

Columns == 0 .. GridSize - 1
Words == UNION {[1..n -> Columns] : n \in 0..2}
Typed == [i \in 1..input |-> IF i = 1 THEN letters["x"] ELSE letters["y"]]

-----------------------------------------------------------------------------
(* What the user sees of a frame. *)

\* The frame has a pixel of this colour there.
Sees(frame, colour, xs, ys) == \E x \in xs, y \in ys : Colour(frame, x, y) = colour

PixelsOf(span) == span.start .. span.finish - 1
Stroke(center, limit) ==
  LET range == StrokeRange(center, LineWidth, limit) IN range.from .. range.upto - 1

\* A line of this colour is seen on each of the four sides of the cell.
Bordered(frame, colour, sizes, column, row) ==
  /\ \A x \in {column.start, column.finish} : Sees(frame, colour, Stroke(x, sizes.x), PixelsOf(row))
  /\ \A y \in {row.start, row.finish} : Sees(frame, colour, PixelsOf(column), Stroke(y, sizes.y))

SeenThrough(frame, column, row) == Sees(frame, "clear", PixelsOf(column), PixelsOf(row))

\* The cells that a frame borders.
Shown(word) == CASE Len(word) = 0 -> Columns \X Columns
                 [] Len(word) = 1 -> {word[1]} \X Columns
                 [] Len(word) = 2 -> {<<word[1], word[2]>>}

\* The cells without a label, a tint or a HUD.
Empty(word, c) == \/ Len(word) = 0 /\ {c[1], c[2]} \cap {0, GridSize - 1} = {}
                  \/ Len(word) = 2

Legible(sizes, word) ==
  LET frame == Frame(sizes, GridSize, word)
      colour == IF Len(word) = 0 THEN "core" ELSE "bright"
      hud == HUD(sizes, GridSize)
  IN /\ \A c \in Shown(word) :
          LET column == Spans(sizes, GridSize).x[c[1]]
              row == Spans(sizes, GridSize).y[c[2]]
          IN /\ Bordered(frame, colour, sizes, column, row)
             /\ Empty(word, c) => SeenThrough(frame, column, row)
     /\ Len(word) = 1 => \A i \in Columns : ~ \E x \in 0 .. sizes.x - 1, y \in 0 .. sizes.y - 1 :
                           /\ Inside(hud, x, y)
                           /\ Inside(Label(Spans(sizes, GridSize).x[i],
                                           Spans(sizes, GridSize).y[GridSize - 1]), x, y)

\* The rows that the HUD takes: its halo ends before those of the margin do.
HUDRoom == HUDSize + HUDMargin + HaloRadius(HUDSize) + 1

\* Cells with room for the halos of two lines, rows with room for the HUD, and
\* a monitor with room for three of it.  What has room for the HUD has room for
\* a label.
Roomy(sizes) ==
  /\ \A a \in Axes, i \in Columns : SpanSize(Spans(sizes, GridSize)[a][i]) > 2 * HaloWidth
  /\ \A i \in Columns : SpanSize(Spans(sizes, GridSize).y[i]) >= HUDRoom
  /\ sizes.y >= 3 * HUDRoom

LegibleFrames == [sizes \in {s \in [Axes -> Sizes] : Roomy(s)} |-> {word \in Words : Legible(sizes, word)}]

-----------------------------------------------------------------------------
\* In every frame of a session the cells that can be typed next, or the one that
\* was, have a line on each of their sides, also along the edges of the monitor
\* and whatever was drawn after it; those that are empty can be seen through
\* (PRD.md says that they stay transparent), and the HUD hides no label of the
\* bottom row.  An opacity of 0 is valid too, and draws no lines.
FrameLegible == ~failed /\ Roomy(size) /\ GridOpacity > 0 => Typed \in LegibleFrames[size]
=============================================================================
