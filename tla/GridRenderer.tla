----------------------------- MODULE GridRenderer -----------------------------
(***************************************************************************)
(* What renderer_software.go draws: a frame is the sequence of the           *)
(* rectangles it fills on a canvas, each with the name of its colour, and a   *)
(* pixel shows the last one that covers it.  Blending is left out, and a      *)
(* glyph is the box that it is drawn in.                                    *)
(***************************************************************************)
EXTENDS CellGeometry, Sequences

CONSTANTS LineWidth,      \* appearance.grid_line_width
          LabelSize,      \* appearance.label_font_size
          GridOpacity     \* appearance.grid_opacity, in hundredths

ASSUME RendererAssumption ==
  LineWidth \in Nat \ {0} /\ LabelSize \in Nat \ {0} /\ GridOpacity \in 0..100

\* gridHaloWidth, labelHaloRadius, hudHaloRadius, deriveHUDFontSize and the
\* margin of drawHUD.
HaloWidth == LineWidth + 2 * Higher(1, LineWidth)
HaloRadius(fontSize) == Higher(1, fontSize \div 7)
HUDSize == Higher(RoundDiv(5 * LabelSize, 4), LabelSize + 1)
HUDMargin == Higher(2, HUDSize \div 2)

\* scaleBakedGlyph: every letter, and the "_" of the HUD, is 5 by 7.
GlyphWidth(fontSize) == Higher(1, RoundDiv(5 * fontSize, 7))

-----------------------------------------------------------------------------
(* Rectangles: half-open intervals of pixels. *)

\* scalePixelAlpha, with the scale in hundredths of GridOpacity.
Scaled(alpha, scale) == RoundDiv(alpha * Lower(scale * GridOpacity, 10000), 10000)

\* The alpha of the colours that things are drawn in.
Alpha == [core |-> Scaled(190, 100), halo |-> Scaled(140, 100),
          faint |-> Scaled(190, 24), faintHalo |-> Scaled(140, 24),
          bright |-> Scaled(190, 145), brightHalo |-> Scaled(140, 135),
          dim |-> Scaled(140, 30), fill |-> Scaled(64, 100), label |-> 235, hud |-> 235]

Box(x0, y0, x1, y1, colour) == [x0 |-> x0, y0 |-> y0, x1 |-> x1, y1 |-> y1, colour |-> colour]

Inside(box, x, y) == box.x0 <= x /\ x < box.x1 /\ box.y0 <= y /\ y < box.y1

\* fillRect, which ignores what is outside of the canvas and draws nothing in a
\* colour without alpha.
Colour(frame, x, y) ==
  LET over == {i \in DOMAIN frame : Alpha[frame[i].colour] > 0 /\ Inside(frame[i], x, y)}
  IN IF over = {} THEN "clear" ELSE frame[CHOOSE i \in over : \A j \in over : j <= i].colour

\* Faulty variant: the last line lies outside of the canvas.
StrokeCentred(center, width, limit) ==
  LET w == Higher(1, Lower(width, limit))
      from == center - w \div 2
  IN [from |-> Higher(from, 0), upto |-> Lower(from + w, limit)]

\* strokeRange
StrokeRange(center, width, limit) ==
  LET w == Higher(1, Lower(width, limit))
      from == CASE center >= limit -> limit - w
                [] center <= 0 /\ center < limit -> 0
                [] OTHER -> center - w \div 2
  IN [from |-> Higher(from, 0), upto |-> Lower(from + w, limit)]

\* drawVerticalStrokeRange and drawHorizontalStrokeRange, halo first.
Vertical(size, x, y0, y1, halo, core) ==
  LET wide == StrokeRange(x, HaloWidth, size.x)
      thin == StrokeRange(x, LineWidth, size.x)
  IN <<Box(wide.from, y0, wide.upto, y1, halo), Box(thin.from, y0, thin.upto, y1, core)>>
Horizontal(size, y, x0, x1, halo, core) ==
  LET wide == StrokeRange(y, HaloWidth, size.y)
      thin == StrokeRange(y, LineWidth, size.y)
  IN <<Box(x0, wide.from, x1, wide.upto, halo), Box(x0, thin.from, x1, thin.upto, core)>>

\* The boxes of n strokes, one stroke after the other.
Strokes(strokes, n) == [i \in 1 .. 2 * n |-> strokes[(i + 1) \div 2][2 - (i % 2)]]

-----------------------------------------------------------------------------
(* A monitor of size.x by size.y pixels with n by n cells. *)

Spans(size, n) == [x |-> PartitionSpans(size.x, n), y |-> PartitionSpans(size.y, n)]
\* The n + 1 boundaries of an axis.
Edge(spans, i) == IF i = 0 THEN 0 ELSE spans[i - 1].finish

GridLines(size, n, halo, core) ==
  Strokes([i \in 1 .. n + 1 |->
             Vertical(size, Edge(Spans(size, n).x, i - 1), 0, size.y, halo, core)], n + 1)
  \o Strokes([i \in 1 .. n + 1 |->
             Horizontal(size, Edge(Spans(size, n).y, i - 1), 0, size.x, halo, core)], n + 1)

\* drawGlyphCenteredColored: the glyph and its halo, clipped to the cell.
Label(column, row) ==
  LET x == column.start + (SpanSize(column) - GlyphWidth(LabelSize)) \div 2
      y == row.start + (SpanSize(row) - LabelSize) \div 2
      r == HaloRadius(LabelSize)
  IN Box(Higher(column.start, x - r), Higher(row.start, y - r),
         Lower(column.finish, x + GlyphWidth(LabelSize) + r),
         Lower(row.finish, y + LabelSize + r), "label")

\* The four edges: a column's letter in its first and its last row, and a row's.
\* They have one colour and are not in order.
EdgeLabels(size, n) ==
  LET x == Spans(size, n).x
      y == Spans(size, n).y
  IN [i \in 1..n |-> Label(x[i - 1], y[0])] \o [i \in 1..n |-> Label(x[i - 1], y[n - 1])]
     \o [i \in 1..n |-> Label(x[0], y[i - 1])] \o [i \in 1..n |-> Label(x[n - 1], y[i - 1])]

\* drawDimmedColumns: all but the selected one.
DimmedColumns(size, n, selected) ==
  [i \in 1 .. n - 1 |-> LET column == Spans(size, n).x[IF i - 1 < selected THEN i - 1 ELSE i]
                        IN Box(column.start, 0, column.finish, size.y, "dim")]

\* drawSelectedColumn
SelectedColumn(size, n, selected) ==
  LET column == Spans(size, n).x[selected]
      rows == Spans(size, n).y
  IN <<Box(column.start, 0, column.finish, size.y, "fill")>>
     \o Vertical(size, column.start, 0, size.y, "brightHalo", "bright")
     \o Vertical(size, column.finish, 0, size.y, "brightHalo", "bright")
     \o Strokes([i \in 1 .. n + 1 |->
           Horizontal(size, Edge(rows, i - 1), column.start, column.finish, "brightHalo", "bright")], n + 1)
     \o <<Label(column, rows[0]), Label(column, rows[n - 1])>>

\* drawHUD: the letter and "_" above the labels of the bottom row, if there is
\* room for it.
HUD(size, n) ==
  LET width == 2 * GlyphWidth(HUDSize) + Higher(1, HUDSize \div 5)
      middle == Higher((size.x - width) \div 2, HUDMargin)
      x == IF middle + width > size.x - HUDMargin THEN Higher(0, size.x - HUDMargin - width)
           ELSE middle
      above == size.y - SpanSize(Spans(size, n).y[n - 1]) - HUDSize - HUDMargin
      y == IF above < HUDMargin THEN Higher(0, size.y - HUDSize - HUDMargin) ELSE above
      r == HaloRadius(HUDSize)
  IN Box(x - r, y - r, x + width + r, y + HUDSize + r, "hud")

\* drawSelectedCellOutline
Outline(size, column, row) ==
  Vertical(size, column.start, row.start, row.finish, "brightHalo", "bright")
  \o Vertical(size, column.finish, row.start, row.finish, "brightHalo", "bright")
  \o Horizontal(size, row.start, column.start, column.finish, "brightHalo", "bright")
  \o Horizontal(size, row.finish, column.start, column.finish, "brightHalo", "bright")

\* RenderGridWithState or RenderSelectedCellOutline: what is drawn for the
\* letters typed so far.
Frame(size, n, word) ==
  CASE Len(word) = 0 -> GridLines(size, n, "halo", "core") \o EdgeLabels(size, n)
    [] Len(word) = 1 -> DimmedColumns(size, n, word[1])
                        \o GridLines(size, n, "faintHalo", "faint") \o EdgeLabels(size, n)
                        \o SelectedColumn(size, n, word[1]) \o <<HUD(size, n)>>
    [] Len(word) = 2 -> Outline(size, Spans(size, n).x[word[1]], Spans(size, n).y[word[2]])
=============================================================================
