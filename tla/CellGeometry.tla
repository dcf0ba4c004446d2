----------------------------- MODULE CellGeometry -----------------------------
(***************************************************************************)
(* The arithmetic of geometry.go, subcell_navigation.go and pointer.go: how  *)
(* a monitor is divided into cells, a cell into hidden sub-cells, and how a   *)
(* target becomes a motion_absolute request.                               *)
(*                                                                         *)
(* A float64 coordinate is a number of units of 1/(2*count) logical pixels,  *)
(* where count is the number of sub-cells of its axis: the centre of a cell  *)
(* and every sub-cell step are whole numbers of them.  Rounding errors of    *)
(* float64 are not modelled.                                                *)
(***************************************************************************)
EXTENDS Integers

MaxCount == 26
Labels == 0..25          \* rendererLabelCharacters, A to Z

\* Faulty variant: every span has the same whole width.
EvenStart(total, parts, i) == i * (total \div parts)
SpanStart(total, parts, i) == (i * total) \div parts

\* partitionSpans: span i covers the pixels from start to finish - 1.
PartitionSpans(total, parts) ==
  [i \in 0 .. parts - 1 |-> [start |-> SpanStart(total, parts, i),
                             finish |-> SpanStart(total, parts, i + 1)]]

SpanSize(span) == span.finish - span.start

\* minInt and maxInt
Lower(a, b) == IF a < b THEN a ELSE b
Higher(a, b) == IF a > b THEN a ELSE b

\* math.Round of n/d for n >= 0: halves go up.
RoundDiv(n, d) == (2 * n + d) \div (2 * d)

Clamp(v, low, high) == IF v < low THEN low ELSE IF v > high THEN high ELSE v

\* Faulty variant: every axis has the most sub-cells there may be.
AlwaysCapped(axisSize, pixels) == MaxCount
HiddenSubcellCount(axisSize, pixels) == Clamp(RoundDiv(axisSize, pixels), 1, MaxCount)

\* gridLetterIndex: a letter is its index in the alphabet.
OnGrid(letter, gridSize) == letter \in Labels /\ letter < gridSize

-----------------------------------------------------------------------------
(* Positions, in units of 1/(2*count). *)

Units(pixels, count) == 2 * count * pixels

\* Rect.Center of a span.
Center(span, count) == count * (span.start + span.finish)

\* StepX * subcells: one step is size/count pixels.
StepUnits(span, subcells) == 2 * SpanSize(span) * subcells

\* hiddenSubcellNavigator.Move along one axis.
Moved(at, towards, span, subcells, count, total) ==
  Clamp(at + towards * StepUnits(span, subcells), 0, Units(total, count))

\* roundedUintWithinExtent, without its error.
RoundPosition(units, count) == RoundDiv(units, 2 * count)
=============================================================================
