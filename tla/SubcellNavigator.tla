--------------------------- MODULE SubcellNavigator ---------------------------
(***************************************************************************)
(* Coordinate entry, the hidden sub-cell navigator and the pointer requests  *)
(* that come of them (coordinate_entry.go, subcell_navigation.go,            *)
(* absoluteMotionRequest in pointer.go), in one session.                     *)
(*                                                                         *)
(* The two axes are alike and each has its own part of the state.  The       *)
(* virtual pointer is bound to the focused output, or in fallback mode to     *)
(* the layout of all outputs: here the focused one, at 0, and another.        *)
(*                                                                         *)
(* The pointer's connection is opened by the first motion and nobody          *)
(* dispatches on it afterwards, so that it never hears of a new size.        *)
(***************************************************************************)
EXTENDS CellGeometry

CONSTANTS GridSize,       \* grid.size
          Pixels,         \* grid.subgrid_pixel_size
          Sizes,          \* logical sizes a monitor may have
          Places,         \* where along an axis the other output may start
          MaxMoves        \* moves in a session; unbounded in reality

ASSUME NavigatorAssumption ==
  /\ GridSize \in 1..26 /\ Pixels \in Nat \ {0} /\ MaxMoves \in Nat
  /\ Sizes \subseteq Nat \ {0} /\ Places \subseteq Int

Axes == {"x", "y"}
Span == [start : Nat, finish : Nat]

VARIABLES
  mode,       \* virtualPointerBinding.Mode
  size,       \* per axis: session.monitor's logical size
  place,      \* per axis: where the other output starts
  other,      \* its size, on both axes; 0 if the pointer's connection does not know it
  known,      \* per axis: the size the pointer's connection knows, 0 before it is open
  input,      \* session.coordinate: how many letters
  letters,    \* the letters, per axis
  selected,   \* session.hasSelected
  cell,       \* per axis: the span of session.selected
  count,      \* per axis: sub-cells
  at,         \* per axis: the navigator
  request,    \* per axis: the last motion_absolute
  moves, failed

layoutVars == <<mode, place, other>>
navigatorVars == <<cell, count, at>>
vars == <<layoutVars, size, known, input, letters, selected, navigatorVars, request, moves, failed>>

TypeOK ==
  /\ mode \in {"with_output", "fallback"}
  /\ size \in [Axes -> Sizes] /\ place \in [Axes -> Places] /\ other \in Sizes \cup {0}
  /\ known \in [Axes -> Sizes] \cup {[a \in Axes |-> 0]}
  /\ input \in 0..2 /\ letters \in [Axes -> 0 .. GridSize - 1] /\ selected \in BOOLEAN
  /\ cell \in [Axes -> Span] /\ count \in [Axes -> 1..MaxCount] /\ at \in [Axes -> Nat]
  /\ request \in [Axes -> Nat] /\ moves \in 0..MaxMoves /\ failed \in BOOLEAN

-----------------------------------------------------------------------------
(* virtualPointerLayoutFromOutputs, along one axis: the focused output is      *)
(* 0 .. size - 1 and the other starts at `place`.                           *)

\* An output that was plugged in while the connection was opened may have no size
\* yet, and the connection never hears of it: then there is no layout.
LayoutKnown == other > 0

LayoutStart(a) == Lower(0, place[a])
\* Faulty variant: the layout is as wide as the widest output.
WidestOnly(a) == Higher(known'[a], other)
LayoutSize(a) == Higher(known'[a], place[a] + other) - LayoutStart(a)

OutputInLayout(a) == 0 - LayoutStart(a)

\* createVirtualPointerForManagerVersion: the manager knows outputs from its
\* version 2 on.
BindingMode(version) == IF version >= 2 THEN "with_output" ELSE "fallback"

Init ==
  /\ mode \in {BindingMode(version) : version \in 1..2}
  /\ size \in [Axes -> Sizes] /\ known = [a \in Axes |-> 0]
  /\ place \in [Axes -> Places] /\ other \in Sizes \cup {0}
  /\ input = 0 /\ letters = [a \in Axes |-> 0] /\ selected = FALSE
  /\ cell = [a \in Axes |-> [start |-> 0, finish |-> 0]]
  /\ count = [a \in Axes |-> 1] /\ at = [a \in Axes |-> 0]
  /\ request = [a \in Axes |-> 0] /\ moves = 0 /\ failed = FALSE

-----------------------------------------------------------------------------
\* absoluteMotionRequest for the point p of an axis with n sub-cells: its two
\* checks, and the request.
Requested(a, p, n) ==
  IF mode = "with_output" THEN RoundPosition(p, n)
  ELSE RoundPosition(Units(OutputInLayout(a), n) + p, n)

Limit(a) == IF mode = "with_output" THEN known'[a] ELSE LayoutSize(a)

Accepted(a, p, n) == p \in 0..Units(known'[a], n) /\ Requested(a, p, n) \in 0..Limit(a)

\* pointer.MoveAbsolute: a binding that does not match the monitor is made
\* again, from what the connection knows, and in both modes with the layout.  An
\* error ends the session.
MoveAbsolute(target, counts) ==
  /\ known' = IF known["x"] = 0 THEN size ELSE known
  /\ IF LayoutKnown /\ \A a \in Axes : Accepted(a, target[a], counts[a])
       THEN /\ request' = [a \in Axes |-> Requested(a, target[a], counts[a])]
            /\ UNCHANGED failed
       ELSE failed' = TRUE /\ UNCHANGED request

\* NewGridGeometry and SelectedCell: the spans that the letters name.
SelectedCell(sizes, word) == [a \in Axes |-> PartitionSpans(sizes[a], GridSize)[word[a]]]

\* newHiddenSubcellNavigator: a cell without a pixel is an error.
Select(sizes, word) ==
  LET spans == SelectedCell(sizes, word)
      counts == [a \in Axes |-> HiddenSubcellCount(SpanSize(spans[a]), Pixels)]
  IN /\ \A a \in Axes : SpanSize(spans[a]) > 0
     /\ cell' = spans /\ count' = counts
     /\ at' = [a \in Axes |-> Center(spans[a], counts[a])]

NoCell(sizes, word) ==
  \E a \in Axes : SpanSize(SelectedCell(sizes, word)[a]) = 0

\* coordinateEntryState.AddLetter: the first letter is the column.
AddLetter(letter) ==
  /\ ~failed /\ input < 2 /\ OnGrid(letter, GridSize)
  /\ input' = input + 1
  /\ letters' = [letters EXCEPT ![IF input = 0 THEN "x" ELSE "y"] = letter]
  /\ \/ input = 0 /\ UNCHANGED <<selected, known, navigatorVars, request, failed>>
     \/ input = 1 /\ selected' = TRUE /\ Select(size, letters') /\ MoveAbsolute(at', count')
     \/ /\ input = 1 /\ NoCell(size, letters') /\ failed' = TRUE
        /\ UNCHANGED <<selected, known, navigatorVars, request>>
  /\ UNCHANGED <<layoutVars, size, moves>>

Backspace ==
  /\ ~failed /\ input > 0
  /\ input' = input - 1 /\ selected' = FALSE
  /\ cell' = [a \in Axes |-> [start |-> 0, finish |-> 0]]
  /\ count' = [a \in Axes |-> 1] /\ at' = [a \in Axes |-> 0]
  /\ UNCHANGED <<layoutVars, size, known, letters, request, moves, failed>>

MovedOn(a, towards, subcells) == Moved(at[a], towards, cell[a], subcells, count[a], size[a])

\* moveHiddenSubcell: a key press moves 1 sub-cell, a repeat tick up to 4.
Move(a, towards, subcells) ==
  /\ ~failed /\ selected /\ moves < MaxMoves
  /\ moves' = moves + 1
  /\ at' = [at EXCEPT ![a] = MovedOn(a, towards, subcells)]
  /\ MoveAbsolute(at', count)
  /\ UNCHANGED <<layoutVars, size, input, letters, selected, cell, count>>

\* reconfigureActiveSession with another size: the selection stays, and the
\* navigator goes back to the middle of its cell without a pointer motion.
Reconfigure(sizes) ==
  /\ ~failed
  /\ size' = sizes
  /\ \/ ~selected /\ UNCHANGED <<navigatorVars, failed>>
     \/ selected /\ Select(sizes, letters) /\ UNCHANGED failed
     \/ selected /\ NoCell(sizes, letters) /\ failed' = TRUE /\ UNCHANGED navigatorVars
  /\ UNCHANGED <<layoutVars, known, input, letters, selected, request, moves>>

Next ==
  \/ \E letter \in 0..GridSize : AddLetter(letter)
  \/ Backspace
  \/ \E a \in Axes, towards \in {-1, 1}, subcells \in 1..4 : Move(a, towards, subcells)
  \/ \E sizes \in [Axes -> Sizes] : Reconfigure(sizes)

Spec == Init /\ [][Next]_vars

-----------------------------------------------------------------------------
\* Every logical pixel of the monitor belongs to exactly one cell, whatever the
\* monitor and the grid size (NewGridGeometry).
PixelsPartitioned ==
  \A a \in Axes : \A pixel \in 0 .. size[a] - 1 :
    \E column \in 0 .. GridSize - 1 :
      \A i \in 0 .. GridSize - 1 :
        LET span == PartitionSpans(size[a], GridSize)[i]
        IN span.start <= pixel /\ pixel < span.finish <=> i = column

\* The navigator may leave the cell but not the monitor.
InsideMonitor == selected /\ ~failed => \A a \in Axes : at[a] \in 0..Units(size[a], count[a])

\* The pointer's connection is not open yet, or knows the monitor's size.
Known == known = size \/ known = [a \in Axes |-> 0]

\* The pointer refuses no target of the navigator, in either mode and wherever
\* the outputs are: what makes the session fail is a cell without a pixel, a monitor
\* that got another size after the pointer's connection was opened, or an output,
\* be it another one, whose size that connection does not know.
NeverRefused == failed => NoCell(size, letters) \/ ~Known \/ ~LayoutKnown

\* Every move is seen on the screen: from a navigator that the cursor is at, it
\* changes the request by a pixel or more, unless the edge is in its way.  A
\* reconfiguration moves the navigator alone.
CursorThere == \A a \in Axes : request[a] = Requested(a, at[a], count[a])
EveryMoveShows ==
  [][CursorThere /\ moves' # moves /\ ~failed'
       => \/ request' # request
          \/ \E a \in Axes : /\ at'[a] \in {0, Units(size[a], count[a])}
                             /\ (at' = at \/ at'[a] # at[a])]_vars
=============================================================================
