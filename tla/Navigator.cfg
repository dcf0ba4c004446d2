SPECIFICATION Spec
CONSTANTS
  GridSize = 3
  Pixels = 2
  MaxMoves = 2
  LineWidth = 1
  LabelSize = 2
  GridOpacity = 40
  Sizes <- MCSizes
  Places <- MCPlaces
INVARIANTS PixelsPartitioned NeverRefused FrameLegible
PROPERTIES EveryMoveShows
CHECK_DEADLOCK FALSE
