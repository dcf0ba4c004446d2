SPECIFICATION FairSpec
CONSTANTS
  Keys = {"h", "Left", "space", "BackSpace", "Escape", "Shift", "Ctrl"}
  Inputs = {"keymap", "repeat", "leave", "configure"}
  MoveFails = TRUE
  Bindings <- MCBindings
  MaxDown = 2
  MaxHold = 2
INVARIANTS AtMostOneMoreMove HeldUnlessMissed
PROPERTIES LeftArms FreshPressMoves HoldsEnd
CHECK_DEADLOCK FALSE
