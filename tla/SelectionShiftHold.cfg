SPECIFICATION Spec
CONSTANTS
  Keys = {"h", "Shift"}
  Inputs = {}
  MoveFails = FALSE
  Bindings <- MCDefault
  MaxDown = 2
  MaxHold = 1
INVARIANTS HeldOnly
CHECK_DEADLOCK FALSE
