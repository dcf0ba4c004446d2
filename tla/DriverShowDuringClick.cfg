SPECIFICATION Spec
CONSTANTS
  MaxSession = 2
  MaxPending = 1
  StayActive = FALSE
  Commands = {"show"}
  Inputs = {"letter", "right"}
  Faults = {}
PROPERTIES NoOverlayAtClick
