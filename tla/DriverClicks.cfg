SPECIFICATION Spec
CONSTANTS
  MaxSession = 2
  MaxPending = 1
  StayActive = TRUE
  Commands = {"show", "hide"}
  Inputs = {"letter", "left", "right"}
  Faults = {"show", "network", "reset", "fatal", "click"}
INVARIANTS SentAwayBeforeClick NoOrphan
PROPERTIES KeepsPromise NoLateFrame
