SPECIFICATION Spec
CONSTANTS
  Monitors = {1, 2}
  Stale = {2}
  Faults = {"lost", "open", "create"}
  MaxSession = 2
  MaxTarget = 4
INVARIANTS OneDevice
PROPERTIES ClickIsOne AimedAtItsOutput
CHECK_DEADLOCK FALSE
