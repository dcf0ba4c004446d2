SPECIFICATION Spec
CONSTANTS
  Daemons = {d1, d2}
  Clients = {c1, c2}
  MaxInode = 3
  MaxCrash = 1
SYMMETRY Symmetry
INVARIANTS Reachable StaleOnlyByCrash
PROPERTIES RefusedForCause EndsAfterHandlers ShutDownForGood
CHECK_DEADLOCK FALSE
