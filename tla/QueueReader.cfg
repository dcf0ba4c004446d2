SPECIFICATION FairSpec
CONSTANTS
  Event = {e1, e2}
  MaxPush = 3
INVARIANTS QueueInv
PROPERTIES KeepsStream Delivered
CHECK_DEADLOCK FALSE
