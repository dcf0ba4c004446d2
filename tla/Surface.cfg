SPECIFICATION FairSpec
CONSTANTS
  Inputs = {"configure", "key", "closed", "error", "lost", "cancel", "stop", "show"}
  MaxEvents = 3 MaxShared = 2
INVARIANTS GoneWhenDown Reusable BuffersFreed KeyboardAlive
PROPERTIES FramesInLife TeardownEnds
CHECK_DEADLOCK FALSE
