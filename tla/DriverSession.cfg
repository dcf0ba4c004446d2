SPECIFICATION FairSpec
CONSTANTS
  MaxSession = 1
  MaxPending = 2
  StayActive = TRUE
  Commands = {"show", "hide", "status", "shutdown"}
  Inputs = {"letter", "backspace", "left", "double", "right", "exit", "leave", "keymap", "direction", "configure", "closed"}
  Faults = {"show", "draw", "network", "reset", "fatal", "click", "events"}
PROPERTIES NewestTimerCommits PendingResolves SessionEnds IpcAnswers
CHECK_DEADLOCK FALSE
