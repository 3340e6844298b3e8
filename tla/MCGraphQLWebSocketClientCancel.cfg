SPECIFICATION Spec
CONSTANTS
  s1 = s1
  s2 = s2
  Subs <- MCSubs
  MaxSockets = 2
  MinDelay = 2
  MaxDelay = 6
  Multiplier = 2
  AutoReconnect = TRUE
SYMMETRY Symmetry
INVARIANTS
  ClosedWhenReturned
CHECK_DEADLOCK FALSE
