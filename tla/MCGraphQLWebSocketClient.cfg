SPECIFICATION FairSpec
CONSTANTS
  s1 = s1
  s2 = s2
  Subs <- MCSubs
  MaxSockets = 2
  MinDelay = 2
  MaxDelay = 6
  Multiplier = 2
  AutoReconnect = TRUE
INVARIANTS
  OneLiveSocket
  NoneOnClosedStandardSocket
  OpenHasLoop
  WaitersHaveTimer
  DelayBounded
PROPERTIES
  AttemptsSettle
CHECK_DEADLOCK FALSE
