SPECIFICATION FairSpec
CONSTANTS
  v1 = v1
  v2 = v2
  c1 = c1
  c2 = c2
  c3 = c3
  Values <- MCValues
  Callers <- MCCallers
  MaxPush = 3
INVARIANTS
  NoLostWakeup
  SetupOnce
PROPERTIES
  TeardownAtEnd
  CallersSettle
  ImplementsStream
