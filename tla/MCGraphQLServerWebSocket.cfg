SPECIFICATION FairSpec
CONSTANTS
  a = a
  b = b
  Ids <- MCIds
  MaxStarts = 2
  MaxMessages = 4
INVARIANTS
  
  OnePumpPerId
  LiveIsRegistered
  DeleteHitsItsOwn
  SubscribedOnlyAcknowledged
PROPERTIES
  NoStartAfterClose
  WireOrder
  CloseEndsAll
  HandlersSettle
CHECK_DEADLOCK FALSE
