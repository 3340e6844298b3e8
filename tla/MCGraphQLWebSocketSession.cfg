SPECIFICATION FairSpec
CONSTANTS
  MaxSubs = 2
  MaxValues = 2
  Prompt <- Everybody
INVARIANT NobodyIsStray
PROPERTIES ImplementsSubscription EndsMeet
CHECK_DEADLOCK FALSE
