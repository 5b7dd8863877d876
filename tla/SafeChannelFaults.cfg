SPECIFICATION FairSpec
CONSTANTS
  p1 = p1
  p2 = p2
  worker = worker
  Free = Free
  Publishers <- MCPublishers
  Openers <- MCOpeners
  MaxFaults = 2
INVARIANTS
  TypeOK
  NothingLeaks
  ResultIsTrue
PROPERTIES
  EveryCallReturns
  ImplementsPublishing
CHECK_DEADLOCK FALSE
