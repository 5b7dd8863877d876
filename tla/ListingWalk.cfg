SPECIFICATION Spec
CONSTANTS
  w1 = w1
  w2 = w2
  w3 = w3
  a = a
  b = b
  All = All
  Writers <- MCWriters
  Job <- Calls
  Users <- MCUsers
  r1 = r1
  Readers = {r1}
  MaxLimit = 2
  Half32 = 4
  Asked <- MCAsked
INVARIANTS
  TypeOK
  WalksAreComplete
  TotalCoversPage
  DetailComplete
CHECK_DEADLOCK FALSE
