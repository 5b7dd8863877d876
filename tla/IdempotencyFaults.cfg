SPECIFICATION Spec
CONSTANTS
  r1 = r1
  r2 = r2
  r3 = r3
  r4 = r4
  k1 = k1
  k2 = k2
  NoKey = NoKey
  Nobody = Nobody
  Requests <- MCRequests
  Keys <- MCKeys
  Faults = {"lookup", "store", "expire", "commit", "crash"}
SYMMETRY Symmetry
INVARIANTS
  TypeOK
  OncePerKey
  AnswersFromOneExecution
CHECK_DEADLOCK FALSE
