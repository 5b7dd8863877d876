SPECIFICATION FairSpec
CONSTANTS
  r1 = r1
  r2 = r2
  r3 = r3
  e1 = e1
  e2 = e2
  NoEmail = NoEmail
  Requests <- MCRequests
  Emails <- MCEmails
  MaxConns = 2
  MaxFaults = 2
INVARIANTS
  TypeOK
  UsersHaveWallets
  AnswersAreTrue
  EmailIsWon
PROPERTIES
  EveryRegistrationEnds
CHECK_DEADLOCK FALSE
