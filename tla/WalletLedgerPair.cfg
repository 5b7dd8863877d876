SPECIFICATION Spec
CONSTANTS
  r1 = r1
  r2 = r2
  r3 = r3
  NoRequest = NoRequest
  Requests <- MCRequests
  Wallets <- PairWallets
  Calls <- PairCalls
  Opening <- PairOpening
  MaxStored <- PairMaxStored
  MaxConns = 2
  MaxCrashes = 1
SYMMETRY Symmetry
INVARIANTS
  TypeOK
  BalanceMatchesLedger
  EntriesMatchTransactions
  NoWaitCycle
  AnswersAreTrue
PROPERTIES
  HistoryIsKept
  ImplementsAtomicLedger
CHECK_DEADLOCK FALSE
