SPECIFICATION Spec
CONSTANTS
  r1 = r1
  r2 = r2
  r3 = r3
  NoRequest = NoRequest
  Requests <- MCRequests
  Wallets <- PairWallets
  Calls <- FractionCalls
  Opening <- PairOpening
  MaxStored <- PairMaxStored
  MaxConns = 2
  MaxCrashes = 0
INVARIANTS
  BalanceMatchesLedger
CHECK_DEADLOCK FALSE
