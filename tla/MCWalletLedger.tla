--------------------------- MODULE MCWalletLedger ---------------------------
EXTENDS WalletLedger, TLC

CONSTANTS r1, r2, r3

MCRequests == {r1, r2, r3}
Symmetry == Permutations(MCRequests)

TopUpCall(w, a) == [kind |-> "TopUp", source |-> 0, target |-> w, amount |-> a]
TransferCall(s, t, a) == [kind |-> "Transfer", source |-> s, target |-> t, amount |-> a]

\* Two wallets and wallet 3, which does not exist.
PairWallets == {1, 2}
PairOpening == (1 :> 20) @@ (2 :> 10)
PairCalls == {TopUpCall(1, 10), TopUpCall(2, 30), TransferCall(1, 2, 20), TransferCall(2, 1, 10),
              TransferCall(1, 1, 10), TransferCall(1, 3, 10), TransferCall(3, 1, 10),
              TopUpCall(1, 4)}
PairMaxStored == 40

\* Two transfers in opposite directions, for more calls than connections.
OppositeCalls == {TransferCall(1, 2, 10), TransferCall(2, 1, 20)}

\* Amounts the API accepts and the columns round.
FractionCalls == {TransferCall(1, 2, 5), TopUpCall(1, 10)}
=============================================================================
