---------------------------- MODULE MoneyColumn ----------------------------
(***************************************************************************)
(* What a DECIMAL(18,2) column makes of a decimal: wallets.balance,        *)
(* transactions.amount and ledger_entries.amount                           *)
(* (database/migrations/000002..000004).  The unit is a tenth of a cent.   *)
(***************************************************************************)
EXTENDS Integers

CONSTANT MaxStored   \* the largest value the column holds

ASSUME MaxStoredAssumption == MaxStored \in Nat /\ MaxStored % 10 = 0

\* PostgreSQL rounds to the column's scale half away from zero.
RoundToCent(x) ==
    IF x >= 0 THEN 10 * ((x + 5) \div 10) ELSE -(10 * ((5 - x) \div 10))

\* Variant: a NUMERIC column without precision, the CHECK alone.
UnboundedStorable(x) == x >= 0

\* Without a type overflow, CHECK (balance >= 0) and CHECK (amount > 0) decide.
BalanceStorable(x) == RoundToCent(x) \in 0..MaxStored
AmountStorable(x) == RoundToCent(x) \in 1..MaxStored

\* The values such a column can hold once its CHECK passed.
StoredAmounts == {x \in 0..MaxStored : x % 10 = 0}
=============================================================================
