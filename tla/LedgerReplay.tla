---------------------------- MODULE LedgerReplay ----------------------------
(***************************************************************************)
(* What ledger_entries say of a wallet: a CREDIT adds its amount, a DEBIT  *)
(* takes it (internal/model/ledger_entry.go), and replaying the entries in *)
(* the order of their commits gives the wallet's balance.                  *)
(***************************************************************************)
EXTENDS Integers, Sequences

Effect(e, w) ==
    IF e.wallet # w THEN 0 ELSE IF e.type = "CREDIT" THEN e.amount ELSE -e.amount

\* The sum of the effects on wallet w of the entries of log.
Replay(log, w) ==
    LET net[i \in 0..Len(log)] == IF i = 0 THEN 0 ELSE net[i - 1] + Effect(log[i], w)
    IN  net[Len(log)]
=============================================================================
