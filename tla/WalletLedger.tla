---------------------------- MODULE WalletLedger ----------------------------
(***************************************************************************)
(* Top-ups and transfers of internal/service/transaction_service.go run    *)
(* concurrently against PostgreSQL (READ COMMITTED, SELECT ... FOR UPDATE) *)
(* through a bounded connection pool.  Every SQL statement is one step, so *)
(* that other calls, failures and a crash of the server fall between any   *)
(* two of them.                                                            *)
(*                                                                         *)
(* Money is counted in tenths of a cent: a request may carry any decimal,  *)
(* a DECIMAL(18,2) column stores whole cents (multiples of 10 here).       *)
(***************************************************************************)
EXTENDS Integers, Sequences, FiniteSets, MoneyColumn, LedgerReplay

CONSTANTS
    Requests,    \* HTTP calls of POST /wallets/topup and POST /transfers, one id each
    Wallets,     \* ids in table wallets; integers, in the order Go compares the strings
    NoRequest,   \* the owner of a row nobody holds
    Calls,       \* what a call may ask
    Opening,     \* the balance each wallet starts with
    MaxConns,    \* cfg.MaxConns of the pool
    MaxCrashes   \* bound on server crashes

VARIABLES
    balance,     \* wallets.balance, committed
    ledger,      \* ledger_entries, committed, in commit order
    txns,        \* status column of the transaction row of a request, committed
    lockOwner,   \* who holds the row lock of a wallet
    pc,          \* the step a call is at
    call,        \* what it asks
    seen,        \* its lockedWallet.Balance locals
    wrote,       \* balances its open database transaction wrote
    rows,        \* ledger entries its open database transaction inserted
    status,      \* its transaction row inside its open database transaction
    result,      \* what the service method returned
    publishing,  \* calls whose publishing goroutine has not ended
    published,   \* calls whose event the broker channel accepted
    crashes

db == <<balance, ledger, txns>>
staged == <<wrote, rows, status>>
events == <<publishing, published>>
vars == <<balance, ledger, txns, lockOwner, pc, call, seen, wrote, rows, status,
          result, publishing, published, crashes>>

NoCall == [kind |-> "none", source |-> 0, target |-> 0, amount |-> 0]
NoWrite == -1

CallKinds == {"TopUp", "Transfer"}

ASSUME ConstantsAssumption ==
    /\ Wallets \subseteq Nat
    /\ Calls \subseteq [kind : CallKinds, source : Nat, target : Nat, amount : Nat \ {0}]
    /\ Opening \in [Wallets -> StoredAmounts]
    /\ NoRequest \notin Requests
    /\ MaxConns \in Nat \ {0}
    /\ MaxCrashes \in Nat

IsTransfer(r) == call[r].kind = "Transfer"

\* The wallet FindByUserID answers with; absent from Wallets when the user has none.
UserWallet(r) == IF IsTransfer(r) THEN call[r].source ELSE call[r].target

\* Steps at which a call has an open database transaction.
TxSteps == {"lock1", "lock2", "create", "updateSource", "updateTarget", "debit",
            "credit", "complete", "commit", "rollback"}
Steps == {"idle", "findUser", "findTarget", "begin", "committed", "done"} \cup TxSteps

Refusals == {"ErrWalletNotFound", "ErrSelfTransfer", "ErrTargetWalletNotFound",
             "ErrInsufficientBalance"}
Results == Refusals \cup {"none", "ok", "error", "lost"}

\* A free connection: a pre-transaction query takes it for the one statement,
\* Begin keeps it to the end of the transaction.
ConnFree ==
    Cardinality({r \in Requests : pc[r] \in TxSteps \cup {"committed"}}) < MaxConns

Goto(r, step) == pc' = [pc EXCEPT ![r] = step]
Return(r, value) == result' = [result EXCEPT ![r] = value]

Init ==
    /\ balance = Opening
    /\ ledger = << >>
    /\ txns = [r \in Requests |-> "none"]
    /\ lockOwner = [w \in Wallets |-> NoRequest]
    /\ pc = [r \in Requests |-> "idle"]
    /\ call = [r \in Requests |-> NoCall]
    /\ seen = [r \in Requests |-> [w \in Wallets |-> 0]]
    /\ wrote = [r \in Requests |-> [w \in Wallets |-> NoWrite]]
    /\ rows = [r \in Requests |-> << >>]
    /\ status = [r \in Requests |-> "none"]
    /\ result = [r \in Requests |-> "none"]
    /\ publishing = {}
    /\ published = {}
    /\ crashes = 0

-----------------------------------------------------------------------------
(* Before the database transaction.                                          *)

\* The handler bound the request body and calls the service.
Arrive(r, c) ==
    /\ pc[r] = "idle"
    /\ call' = [call EXCEPT ![r] = c]
    /\ Goto(r, "findUser")
    /\ UNCHANGED <<db, lockOwner, seen, staged, result, events, crashes>>

\* FindByUserID outside any transaction, then the self-transfer check.
FindUserWallet(r) ==
    /\ pc[r] = "findUser"
    /\ ConnFree
    /\ LET missing == UserWallet(r) \notin Wallets
           toSelf == IsTransfer(r) /\ call[r].source = call[r].target
       IN  \/ /\ missing
              /\ Return(r, "ErrWalletNotFound")
              /\ Goto(r, "done")
           \/ /\ ~missing /\ toSelf
              /\ Return(r, "ErrSelfTransfer")
              /\ Goto(r, "done")
           \/ /\ ~missing /\ ~toSelf
              /\ Goto(r, IF IsTransfer(r) THEN "findTarget" ELSE "begin")
              /\ UNCHANGED result
    /\ UNCHANGED <<db, lockOwner, call, seen, staged, events, crashes>>

\* FindByID of the target, outside any transaction.
FindTargetWallet(r) ==
    /\ pc[r] = "findTarget"
    /\ ConnFree
    /\ \/ /\ call[r].target \notin Wallets
          /\ Return(r, "ErrTargetWalletNotFound")
          /\ Goto(r, "done")
       \/ /\ call[r].target \in Wallets
          /\ Goto(r, "begin")
          /\ UNCHANGED result
    /\ UNCHANGED <<db, lockOwner, call, seen, staged, events, crashes>>

\* pool.Begin: waits for a connection of the pool and keeps it.
Begin(r) ==
    /\ pc[r] = "begin"
    /\ ConnFree
    /\ Goto(r, "lock1")
    /\ UNCHANGED <<db, lockOwner, call, seen, staged, result, events, crashes>>

-----------------------------------------------------------------------------
(* The database transaction.                                                 *)

\* Variant: every transfer locks its source first.
SourceFirst(c) == IF c.kind = "Transfer" THEN c.source ELSE c.target

\* A transfer locks the smaller wallet id first, a top-up its only wallet.
FirstLock(c) ==
    IF c.kind = "Transfer" /\ c.source < c.target THEN c.source ELSE c.target
SecondLock(c) == IF FirstLock(c) = c.source THEN c.target ELSE c.source

\* The wallet whose row lock a call needs for its next step.
Wanted(r) == IF pc[r] = "lock1" THEN FirstLock(call[r]) ELSE SecondLock(call[r])

\* Variant: SELECT without FOR UPDATE waits for nobody.
NoRowLock(w) == TRUE

RowFree(w) == lockOwner[w] = NoRequest

\* FindByIDForUpdate: waits for the row, then reads its newest committed version.
LockRow(r) ==
    /\ pc[r] \in {"lock1", "lock2"}
    /\ RowFree(Wanted(r))
    /\ lockOwner' = [lockOwner EXCEPT ![Wanted(r)] = r]
    /\ seen' = [seen EXCEPT ![r][Wanted(r)] = balance[Wanted(r)]]
    /\ Goto(r, IF pc[r] = "lock1" /\ IsTransfer(r) THEN "lock2" ELSE "create")
    /\ UNCHANGED <<db, call, staged, result, events, crashes>>

\* Variant: a balance that the transfer would empty is refused.
MoreThanEnough(r) == IsTransfer(r) => seen[r][call[r].source] > call[r].amount

EnoughFunds(r) == IsTransfer(r) => seen[r][call[r].source] >= call[r].amount

RefuseInsufficient(r) ==
    /\ pc[r] = "create"
    /\ ~EnoughFunds(r)
    /\ Return(r, "ErrInsufficientBalance")
    /\ Goto(r, "rollback")
    /\ UNCHANGED <<db, lockOwner, call, seen, staged, events, crashes>>

\* transactionRepo.Create with status PENDING.
CreateTransaction(r) ==
    /\ pc[r] = "create"
    /\ EnoughFunds(r)
    /\ AmountStorable(call[r].amount)
    /\ status' = [status EXCEPT ![r] = "PENDING"]
    /\ Goto(r, IF IsTransfer(r) THEN "updateSource" ELSE "updateTarget")
    /\ UNCHANGED <<db, lockOwner, call, seen, wrote, rows, result, events, crashes>>

\* The balances the method computes from the wallets it locked.
SourceNewBalance(r) == seen[r][call[r].source] - call[r].amount
TargetNewBalance(r) == seen[r][call[r].target] + call[r].amount

UpdateBalance(r, w, newBalance, next) ==
    /\ BalanceStorable(newBalance)
    /\ wrote' = [wrote EXCEPT ![r][w] = RoundToCent(newBalance)]
    /\ Goto(r, next)
    /\ UNCHANGED <<db, lockOwner, call, seen, rows, status, result, events, crashes>>

UpdateSource(r) ==
    /\ pc[r] = "updateSource"
    /\ UpdateBalance(r, call[r].source, SourceNewBalance(r), "updateTarget")

UpdateTarget(r) ==
    /\ pc[r] = "updateTarget"
    /\ UpdateBalance(r, call[r].target, TargetNewBalance(r),
                     IF IsTransfer(r) THEN "debit" ELSE "credit")

Entry(r, w, type) ==
    [txn |-> r, wallet |-> w, type |-> type, amount |-> RoundToCent(call[r].amount)]

\* Variant: the entry is inserted outside the database transaction.
InsertEntryOutsideTx(r, w, type, next) ==
    /\ ledger' = Append(ledger, Entry(r, w, type))
    /\ Goto(r, next)
    /\ UNCHANGED <<balance, txns, lockOwner, call, seen, staged, result, events, crashes>>

\* ledgerRepo.Create.
InsertEntry(r, w, type, next) ==
    /\ rows' = [rows EXCEPT ![r] = Append(@, Entry(r, w, type))]
    /\ Goto(r, next)
    /\ UNCHANGED <<db, lockOwner, call, seen, wrote, status, result, events, crashes>>

InsertDebit(r) ==
    /\ pc[r] = "debit"
    /\ InsertEntry(r, call[r].source, "DEBIT", "credit")

InsertCredit(r) ==
    /\ pc[r] = "credit"
    /\ InsertEntry(r, call[r].target, "CREDIT", "complete")

\* transactionRepo.UpdateStatus.
Complete(r) ==
    /\ pc[r] = "complete"
    /\ status' = [status EXCEPT ![r] = "COMPLETED"]
    /\ Goto(r, "commit")
    /\ UNCHANGED <<db, lockOwner, call, seen, wrote, rows, result, events, crashes>>

\* Variant: an early return without the deferred rollback keeps the locks.
StillLocked(r) == lockOwner

Unlocked(r) == [w \in Wallets |-> IF lockOwner[w] = r THEN NoRequest ELSE lockOwner[w]]

\* PostgreSQL makes the writes of a transaction visible at once and frees its locks.
Install(r) ==
    /\ balance' = [w \in Wallets |->
                     IF wrote[r][w] = NoWrite THEN balance[w] ELSE wrote[r][w]]
    /\ ledger' = ledger \o rows[r]
    /\ txns' = [txns EXCEPT ![r] = status[r]]

\* What an open transaction staged is gone, by its commit or by its rollback.
ClearStaged(r) ==
    /\ wrote' = [wrote EXCEPT ![r] = [w \in Wallets |-> NoWrite]]
    /\ rows' = [rows EXCEPT ![r] = << >>]
    /\ status' = [status EXCEPT ![r] = "none"]

Commit(r) ==
    /\ pc[r] = "commit"
    /\ Install(r)
    /\ ClearStaged(r)
    /\ lockOwner' = Unlocked(r)
    /\ Goto(r, "committed")
    /\ UNCHANGED <<call, seen, result, events, crashes>>

\* The deferred tx.Rollback on an error path.
Rollback(r) ==
    /\ pc[r] = "rollback"
    /\ ClearStaged(r)
    /\ lockOwner' = Unlocked(r)
    /\ Goto(r, "done")
    /\ UNCHANGED <<db, call, seen, result, events, crashes>>

-----------------------------------------------------------------------------
(* After the commit, and what can go wrong.                                  *)

\* Commit returned nil: start the publishing goroutine, answer.
Acknowledge(r) ==
    /\ pc[r] = "committed"
    /\ publishing' = publishing \cup {r}
    /\ Return(r, "ok")
    /\ Goto(r, "done")
    /\ UNCHANGED <<db, lockOwner, call, seen, staged, published, crashes>>

\* Variant: an error of Commit is taken for a rollback and the entries are removed.
CompensateUnacknowledged(r) ==
    /\ pc[r] = "committed"
    /\ ledger' = SelectSeq(ledger, LAMBDA e : e.txn # r)
    /\ Return(r, "error")
    /\ Goto(r, "done")
    /\ UNCHANGED <<balance, txns, lockOwner, call, seen, staged, events, crashes>>

\* The commit took place and its acknowledgement was lost: Commit returns an error.
CommitUnacknowledged(r) ==
    /\ pc[r] = "committed"
    /\ Return(r, "error")
    /\ Goto(r, "done")
    /\ UNCHANGED <<db, lockOwner, call, seen, staged, events, crashes>>

\* Variant: the error of a statement is dropped and the call answers success.
FailUnnoticed(r) ==
    /\ pc[r] \in {"findUser", "findTarget", "begin"} \cup (TxSteps \ {"rollback"})
    /\ Return(r, IF pc[r] = "commit" THEN "ok" ELSE "error")
    /\ Goto(r, IF pc[r] \in TxSteps THEN "rollback" ELSE "done")
    /\ UNCHANGED <<db, lockOwner, call, seen, staged, events, crashes>>

\* A statement or the wait before it fails: connection error, cancelled context,
\* duplicate random id, constraint.
Fail(r) ==
    /\ pc[r] \in {"findUser", "findTarget", "begin"} \cup (TxSteps \ {"rollback"})
    /\ Return(r, "error")
    /\ Goto(r, IF pc[r] \in TxSteps THEN "rollback" ELSE "done")
    /\ UNCHANGED <<db, lockOwner, call, seen, staged, events, crashes>>

\* The failures the column's type and CHECKs force.
ConstraintFails(r) ==
    /\ \/ pc[r] = "create" /\ EnoughFunds(r) /\ ~AmountStorable(call[r].amount)
       \/ pc[r] = "updateSource" /\ ~BalanceStorable(SourceNewBalance(r))
       \/ pc[r] = "updateTarget" /\ ~BalanceStorable(TargetNewBalance(r))
    /\ Fail(r)

PublishSucceeds(r) ==
    /\ r \in publishing
    /\ publishing' = publishing \ {r}
    /\ published' = published \cup {r}
    /\ UNCHANGED <<db, lockOwner, pc, call, seen, staged, result, crashes>>

\* publishEvent's error is only logged.
PublishFails(r) ==
    /\ r \in publishing
    /\ publishing' = publishing \ {r}
    /\ UNCHANGED <<db, lockOwner, pc, call, seen, staged, result, published, crashes>>

InFlight == {r \in Requests : pc[r] \notin {"idle", "done"}}

\* The server dies: PostgreSQL rolls back what it had open, goroutines are gone.
Crash ==
    /\ crashes < MaxCrashes
    /\ crashes' = crashes + 1
    /\ pc' = [r \in Requests |-> IF r \in InFlight THEN "done" ELSE pc[r]]
    /\ result' = [r \in Requests |->
                    IF r \in InFlight /\ result[r] = "none" THEN "lost" ELSE result[r]]
    /\ lockOwner' = [w \in Wallets |-> NoRequest]
    /\ wrote' = [r \in Requests |-> [w \in Wallets |-> NoWrite]]
    /\ rows' = [r \in Requests |-> << >>]
    /\ status' = [r \in Requests |-> "none"]
    /\ publishing' = {}
    /\ UNCHANGED <<db, call, seen, published>>

-----------------------------------------------------------------------------

\* What the goroutine of a call does next when nothing fails.
Advance(r) ==
    \/ FindUserWallet(r) \/ FindTargetWallet(r) \/ Begin(r) \/ LockRow(r)
    \/ RefuseInsufficient(r) \/ CreateTransaction(r)
    \/ UpdateSource(r) \/ UpdateTarget(r) \/ InsertDebit(r) \/ InsertCredit(r)
    \/ Complete(r) \/ Commit(r) \/ Rollback(r) \/ Acknowledge(r)
    \/ ConstraintFails(r)

Next ==
    \/ \E r \in Requests :
          \/ \E c \in Calls : Arrive(r, c)
          \/ Advance(r)
          \/ CommitUnacknowledged(r)
          \/ Fail(r)
          \/ PublishSucceeds(r)
          \/ PublishFails(r)
    \/ Crash

Spec == Init /\ [][Next]_vars

\* The Go scheduler and PostgreSQL keep running; nothing is assumed of failures.
Fairness == \A r \in Requests : WF_vars(Advance(r))
FairSpec == Spec /\ Fairness

-----------------------------------------------------------------------------
(* Correctness.                                                              *)

\* The rows and the locals have their types; a stored balance is a whole,
\* non-negative number of cents within the column, as its CHECK demands.
EntryType == [txn : Requests, wallet : Wallets, type : {"DEBIT", "CREDIT"},
              amount : StoredAmounts \ {0}]
TxnStatus == {"none", "PENDING", "COMPLETED"}
TypeOK ==
    /\ balance \in [Wallets -> StoredAmounts]
    /\ ledger \in Seq(EntryType)
    /\ txns \in [Requests -> TxnStatus]
    /\ lockOwner \in [Wallets -> Requests \cup {NoRequest}]
    /\ pc \in [Requests -> Steps]
    /\ call \in [Requests -> Calls \cup {NoCall}]
    /\ seen \in [Requests -> [Wallets -> StoredAmounts]]
    /\ wrote \in [Requests -> [Wallets -> StoredAmounts \cup {NoWrite}]]
    /\ rows \in [Requests -> Seq(EntryType)]
    /\ status \in [Requests -> TxnStatus]
    /\ result \in [Requests -> Results]
    /\ publishing \subseteq Requests
    /\ published \subseteq Requests
    /\ crashes \in 0..MaxCrashes

\* Replaying the ledger from the opening balances gives every wallet's balance
\* (README.md:128 "absolute financial integrity"): no update is lost, doubled or
\* split from its entry by other calls, failures or a crash.
BalanceMatchesLedger ==
    \A w \in Wallets : balance[w] = Opening[w] + Replay(ledger, w)

\* A committed top-up has exactly its CREDIT, a committed transfer exactly its DEBIT
\* and its CREDIT, no other entry exists, and nobody ever reads a PENDING transaction
\* (README.md:129-130).
EntriesMatch(r) ==
    LET mine == {i \in DOMAIN ledger : ledger[i].txn = r} IN
    /\ txns[r] # "PENDING"
    /\ txns[r] = "none" => mine = {}
    /\ txns[r] = "COMPLETED" /\ ~IsTransfer(r) =>
          \E i \in mine : mine = {i} /\ ledger[i] = Entry(r, call[r].target, "CREDIT")
    /\ txns[r] = "COMPLETED" /\ IsTransfer(r) =>
          \E i, j \in mine :
             /\ mine = {i, j}
             /\ ledger[i] = Entry(r, call[r].source, "DEBIT")
             /\ ledger[j] = Entry(r, call[r].target, "CREDIT")
EntriesMatchTransactions == \A r \in Requests : EntriesMatch(r)

\* The balance a call read under a row lock stays the committed balance for as long as
\* it holds the lock, whatever other calls do: the computed balances are never stale.
LockedReadIsCurrent ==
    \A w \in Wallets, r \in Requests :
        lockOwner[w] = r => pc[r] \in TxSteps /\ seen[r][w] = balance[w]

Waiting(r) == pc[r] \in {"lock1", "lock2"} /\ ~RowFree(Wanted(r))

\* Ordered locking: no group of calls waits for rows held within the group.
NoWaitCycle ==
    \A S \in SUBSET Requests :
        (S # {} /\ \A r \in S : Waiting(r)) => \E r \in S : lockOwner[Wanted(r)] \notin S

\* An answer is truthful: "ok" means the transaction is committed, a refusal that it
\* left no trace, and only committed calls publish an event.
AnswersAreTrue ==
    \A r \in Requests :
        /\ result[r] = "ok" => txns[r] = "COMPLETED"
        /\ result[r] \in Refusals => txns[r] = "none"
        /\ r \in publishing \cup published => txns[r] = "COMPLETED" /\ result[r] = "ok"

\* Entries are immutable and final, and so is a completed transaction: no step
\* changes, drops or reorders what an earlier commit wrote (README.md:39).
History ==
    /\ Len(ledger) <= Len(ledger')
    /\ \A i \in DOMAIN ledger : ledger'[i] = ledger[i]
    /\ \A r \in Requests : txns[r] = "COMPLETED" => txns'[r] = "COMPLETED"
HistoryIsKept == [][History]_vars

\* Neither the row locks nor the pool of connections can hold a call for ever.
EveryCallEnds == \A r \in Requests : (pc[r] = "findUser") ~> (pc[r] = "done")

\* Whole calls take effect one at a time, at their commit: see AtomicLedger.
BalanceAfter(r) == IF IsTransfer(r) THEN SourceNewBalance(r) ELSE TargetNewBalance(r)
Effected == [r \in Requests |->
                IF txns[r] = "COMPLETED" THEN BalanceAfter(r) ELSE NoWrite]
Atomic == INSTANCE AtomicLedger
            WITH asked <- call, effected <- Effected, told <- result
ImplementsAtomicLedger == Atomic!Spec
=============================================================================
