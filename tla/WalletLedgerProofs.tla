------------------------- MODULE WalletLedgerProofs -------------------------
(***************************************************************************)
(* Theorems of WalletLedger for every value of its constants: the replay of *)
(* a ledger, the inductive invariant, what follows from it, and that the    *)
(* statement-level model implements AtomicLedger.                           *)
(***************************************************************************)
EXTENDS WalletLedger, FiniteSetsExt, SequenceTheorems, WellFoundedInduction,
        FiniteSetTheorems, TLAPS

(* Replay, which is recursive, computes what it says: an appended entry adds  *)
(* its effect.  The induction is by a least counterexample.                    *)

\* Every non-empty set of natural numbers has a least element.
LEMMA LeastNat ==
    ASSUME NEW T, T \subseteq Nat, T # {}
    PROVE  \E x \in T : \A y \in T : x <= y
  <1> DEFINE Less == {p \in Nat \X Nat : p[1] < p[2]}
  <1>1. Less = OpToRel(<, Nat)
    BY Zenon DEF OpToRel
  <1>2. IsWellFoundedOn(Less, Nat)
    BY <1>1, NatLessThanWellFounded, Zenon
  <1> HIDE DEF Less
  <1>3. \E x \in T : \A y \in T : ~(<<y, x>> \in Less)
    BY <1>2, WFMin
  <1>4. PICK x \in T : \A y \in T : ~(<<y, x>> \in Less)
    BY <1>3
  <1>5. ASSUME NEW y \in T PROVE x <= y
    <2>1. x \in Nat /\ y \in Nat /\ <<y, x>> \notin Less
      BY <1>4
    <2>2. ~(y < x)
      BY <2>1 DEF Less
    <2> QED
      BY <2>1, <2>2
  <1> QED
    BY <1>5

\* f is the table of the partial sums of the first n entries.
Partial(f, n, log, w) ==
    f = [i \in 0..n |-> IF i = 0 THEN 0 ELSE f[i - 1] + Effect(log[i], w)]

LEMMA PartialExists ==
    ASSUME NEW log, NEW w, NEW n \in Nat
    PROVE  \E f : Partial(f, n, log, w)
  <1> DEFINE Bad == {k \in Nat : ~ \E f : Partial(f, k, log, w)}
  <1>1. ASSUME Bad # {} PROVE FALSE
    <2>1. PICK k \in Bad : \A j \in Bad : k <= j
      BY <1>1, LeastNat
    <2>2. CASE k = 0
      <3>1. Partial([i \in 0..0 |-> 0], 0, log, w)
        BY DEF Partial
      <3> QED
        BY <2>1, <2>2, <3>1
    <2>3. CASE k # 0
      <3>1. k - 1 \in Nat /\ k - 1 \notin Bad
        BY <2>1, <2>3
      <3>2. PICK f : Partial(f, k - 1, log, w)
        BY <3>1
      <3> DEFINE g == [i \in 0..k |-> IF i = k THEN f[k - 1] + Effect(log[k], w) ELSE f[i]]
      <3>3. \A i \in 0..(k - 1) :
              f[i] = IF i = 0 THEN 0 ELSE f[i - 1] + Effect(log[i], w)
        BY <3>2 DEF Partial
      <3>4. \A i \in 0..k : g[i] = IF i = 0 THEN 0 ELSE g[i - 1] + Effect(log[i], w)
        BY <2>3, <3>1, <3>3
      <3>5. Partial(g, k, log, w)
        BY <3>4 DEF Partial
      <3> QED
        BY <2>1, <3>5
    <2> QED
      BY <2>2, <2>3
  <1> QED
    BY <1>1

LEMMA PartialUnique ==
    ASSUME NEW log, NEW w, NEW n \in Nat, NEW m \in 0..n,
           NEW f, Partial(f, m, log, w), NEW g, Partial(g, n, log, w)
    PROVE  \A i \in 0..m : f[i] = g[i]
  <1> DEFINE Bad == {i \in 0..m : f[i] # g[i]}
  <1>f. \A i \in 0..m : f[i] = IF i = 0 THEN 0 ELSE f[i - 1] + Effect(log[i], w)
    BY DEF Partial
  <1>g. \A i \in 0..m : g[i] = IF i = 0 THEN 0 ELSE g[i - 1] + Effect(log[i], w)
    BY DEF Partial
  <1>1. ASSUME Bad # {} PROVE FALSE
    <2>1. PICK k \in Bad : \A j \in Bad : k <= j
      <3>1. Bad \subseteq Nat
        OBVIOUS
      <3> HIDE DEF Bad
      <3> QED
        BY <1>1, <3>1, LeastNat
    <2>2. k # 0
      BY <2>1, <1>f, <1>g
    <2>3. k - 1 \in 0..m /\ k - 1 \notin Bad
      BY <2>1, <2>2
    <2> QED
      BY <2>1, <2>2, <2>3, <1>f, <1>g
  <1> QED
    BY <1>1

LEMMA ReplayIsPartial ==
    ASSUME NEW S, NEW log \in Seq(S), NEW w
    PROVE  \E f : Partial(f, Len(log), log, w) /\ Replay(log, w) = f[Len(log)]
  <1> DEFINE net == CHOOSE f : Partial(f, Len(log), log, w)
  <1>1. Partial(net, Len(log), log, w)
    BY PartialExists
  <1>2. Replay(log, w) = net[Len(log)]
    BY DEF Replay, Partial
  <1> QED
    BY <1>1, <1>2

\* An entry appended to the ledger adds its effect to what the replay gives.
LEMMA ReplayAppend ==
    ASSUME NEW S, NEW log \in Seq(S), NEW e \in S, NEW w
    PROVE  Replay(Append(log, e), w) = Replay(log, w) + Effect(e, w)
  <1> DEFINE n == Len(log)
             longer == Append(log, e)
  <1>0. n \in Nat /\ longer \in Seq(S) /\ Len(longer) = n + 1 /\ longer[n + 1] = e
        /\ \A i \in 1..n : longer[i] = log[i]
    OBVIOUS
  <1>1. PICK f : Partial(f, n, log, w) /\ Replay(log, w) = f[n]
    BY ReplayIsPartial
  <1>2. PICK g : Partial(g, n + 1, longer, w) /\ Replay(longer, w) = g[n + 1]
    BY <1>0, ReplayIsPartial
  <1>3. Partial(f, n, longer, w)
    <2>1. \A i \in 0..n : i # 0 => longer[i] = log[i]
      BY <1>0
    <2>2. [i \in 0..n |-> IF i = 0 THEN 0 ELSE f[i - 1] + Effect(log[i], w)]
            = [i \in 0..n |-> IF i = 0 THEN 0 ELSE f[i - 1] + Effect(longer[i], w)]
      BY <2>1
    <2> QED
      BY <1>1, <2>2 DEF Partial
  <1>4. f[n] = g[n]
    <2>1. n + 1 \in Nat /\ n \in 0..(n + 1) /\ n \in 0..n
      BY <1>0
    <2> HIDE DEF n, longer
    <2>2. \A i \in 0..n : f[i] = g[i]
      BY <2>1, <1>2, <1>3, PartialUnique
    <2> QED
      BY <2>1, <2>2
  <1>5. g[n + 1] = g[n] + Effect(longer[n + 1], w)
    <2>1. n + 1 \in 0..(n + 1) /\ n + 1 # 0 /\ (n + 1) - 1 = n
      BY <1>0
    <2> HIDE DEF n, longer
    <2> QED
      BY <2>1, <1>2 DEF Partial
  <1> QED
    BY <1>0, <1>1, <1>2, <1>4, <1>5

LEMMA ReplayEmpty == ASSUME NEW w PROVE Replay(<< >>, w) = 0
  <1>0. << >> \in Seq({}) /\ Len(<< >>) = 0
    OBVIOUS
  <1>1. PICK f : Partial(f, 0, << >>, w) /\ Replay(<< >>, w) = f[0]
    BY <1>0, ReplayIsPartial
  <1> QED
    BY <1>1 DEF Partial

LEMMA ReplayInt ==
    ASSUME NEW S, \A e \in S : e.amount \in Int, NEW log \in Seq(S), NEW w
    PROVE  Replay(log, w) \in Int
  <1> DEFINE n == Len(log)
  <1>1. PICK f : Partial(f, n, log, w) /\ Replay(log, w) = f[n]
    BY ReplayIsPartial
  <1>2. n \in Nat /\ \A i \in 1..n : Effect(log[i], w) \in Int
    BY DEF Effect
  <1>3. \A i \in 0..n : f[i] = IF i = 0 THEN 0 ELSE f[i - 1] + Effect(log[i], w)
    BY <1>1 DEF Partial
  <1> DEFINE Bad == {i \in 0..n : f[i] \notin Int}
  <1>4. ASSUME Bad # {} PROVE FALSE
    <2>1. PICK k \in Bad : \A j \in Bad : k <= j
      <3>1. Bad \subseteq Nat
        OBVIOUS
      <3> HIDE DEF Bad
      <3> QED
        BY <1>4, <3>1, LeastNat
    <2>2. k # 0 /\ k - 1 \in 0..n /\ k - 1 \notin Bad
      BY <1>2, <1>3, <2>1
    <2> QED
      BY <1>2, <1>3, <2>1, <2>2
  <1> QED
    BY <1>1, <1>2, <1>4

-----------------------------------------------------------------------------

-----------------------------------------------------------------------------
(* The inductive invariant: what every call has locked, read and staged at   *)
(* each step.                                                                *)

\* Steps at which a call holds every row lock it needs.
LockedSteps == {"create", "updateSource", "updateTarget", "debit", "credit",
                "complete", "commit"}

Involved(r) == IF IsTransfer(r) THEN {call[r].source, call[r].target} ELSE {call[r].target}

\* The two lookups before Begin found the wallets, and they differ.
Validated(r) ==
    /\ Involved(r) \subseteq Wallets
    /\ IsTransfer(r) => call[r].source # call[r].target

CallOK(r) ==
    /\ pc[r] = "idle" <=> call[r] = NoCall
    /\ pc[r] = "findTarget" =>
          IsTransfer(r) /\ call[r].source \in Wallets \ {call[r].target}
    /\ pc[r] \in TxSteps \cup {"begin", "committed"} => Validated(r)
    /\ pc[r] \in {"lock2", "updateSource", "debit"} => IsTransfer(r)
    /\ txns[r] = "COMPLETED" => Validated(r) /\ pc[r] \in {"committed", "done"}
CallInv == \A r \in Requests : CallOK(r)

\* A held row still has the balance read from it, and only held rows are written.
LockOK(r, w) ==
    /\ lockOwner[w] = r => pc[r] \in TxSteps \ {"lock1"} /\ seen[r][w] = balance[w]
    /\ pc[r] = "lock2" => (lockOwner[w] = r <=> w = FirstLock(call[r]))
    /\ pc[r] \in LockedSteps /\ w \in Involved(r) => lockOwner[w] = r
    /\ wrote[r][w] # NoWrite => lockOwner[w] = r
LockInv == \A r \in Requests, w \in Wallets : LockOK(r, w)

StagedWrites(r) ==
    [w \in Wallets |->
        IF /\ IsTransfer(r) /\ w = call[r].source
           /\ pc[r] \in {"updateTarget", "debit", "credit", "complete", "commit"}
        THEN RoundToCent(SourceNewBalance(r))
        ELSE IF w = call[r].target /\ pc[r] \in {"debit", "credit", "complete", "commit"}
        THEN RoundToCent(TargetNewBalance(r))
        ELSE NoWrite]
StagedRows(r) ==
    LET debit == Entry(r, call[r].source, "DEBIT")
        credit == Entry(r, call[r].target, "CREDIT")
    IN  IF pc[r] \in {"complete", "commit"}
        THEN IF IsTransfer(r) THEN <<debit, credit>> ELSE <<credit>>
        ELSE IF pc[r] = "credit" /\ IsTransfer(r) THEN <<debit>> ELSE << >>
StagedStatus(r) ==
    IF pc[r] = "commit" THEN "COMPLETED"
    ELSE IF pc[r] \in LockedSteps \ {"create"} THEN "PENDING" ELSE "none"

\* An open transaction has staged exactly what the steps behind it write.
StageOK(r) ==
    /\ pc[r] # "rollback" => /\ wrote[r] = StagedWrites(r)
                            /\ rows[r] = StagedRows(r)
                            /\ status[r] = StagedStatus(r)
    /\ pc[r] \in LockedSteps \ {"create"} \/ txns[r] = "COMPLETED" =>
          EnoughFunds(r) /\ AmountStorable(call[r].amount)
StageInv == \A r \in Requests : StageOK(r)

ResultInv ==
    \A r \in Requests :
        /\ txns[r] # "PENDING"
        /\ pc[r] = "committed" => txns[r] = "COMPLETED"
        /\ result[r] # "none" => pc[r] \in {"rollback", "done"}

IInv == TypeOK /\ CallInv /\ LockInv /\ StageInv /\ ResultInv /\ AnswersAreTrue

-----------------------------------------------------------------------------
(* Rounding.                                                                 *)

\* What a column stores is a whole number of cents.
LEMMA RoundIsStored ==
    ASSUME NEW x \in Int, BalanceStorable(x)
    PROVE  RoundToCent(x) \in StoredAmounts
  BY MaxStoredAssumption DEF BalanceStorable, RoundToCent, StoredAmounts

\* A positive amount that passes CHECK (amount > 0) is stored as such.
LEMMA AmountIsStored ==
    ASSUME NEW x \in Int, AmountStorable(x)
    PROVE  RoundToCent(x) \in StoredAmounts \ {0}
  BY MaxStoredAssumption DEF AmountStorable, RoundToCent, StoredAmounts

LEMMA AppendToOne ==
    ASSUME NEW S, NEW d \in S, NEW e \in S
    PROVE  Append(<<d>>, e) = <<d, e>>
  <1>1. Append(<<d>>, e) \in Seq(S) /\ Len(Append(<<d>>, e)) = 2
    OBVIOUS
  <1>2. <<d, e>> \in Seq(S) /\ Len(<<d, e>>) = 2
    OBVIOUS
  <1>3. \A i \in 1..Len(Append(<<d>>, e)) : Append(<<d>>, e)[i] = <<d, e>>[i]
    BY <1>1
  <1> QED
    BY <1>1, <1>2, <1>3, SeqEqual

-----------------------------------------------------------------------------
(* The inductive invariant.                                                  *)

LEMMA InitIInv == Init => IInv
  <1> SUFFICES ASSUME Init PROVE IInv
    OBVIOUS
  <1> USE ConstantsAssumption DEF Init
  <1>1. TypeOK
    BY MaxStoredAssumption DEF TypeOK, Steps, TxSteps, Results, TxnStatus, NoWrite, StoredAmounts
  <1>2. CallInv
    BY DEF CallInv, CallOK, CallOK, TxSteps
  <1>3. LockInv
    BY DEF LockInv, LockOK, LockedSteps, NoWrite
  <1>4. StageInv
    BY DEF StageInv, StageOK, StagedWrites, StagedRows, StagedStatus, LockedSteps
  <1>5. ResultInv /\ AnswersAreTrue
    BY DEF ResultInv, AnswersAreTrue, Refusals
  <1> QED
    BY <1>1, <1>2, <1>3, <1>4, <1>5 DEF IInv

\* What a step does not touch of a call keeps what the invariant says of it.
LEMMA CallFrame ==
    ASSUME NEW q \in Requests, CallOK(q), UNCHANGED <<pc[q], call[q], txns[q]>>
    PROVE  CallOK(q)'
  BY DEF CallOK, Validated, Involved, IsTransfer

LEMMA StageFrame ==
    ASSUME NEW q \in Requests, StageOK(q),
           UNCHANGED <<pc[q], call[q], seen[q], wrote[q], rows[q], status[q], txns[q]>>
    PROVE  StageOK(q)'
  BY DEF StageOK, StagedWrites, StagedRows, StagedStatus, EnoughFunds, IsTransfer,
         SourceNewBalance, TargetNewBalance, Entry

LEMMA LockFrame ==
    ASSUME NEW q \in Requests, NEW w \in Wallets, LockOK(q, w),
           UNCHANGED <<pc[q], call[q], seen[q], lockOwner[w], balance[w], wrote[q]>>
    PROVE  LockOK(q, w)'
  BY DEF LockOK, Involved, IsTransfer

\* A call that has not committed has no committed transaction row.
LEMMA Uncommitted ==
    ASSUME IInv, NEW q \in Requests, pc[q] \notin {"committed", "done"}
    PROVE  txns[q] = "none"
  BY DEF IInv, TypeOK, TxnStatus, CallInv, CallOK, ResultInv

LEMMA ArriveStep ==
    ASSUME IInv, NEW r \in Requests, NEW c \in Calls, Arrive(r, c)
    PROVE  IInv'
  <1> USE DEF IInv, Arrive, Goto, Return, db, staged, events, IsTransfer
  <1>1. TypeOK'
    BY DEF TypeOK, Steps, TxSteps, Results, Refusals, TxnStatus, NoWrite
  <1>2. CallInv'
    BY ConstantsAssumption DEF CallKinds, NoCall, TypeOK, CallInv, CallOK, Validated,
       Involved, TxSteps, UserWallet
  <1>3. LockInv'
    BY DEF TypeOK, CallInv, CallOK, LockInv, LockOK, LockedSteps, TxSteps, Involved,
       FirstLock, SecondLock, NoWrite, Validated
  <1>4. StageInv'
    <2>1. ASSUME NEW q \in Requests, q # r PROVE StageOK(q)'
      BY <2>1, StageFrame DEF TypeOK, StageInv
    <2>2. StageOK(r)'
      <3>1. pc[r] \in {"idle"} /\ pc'[r] \in {"findUser"}
        BY DEF TypeOK
      <3>2. StagedWrites(r) = [w \in Wallets |-> NoWrite]
            /\ StagedWrites(r)' = [w \in Wallets |-> NoWrite]
        BY <3>1 DEF StagedWrites
      <3>3. StagedRows(r)' = StagedRows(r) /\ StagedStatus(r)' = StagedStatus(r)
        BY <3>1 DEF StagedRows, StagedStatus, LockedSteps
      <3>4. txns'[r] = "none"
        BY <3>1, Uncommitted
      <3> QED
        BY <3>1, <3>2, <3>3, <3>4 DEF StageInv, StageOK, LockedSteps
    <2> QED
      BY <2>1, <2>2 DEF StageInv
  <1>5. ResultInv'
    BY DEF TypeOK, ResultInv, StageInv, StageOK, StagedStatus, LockedSteps, TxSteps
  <1>6. AnswersAreTrue'
    BY DEF TypeOK, TxnStatus, AnswersAreTrue, Refusals, ResultInv, CallInv, CallOK
  <1> QED
    BY <1>1, <1>2, <1>3, <1>4, <1>5, <1>6

LEMMA FindUserWalletStep ==
    ASSUME IInv, NEW r \in Requests, FindUserWallet(r)
    PROVE  IInv'
  <1> USE DEF IInv, FindUserWallet, Goto, Return, db, staged, events, IsTransfer
  <1>1. TypeOK'
    BY DEF TypeOK, Steps, TxSteps, Results, Refusals, TxnStatus, NoWrite
  <1>2. CallInv'
    BY DEF TypeOK, CallInv, CallOK, Validated, Involved, TxSteps, UserWallet
  <1>3. LockInv'
    BY DEF TypeOK, CallInv, CallOK, LockInv, LockOK, LockedSteps, TxSteps, Involved,
       FirstLock, SecondLock, NoWrite, Validated
  <1>4. StageInv'
    <2>1. ASSUME NEW q \in Requests, q # r PROVE StageOK(q)'
      BY <2>1, StageFrame DEF TypeOK, StageInv
    <2>2. StageOK(r)'
      <3>1. pc[r] \in {"findUser"} /\ pc'[r] \in {"done", "findTarget", "begin"}
        BY DEF TypeOK
      <3>2. StagedWrites(r) = [w \in Wallets |-> NoWrite]
            /\ StagedWrites(r)' = [w \in Wallets |-> NoWrite]
        BY <3>1 DEF StagedWrites
      <3>3. StagedRows(r)' = StagedRows(r) /\ StagedStatus(r)' = StagedStatus(r)
        BY <3>1 DEF StagedRows, StagedStatus, LockedSteps
      <3>4. txns'[r] = "none"
        BY <3>1, Uncommitted
      <3> QED
        BY <3>1, <3>2, <3>3, <3>4 DEF StageInv, StageOK, LockedSteps
    <2> QED
      BY <2>1, <2>2 DEF StageInv
  <1>5. ResultInv'
    BY DEF TypeOK, ResultInv, StageInv, StageOK, StagedStatus, LockedSteps, TxSteps
  <1>6. AnswersAreTrue'
    BY DEF TypeOK, TxnStatus, AnswersAreTrue, Refusals, ResultInv, CallInv, CallOK
  <1> QED
    BY <1>1, <1>2, <1>3, <1>4, <1>5, <1>6

LEMMA FindTargetWalletStep ==
    ASSUME IInv, NEW r \in Requests, FindTargetWallet(r)
    PROVE  IInv'
  <1> USE DEF IInv, FindTargetWallet, Goto, Return, db, staged, events, IsTransfer
  <1>1. TypeOK'
    BY DEF TypeOK, Steps, TxSteps, Results, Refusals, TxnStatus, NoWrite
  <1>2. CallInv'
    <2>1. ASSUME NEW q \in Requests, q # r PROVE CallOK(q)'
      BY <2>1, CallFrame DEF TypeOK, CallInv
    <2>2. CallOK(r)'
      BY DEF TypeOK, CallInv, CallOK, Validated, Involved, TxSteps
    <2> QED
      BY <2>1, <2>2 DEF CallInv
  <1>3. LockInv'
    BY DEF TypeOK, CallInv, CallOK, LockInv, LockOK, LockedSteps, TxSteps, Involved,
       FirstLock, SecondLock, NoWrite, Validated
  <1>4. StageInv'
    <2>1. ASSUME NEW q \in Requests, q # r PROVE StageOK(q)'
      BY <2>1, StageFrame DEF TypeOK, StageInv
    <2>2. StageOK(r)'
      <3>1. pc[r] \in {"findTarget"} /\ pc'[r] \in {"done", "begin"}
        BY DEF TypeOK
      <3>2. StagedWrites(r) = [w \in Wallets |-> NoWrite]
            /\ StagedWrites(r)' = [w \in Wallets |-> NoWrite]
        BY <3>1 DEF StagedWrites
      <3>3. StagedRows(r)' = StagedRows(r) /\ StagedStatus(r)' = StagedStatus(r)
        BY <3>1 DEF StagedRows, StagedStatus, LockedSteps
      <3>4. txns'[r] = "none"
        BY <3>1, Uncommitted
      <3> QED
        BY <3>1, <3>2, <3>3, <3>4 DEF StageInv, StageOK, LockedSteps
    <2> QED
      BY <2>1, <2>2 DEF StageInv
  <1>5. ResultInv'
    BY DEF TypeOK, ResultInv, StageInv, StageOK, StagedStatus, LockedSteps, TxSteps
  <1>6. AnswersAreTrue'
    <2>1. txns[r] = "none" /\ result'[r] \in Refusals \cup {result[r]}
      BY Uncommitted DEF TypeOK, Refusals
    <2> QED
      BY <2>1 DEF TypeOK, AnswersAreTrue, Refusals
  <1> QED
    BY <1>1, <1>2, <1>3, <1>4, <1>5, <1>6

LEMMA BeginStep ==
    ASSUME IInv, NEW r \in Requests, Begin(r)
    PROVE  IInv'
  <1> USE DEF IInv, Begin, Goto, Return, db, staged, events, IsTransfer
  <1>1. TypeOK'
    BY DEF TypeOK, Steps, TxSteps, Results, Refusals, TxnStatus, NoWrite
  <1>2. CallInv'
    BY DEF TypeOK, CallInv, CallOK, Validated, Involved, TxSteps, UserWallet
  <1>3. LockInv'
    BY DEF TypeOK, CallInv, CallOK, LockInv, LockOK, LockedSteps, TxSteps, Involved,
       FirstLock, SecondLock, NoWrite, Validated
  <1>4. StageInv'
    BY DEF TypeOK, CallInv, CallOK, StageInv, StageOK, LockedSteps, StagedWrites,
       StagedRows, StagedStatus, EnoughFunds, SourceNewBalance, TargetNewBalance, Entry
  <1>5. ResultInv'
    BY DEF TypeOK, ResultInv, StageInv, StageOK, StagedStatus, LockedSteps, TxSteps
  <1>6. AnswersAreTrue'
    BY DEF TypeOK, TxnStatus, AnswersAreTrue, Refusals, ResultInv, CallInv, CallOK
  <1> QED
    BY <1>1, <1>2, <1>3, <1>4, <1>5, <1>6

LEMMA LockRowStep ==
    ASSUME IInv, NEW r \in Requests, LockRow(r)
    PROVE  IInv'
  <1> USE DEF IInv, LockRow, Wanted, RowFree, Goto, Return, db, staged, events, IsTransfer
  <1>1. TypeOK'
    BY DEF TypeOK, Steps, TxSteps, Results, Refusals, TxnStatus, NoWrite
  <1>2. CallInv'
    BY DEF TypeOK, CallInv, CallOK, Validated, Involved, TxSteps, UserWallet
  <1>3. LockInv'
    <2> SUFFICES ASSUME NEW q \in Requests, NEW w \in Wallets
                 PROVE  LockOK(q, w)'
      BY DEF LockInv
    <2> USE DEF TypeOK, CallInv, CallOK, LockInv, LockOK, LockedSteps, TxSteps, Involved, Validated
    <2>1. CASE q # r /\ w # Wanted(r)
      BY <2>1, LockFrame
    <2>2. CASE q # r /\ w = Wanted(r)
      BY <2>2, ConstantsAssumption DEF NoWrite
    <2>3. CASE q = r /\ w # Wanted(r)
      BY <2>3 DEF FirstLock, SecondLock
    <2>4. CASE q = r /\ w = Wanted(r)
      BY <2>4, ConstantsAssumption DEF FirstLock, SecondLock
    <2> QED
      BY <2>1, <2>2, <2>3, <2>4
  <1>4. StageInv'
    <2>1. ASSUME NEW q \in Requests, q # r PROVE StageOK(q)'
      BY <2>1, StageFrame DEF TypeOK, StageInv
    <2>2. StageOK(r)'
      <3>1. pc[r] \in {"lock1", "lock2"} /\ pc'[r] \in {"lock2", "create"}
        BY DEF TypeOK
      <3>2. StagedWrites(r) = [w \in Wallets |-> NoWrite]
            /\ StagedWrites(r)' = [w \in Wallets |-> NoWrite]
        BY <3>1 DEF StagedWrites
      <3>3. StagedRows(r)' = StagedRows(r) /\ StagedStatus(r)' = StagedStatus(r)
        BY <3>1 DEF StagedRows, StagedStatus, LockedSteps
      <3>4. txns'[r] = "none"
        BY <3>1, Uncommitted
      <3> QED
        BY <3>1, <3>2, <3>3, <3>4 DEF StageInv, StageOK, LockedSteps
    <2> QED
      BY <2>1, <2>2 DEF StageInv
  <1>5. ResultInv'
    BY DEF TypeOK, ResultInv, StageInv, StageOK, StagedStatus, LockedSteps, TxSteps
  <1>6. AnswersAreTrue'
    BY DEF TypeOK, TxnStatus, AnswersAreTrue, Refusals, ResultInv, CallInv, CallOK
  <1> QED
    BY <1>1, <1>2, <1>3, <1>4, <1>5, <1>6

LEMMA RefuseInsufficientStep ==
    ASSUME IInv, NEW r \in Requests, RefuseInsufficient(r)
    PROVE  IInv'
  <1> USE DEF IInv, RefuseInsufficient, Goto, Return, db, staged, events, IsTransfer
  <1>1. TypeOK'
    BY DEF TypeOK, Steps, TxSteps, Results, Refusals, TxnStatus, NoWrite
  <1>2. CallInv'
    BY DEF TypeOK, CallInv, CallOK, Validated, Involved, TxSteps, UserWallet
  <1>3. LockInv'
    BY DEF TypeOK, CallInv, CallOK, LockInv, LockOK, LockedSteps, TxSteps, Involved,
       FirstLock, SecondLock, NoWrite, Validated
  <1>4. StageInv'
    BY DEF TypeOK, CallInv, CallOK, StageInv, StageOK, LockedSteps, StagedWrites,
       StagedRows, StagedStatus, EnoughFunds, SourceNewBalance, TargetNewBalance, Entry
  <1>5. ResultInv'
    BY DEF TypeOK, ResultInv, StageInv, StageOK, StagedStatus, LockedSteps, TxSteps
  <1>6. AnswersAreTrue'
    BY DEF TypeOK, TxnStatus, AnswersAreTrue, Refusals, ResultInv, CallInv, CallOK
  <1> QED
    BY <1>1, <1>2, <1>3, <1>4, <1>5, <1>6

LEMMA CreateTransactionStep ==
    ASSUME IInv, NEW r \in Requests, CreateTransaction(r)
    PROVE  IInv'
  <1> USE DEF IInv, CreateTransaction, Goto, Return, db, staged, events, IsTransfer
  <1>1. TypeOK'
    BY DEF TypeOK, Steps, TxSteps, Results, Refusals, TxnStatus, NoWrite
  <1>2. CallInv'
    BY DEF TypeOK, CallInv, CallOK, Validated, Involved, TxSteps, UserWallet
  <1>3. LockInv'
    BY DEF TypeOK, CallInv, CallOK, LockInv, LockOK, LockedSteps, TxSteps, Involved,
       FirstLock, SecondLock, NoWrite, Validated
  <1>4. StageInv'
    BY DEF TypeOK, CallInv, CallOK, StageInv, StageOK, LockedSteps, StagedWrites,
       StagedRows, StagedStatus, EnoughFunds, SourceNewBalance, TargetNewBalance, Entry
  <1>5. ResultInv'
    BY DEF TypeOK, ResultInv, StageInv, StageOK, StagedStatus, LockedSteps, TxSteps
  <1>6. AnswersAreTrue'
    BY DEF TypeOK, TxnStatus, AnswersAreTrue, Refusals, ResultInv, CallInv, CallOK
  <1> QED
    BY <1>1, <1>2, <1>3, <1>4, <1>5, <1>6

LEMMA UpdateSourceStep ==
    ASSUME IInv, NEW r \in Requests, UpdateSource(r)
    PROVE  IInv'
  <1> USE DEF IInv, UpdateSource, UpdateBalance, Goto, Return, db, staged, events, IsTransfer
  <1>a. /\ call[r] \in Calls
        /\ call[r].amount \in Nat \ {0}
        /\ call[r].source \in Nat
        /\ call[r].target \in Nat
        /\ Involved(r) \subseteq Wallets
    BY ConstantsAssumption DEF TypeOK, CallInv, CallOK, TxSteps, Validated
  <1>b. SourceNewBalance(r) \in Int
    BY <1>a DEF TypeOK, SourceNewBalance, StoredAmounts, Involved, CallInv, CallOK
  <1>c. RoundToCent(SourceNewBalance(r)) \in StoredAmounts
    BY <1>b, RoundIsStored
  <1>1. TypeOK'
    BY <1>c DEF TypeOK, Steps, TxSteps
  <1>2. CallInv'
    BY DEF TypeOK, CallInv, CallOK, Validated, Involved, TxSteps, UserWallet
  <1>3. LockInv'
    BY DEF TypeOK, CallInv, CallOK, LockInv, LockOK, LockedSteps, TxSteps, Involved,
       FirstLock, SecondLock, NoWrite, Validated
  <1>4. StageInv'
    <2>1. ASSUME NEW q \in Requests, q # r PROVE StageOK(q)'
      BY <2>1, StageFrame DEF TypeOK, StageInv
    <2>2. StageOK(r)'
      <3>1. pc[r] = "updateSource" /\ pc'[r] = "updateTarget" /\ IsTransfer(r)
        BY DEF TypeOK, CallInv, CallOK
      <3>2. wrote'[r] = [wrote[r] EXCEPT ![call[r].source] = RoundToCent(SourceNewBalance(r))]
        BY DEF TypeOK
      <3>3. wrote'[r] = StagedWrites(r)'
        <4>1. wrote[r] = [w \in Wallets |-> NoWrite]
          BY <3>1 DEF StageInv, StageOK, StagedWrites
        <4>2. StagedWrites(r)' =
                [w \in Wallets |-> IF w = call[r].source
                                   THEN RoundToCent(SourceNewBalance(r)) ELSE NoWrite]
          BY <3>1 DEF StagedWrites, SourceNewBalance
        <4> QED
          BY <3>2, <4>1, <4>2
      <3>4. rows'[r] = StagedRows(r)' /\ status'[r] = StagedStatus(r)'
        BY <3>1 DEF StageInv, StageOK, StagedRows, StagedStatus, LockedSteps
      <3> QED
        BY <3>1, <3>3, <3>4 DEF StageInv, StageOK, LockedSteps, EnoughFunds
    <2> QED
      BY <2>1, <2>2 DEF StageInv
  <1>5. ResultInv'
    BY DEF TypeOK, ResultInv, StageInv, StageOK, StagedStatus, LockedSteps, TxSteps
  <1>6. AnswersAreTrue'
    BY DEF TypeOK, TxnStatus, AnswersAreTrue, Refusals, ResultInv, CallInv, CallOK
  <1> QED
    BY <1>1, <1>2, <1>3, <1>4, <1>5, <1>6

LEMMA UpdateTargetStep ==
    ASSUME IInv, NEW r \in Requests, UpdateTarget(r)
    PROVE  IInv'
  <1> USE DEF IInv, UpdateTarget, UpdateBalance, Goto, Return, db, staged, events, IsTransfer
  <1>a. /\ call[r] \in Calls
        /\ call[r].amount \in Nat \ {0}
        /\ call[r].source \in Nat
        /\ call[r].target \in Nat
        /\ Involved(r) \subseteq Wallets
    BY ConstantsAssumption DEF TypeOK, CallInv, CallOK, TxSteps, Validated
  <1>b. TargetNewBalance(r) \in Int
    BY <1>a DEF TypeOK, TargetNewBalance, StoredAmounts, Involved, CallInv, CallOK
  <1>c. RoundToCent(TargetNewBalance(r)) \in StoredAmounts
    BY <1>b, RoundIsStored
  <1>1. TypeOK'
    BY <1>c DEF TypeOK, Steps, TxSteps
  <1>2. CallInv'
    BY DEF TypeOK, CallInv, CallOK, Validated, Involved, TxSteps, UserWallet
  <1>3. LockInv'
    BY DEF TypeOK, CallInv, CallOK, LockInv, LockOK, LockedSteps, TxSteps, Involved,
       FirstLock, SecondLock, NoWrite, Validated
  <1>4. StageInv'
    <2>1. ASSUME NEW q \in Requests, q # r PROVE StageOK(q)'
      BY <2>1, StageFrame DEF TypeOK, StageInv
    <2>2. StageOK(r)'
      <3>1. pc[r] = "updateTarget" /\ pc'[r] \in {"debit", "credit"}
              /\ (pc'[r] = "credit" => ~IsTransfer(r))
        BY DEF TypeOK, CallInv, CallOK
      <3>2. wrote'[r] = [wrote[r] EXCEPT ![call[r].target] = RoundToCent(TargetNewBalance(r))]
        BY DEF TypeOK
      <3>3. wrote'[r] = StagedWrites(r)'
        <4>1. wrote[r] =
                [w \in Wallets |-> IF IsTransfer(r) /\ w = call[r].source
                                   THEN RoundToCent(SourceNewBalance(r)) ELSE NoWrite]
          BY <3>1 DEF StageInv, StageOK, StagedWrites
        <4>2. StagedWrites(r)' =
                [w \in Wallets |-> IF IsTransfer(r) /\ w = call[r].source
                                   THEN RoundToCent(SourceNewBalance(r))
                                   ELSE IF w = call[r].target
                                   THEN RoundToCent(TargetNewBalance(r)) ELSE NoWrite]
          BY <3>1 DEF StagedWrites, SourceNewBalance, TargetNewBalance
        <4>3. ~(IsTransfer(r) /\ call[r].source = call[r].target)
          BY <3>1 DEF CallInv, CallOK, Validated, TxSteps
        <4> QED
          BY <3>2, <4>1, <4>2, <4>3
      <3>4. rows'[r] = StagedRows(r)' /\ status'[r] = StagedStatus(r)'
        BY <3>1 DEF StageInv, StageOK, StagedRows, StagedStatus, LockedSteps
      <3> QED
        BY <3>1, <3>3, <3>4 DEF StageInv, StageOK, LockedSteps, EnoughFunds
    <2> QED
      BY <2>1, <2>2 DEF StageInv
  <1>5. ResultInv'
    BY DEF TypeOK, ResultInv, StageInv, StageOK, StagedStatus, LockedSteps, TxSteps
  <1>6. AnswersAreTrue'
    BY DEF TypeOK, TxnStatus, AnswersAreTrue, Refusals, ResultInv, CallInv, CallOK
  <1> QED
    BY <1>1, <1>2, <1>3, <1>4, <1>5, <1>6

LEMMA InsertDebitStep ==
    ASSUME IInv, NEW r \in Requests, InsertDebit(r)
    PROVE  IInv'
  <1> USE DEF IInv, InsertDebit, InsertEntry, Goto, Return, db, staged, events, IsTransfer
  <1>a. /\ call[r] \in Calls
        /\ call[r].amount \in Nat \ {0}
        /\ call[r].source \in Nat
        /\ call[r].target \in Nat
        /\ Involved(r) \subseteq Wallets
    BY ConstantsAssumption DEF TypeOK, CallInv, CallOK, TxSteps, Validated
  <1>b. RoundToCent(call[r].amount) \in StoredAmounts \ {0}
    BY <1>a, AmountIsStored DEF StageInv, StageOK, LockedSteps
  <1>c. /\ Entry(r, call[r].target, "CREDIT") \in EntryType
        /\ IsTransfer(r) => Entry(r, call[r].source, "DEBIT") \in EntryType
    BY <1>a, <1>b DEF Entry, EntryType, Involved
  <1>1. TypeOK'
    <2>1. rows' \in [Requests -> Seq(EntryType)]
      BY <1>c DEF TypeOK, CallInv, CallOK
    <2> QED
      BY <2>1 DEF TypeOK, Steps, TxSteps
  <1>2. CallInv'
    BY DEF TypeOK, CallInv, CallOK, Validated, Involved, TxSteps, UserWallet
  <1>3. LockInv'
    BY DEF TypeOK, CallInv, CallOK, LockInv, LockOK, LockedSteps, TxSteps, Involved,
       FirstLock, SecondLock, NoWrite, Validated
  <1>4. StageInv'
    <2>1. ASSUME NEW q \in Requests, q # r PROVE StageOK(q)'
      BY <2>1, StageFrame DEF TypeOK, StageInv
    <2>2. StageOK(r)'
      <3>1. pc[r] = "debit" /\ pc'[r] = "credit" /\ IsTransfer(r)
        BY DEF TypeOK, CallInv, CallOK
      <3>2. rows'[r] = Append(rows[r], Entry(r, call[r].source, "DEBIT"))
        BY DEF TypeOK
      <3>3. rows'[r] = StagedRows(r)'
        <4>1. rows[r] = << >>
          BY <3>1 DEF StageInv, StageOK, StagedRows
        <4>2. StagedRows(r)' = <<Entry(r, call[r].source, "DEBIT")>>
          BY <3>1 DEF StagedRows, Entry
        <4> QED
          BY <3>1, <3>2, <4>1, <4>2, <1>c
      <3>4. wrote'[r] = StagedWrites(r)' /\ status'[r] = StagedStatus(r)'
        BY <3>1 DEF StageInv, StageOK, StagedWrites, StagedStatus, LockedSteps,
           SourceNewBalance, TargetNewBalance
      <3> QED
        BY <3>1, <3>3, <3>4 DEF StageInv, StageOK, LockedSteps, EnoughFunds
    <2> QED
      BY <2>1, <2>2 DEF StageInv
  <1>5. ResultInv'
    BY DEF TypeOK, ResultInv, StageInv, StageOK, StagedStatus, LockedSteps, TxSteps
  <1>6. AnswersAreTrue'
    BY DEF TypeOK, TxnStatus, AnswersAreTrue, Refusals, ResultInv, CallInv, CallOK
  <1> QED
    BY <1>1, <1>2, <1>3, <1>4, <1>5, <1>6

LEMMA InsertCreditStep ==
    ASSUME IInv, NEW r \in Requests, InsertCredit(r)
    PROVE  IInv'
  <1> USE DEF IInv, InsertCredit, InsertEntry, Goto, Return, db, staged, events, IsTransfer
  <1>a. /\ call[r] \in Calls
        /\ call[r].amount \in Nat \ {0}
        /\ call[r].source \in Nat
        /\ call[r].target \in Nat
        /\ Involved(r) \subseteq Wallets
    BY ConstantsAssumption DEF TypeOK, CallInv, CallOK, TxSteps, Validated
  <1>b. RoundToCent(call[r].amount) \in StoredAmounts \ {0}
    BY <1>a, AmountIsStored DEF StageInv, StageOK, LockedSteps
  <1>c. /\ Entry(r, call[r].target, "CREDIT") \in EntryType
        /\ IsTransfer(r) => Entry(r, call[r].source, "DEBIT") \in EntryType
    BY <1>a, <1>b DEF Entry, EntryType, Involved
  <1>1. TypeOK'
    <2>1. rows' \in [Requests -> Seq(EntryType)]
      BY <1>c DEF TypeOK
    <2> QED
      BY <2>1 DEF TypeOK, Steps, TxSteps
  <1>2. CallInv'
    BY DEF TypeOK, CallInv, CallOK, Validated, Involved, TxSteps, UserWallet
  <1>3. LockInv'
    BY DEF TypeOK, CallInv, CallOK, LockInv, LockOK, LockedSteps, TxSteps, Involved,
       FirstLock, SecondLock, NoWrite, Validated
  <1>4. StageInv'
    <2>1. ASSUME NEW q \in Requests, q # r PROVE StageOK(q)'
      BY <2>1, StageFrame DEF TypeOK, StageInv
    <2>2. StageOK(r)'
      <3>1. pc[r] = "credit" /\ pc'[r] = "complete"
        BY DEF TypeOK, CallInv, CallOK
      <3>2. rows'[r] = Append(rows[r], Entry(r, call[r].target, "CREDIT"))
        BY DEF TypeOK
      <3>3. rows'[r] = StagedRows(r)'
        <4> DEFINE debit == Entry(r, call[r].source, "DEBIT")
                   credit == Entry(r, call[r].target, "CREDIT")
        <4>1. rows[r] = IF IsTransfer(r) THEN <<debit>> ELSE << >>
          BY <3>1 DEF StageInv, StageOK, StagedRows
        <4>2. StagedRows(r)' = IF IsTransfer(r) THEN <<debit, credit>> ELSE <<credit>>
          BY <3>1 DEF StagedRows, Entry
        <4>3. CASE IsTransfer(r)
          BY <3>2, <4>1, <4>2, <4>3, <1>c, AppendToOne
        <4>4. CASE ~IsTransfer(r)
          BY <3>2, <4>1, <4>2, <4>4, <1>c
        <4> QED
          BY <4>3, <4>4
      <3>4. wrote'[r] = StagedWrites(r)' /\ status'[r] = StagedStatus(r)'
        BY <3>1 DEF StageInv, StageOK, StagedWrites, StagedStatus, LockedSteps,
           SourceNewBalance, TargetNewBalance
      <3> QED
        BY <3>1, <3>3, <3>4 DEF StageInv, StageOK, LockedSteps, EnoughFunds
    <2> QED
      BY <2>1, <2>2 DEF StageInv
  <1>5. ResultInv'
    BY DEF TypeOK, ResultInv, StageInv, StageOK, StagedStatus, LockedSteps, TxSteps
  <1>6. AnswersAreTrue'
    BY DEF TypeOK, TxnStatus, AnswersAreTrue, Refusals, ResultInv, CallInv, CallOK
  <1> QED
    BY <1>1, <1>2, <1>3, <1>4, <1>5, <1>6

LEMMA CompleteStep ==
    ASSUME IInv, NEW r \in Requests, Complete(r)
    PROVE  IInv'
  <1> USE DEF IInv, Complete, Goto, Return, db, staged, events, IsTransfer
  <1>1. TypeOK'
    BY DEF TypeOK, Steps, TxSteps, Results, Refusals, TxnStatus, NoWrite
  <1>2. CallInv'
    BY DEF TypeOK, CallInv, CallOK, Validated, Involved, TxSteps, UserWallet
  <1>3. LockInv'
    BY DEF TypeOK, CallInv, CallOK, LockInv, LockOK, LockedSteps, TxSteps, Involved,
       FirstLock, SecondLock, NoWrite, Validated
  <1>4. StageInv'
    BY DEF TypeOK, CallInv, CallOK, StageInv, StageOK, LockedSteps, StagedWrites,
       StagedRows, StagedStatus, EnoughFunds, SourceNewBalance, TargetNewBalance, Entry
  <1>5. ResultInv'
    BY DEF TypeOK, ResultInv, StageInv, StageOK, StagedStatus, LockedSteps, TxSteps
  <1>6. AnswersAreTrue'
    BY DEF TypeOK, TxnStatus, AnswersAreTrue, Refusals, ResultInv, CallInv, CallOK
  <1> QED
    BY <1>1, <1>2, <1>3, <1>4, <1>5, <1>6

LEMMA CommitStep ==
    ASSUME IInv, NEW r \in Requests, Commit(r)
    PROVE  IInv'
  <1> USE DEF IInv, Commit, Install, ClearStaged, Unlocked, Goto, Return, db, staged, events,
     IsTransfer
  <1>1. TypeOK'
    BY DEF TypeOK, Steps, TxSteps, Results, Refusals, TxnStatus, NoWrite
  <1>2. CallInv'
    BY DEF TypeOK, CallInv, CallOK, Validated, Involved, TxSteps, UserWallet
  <1>3. LockInv'
    <2> SUFFICES ASSUME NEW q \in Requests, NEW w \in Wallets
                 PROVE  LockOK(q, w)'
      BY DEF LockInv
    <2> USE DEF TypeOK, CallInv, CallOK, LockInv, LockOK, LockedSteps, TxSteps, Involved, Validated
    <2>1. CASE q # r
      BY <2>1, ConstantsAssumption
    <2>2. CASE q = r
      BY <2>2, ConstantsAssumption
    <2> QED
      BY <2>1, <2>2
  <1>4. StageInv'
    BY DEF TypeOK, CallInv, CallOK, StageInv, StageOK, LockedSteps, StagedWrites,
       StagedRows, StagedStatus, EnoughFunds, SourceNewBalance, TargetNewBalance, Entry
  <1>5. ResultInv'
    BY DEF TypeOK, ResultInv, StageInv, StageOK, StagedStatus, LockedSteps, TxSteps
  <1>6. AnswersAreTrue'
    BY DEF TypeOK, TxnStatus, AnswersAreTrue, Refusals, ResultInv, CallInv, CallOK
  <1> QED
    BY <1>1, <1>2, <1>3, <1>4, <1>5, <1>6

LEMMA RollbackStep ==
    ASSUME IInv, NEW r \in Requests, Rollback(r)
    PROVE  IInv'
  <1> USE DEF IInv, Rollback, ClearStaged, Unlocked, Goto, Return, db, staged, events, IsTransfer
  <1>1. TypeOK'
    BY DEF TypeOK, Steps, TxSteps, Results, Refusals, TxnStatus, NoWrite
  <1>2. CallInv'
    BY DEF TypeOK, CallInv, CallOK, Validated, Involved, TxSteps, UserWallet
  <1>3. LockInv'
    <2> SUFFICES ASSUME NEW q \in Requests, NEW w \in Wallets
                 PROVE  LockOK(q, w)'
      BY DEF LockInv
    <2> USE DEF TypeOK, CallInv, CallOK, LockInv, LockOK, LockedSteps, TxSteps, Involved, Validated
    <2>1. CASE q # r
      BY <2>1, ConstantsAssumption
    <2>2. CASE q = r
      BY <2>2, ConstantsAssumption
    <2> QED
      BY <2>1, <2>2
  <1>4. StageInv'
    BY DEF TypeOK, CallInv, CallOK, StageInv, StageOK, LockedSteps, StagedWrites,
       StagedRows, StagedStatus, EnoughFunds, SourceNewBalance, TargetNewBalance, Entry
  <1>5. ResultInv'
    BY DEF TypeOK, ResultInv, StageInv, StageOK, StagedStatus, LockedSteps, TxSteps
  <1>6. AnswersAreTrue'
    BY DEF TypeOK, TxnStatus, AnswersAreTrue, Refusals, ResultInv, CallInv, CallOK
  <1> QED
    BY <1>1, <1>2, <1>3, <1>4, <1>5, <1>6

LEMMA AcknowledgeStep ==
    ASSUME IInv, NEW r \in Requests, Acknowledge(r)
    PROVE  IInv'
  <1> USE DEF IInv, Acknowledge, Goto, Return, db, staged, events, IsTransfer
  <1>1. TypeOK'
    BY DEF TypeOK, Steps, TxSteps, Results, Refusals, TxnStatus, NoWrite
  <1>2. CallInv'
    BY DEF TypeOK, CallInv, CallOK, Validated, Involved, TxSteps, UserWallet
  <1>3. LockInv'
    BY DEF TypeOK, CallInv, CallOK, LockInv, LockOK, LockedSteps, TxSteps, Involved,
       FirstLock, SecondLock, NoWrite, Validated
  <1>4. StageInv'
    BY DEF TypeOK, CallInv, CallOK, StageInv, StageOK, LockedSteps, StagedWrites,
       StagedRows, StagedStatus, EnoughFunds, SourceNewBalance, TargetNewBalance, Entry
  <1>5. ResultInv'
    BY DEF TypeOK, ResultInv, StageInv, StageOK, StagedStatus, LockedSteps, TxSteps
  <1>6. AnswersAreTrue'
    BY DEF TypeOK, TxnStatus, AnswersAreTrue, Refusals, ResultInv, CallInv, CallOK
  <1> QED
    BY <1>1, <1>2, <1>3, <1>4, <1>5, <1>6

LEMMA CommitUnacknowledgedStep ==
    ASSUME IInv, NEW r \in Requests, CommitUnacknowledged(r)
    PROVE  IInv'
  <1> USE DEF IInv, CommitUnacknowledged, Goto, Return, db, staged, events, IsTransfer
  <1>1. TypeOK'
    BY DEF TypeOK, Steps, TxSteps, Results, Refusals, TxnStatus, NoWrite
  <1>2. CallInv'
    BY DEF TypeOK, CallInv, CallOK, Validated, Involved, TxSteps, UserWallet
  <1>3. LockInv'
    BY DEF TypeOK, CallInv, CallOK, LockInv, LockOK, LockedSteps, TxSteps, Involved,
       FirstLock, SecondLock, NoWrite, Validated
  <1>4. StageInv'
    BY DEF TypeOK, CallInv, CallOK, StageInv, StageOK, LockedSteps, StagedWrites,
       StagedRows, StagedStatus, EnoughFunds, SourceNewBalance, TargetNewBalance, Entry
  <1>5. ResultInv'
    BY DEF TypeOK, ResultInv, StageInv, StageOK, StagedStatus, LockedSteps, TxSteps
  <1>6. AnswersAreTrue'
    BY DEF TypeOK, TxnStatus, AnswersAreTrue, Refusals, ResultInv, CallInv, CallOK
  <1> QED
    BY <1>1, <1>2, <1>3, <1>4, <1>5, <1>6

LEMMA FailStep ==
    ASSUME IInv, NEW r \in Requests, Fail(r)
    PROVE  IInv'
  <1> USE DEF IInv, Fail, Goto, Return, db, staged, events, IsTransfer
  <1>1. TypeOK'
    BY DEF TypeOK, Steps, TxSteps, Results, Refusals, TxnStatus, NoWrite
  <1>2. CallInv'
    BY DEF TypeOK, CallInv, CallOK, Validated, Involved, TxSteps, UserWallet
  <1>3. LockInv'
    BY DEF TypeOK, CallInv, CallOK, LockInv, LockOK, LockedSteps, TxSteps, Involved,
       FirstLock, SecondLock, NoWrite, Validated
  <1>4. StageInv'
    BY DEF TypeOK, CallInv, CallOK, StageInv, StageOK, LockedSteps, StagedWrites,
       StagedRows, StagedStatus, EnoughFunds, SourceNewBalance, TargetNewBalance, Entry
  <1>5. ResultInv'
    BY DEF TypeOK, ResultInv, StageInv, StageOK, StagedStatus, LockedSteps, TxSteps
  <1>6. AnswersAreTrue'
    BY Uncommitted DEF TypeOK, AnswersAreTrue, Refusals, ResultInv, TxSteps
  <1> QED
    BY <1>1, <1>2, <1>3, <1>4, <1>5, <1>6

LEMMA PublishSucceedsStep ==
    ASSUME IInv, NEW r \in Requests, PublishSucceeds(r)
    PROVE  IInv'
  <1> USE DEF IInv, PublishSucceeds, Goto, Return, db, staged, events, IsTransfer
  <1>1. TypeOK'
    BY DEF TypeOK, Steps, TxSteps, Results, Refusals, TxnStatus, NoWrite
  <1>2. CallInv'
    BY DEF TypeOK, CallInv, CallOK, Validated, Involved, TxSteps, UserWallet
  <1>3. LockInv'
    BY DEF TypeOK, CallInv, CallOK, LockInv, LockOK, LockedSteps, TxSteps, Involved,
       FirstLock, SecondLock, NoWrite, Validated
  <1>4. StageInv'
    BY DEF TypeOK, CallInv, CallOK, StageInv, StageOK, LockedSteps, StagedWrites,
       StagedRows, StagedStatus, EnoughFunds, SourceNewBalance, TargetNewBalance, Entry
  <1>5. ResultInv'
    BY DEF TypeOK, ResultInv, StageInv, StageOK, StagedStatus, LockedSteps, TxSteps
  <1>6. AnswersAreTrue'
    BY DEF TypeOK, TxnStatus, AnswersAreTrue, Refusals, ResultInv, CallInv, CallOK
  <1> QED
    BY <1>1, <1>2, <1>3, <1>4, <1>5, <1>6

LEMMA PublishFailsStep ==
    ASSUME IInv, NEW r \in Requests, PublishFails(r)
    PROVE  IInv'
  <1> USE DEF IInv, PublishFails, Goto, Return, db, staged, events, IsTransfer
  <1>1. TypeOK'
    BY DEF TypeOK, Steps, TxSteps, Results, Refusals, TxnStatus, NoWrite
  <1>2. CallInv'
    BY DEF TypeOK, CallInv, CallOK, Validated, Involved, TxSteps, UserWallet
  <1>3. LockInv'
    BY DEF TypeOK, CallInv, CallOK, LockInv, LockOK, LockedSteps, TxSteps, Involved,
       FirstLock, SecondLock, NoWrite, Validated
  <1>4. StageInv'
    BY DEF TypeOK, CallInv, CallOK, StageInv, StageOK, LockedSteps, StagedWrites,
       StagedRows, StagedStatus, EnoughFunds, SourceNewBalance, TargetNewBalance, Entry
  <1>5. ResultInv'
    BY DEF TypeOK, ResultInv, StageInv, StageOK, StagedStatus, LockedSteps, TxSteps
  <1>6. AnswersAreTrue'
    BY DEF TypeOK, TxnStatus, AnswersAreTrue, Refusals, ResultInv, CallInv, CallOK
  <1> QED
    BY <1>1, <1>2, <1>3, <1>4, <1>5, <1>6

LEMMA CrashStep ==
    ASSUME IInv, Crash
    PROVE  IInv'
  <1> USE DEF IInv, Crash, Goto, Return, db, staged, events, IsTransfer
  <1>1. TypeOK'
    <2>1. rows' \in [Requests -> Seq(EntryType)] /\ lockOwner' \in [Wallets -> Requests \cup {NoRequest}]
      OBVIOUS
    <2>2. wrote' \in [Requests -> [Wallets -> StoredAmounts \cup {NoWrite}]]
      OBVIOUS
    <2>3. pc' \in [Requests -> Steps] /\ result' \in [Requests -> Results]
      BY DEF TypeOK, Steps, Results
    <2> QED
      BY <2>1, <2>2, <2>3, ConstantsAssumption DEF TypeOK, TxnStatus
  <1>2. CallInv'
    BY DEF TypeOK, CallInv, CallOK, Validated, Involved, TxSteps, UserWallet, InFlight
  <1>3. LockInv'
    BY ConstantsAssumption DEF TypeOK, LockInv, LockOK, LockedSteps, TxSteps, InFlight
  <1>4. StageInv'
    BY DEF TypeOK, CallInv, CallOK, StageInv, StageOK, LockedSteps, StagedWrites,
       StagedRows, StagedStatus, EnoughFunds, SourceNewBalance, TargetNewBalance, Entry,
       InFlight
  <1>5. ResultInv'
    BY DEF TypeOK, ResultInv, StageInv, StageOK, StagedStatus, LockedSteps, TxSteps, InFlight
  <1>6. AnswersAreTrue'
    BY DEF TypeOK, TxnStatus, AnswersAreTrue, Refusals, ResultInv, CallInv, CallOK, InFlight
  <1> QED
    BY <1>1, <1>2, <1>3, <1>4, <1>5, <1>6

LEMMA StutterStep == IInv /\ UNCHANGED vars => IInv'
  BY DEF IInv, vars, TypeOK, CallInv, CallOK, LockInv, LockOK, StageInv, StageOK, ResultInv,
     AnswersAreTrue, IsTransfer, Validated, Involved, StagedWrites, StagedRows, StagedStatus,
     EnoughFunds, SourceNewBalance, TargetNewBalance, Entry

LEMMA NextIInv == IInv /\ [Next]_vars => IInv'
  <1> SUFFICES ASSUME IInv, [Next]_vars PROVE IInv'
    OBVIOUS
  <1>1. ASSUME NEW r \in Requests, NEW c \in Calls, Arrive(r, c) PROVE IInv'
    BY <1>1, ArriveStep
  <1>2. ASSUME NEW r \in Requests, Advance(r) PROVE IInv'
    BY <1>2, FindUserWalletStep, FindTargetWalletStep, BeginStep, LockRowStep,
       RefuseInsufficientStep, CreateTransactionStep, UpdateSourceStep, UpdateTargetStep,
       InsertDebitStep, InsertCreditStep, CompleteStep, CommitStep, RollbackStep,
       AcknowledgeStep, FailStep DEF Advance, ConstraintFails
  <1>3. ASSUME NEW r \in Requests,
               \/ CommitUnacknowledged(r) \/ Fail(r)
               \/ PublishSucceeds(r) \/ PublishFails(r)
        PROVE  IInv'
    BY <1>3, CommitUnacknowledgedStep, FailStep, PublishSucceedsStep, PublishFailsStep
  <1>4. CASE Crash
    BY <1>4, CrashStep
  <1>5. CASE UNCHANGED vars
    BY <1>5, StutterStep
  <1> QED
    BY <1>1, <1>2, <1>3, <1>4, <1>5 DEF Next

THEOREM Invariance == Spec => []IInv
  BY InitIInv, NextIInv, PTL DEF Spec

-----------------------------------------------------------------------------
(* What follows from it.                                                     *)

\* Every variable keeps its type: in particular a stored balance is never negative and
\* never beyond the column, in every interleaving of calls, failures and crashes.
THEOREM TypeCorrect == Spec => []TypeOK
  <1>1. IInv => TypeOK
    BY DEF IInv
  <1> QED
    BY <1>1, Invariance, PTL

\* FindByIDForUpdate gives a call a balance no other call changes before it commits.
THEOREM NoStaleRead == Spec => []LockedReadIsCurrent
  <1>1. IInv => LockedReadIsCurrent
    BY DEF IInv, LockInv, LockOK, LockedReadIsCurrent
  <1> QED
    BY <1>1, Invariance, PTL

\* What TopUp and Transfer return agrees with what they committed.
THEOREM TrueAnswers == Spec => []AnswersAreTrue
  <1>1. IInv => AnswersAreTrue
    BY DEF IInv
  <1> QED
    BY <1>1, Invariance, PTL

-----------------------------------------------------------------------------
(* What a commit does.                                                       *)

\* Amounts the columns keep as they are.
CentAmounts == \A c \in Calls : AmountStorable(c.amount) => c.amount % 10 = 0

LEMMA OnlyCommitWrites ==
    ASSUME IInv, [Next]_vars
    PROVE  \/ UNCHANGED db
           \/ \E r \in Requests : Commit(r)
  BY DEF Next, vars, db, Advance, Arrive, FindUserWallet, FindTargetWallet, Begin, LockRow,
     RefuseInsufficient, CreateTransaction, UpdateSource, UpdateTarget, UpdateBalance,
     InsertDebit, InsertCredit, InsertEntry, Complete, Rollback, Acknowledge,
     ConstraintFails, CommitUnacknowledged, Fail, PublishSucceeds, PublishFails, Crash

DebitOf(r) == Entry(r, call[r].source, "DEBIT")
CreditOf(r) == Entry(r, call[r].target, "CREDIT")

\* A commit installs a completed transaction, its entries and the balances computed
\* from the ones it replaces.
LEMMA CommitInstalls ==
    ASSUME IInv, NEW r \in Requests, Commit(r)
    PROVE  /\ call[r] \in Calls /\ Validated(r) /\ EnoughFunds(r)
           /\ AmountStorable(call[r].amount)
           /\ txns[r] = "none"
           /\ txns' = [txns EXCEPT ![r] = "COMPLETED"]
           /\ CreditOf(r) \in EntryType
           /\ IsTransfer(r) => DebitOf(r) \in EntryType
           /\ ledger' = ledger \o (IF IsTransfer(r) THEN <<DebitOf(r), CreditOf(r)>>
                                   ELSE <<CreditOf(r)>>)
           /\ \A w \in Involved(r) : seen[r][w] = balance[w]
           /\ balance' = [w \in Wallets |->
                            IF IsTransfer(r) /\ w = call[r].source
                            THEN RoundToCent(SourceNewBalance(r))
                            ELSE IF w = call[r].target THEN RoundToCent(TargetNewBalance(r))
                            ELSE balance[w]]
  <1> USE DEF Commit, Install
  <1>1. /\ call[r] \in Calls /\ Validated(r) /\ EnoughFunds(r)
        /\ AmountStorable(call[r].amount)
    BY DEF IInv, TypeOK, CallInv, CallOK, StageInv, StageOK, LockedSteps, TxSteps
  <1>2. txns[r] = "none"
    BY Uncommitted
  <1>3. status[r] = "COMPLETED"
    BY DEF IInv, StageInv, StageOK, StagedStatus
  <1>4. RoundToCent(call[r].amount) \in StoredAmounts \ {0}
    BY <1>1, AmountIsStored, ConstantsAssumption
  <1>5. CreditOf(r) \in EntryType /\ (IsTransfer(r) => DebitOf(r) \in EntryType)
    BY <1>1, <1>4 DEF CreditOf, DebitOf, Entry, EntryType, Validated, Involved
  <1>6. rows[r] = IF IsTransfer(r) THEN <<DebitOf(r), CreditOf(r)>> ELSE <<CreditOf(r)>>
    BY DEF IInv, StageInv, StageOK, StagedRows, CreditOf, DebitOf
  <1>7. \A w \in Involved(r) : seen[r][w] = balance[w]
    BY <1>1 DEF IInv, LockInv, LockOK, LockedSteps, Validated
  <1>8. balance' = [w \in Wallets |->
                     IF IsTransfer(r) /\ w = call[r].source
                     THEN RoundToCent(SourceNewBalance(r))
                     ELSE IF w = call[r].target THEN RoundToCent(TargetNewBalance(r))
                     ELSE balance[w]]
    <2>1. wrote[r] = StagedWrites(r)
      BY DEF IInv, StageInv, StageOK
    <2>2. \A x \in Int : RoundToCent(x) # NoWrite
      BY DEF RoundToCent, NoWrite
    <2>3. TargetNewBalance(r) \in Int /\ (IsTransfer(r) => SourceNewBalance(r) \in Int)
      <3>1. call[r].amount \in Int
        BY <1>1, ConstantsAssumption
      <3>2. \A w \in Involved(r) : seen[r][w] \in Int
        BY <1>1 DEF IInv, TypeOK, StoredAmounts, Validated
      <3> QED
        BY <3>1, <3>2 DEF Involved, SourceNewBalance, TargetNewBalance
    <2> QED
      BY <2>1, <2>2, <2>3 DEF StagedWrites
  <1> QED
    BY <1>1, <1>2, <1>3, <1>5, <1>6, <1>7, <1>8

-----------------------------------------------------------------------------
(* The ledger.                                                               *)

LEMMA HistoryStep == IInv /\ [Next]_vars => [History]_vars
  <1> SUFFICES ASSUME IInv, [Next]_vars PROVE History
    OBVIOUS
  <1>1. CASE UNCHANGED db
    BY <1>1 DEF db, History, IInv, TypeOK
  <1>2. ASSUME NEW r \in Requests, Commit(r) PROVE History
    <2>1. ledger \in Seq(EntryType) /\ rows[r] \in Seq(EntryType)
          /\ ledger' = ledger \o rows[r]
      BY <1>2 DEF IInv, TypeOK, Commit, Install
    <2>2. Len(ledger) <= Len(ledger') /\ \A i \in DOMAIN ledger : ledger'[i] = ledger[i]
      BY <2>1, ConcatProperties, LenProperties
    <2>3. \A q \in Requests : txns[q] = "COMPLETED" => txns'[q] = "COMPLETED"
      BY <1>2, CommitInstalls DEF IInv, TypeOK
    <2> QED
      BY <2>2, <2>3 DEF History
  <1> QED
    BY <1>1, <1>2, OnlyCommitWrites

\* Ledger entries and completed transactions are never changed or removed.
THEOREM HistoryKept == Spec => HistoryIsKept
  BY Invariance, HistoryStep, PTL DEF Spec, HistoryIsKept

\* The entries a commit appends, and no others, are those of its call.
LEMMA EntriesStep ==
    ASSUME IInv, EntriesMatchTransactions, [Next]_vars
    PROVE  EntriesMatchTransactions'
  <1> SUFFICES ASSUME NEW q \in Requests PROVE EntriesMatch(q)'
    BY DEF EntriesMatchTransactions
  <1> DEFINE Mine(x) == {i \in DOMAIN ledger : ledger[i].txn = x}
  <1>q. EntriesMatch(q)
    BY DEF EntriesMatchTransactions
  <1>0. txns[q] = "none" \/ call'[q] = call[q]
    BY Uncommitted DEF IInv, TypeOK, Next, vars, db, staged, events, Goto, Advance, Arrive,
       FindUserWallet, FindTargetWallet, Begin, LockRow, RefuseInsufficient,
       CreateTransaction, UpdateSource, UpdateTarget, UpdateBalance, InsertDebit,
       InsertCredit, InsertEntry, Complete, Commit, Rollback, Acknowledge, ConstraintFails,
       CommitUnacknowledged, Fail, PublishSucceeds, PublishFails, Crash
  <1>1. CASE UNCHANGED db
    BY <1>0, <1>1, <1>q DEF db, EntriesMatch, Entry, IsTransfer
  <1>2. ASSUME NEW r \in Requests, Commit(r) PROVE EntriesMatch(q)'
    <2> DEFINE new == IF IsTransfer(r) THEN <<DebitOf(r), CreditOf(r)>> ELSE <<CreditOf(r)>>
               n == Len(ledger)
    <2>1. /\ ledger \in Seq(EntryType) /\ new \in Seq(EntryType) /\ n \in Nat
          /\ ledger' = ledger \o new
          /\ Len(new) = IF IsTransfer(r) THEN 2 ELSE 1
      <3>1. ledger \in Seq(EntryType) /\ ledger' = ledger \o new
        BY <1>2, CommitInstalls DEF IInv, TypeOK
      <3>2. CreditOf(r) \in EntryType /\ (IsTransfer(r) => DebitOf(r) \in EntryType)
        BY <1>2, CommitInstalls
      <3>3. new \in Seq(EntryType) /\ Len(new) = IF IsTransfer(r) THEN 2 ELSE 1
        BY <3>2
      <3> QED
        BY <3>1, <3>3
    <2>2. /\ DOMAIN ledger = 1..n
          /\ DOMAIN ledger' = 1..(n + Len(new))
          /\ \A i \in 1..n : ledger'[i] = ledger[i]
          /\ \A i \in 1..Len(new) : ledger'[n + i] = new[i]
      BY <2>1
    <2>3. \A i \in 1..Len(new) : new[i].txn = r
      BY <2>1 DEF DebitOf, CreditOf, Entry
    <2>4. call' = call /\ txns[r] = "none" /\ txns' = [txns EXCEPT ![r] = "COMPLETED"]
      BY <1>2, CommitInstalls DEF Commit
    <2>5. CASE q # r
      <3>1. Mine(q)' = Mine(q)
        BY <2>1, <2>2, <2>3, <2>5
      <3>2. txns'[q] = txns[q]
        BY <2>4, <2>5 DEF IInv, TypeOK
      <3> QED
        BY <2>2, <2>4, <3>1, <3>2, <1>q DEF EntriesMatch, Entry, IsTransfer
    <2>6. CASE q = r
      <3>1. Mine(r) = {} /\ txns'[r] = "COMPLETED"
        BY <2>4, <2>6, <1>q DEF EntriesMatch, IInv, TypeOK
      <3>2. Mine(r)' = {n + i : i \in 1..Len(new)}
        BY <2>1, <2>2, <2>3, <3>1
      <3>3. CASE IsTransfer(r)
        <4>1. new = <<DebitOf(r), CreditOf(r)>> /\ Len(new) = 2
          BY <2>1, <3>3
        <4>2. Mine(r)' = {n + 1, n + 2}
          BY <3>2, <4>1, <2>1
        <4>3. ledger'[n + 1] = DebitOf(r)' /\ ledger'[n + 2] = CreditOf(r)'
          BY <2>2, <2>4, <4>1 DEF DebitOf, CreditOf, Entry
        <4>4. IsTransfer(r)'
          BY <2>4, <3>3 DEF IsTransfer
        <4> QED
          BY <2>6, <3>1, <4>2, <4>3, <4>4 DEF EntriesMatch, DebitOf, CreditOf
      <3>4. CASE ~IsTransfer(r)
        <4>1. new = <<CreditOf(r)>> /\ Len(new) = 1
          BY <2>1, <3>4
        <4>2. Mine(r)' = {n + 1}
          BY <3>2, <4>1, <2>1
        <4>3. ledger'[n + 1] = CreditOf(r)'
          BY <2>2, <2>4, <4>1 DEF CreditOf, Entry
        <4>4. ~IsTransfer(r)'
          BY <2>4, <3>4 DEF IsTransfer
        <4> QED
          BY <2>6, <3>1, <4>2, <4>3, <4>4 DEF EntriesMatch, CreditOf
      <3> QED
        BY <3>3, <3>4
    <2> QED
      BY <2>5, <2>6
  <1> QED
    BY <1>1, <1>2, OnlyCommitWrites

\* A completed top-up has its credit, a completed transfer its debit and its credit, and
\* no entry stands alone.
THEOREM EntriesMatched == Spec => []EntriesMatchTransactions
  <1>1. Init => EntriesMatchTransactions
    BY DEF Init, EntriesMatchTransactions, EntriesMatch
  <1> QED
    BY <1>1, Invariance, EntriesStep, PTL DEF Spec

LEMMA AppendTwo ==
    ASSUME NEW S, NEW s \in Seq(S), NEW d \in S, NEW e \in S
    PROVE  s \o <<d, e>> = Append(Append(s, d), e) /\ Append(s, d) \in Seq(S)
  OBVIOUS

-----------------------------------------------------------------------------
(* Balances against the ledger.                                              *)

LEMMA CentsAreKept ==
    ASSUME NEW x \in Nat, x % 10 = 0
    PROVE  RoundToCent(x) = x
  BY DEF RoundToCent

LEMMA CentsAddUp ==
    ASSUME NEW x \in Nat, x % 10 = 0, NEW a \in Nat, a % 10 = 0
    PROVE  (x + a) % 10 = 0 /\ (x - a) % 10 = 0
  OBVIOUS

\* With amounts in cents a commit moves exactly the amount, and posts it.
LEMMA CommitMoves ==
    ASSUME CentAmounts, IInv, NEW r \in Requests, Commit(r)
    PROVE  LET c == call[r] IN
           /\ RoundToCent(c.amount) = c.amount
           /\ IsTransfer(r) => balance[c.source] >= c.amount
           /\ balance' = [w \in Wallets |->
                            IF IsTransfer(r) /\ w = c.source THEN balance[w] - c.amount
                            ELSE IF w = c.target THEN balance[w] + c.amount
                            ELSE balance[w]]
  <1> DEFINE c == call[r]
  <1>1. /\ c \in Calls /\ Validated(r) /\ EnoughFunds(r) /\ AmountStorable(c.amount)
        /\ \A w \in Involved(r) : seen[r][w] = balance[w]
    BY CommitInstalls
  <1>2. c.amount \in Nat /\ c.amount % 10 = 0
    BY <1>1, ConstantsAssumption DEF CentAmounts
  <1>3. /\ c.target \in Wallets /\ balance[c.target] \in Nat /\ balance[c.target] % 10 = 0
        /\ TargetNewBalance(r) = balance[c.target] + c.amount
    BY <1>1 DEF Validated, Involved, TargetNewBalance, IInv, TypeOK, StoredAmounts
  <1>4. RoundToCent(TargetNewBalance(r)) = balance[c.target] + c.amount
    BY <1>2, <1>3, CentsAreKept, CentsAddUp
  <1>5. ASSUME IsTransfer(r)
        PROVE  /\ balance[c.source] >= c.amount
               /\ RoundToCent(SourceNewBalance(r)) = balance[c.source] - c.amount
    <2>1. /\ c.source \in Wallets /\ balance[c.source] \in Nat /\ balance[c.source] % 10 = 0
          /\ SourceNewBalance(r) = balance[c.source] - c.amount
          /\ balance[c.source] >= c.amount
      BY <1>1, <1>5 DEF Validated, Involved, SourceNewBalance, EnoughFunds, IInv, TypeOK,
         StoredAmounts
    <2>2. SourceNewBalance(r) \in Nat /\ SourceNewBalance(r) % 10 = 0
      BY <1>2, <2>1, CentsAddUp
    <2> QED
      BY <2>1, <2>2, CentsAreKept
  <1>6. RoundToCent(c.amount) = c.amount
    BY <1>2, CentsAreKept
  <1>7. balance' = [w \in Wallets |->
                      IF IsTransfer(r) /\ w = c.source THEN balance[w] - c.amount
                      ELSE IF w = c.target THEN balance[w] + c.amount
                      ELSE balance[w]]
    <2>1. balance' = [w \in Wallets |->
                        IF IsTransfer(r) /\ w = c.source THEN RoundToCent(SourceNewBalance(r))
                        ELSE IF w = c.target THEN RoundToCent(TargetNewBalance(r))
                        ELSE balance[w]]
      BY CommitInstalls
    <2> QED
      BY <1>4, <1>5, <2>1
  <1> QED
    BY <1>5, <1>6, <1>7

LEMMA BalanceStep ==
    ASSUME CentAmounts, IInv, BalanceMatchesLedger, [Next]_vars
    PROVE  BalanceMatchesLedger'
  <1>1. CASE UNCHANGED db
    BY <1>1 DEF db, BalanceMatchesLedger
  <1>2. ASSUME NEW r \in Requests, Commit(r), NEW w \in Wallets
        PROVE  balance'[w] = Opening[w] + Replay(ledger', w)
    <2> DEFINE c == call[r]
               once == Append(ledger, DebitOf(r))
    <2>1. /\ ledger \in Seq(EntryType) /\ CreditOf(r) \in EntryType
          /\ IsTransfer(r) => DebitOf(r) \in EntryType
          /\ c \in Calls /\ Validated(r)
      BY <1>2, CommitInstalls DEF IInv, TypeOK
    <2>2. /\ c.amount \in Int /\ balance[w] \in Int /\ Opening[w] \in Int
          /\ balance[w] = Opening[w] + Replay(ledger, w)
      BY <2>1, ConstantsAssumption
         DEF BalanceMatchesLedger, IInv, TypeOK, StoredAmounts
    <2>3. Replay(ledger, w) \in Int
      <3>1. \A e \in EntryType : e.amount \in Int
        BY DEF EntryType, StoredAmounts
      <3> QED
        BY <2>1, <3>1, ReplayInt
    <2>4. /\ Effect(CreditOf(r), w) = IF w = c.target THEN c.amount ELSE 0
          /\ IsTransfer(r) => Effect(DebitOf(r), w) = IF w = c.source THEN -c.amount ELSE 0
      BY <1>2, CommitMoves DEF Effect, CreditOf, DebitOf, Entry
    <2>5. CASE IsTransfer(r)
      <3>1. ledger' = Append(once, CreditOf(r)) /\ once \in Seq(EntryType)
        <4>1. ledger' = ledger \o <<DebitOf(r), CreditOf(r)>>
          BY <1>2, <2>5, CommitInstalls
        <4> QED
          BY <2>1, <2>5, <4>1, AppendTwo
      <3>2. Replay(once, w) = Replay(ledger, w) + Effect(DebitOf(r), w)
        BY <2>1, <2>5, ReplayAppend
      <3>3. Replay(ledger', w) = Replay(once, w) + Effect(CreditOf(r), w)
        BY <2>1, <3>1, ReplayAppend
      <3>4. c.source # c.target
        BY <2>1, <2>5 DEF Validated
      <3> QED
        BY <1>2, <2>2, <2>3, <2>4, <2>5, <3>2, <3>3, <3>4, CommitMoves
    <2>6. CASE ~IsTransfer(r)
      <3>1. ledger' = Append(ledger, CreditOf(r))
        <4>1. ledger' = ledger \o <<CreditOf(r)>>
          BY <1>2, <2>6, CommitInstalls
        <4> QED
          BY <2>1, <4>1
      <3>2. Replay(ledger', w) = Replay(ledger, w) + Effect(CreditOf(r), w)
        BY <2>1, <3>1, ReplayAppend
      <3> QED
        BY <1>2, <2>2, <2>3, <2>4, <2>6, <3>2, CommitMoves
    <2> QED
      BY <2>5, <2>6
  <1> QED
    BY <1>1, <1>2, OnlyCommitWrites DEF BalanceMatchesLedger

\* As long as amounts come in whole cents, replaying the ledger gives every balance.
THEOREM LedgerIntegrity == ASSUME CentAmounts PROVE Spec => []BalanceMatchesLedger
  <1>1. Init => BalanceMatchesLedger
    BY ConstantsAssumption, ReplayEmpty DEF Init, BalanceMatchesLedger, StoredAmounts
  <1>2. IInv /\ BalanceMatchesLedger /\ [Next]_vars => BalanceMatchesLedger'
    BY BalanceStep
  <1> QED
    BY <1>1, <1>2, Invariance, PTL DEF Spec

-----------------------------------------------------------------------------
(* Sums over a finite set.  SumOver is a fold, which reads a recursive table;  *)
(* the inductions are by a least set, as no smaller set fails.                 *)

\* The sum of the values of f on S.
SumOver(f, S) == MapThenSumSet(LAMBDA x : f[x], S)

Pick(T) == CHOOSE x \in T : TRUE

\* g is the table from which the fold over S reads its result.
SumTable(g, f, S) ==
    g = [T \in SUBSET S |-> IF T = {} THEN 0 ELSE f[Pick(T)] + g[T \ {Pick(T)}]]

LEMMA SumIsTable ==
    ASSUME NEW f, NEW S
    PROVE  SumOver(f, S) = (CHOOSE g : SumTable(g, f, S))[S]
  BY DEF SumOver, MapThenSumSet, MapThenFoldSet, SumTable, Pick

\* A set of finite sets has one without a smaller one in it.
LEMMA LeastSet ==
    ASSUME NEW S, IsFiniteSet(S), NEW F, F \subseteq SUBSET S, F # {}
    PROVE  \E X \in F : \A x \in X : X \ {x} \notin F
  <1>1. IsWellFoundedOn(StrictSubsetOrdering(S), SUBSET S)
    BY FS_StrictSubsetOrderingWellFounded, FS_FiniteSubsetsOfFinite
  <1>2. \E X \in F : \A Y \in F : ~(<<Y, X>> \in StrictSubsetOrdering(S))
    BY <1>1, WFMin
  <1>3. PICK X \in F : \A Y \in F : ~(<<Y, X>> \in StrictSubsetOrdering(S))
    BY <1>2
  <1>4. ASSUME NEW x \in X, X \ {x} \in F PROVE FALSE
    BY <1>3, <1>4 DEF StrictSubsetOrdering
  <1> QED
    BY <1>4

LEMMA TableUnique ==
    ASSUME NEW f, NEW A, IsFiniteSet(A), NEW B, B \subseteq A, NEW g, NEW h,
           SumTable(g, f, A), SumTable(h, f, B)
    PROVE  \A T \in SUBSET B : g[T] = h[T]
  <1> DEFINE Bad == {T \in SUBSET B : g[T] # h[T]}
  <1>1. ASSUME Bad # {} PROVE FALSE
    <2>1. IsFiniteSet(B)
      BY FS_Subset
    <2>2. PICK X \in Bad : \A x \in X : X \ {x} \notin Bad
      <3> Bad \subseteq SUBSET B
        OBVIOUS
      <3> HIDE DEF Bad
      <3> QED
        BY <1>1, <2>1, LeastSet
    <2>3. X # {}
      BY <2>2 DEF SumTable
    <2>4. Pick(X) \in X
      BY <2>3 DEF Pick
    <2>5. g[X \ {Pick(X)}] = h[X \ {Pick(X)}]
      BY <2>2, <2>4
    <2>6. g[X] = f[Pick(X)] + g[X \ {Pick(X)}]
      BY <2>2, <2>3 DEF SumTable
    <2>7. h[X] = f[Pick(X)] + h[X \ {Pick(X)}]
      BY <2>2, <2>3 DEF SumTable
    <2> QED
      BY <2>2, <2>5, <2>6, <2>7
  <1> QED
    BY <1>1

HasTable(f, A) == \E g : SumTable(g, f, A)

\* A table of A reads the sum of every subset of A.
LEMMA TableReadsSums ==
    ASSUME NEW f, NEW A, IsFiniteSet(A), NEW g, SumTable(g, f, A), NEW T \in SUBSET A
    PROVE  HasTable(f, T) /\ g[T] = SumOver(f, T)
  <1> DEFINE h == [U \in SUBSET T |-> g[U]]
  <1>1. SumTable(h, f, T)
    <2>1. ASSUME NEW U \in SUBSET T
          PROVE  g[U] = IF U = {} THEN 0 ELSE f[Pick(U)] + h[U \ {Pick(U)}]
      BY DEF SumTable
    <2> QED
      BY <2>1 DEF SumTable
  <1> HIDE DEF h
  <1>2. PICK k : k = CHOOSE c : SumTable(c, f, T)
    OBVIOUS
  <1>3. SumTable(k, f, T)
    BY <1>1, <1>2
  <1>4. g[T] = k[T]
    BY <1>3, TableUnique
  <1>5. SumOver(f, T) = k[T]
    BY <1>2, SumIsTable
  <1> QED
    BY <1>1, <1>4, <1>5 DEF HasTable

LEMMA OneMoreSum ==
    ASSUME NEW f, NEW A, IsFiniteSet(A), HasTable(f, A)
    PROVE  SumOver(f, A) = IF A = {} THEN 0 ELSE f[Pick(A)] + SumOver(f, A \ {Pick(A)})
  <1>1. PICK g : SumTable(g, f, A)
    BY DEF HasTable
  <1>2. g[A] = SumOver(f, A)
    BY <1>1, TableReadsSums
  <1>3. g[A \ {Pick(A)}] = SumOver(f, A \ {Pick(A)})
    BY <1>1, TableReadsSums
  <1>4. g[A] = IF A = {} THEN 0 ELSE f[Pick(A)] + g[A \ {Pick(A)}]
    BY <1>1 DEF SumTable
  <1> QED
    BY <1>2, <1>3, <1>4

LEMMA TableExists == ASSUME NEW f, NEW A, IsFiniteSet(A) PROVE HasTable(f, A)
  <1> DEFINE Bad == {T \in SUBSET A : ~HasTable(f, T)}
  <1>1. ASSUME Bad # {} PROVE FALSE
    <2>1. PICK X \in Bad : \A x \in X : X \ {x} \notin Bad
      <3> Bad \subseteq SUBSET A
        OBVIOUS
      <3> HIDE DEF Bad
      <3> QED
        BY <1>1, LeastSet
    <2>2. ASSUME NEW T \in SUBSET X, NEW x \in T
          PROVE  HasTable(f, T \ {x}) /\ IsFiniteSet(T \ {x})
      <3>1. IsFiniteSet(X \ {x}) /\ IsFiniteSet(T \ {x})
        BY <2>1, FS_Subset
      <3>2. HasTable(f, X \ {x})
        BY <2>1
      <3> QED
        BY <3>1, <3>2, TableReadsSums DEF HasTable
    <2> DEFINE Rest(T) == T \ {Pick(T)}
               g == [T \in SUBSET X |->
                       IF T = {} THEN 0 ELSE f[Pick(T)] + SumOver(f, Rest(T))]
    <2>3. ASSUME NEW T \in SUBSET X, T # {} PROVE g[Rest(T)] = SumOver(f, Rest(T))
      <3>1. Pick(T) \in T
        BY <2>3 DEF Pick
      <3>2. HasTable(f, Rest(T)) /\ IsFiniteSet(Rest(T))
        BY <2>2, <3>1
      <3>3. SumOver(f, Rest(T)) =
              IF Rest(T) = {} THEN 0
              ELSE f[Pick(Rest(T))] + SumOver(f, Rest(Rest(T)))
        BY <3>2, OneMoreSum
      <3> QED
        BY <3>3
    <2>4. ASSUME NEW T \in SUBSET X
          PROVE  g[T] = IF T = {} THEN 0 ELSE f[Pick(T)] + g[T \ {Pick(T)}]
      BY <2>3
    <2>5. SumTable(g, f, X)
      BY <2>4 DEF SumTable
    <2> QED
      BY <2>1, <2>5 DEF HasTable
  <1>2. A \notin Bad
    BY <1>1
  <1> QED
    BY <1>2

\* The sum adds the picked element to the sum of the others.
LEMMA SumEquation ==
    ASSUME NEW f, NEW A, IsFiniteSet(A)
    PROVE  SumOver(f, A) = IF A = {} THEN 0 ELSE f[Pick(A)] + SumOver(f, A \ {Pick(A)})
  BY TableExists, OneMoreSum

LEMMA SumInt ==
    ASSUME NEW A, IsFiniteSet(A), NEW f, \A x \in A : f[x] \in Int
    PROVE  SumOver(f, A) \in Int
  <1> DEFINE Bad == {T \in SUBSET A : SumOver(f, T) \notin Int}
  <1>1. ASSUME Bad # {} PROVE FALSE
    <2>1. PICK X \in Bad : \A x \in X : X \ {x} \notin Bad
      <3> Bad \subseteq SUBSET A
        OBVIOUS
      <3> HIDE DEF Bad
      <3> QED
        BY <1>1, LeastSet
    <2>2. IsFiniteSet(X)
      BY <2>1, FS_Subset
    <2>3. SumOver(f, X) = IF X = {} THEN 0 ELSE f[Pick(X)] + SumOver(f, X \ {Pick(X)})
      BY <2>2, SumEquation
    <2>4. X # {}
      BY <2>1, <2>3
    <2>5. Pick(X) \in X
      BY <2>4 DEF Pick
    <2>6. SumOver(f, X \ {Pick(X)}) \in Int
      BY <2>1, <2>5
    <2>7. f[Pick(X)] \in Int
      BY <2>1, <2>5
    <2> QED
      BY <2>1, <2>3, <2>4, <2>6, <2>7
  <1> QED
    BY <1>1

\* Any element may be taken out first.
LEMMA SumTakeOut ==
    ASSUME NEW A, IsFiniteSet(A), NEW f, \A x \in A : f[x] \in Int, NEW a \in A
    PROVE  SumOver(f, A) = f[a] + SumOver(f, A \ {a})
  <1> DEFINE Fits(T, x) == SumOver(f, T) = f[x] + SumOver(f, T \ {x})
             Bad == {T \in SUBSET A : \E x \in T : ~Fits(T, x)}
  <1>1. ASSUME Bad # {} PROVE FALSE
    <2>1. PICK X \in Bad : \A x \in X : X \ {x} \notin Bad
      <3> Bad \subseteq SUBSET A
        OBVIOUS
      <3> HIDE DEF Bad
      <3> QED
        BY <1>1, LeastSet
    <2>2. PICK x \in X : ~Fits(X, x)
      BY <2>1
    <2> DEFINE p == Pick(X)
    <2>3. IsFiniteSet(X) /\ IsFiniteSet(X \ {x}) /\ IsFiniteSet(X \ {p})
      BY <2>1, FS_Subset
    <2>4. p \in X
      BY <2>2 DEF Pick
    <2>5. Fits(X, p)
      BY <2>2, <2>3, SumEquation
    <2>6. x # p
      BY <2>2, <2>5
    <2>7. Fits(X \ {p}, x)
      BY <2>1, <2>2, <2>4, <2>6
    <2>8. Fits(X \ {x}, p)
      BY <2>1, <2>2, <2>4, <2>6
    <2>9. (X \ {p}) \ {x} = (X \ {x}) \ {p}
      OBVIOUS
    <2> DEFINE rest == SumOver(f, (X \ {x}) \ {p})
    <2>10. f[x] \in Int /\ f[p] \in Int
      BY <2>1, <2>2, <2>4
    <2>11. rest \in Int
      <3> IsFiniteSet((X \ {x}) \ {p})
        BY <2>3, FS_Subset
      <3> \A y \in (X \ {x}) \ {p} : f[y] \in Int
        BY <2>1
      <3> QED
        BY SumInt
    <2>12. SumOver(f, X \ {p}) = f[x] + rest
      BY <2>7, <2>9
    <2>13. SumOver(f, X \ {x}) = f[p] + rest
      BY <2>8
    <2>14. SumOver(f, X) = f[p] + SumOver(f, X \ {p})
      BY <2>5
    <2>15. SumOver(f, X) # f[x] + SumOver(f, X \ {x})
      BY <2>2
    <2> HIDE DEF p, rest
    <2> QED
      BY <2>10, <2>11, <2>12, <2>13, <2>14, <2>15
  <1>2. A \notin Bad
    BY <1>1
  <1> QED
    BY <1>2

\* Only the values on the set count.
LEMMA SumSame ==
    ASSUME NEW A, IsFiniteSet(A), NEW f, NEW g, \A x \in A : f[x] = g[x]
    PROVE  SumOver(f, A) = SumOver(g, A)
  <1> DEFINE Bad == {T \in SUBSET A : SumOver(f, T) # SumOver(g, T)}
  <1>1. ASSUME Bad # {} PROVE FALSE
    <2>1. PICK X \in Bad : \A x \in X : X \ {x} \notin Bad
      <3> Bad \subseteq SUBSET A
        OBVIOUS
      <3> HIDE DEF Bad
      <3> QED
        BY <1>1, LeastSet
    <2>2. IsFiniteSet(X)
      BY <2>1, FS_Subset
    <2>3. SumOver(f, X) = IF X = {} THEN 0 ELSE f[Pick(X)] + SumOver(f, X \ {Pick(X)})
      BY <2>2, SumEquation
    <2>4. SumOver(g, X) = IF X = {} THEN 0 ELSE g[Pick(X)] + SumOver(g, X \ {Pick(X)})
      BY <2>2, SumEquation
    <2>5. X # {}
      BY <2>1, <2>3, <2>4
    <2>6. Pick(X) \in X
      BY <2>5 DEF Pick
    <2>7. SumOver(f, X \ {Pick(X)}) = SumOver(g, X \ {Pick(X)})
      BY <2>1, <2>6
    <2>8. f[Pick(X)] = g[Pick(X)]
      BY <2>1, <2>6
    <2> QED
      BY <2>1, <2>3, <2>4, <2>5, <2>7, <2>8
  <1>2. A \notin Bad
    BY <1>1
  <1> QED
    BY <1>2

LEMMA SumZero ==
    ASSUME NEW A, IsFiniteSet(A), NEW f, \A x \in A : f[x] = 0
    PROVE  SumOver(f, A) = 0
  <1> DEFINE Bad == {T \in SUBSET A : SumOver(f, T) # 0}
  <1>1. ASSUME Bad # {} PROVE FALSE
    <2>1. PICK X \in Bad : \A x \in X : X \ {x} \notin Bad
      <3> Bad \subseteq SUBSET A
        OBVIOUS
      <3> HIDE DEF Bad
      <3> QED
        BY <1>1, LeastSet
    <2>2. SumOver(f, X) = IF X = {} THEN 0 ELSE f[Pick(X)] + SumOver(f, X \ {Pick(X)})
      <3> IsFiniteSet(X)
        BY <2>1, FS_Subset
      <3> QED
        BY SumEquation
    <2>3. X # {}
      BY <2>1, <2>2
    <2>4. Pick(X) \in X
      BY <2>3 DEF Pick
    <2> QED
      BY <2>1, <2>2, <2>3, <2>4
  <1> QED
    BY <1>1

LEMMA SumChange ==
    ASSUME NEW A, IsFiniteSet(A), NEW a \in A,
           NEW f, \A x \in A : f[x] \in Int,
           NEW g, g[a] \in Int, \A x \in A \ {a} : g[x] = f[x]
    PROVE  SumOver(g, A) = SumOver(f, A) + g[a] - f[a]
  <1> DEFINE B == A \ {a}
  <1>1. IsFiniteSet(B)
    BY FS_Subset
  <1>2. SumOver(g, B) = SumOver(f, B)
    BY <1>1, SumSame
  <1>3. SumOver(f, B) \in Int
    BY <1>1, SumInt
  <1>4. SumOver(f, A) = f[a] + SumOver(f, B)
    BY SumTakeOut
  <1>5. SumOver(g, A) = g[a] + SumOver(g, B)
    <2>1. \A x \in A : g[x] \in Int
      OBVIOUS
    <2> QED
      BY <2>1, SumTakeOut
  <1> HIDE DEF B
  <1>6. f[a] \in Int
    OBVIOUS
  <1> QED
    BY <1>2, <1>3, <1>4, <1>5, <1>6

LEMMA SumAtMost ==
    ASSUME NEW A, IsFiniteSet(A), NEW f, NEW g,
           \A x \in A : f[x] \in Int /\ g[x] \in Int /\ f[x] <= g[x]
    PROVE  SumOver(f, A) <= SumOver(g, A)
  <1> DEFINE Bad == {T \in SUBSET A : ~(SumOver(f, T) <= SumOver(g, T))}
  <1>1. ASSUME Bad # {} PROVE FALSE
    <2>1. PICK X \in Bad : \A x \in X : X \ {x} \notin Bad
      <3> Bad \subseteq SUBSET A
        OBVIOUS
      <3> HIDE DEF Bad
      <3> QED
        BY <1>1, LeastSet
    <2>2. IsFiniteSet(X)
      BY <2>1, FS_Subset
    <2>3. SumOver(f, X) = IF X = {} THEN 0 ELSE f[Pick(X)] + SumOver(f, X \ {Pick(X)})
      BY <2>2, SumEquation
    <2>4. SumOver(g, X) = IF X = {} THEN 0 ELSE g[Pick(X)] + SumOver(g, X \ {Pick(X)})
      BY <2>2, SumEquation
    <2>5. X # {}
      BY <2>1, <2>3, <2>4
    <2>6. Pick(X) \in X
      BY <2>5 DEF Pick
    <2> DEFINE Y == X \ {Pick(X)}
    <2>7. SumOver(f, Y) <= SumOver(g, Y)
      BY <2>1, <2>6
    <2>8. SumOver(f, Y) \in Int /\ SumOver(g, Y) \in Int
      <3>1. IsFiniteSet(Y) /\ \A x \in Y : f[x] \in Int /\ g[x] \in Int
        BY <2>1, <2>2, FS_Subset
      <3> QED
        BY <3>1, SumInt
    <2>9. /\ f[Pick(X)] \in Int /\ g[Pick(X)] \in Int
          /\ f[Pick(X)] <= g[Pick(X)]
      BY <2>1, <2>6
    <2>10. SumOver(f, X) = f[Pick(X)] + SumOver(f, Y)
      BY <2>3, <2>5
    <2>11. SumOver(g, X) = g[Pick(X)] + SumOver(g, Y)
      BY <2>4, <2>5
    <2>12. ~(SumOver(f, X) <= SumOver(g, X))
      BY <2>1
    <2> HIDE DEF Y
    <2> QED
      BY <2>7, <2>8, <2>9, <2>10, <2>11, <2>12
  <1> QED
    BY <1>1

LEMMA SumLess ==
    ASSUME NEW A, IsFiniteSet(A), NEW f, NEW g,
           \A x \in A : f[x] \in Int /\ g[x] \in Int /\ f[x] <= g[x],
           NEW a \in A, f[a] < g[a]
    PROVE  SumOver(f, A) < SumOver(g, A)
  <1> DEFINE B == A \ {a}
  <1>1. IsFiniteSet(B)
    BY FS_Subset
  <1>2. SumOver(f, B) <= SumOver(g, B)
    BY <1>1, SumAtMost
  <1>3. SumOver(f, B) \in Int /\ SumOver(g, B) \in Int
    BY <1>1, SumInt
  <1>4. SumOver(f, A) = f[a] + SumOver(f, B) /\ SumOver(g, A) = g[a] + SumOver(g, B)
    BY SumTakeOut
  <1> HIDE DEF B
  <1>5. f[a] \in Int /\ g[a] \in Int
    OBVIOUS
  <1> QED
    BY <1>2, <1>3, <1>4, <1>5

-----------------------------------------------------------------------------
(* Conservation of money.                                                    *)

\* What a call brought in from outside: the amount of a committed top-up.
BroughtIn ==
    [r \in Requests |->
        IF txns[r] = "COMPLETED" /\ ~IsTransfer(r) THEN call[r].amount ELSE 0]

\* All wallets together hold what they opened with and what top-ups brought in:
\* a transfer neither creates nor destroys money (README.md:128).
MoneyIsConserved ==
    SumOver(balance, Wallets) = SumOver(Opening, Wallets) + SumOver(BroughtIn, Requests)

LEMMA BroughtInIsInt == IInv => \A r \in Requests : BroughtIn[r] \in Int
  <1> SUFFICES ASSUME IInv, NEW r \in Requests PROVE BroughtIn[r] \in Int
    OBVIOUS
  <1>1. call[r].amount \in Int
    BY ConstantsAssumption DEF IInv, TypeOK, NoCall
  <1> QED
    BY <1>1 DEF BroughtIn

\* What a call asks for is settled when it arrives.
LEMMA CallsAreKept ==
    ASSUME IInv, [Next]_vars, NEW r \in Requests, pc[r] # "idle"
    PROVE  call'[r] = call[r]
  BY DEF IInv, TypeOK, Next, vars, Advance, Arrive, FindUserWallet, FindTargetWallet, Begin,
     LockRow, RefuseInsufficient, CreateTransaction, UpdateSource, UpdateTarget,
     UpdateBalance, InsertDebit, InsertCredit, InsertEntry, Complete, Commit, Rollback,
     Acknowledge, ConstraintFails, CommitUnacknowledged, Fail, PublishSucceeds,
     PublishFails, Crash

\* Nothing but a commit of a top-up brings in money.
LEMMA OnlyTopUpsBringIn ==
    ASSUME IInv, [Next]_vars, UNCHANGED txns
    PROVE  \A r \in Requests : BroughtIn'[r] = BroughtIn[r]
  <1> SUFFICES ASSUME NEW r \in Requests PROVE BroughtIn'[r] = BroughtIn[r]
    OBVIOUS
  <1>1. CASE txns[r] # "COMPLETED"
    BY <1>1 DEF BroughtIn
  <1>2. CASE txns[r] = "COMPLETED"
    <2>1. pc[r] # "idle"
      BY <1>2 DEF IInv, CallInv, CallOK
    <2>2. call'[r] = call[r]
      BY <2>1, CallsAreKept
    <2> QED
      BY <2>2 DEF BroughtIn, IsTransfer
  <1> QED
    BY <1>1, <1>2

LEMMA ConservationStep ==
    ASSUME CentAmounts, IsFiniteSet(Wallets), IsFiniteSet(Requests),
           IInv, MoneyIsConserved, [Next]_vars
    PROVE  MoneyIsConserved'
  <1>1. CASE UNCHANGED db
    <2>1. SumOver(BroughtIn', Requests) = SumOver(BroughtIn, Requests)
      <3>1. \A r \in Requests : BroughtIn'[r] = BroughtIn[r]
        BY <1>1, OnlyTopUpsBringIn DEF db
      <3> QED
        BY <3>1, SumSame
    <2> QED
      BY <1>1, <2>1 DEF db, MoneyIsConserved
  <1>2. ASSUME NEW r \in Requests, Commit(r) PROVE MoneyIsConserved'
    <2> DEFINE c == call[r]
               debited == [w \in Wallets |->
                             IF IsTransfer(r) /\ w = c.source THEN balance[w] - c.amount
                             ELSE balance[w]]
    <2>1. /\ c \in Calls /\ Validated(r) /\ txns[r] = "none"
          /\ txns' = [txns EXCEPT ![r] = "COMPLETED"]
      BY <1>2, CommitInstalls
    <2>2. /\ c.amount \in Int /\ c.target \in Wallets
          /\ IsTransfer(r) => c.source \in Wallets /\ c.source # c.target
          /\ \A w \in Wallets : balance[w] \in Int
      BY <2>1, ConstantsAssumption
         DEF Validated, Involved, IInv, TypeOK, StoredAmounts
    <2>3. balance' = [w \in Wallets |->
                        IF w = c.target THEN debited[w] + c.amount ELSE debited[w]]
      BY <1>2, <2>2, CommitMoves
    <2>4. call' = call
      BY <1>2 DEF Commit
    <2> HIDE DEF c
    <2>5. \A w \in Wallets : debited[w] \in Int
      BY <2>2
    <2>6. SumOver(balance', Wallets) = SumOver(debited, Wallets) + c.amount
      <3> HIDE DEF debited
      <3>1. balance'[c.target] = debited[c.target] + c.amount
        BY <2>2, <2>3
      <3>2. SumOver(balance', Wallets)
              = SumOver(debited, Wallets) + balance'[c.target] - debited[c.target]
        <4>1. balance'[c.target] \in Int
          BY <2>2, <2>5, <3>1
        <4>2. \A w \in Wallets \ {c.target} : balance'[w] = debited[w]
          BY <2>3
        <4> QED
          BY <2>2, <2>5, <4>1, <4>2, SumChange
      <3>3. SumOver(debited, Wallets) \in Int /\ debited[c.target] \in Int
        BY <2>2, <2>5, SumInt
      <3> QED
        BY <2>2, <3>1, <3>2, <3>3
    <2>7. SumOver(debited, Wallets)
            = SumOver(balance, Wallets) - (IF IsTransfer(r) THEN c.amount ELSE 0)
      <3>1. CASE IsTransfer(r)
        <4>1. debited[c.source] = balance[c.source] - c.amount
          BY <2>2, <3>1
        <4>2. \A w \in Wallets \ {c.source} : debited[w] = balance[w]
          OBVIOUS
        <4>3. SumOver(debited, Wallets)
                = SumOver(balance, Wallets) + debited[c.source] - balance[c.source]
          <5> HIDE DEF debited
          <5> QED
            BY <2>2, <2>5, <3>1, <4>2, SumChange
        <4>4. SumOver(balance, Wallets) \in Int /\ balance[c.source] \in Int
          BY <2>2, <3>1, SumInt
        <4> QED
          BY <2>2, <3>1, <4>1, <4>3, <4>4
      <3>2. CASE ~IsTransfer(r)
        <4>1. \A w \in Wallets : debited[w] = balance[w]
          BY <3>2
        <4>2. SumOver(debited, Wallets) = SumOver(balance, Wallets)
          BY <4>1, SumSame
        <4>3. SumOver(balance, Wallets) \in Int
          BY <2>2, SumInt
        <4> QED
          BY <3>2, <4>2, <4>3
      <3> QED
        BY <3>1, <3>2
    <2>8. SumOver(BroughtIn', Requests)
            = SumOver(BroughtIn, Requests) + (IF IsTransfer(r) THEN 0 ELSE c.amount)
      <3>1. BroughtIn[r] = 0 /\ BroughtIn'[r] = IF IsTransfer(r) THEN 0 ELSE c.amount
        BY <2>1, <2>4 DEF BroughtIn, IsTransfer, c, IInv, TypeOK
      <3>2. \A q \in Requests \ {r} : BroughtIn'[q] = BroughtIn[q]
        BY <2>1, <2>4 DEF BroughtIn, IsTransfer
      <3>3. \A q \in Requests : BroughtIn[q] \in Int
        BY BroughtInIsInt
      <3>4. BroughtIn'[r] \in Int
        BY <2>2, <3>1
      <3>5. SumOver(BroughtIn', Requests)
              = SumOver(BroughtIn, Requests) + BroughtIn'[r] - BroughtIn[r]
        BY <3>2, <3>3, <3>4, SumChange
      <3>6. SumOver(BroughtIn, Requests) \in Int
        BY <3>3, SumInt
      <3> QED
        BY <2>2, <3>1, <3>5, <3>6
    <2>9. /\ SumOver(balance, Wallets) \in Int /\ SumOver(BroughtIn, Requests) \in Int
          /\ SumOver(Opening, Wallets) \in Int
      <3>1. \A w \in Wallets : Opening[w] \in Int
        BY ConstantsAssumption DEF StoredAmounts
      <3> QED
        BY <2>2, <3>1, SumInt, BroughtInIsInt
    <2>10. SumOver(balance', Wallets) = SumOver(Opening, Wallets) + SumOver(BroughtIn', Requests)
      <3> HIDE DEF debited
      <3> QED
        BY <2>2, <2>6, <2>7, <2>8, <2>9 DEF MoneyIsConserved
    <2> QED
      BY <2>10 DEF MoneyIsConserved
  <1> QED
    BY <1>1, <1>2, OnlyCommitWrites

\* As long as amounts come in whole cents, no interleaving of transfers, top-ups,
\* failures and crashes creates or destroys money.
THEOREM Conservation ==
    ASSUME CentAmounts, IsFiniteSet(Wallets), IsFiniteSet(Requests)
    PROVE  Spec => []MoneyIsConserved
  <1>1. Init => MoneyIsConserved
    <2> SUFFICES ASSUME Init PROVE MoneyIsConserved
      OBVIOUS
    <2>1. \A w \in Wallets : Opening[w] \in Int
      BY ConstantsAssumption DEF StoredAmounts
    <2>2. \A r \in Requests : BroughtIn[r] = 0
      BY DEF Init, BroughtIn
    <2>3. SumOver(BroughtIn, Requests) = 0
      BY <2>2, SumZero
    <2>4. SumOver(Opening, Wallets) \in Int
      BY <2>1, SumInt
    <2> QED
      BY <2>3, <2>4 DEF Init, MoneyIsConserved
  <1>2. IInv /\ MoneyIsConserved /\ [Next]_vars => MoneyIsConserved'
    BY ConservationStep
  <1> QED
    BY <1>1, <1>2, Invariance, PTL DEF Spec

-----------------------------------------------------------------------------
(* Ordered locking.                                                          *)

\* A function to the naturals has a greatest value on a finite set.
LEMMA GreatestOnFinite ==
    ASSUME NEW S, IsFiniteSet(S), S # {}, NEW f \in [S -> Nat]
    PROVE  \E x \in S : \A y \in S : f[y] <= f[x]
  <1> DEFINE HasGreatest(X) == \E x \in X : \A y \in X : f[y] <= f[x]
             Bad == {k \in Nat : \E X \in SUBSET S : /\ X # {} /\ IsFiniteSet(X)
                                                     /\ Cardinality(X) = k
                                                     /\ ~HasGreatest(X)}
  <1>1. ASSUME Bad # {} PROVE FALSE
    <2>1. PICK k \in Bad : \A j \in Bad : k <= j
      <3>1. Bad \subseteq Nat
        OBVIOUS
      <3> HIDE DEF Bad
      <3> QED
        BY <1>1, <3>1, LeastNat
    <2>2. PICK X \in SUBSET S : /\ X # {} /\ IsFiniteSet(X) /\ Cardinality(X) = k
                                /\ ~HasGreatest(X)
      BY <2>1
    <2>3. PICK x \in X : TRUE
      BY <2>2
    <2> DEFINE Y == X \ {x}
    <2>4. IsFiniteSet(Y) /\ Cardinality(Y) = k - 1 /\ Cardinality(Y) \in Nat
      BY <2>2, <2>3, FS_RemoveElement, FS_CardinalityType
    <2>5. CASE Y = {}
      BY <2>2, <2>3, <2>5
    <2>6. CASE Y # {}
      <3>1. HasGreatest(Y)
        BY <2>1, <2>4, <2>6
      <3>2. PICK m \in Y : \A y \in Y : f[y] <= f[m]
        BY <3>1
      <3>3. HasGreatest(X)
        BY <2>3, <3>2
      <3> QED
        BY <2>2, <3>3
    <2> QED
      BY <2>5, <2>6
  <1>2. HasGreatest(S)
    BY <1>1, FS_CardinalityType
  <1> QED
    BY <1>2

\* Who holds a row and waits for another waits for a larger one.
LEMMA WaitsAscend ==
    ASSUME IInv, NEW r \in Requests, Waiting(r), NEW q \in Requests, Waiting(q),
           lockOwner[Wanted(r)] = q
    PROVE  Wanted(r) < Wanted(q)
  <1>1. Wanted(r) \in Wallets /\ call[q] \in Calls
    BY DEF IInv, TypeOK, CallInv, CallOK, Waiting, Wanted, TxSteps, Validated, Involved,
       FirstLock, SecondLock, IsTransfer
  <1>2. LockOK(q, Wanted(r)) /\ CallOK(q)
    BY <1>1 DEF IInv, LockInv, CallInv
  <1>3. pc[q] = "lock2" /\ Wanted(r) = FirstLock(call[q])
    BY <1>2 DEF LockOK, Waiting, TxSteps
  <1>4. IsTransfer(q) /\ call[q].source # call[q].target
    BY <1>2, <1>3 DEF CallOK, Validated, TxSteps
  <1> QED
    BY <1>1, <1>3, <1>4, ConstantsAssumption DEF Wanted, FirstLock, SecondLock, IsTransfer

\* Transfers and top-ups never deadlock on wallet rows, however many run.
THEOREM NoDeadlock == ASSUME IsFiniteSet(Requests) PROVE Spec => []NoWaitCycle
  <1>1. IInv => NoWaitCycle
    <2> SUFFICES ASSUME IInv, NEW S \in SUBSET Requests, S # {},
                        \A r \in S : Waiting(r) /\ lockOwner[Wanted(r)] \in S
                 PROVE  FALSE
      BY DEF NoWaitCycle
    <2> DEFINE f == [r \in S |-> Wanted(r)]
    <2>1. f \in [S -> Nat]
      BY ConstantsAssumption DEF IInv, TypeOK, CallInv, CallOK, Waiting, Wanted, TxSteps,
         Validated, Involved, FirstLock, SecondLock, IsTransfer
    <2>2. IsFiniteSet(S)
      BY FS_Subset
    <2>3. PICK x \in S : \A y \in S : f[y] <= f[x]
      <3> HIDE DEF f
      <3> QED
        BY <2>1, <2>2, GreatestOnFinite
    <2>4. f[x] < f[lockOwner[Wanted(x)]]
      BY <2>3, WaitsAscend
    <2> QED
      BY <2>1, <2>3, <2>4
  <1> QED
    BY <1>1, Invariance, PTL

-----------------------------------------------------------------------------
(* What stands behind EveryCallEnds: calls never stand still together, and     *)
(* every step brings them nearer to their end.                                 *)

\* A call holds a connection from Begin until it returns.
Holding(r) == pc[r] \in TxSteps \cup {"committed"}

\* The next statement of a call need not wait: Advance(r) can be taken.
CanMove(r) ==
    /\ pc[r] \notin {"idle", "done"}
    /\ pc[r] \in {"findUser", "findTarget", "begin"} => ConnFree
    /\ ~Waiting(r)

\* While a call is under way one of the calls can move: row locks and the pool of
\* connections together never stop all of them, even if nothing fails.
NoStandstill ==
    (\E r \in Requests : pc[r] \notin {"idle", "done"}) => \E r \in Requests : CanMove(r)

LEMMA HolderMoves ==
    ASSUME IInv, NoWaitCycle, \E r \in Requests : Holding(r)
    PROVE  \E r \in Requests : CanMove(r)
  <1> DEFINE S == {r \in Requests : Holding(r)}
  <1>1. ASSUME \A r \in S : Waiting(r) PROVE FALSE
    <2>1. PICK r \in S : lockOwner[Wanted(r)] \notin S
      BY <1>1 DEF NoWaitCycle
    <2>2. Wanted(r) \in Wallets
      <3>1. Validated(r) /\ (pc[r] = "lock2" => IsTransfer(r))
        BY DEF IInv, CallInv, CallOK, Holding
      <3>2. pc[r] \in {"lock1", "lock2"}
        BY <1>1 DEF Waiting
      <3> QED
        BY <3>1, <3>2 DEF Validated, Involved, Wanted, FirstLock, SecondLock, IsTransfer
    <2>3. lockOwner[Wanted(r)] \in Requests
      BY <1>1, <2>2 DEF Waiting, RowFree, IInv, TypeOK
    <2>4. Holding(lockOwner[Wanted(r)])
      BY <2>2, <2>3 DEF IInv, LockInv, LockOK, Holding
    <2> QED
      BY <2>1, <2>3, <2>4
  <1>2. PICK r \in S : ~Waiting(r)
    BY <1>1
  <1> QED
    BY <1>2 DEF Holding, CanMove, TxSteps

\* The calls never wait for each other all at once, however few connections the pool has.
THEOREM SomeoneMoves == ASSUME IsFiniteSet(Requests) PROVE Spec => []NoStandstill
  <1>1. IInv /\ NoWaitCycle => NoStandstill
    <2> SUFFICES ASSUME IInv, NoWaitCycle, NEW q \in Requests, pc[q] \notin {"idle", "done"},
                        ~\E r \in Requests : Holding(r)
                 PROVE  CanMove(q)
      BY HolderMoves DEF NoStandstill
    <2>1. {r \in Requests : pc[r] \in TxSteps \cup {"committed"}} = {}
      BY DEF Holding
    <2>2. ConnFree
      BY <2>1, FS_EmptySet, ConstantsAssumption DEF ConnFree
    <2>3. ~Waiting(q)
      BY DEF Waiting, Holding, TxSteps
    <2> QED
      BY <2>2, <2>3 DEF CanMove
  <1> QED
    BY <1>1, Invariance, NoDeadlock, PTL

\* How many steps a call is from its end, at most.
StepsLeft ==
    [idle |-> 15, findUser |-> 14, findTarget |-> 13, begin |-> 12, lock1 |-> 11, lock2 |-> 10,
     create |-> 9, updateSource |-> 8, updateTarget |-> 7, debit |-> 6, credit |-> 5,
     complete |-> 4, commit |-> 3, rollback |-> 1, committed |-> 1, done |-> 0]

\* The same with its publishing goroutine.
Work ==
    [r \in Requests |-> 2 * StepsLeft[pc[r]] + (IF r \in publishing THEN 1 ELSE 0)]

\* What all calls and the crashes still to come have left to do.
WorkLeft == SumOver(Work, Requests) + (MaxCrashes - crashes)

LEMMA WorkIsInt == IInv => \A r \in Requests : Work[r] \in Int /\ Work[r] >= 0
  <1> SUFFICES ASSUME IInv, NEW r \in Requests PROVE Work[r] \in Int /\ Work[r] >= 0
    OBVIOUS
  <1>1. pc[r] \in Steps
    BY DEF IInv, TypeOK
  <1>2. StepsLeft[pc[r]] \in Nat
    BY <1>1 DEF Steps, TxSteps, StepsLeft
  <1> QED
    BY <1>2 DEF Work

\* The goroutine of a call goes on to a later step, or ends its publishing.
GoesOn(r) ==
    \/ /\ \E s \in Steps : pc' = [pc EXCEPT ![r] = s] /\ StepsLeft[s] < StepsLeft[pc[r]]
       /\ publishing' \subseteq publishing \cup {r}
    \/ /\ pc' = pc /\ r \in publishing /\ publishing' = publishing \ {r}

LEMMA StepGoesOn ==
    ASSUME IInv, Next, ~Crash
    PROVE  (\E r \in Requests : GoesOn(r)) /\ crashes' = crashes
  <1>1. PICK r \in Requests :
           \/ \E c \in Calls : Arrive(r, c)
           \/ Advance(r)
           \/ CommitUnacknowledged(r)
           \/ Fail(r)
           \/ PublishSucceeds(r)
           \/ PublishFails(r)
    BY DEF Next
  <1>2. pc \in [Requests -> Steps]
    BY DEF IInv, TypeOK
  <1> USE DEF GoesOn, StepsLeft, Steps, TxSteps, Goto, events
  <1>3. CASE \E c \in Calls : Arrive(r, c)
    <2>1. pc[r] = "idle" /\ pc' = [pc EXCEPT ![r] = "findUser"] /\ UNCHANGED <<events, crashes>>
      BY <1>3 DEF Arrive
    <2>2. StepsLeft["findUser"] < StepsLeft[pc[r]]
      BY <2>1
    <2> QED
      BY <2>1, <2>2
  <1>4. CASE FindUserWallet(r) \/ FindTargetWallet(r) \/ Begin(r) \/ LockRow(r)
    BY <1>2, <1>4 DEF FindUserWallet, FindTargetWallet, Begin, LockRow
  <1>5. CASE RefuseInsufficient(r) \/ CreateTransaction(r) \/ UpdateSource(r) \/ UpdateTarget(r)
    BY <1>2, <1>5 DEF RefuseInsufficient, CreateTransaction, UpdateSource, UpdateTarget,
       UpdateBalance
  <1>6. CASE InsertDebit(r) \/ InsertCredit(r) \/ Complete(r)
    BY <1>2, <1>6 DEF InsertDebit, InsertCredit, InsertEntry, Complete
  <1>7. CASE Commit(r) \/ Rollback(r) \/ Acknowledge(r) \/ CommitUnacknowledged(r)
    BY <1>2, <1>7 DEF Commit, Rollback, Acknowledge, CommitUnacknowledged
  <1>8. CASE Fail(r) \/ ConstraintFails(r)
    BY <1>2, <1>8 DEF Fail, ConstraintFails
  <1>9. CASE PublishSucceeds(r) \/ PublishFails(r)
    BY <1>9 DEF PublishSucceeds, PublishFails
  <1> QED
    BY <1>1, <1>3, <1>4, <1>5, <1>6, <1>7, <1>8, <1>9 DEF Advance

LEMMA WorkShrinks ==
    ASSUME IsFiniteSet(Requests), IInv, IInv', Next
    PROVE  WorkLeft' < WorkLeft
  <1>1. \A r \in Requests : Work[r] \in Int /\ Work'[r] \in Int
    <2>1. (IInv => \A r \in Requests : Work[r] \in Int /\ Work[r] >= 0)'
      BY WorkIsInt, PTL
    <2> QED
      BY <2>1, WorkIsInt
  <1>2. /\ SumOver(Work, Requests) \in Int /\ SumOver(Work', Requests) \in Int
        /\ crashes \in Int /\ MaxCrashes \in Int
    BY <1>1, SumInt, ConstantsAssumption DEF IInv, TypeOK
  <1>3. pc \in [Requests -> Steps] /\ pc' \in [Requests -> Steps]
    BY DEF IInv, TypeOK
  <1>4. \A s \in Steps : StepsLeft[s] \in Nat
    BY DEF Steps, TxSteps, StepsLeft
  <1>5. CASE Crash
    <2>1. ASSUME NEW r \in Requests PROVE Work'[r] <= Work[r]
      <3>1. pc'[r] = pc[r] \/ pc'[r] = "done"
        BY <1>3, <1>5 DEF Crash
      <3>2. StepsLeft[pc'[r]] <= StepsLeft[pc[r]]
        BY <1>3, <1>4, <3>1 DEF StepsLeft
      <3>3. r \notin publishing'
        BY <1>5 DEF Crash
      <3> QED
        BY <1>3, <1>4, <3>2, <3>3 DEF Work
    <2>2. SumOver(Work', Requests) <= SumOver(Work, Requests)
      BY <1>1, <2>1, SumAtMost
    <2>3. crashes' = crashes + 1
      BY <1>5 DEF Crash
    <2> QED
      BY <1>2, <2>2, <2>3 DEF WorkLeft
  <1>6. CASE ~Crash
    <2>1. PICK r \in Requests : GoesOn(r)
      BY <1>6, StepGoesOn
    <2>2. Work'[r] < Work[r]
      <3>1. StepsLeft[pc'[r]] \in Nat /\ StepsLeft[pc[r]] \in Nat
        BY <1>3, <1>4
      <3>2. CASE StepsLeft[pc'[r]] < StepsLeft[pc[r]]
        BY <3>1, <3>2 DEF Work
      <3>3. CASE pc' = pc /\ r \in publishing /\ publishing' = publishing \ {r}
        BY <3>1, <3>3 DEF Work
      <3> QED
        BY <1>3, <2>1, <3>2, <3>3 DEF GoesOn
    <2>3. ASSUME NEW q \in Requests, q # r PROVE Work'[q] <= Work[q]
      <3>1. pc'[q] = pc[q] /\ (q \in publishing' => q \in publishing)
        BY <1>3, <2>1, <2>3 DEF GoesOn
      <3>2. StepsLeft[pc[q]] \in Nat
        BY <1>3, <1>4
      <3> QED
        BY <3>1, <3>2 DEF Work
    <2>4. \A q \in Requests : Work'[q] <= Work[q]
      BY <1>1, <2>2, <2>3
    <2>5. SumOver(Work', Requests) < SumOver(Work, Requests)
      BY <1>1, <2>2, <2>4, SumLess
    <2>6. crashes' = crashes
      BY <1>6, StepGoesOn
    <2> QED
      BY <1>2, <2>5, <2>6 DEF WorkLeft
  <1> QED
    BY <1>5, <1>6

\* Every step leaves less to do, so that calls cannot keep each other busy: together
\* they take a bounded number of steps, failures and crashes included.
THEOREM StepsAreBounded ==
    ASSUME IsFiniteSet(Requests)
    PROVE  Spec => [](WorkLeft \in Nat) /\ [][WorkLeft' < WorkLeft]_vars
  <1>1. IInv => WorkLeft \in Nat
    <2> SUFFICES ASSUME IInv PROVE WorkLeft \in Nat
      OBVIOUS
    <2> DEFINE zero == [r \in Requests |-> 0]
    <2>1. SumOver(zero, Requests) = 0
      <3>1. \A r \in Requests : zero[r] = 0
        OBVIOUS
      <3> QED
        BY <3>1, SumZero
    <2>2. SumOver(zero, Requests) <= SumOver(Work, Requests)
      <3>1. \A r \in Requests : zero[r] \in Int /\ Work[r] \in Int /\ zero[r] <= Work[r]
        BY WorkIsInt
      <3> QED
        BY <3>1, SumAtMost
    <2>3. SumOver(Work, Requests) \in Int
      BY WorkIsInt, SumInt
    <2>4. crashes \in 0..MaxCrashes /\ MaxCrashes \in Nat
      BY ConstantsAssumption DEF IInv, TypeOK
    <2> QED
      BY <2>1, <2>2, <2>3, <2>4 DEF WorkLeft
  <1>2. IInv /\ IInv' /\ [Next]_vars => [WorkLeft' < WorkLeft]_vars
    BY WorkShrinks
  <1> QED
    BY <1>1, <1>2, Invariance, PTL DEF Spec

-----------------------------------------------------------------------------
(* WalletLedger implements AtomicLedger, for every value of the constants: a   *)
(* commit is the abstract TopUp or Transfer, a refusal the abstract Refuse, an *)
(* acknowledgement the abstract Confirm, a crash the abstract CutOff; every    *)
(* other step is a stutter.                                                    *)

\* The effect of a call is that of its commit: no other step changes it.
LEMMA EffectsAreKept ==
    ASSUME IInv, NEW q \in Requests, UNCHANGED txns,
           txns[q] = "COMPLETED" => UNCHANGED <<call[q], seen[q]>>
    PROVE  Effected'[q] = Effected[q]
  BY DEF Effected, BalanceAfter, SourceNewBalance, TargetNewBalance, IsTransfer

LEMMA EffectIsABalance ==
    ASSUME IInv, NEW r \in Requests, txns[r] = "COMPLETED"
    PROVE  Effected[r] = BalanceAfter(r) /\ BalanceAfter(r) \in Nat
  <1>1. /\ call[r] \in Calls /\ Validated(r) /\ EnoughFunds(r)
        /\ seen[r] \in [Wallets -> StoredAmounts]
    BY DEF IInv, TypeOK, CallInv, CallOK, StageInv, StageOK
  <1> QED
    BY <1>1, ConstantsAssumption DEF Effected, BalanceAfter, SourceNewBalance,
       TargetNewBalance, EnoughFunds, Validated, Involved, StoredAmounts

\* A call that has not committed has had no effect.
LEMMA NoEffectYet ==
    ASSUME IInv, NEW r \in Requests, pc[r] \notin {"committed", "done"}
    PROVE  Effected[r] = Atomic!NoEffect
  BY Uncommitted DEF Effected, NoWrite, Atomic!NoEffect

LEMMA InitRefines == Init => Atomic!Init
  BY DEF Init, Atomic!Init, Effected, NoWrite, Atomic!NoEffect, NoCall, Atomic!NoCall

\* Steps that leave the database, the requests and the answers alone are stutters.
LEMMA StutterRefines ==
    ASSUME IInv, UNCHANGED <<db, call, result>>,
           \A q \in Requests : txns[q] = "COMPLETED" => UNCHANGED seen[q]
    PROVE  UNCHANGED Atomic!avars
  <1>1. \A q \in Requests : Effected'[q] = Effected[q]
    BY EffectsAreKept DEF db
  <1>2. Effected' = Effected
    BY <1>1 DEF Effected
  <1> QED
    BY <1>2 DEF Atomic!avars, db

LEMMA ArriveRefines ==
    ASSUME IInv, NEW r \in Requests, NEW c \in Calls, Arrive(r, c)
    PROVE  Atomic!Ask(r, c)
  <1>1. call[r] = NoCall /\ txns[r] = "none"
    BY Uncommitted DEF Arrive, IInv, CallInv, CallOK
  <1>2. \A q \in Requests : Effected'[q] = Effected[q]
    BY <1>1, EffectsAreKept DEF Arrive, db, IInv, TypeOK
  <1>3. Effected' = Effected
    BY <1>2 DEF Effected
  <1> QED
    BY <1>1, <1>3 DEF Arrive, db, Atomic!Ask, NoCall, Atomic!NoCall

\* A refusal is decided on the wallets and, for the balance, on the one it has locked.
LEMMA RefusalRefines ==
    ASSUME IInv, NEW r \in Requests, NEW why \in Refusals,
           pc[r] \in {"findUser", "findTarget", "create"}, Atomic!Reason(r, why),
           Return(r, why), UNCHANGED <<db, call, seen>>
    PROVE  Atomic!Refuse(r, why)
  <1>1. call[r] # NoCall /\ result[r] = "none" /\ Effected[r] = Atomic!NoEffect
    BY NoEffectYet DEF IInv, TypeOK, Results, CallInv, CallOK, ResultInv
  <1>2. \A q \in Requests : Effected'[q] = Effected[q]
    BY EffectsAreKept DEF db
  <1>3. Effected' = Effected
    BY <1>2 DEF Effected
  <1> QED
    BY <1>1, <1>3 DEF Return, db, Atomic!Refuse, Atomic!Open, NoCall, Atomic!NoCall

LEMMA CommitRefines ==
    ASSUME CentAmounts, IInv, NEW r \in Requests, Commit(r)
    PROVE  Atomic!TopUp(r) \/ Atomic!Transfer(r)
  <1> DEFINE c == call[r]
  <1>1. /\ c \in Calls /\ Validated(r) /\ txns[r] = "none"
        /\ txns' = [txns EXCEPT ![r] = "COMPLETED"]
        /\ \A w \in Involved(r) : seen[r][w] = balance[w]
    BY CommitInstalls
  <1>2. /\ c # NoCall /\ result[r] = "none" /\ c.kind \in CallKinds
        /\ c.target \in Wallets /\ UNCHANGED <<call, seen, result>>
    BY <1>1, ConstantsAssumption DEF IInv, CallInv, CallOK, ResultInv, Commit, CallKinds,
       NoCall, Validated, Involved
  <1>3. Atomic!Open(r)
    BY <1>2, NoEffectYet DEF Atomic!Open, NoCall, Atomic!NoCall, Commit
  <1>4. Effected' = [Effected EXCEPT ![r] = BalanceAfter(r)]
    <2>1. \A q \in Requests : Effected'[q] = IF q = r THEN BalanceAfter(r) ELSE Effected[q]
      BY <1>1, <1>2 DEF Effected, BalanceAfter, SourceNewBalance, TargetNewBalance,
         IsTransfer, IInv, TypeOK
    <2> QED
      BY <2>1 DEF Effected
  <1>5. CreditOf(r) = Atomic!Credit(r) /\ DebitOf(r) = Atomic!Debit(r)
    BY CommitMoves DEF CreditOf, DebitOf, Entry, Atomic!Credit, Atomic!Debit
  <1>6. CASE IsTransfer(r)
    <2>1. /\ c.source \in Wallets /\ c.source # c.target /\ balance[c.source] >= c.amount
          /\ BalanceAfter(r) = balance[c.source] - c.amount
      BY <1>1, <1>6, CommitMoves
         DEF Validated, Involved, BalanceAfter, SourceNewBalance
    <2>2. ledger' = ledger \o <<Atomic!Debit(r), Atomic!Credit(r)>>
      BY <1>5, <1>6, CommitInstalls
    <2>3. balance' = [balance EXCEPT ![c.source] = @ - c.amount, ![c.target] = @ + c.amount]
      BY <1>2, <1>6, <2>1, CommitMoves DEF IInv, TypeOK
    <2> QED
      BY <1>2, <1>3, <1>4, <1>6, <2>1, <2>2, <2>3 DEF Atomic!Transfer, IsTransfer
  <1>7. CASE ~IsTransfer(r)
    <2>1. c.kind = "TopUp" /\ BalanceAfter(r) = balance[c.target] + c.amount
      BY <1>1, <1>2, <1>7
         DEF Validated, Involved, BalanceAfter, TargetNewBalance, IsTransfer, CallKinds
    <2>2. ledger' = ledger \o <<Atomic!Credit(r)>>
      BY <1>5, <1>7, CommitInstalls
    <2>3. balance' = [balance EXCEPT ![c.target] = @ + c.amount]
      BY <1>2, <1>7, CommitMoves DEF IInv, TypeOK
    <2> QED
      BY <1>2, <1>3, <1>4, <2>1, <2>2, <2>3 DEF Atomic!TopUp
  <1> QED
    BY <1>6, <1>7

LEMMA AnswerRefines ==
    ASSUME IInv, NEW r \in Requests,
           Acknowledge(r) \/ CommitUnacknowledged(r) \/ Fail(r)
    PROVE  Atomic!Confirm(r) \/ Atomic!Error(r)
  <1>1. /\ call[r] # NoCall /\ result[r] = "none"
        /\ UNCHANGED <<db, call, seen>>
    BY DEF IInv, TypeOK, Results, CallInv, CallOK, ResultInv, Acknowledge,
       CommitUnacknowledged, Fail, TxSteps
  <1>2. \A q \in Requests : Effected'[q] = Effected[q]
    BY <1>1, EffectsAreKept DEF db
  <1>3. Effected' = Effected
    BY <1>2 DEF Effected
  <1>4. Acknowledge(r) => Effected[r] # Atomic!NoEffect
    BY EffectIsABalance DEF Acknowledge, IInv, ResultInv, Atomic!NoEffect
  <1> QED
    BY <1>1, <1>3, <1>4 DEF Acknowledge, CommitUnacknowledged, Fail, Return, db,
       Atomic!Confirm, Atomic!Error, NoCall, Atomic!NoCall

LEMMA CrashRefines ==
    ASSUME IInv, Crash
    PROVE  Atomic!CutOff({r \in InFlight : result[r] = "none"})
  <1>1. \A q \in Requests : Effected'[q] = Effected[q]
    BY EffectsAreKept DEF Crash, db
  <1>2. Effected' = Effected
    BY <1>1 DEF Effected
  <1>3. \A r \in InFlight : call[r] # NoCall
    BY DEF InFlight, IInv, CallInv, CallOK
  <1> QED
    BY <1>2, <1>3 DEF Crash, InFlight, db, Atomic!CutOff, NoCall, Atomic!NoCall

LEMMA StepRefines ==
    ASSUME CentAmounts, IInv, [Next]_vars
    PROVE  [Atomic!Next]_(Atomic!avars)
  <1>1. ASSUME NEW r \in Requests, NEW c \in Calls, Arrive(r, c) PROVE Atomic!Next
    BY <1>1, ArriveRefines DEF Atomic!Next
  <1>2. ASSUME NEW r \in Requests, FindUserWallet(r)
        PROVE  Atomic!Next \/ UNCHANGED Atomic!avars
    <2>1. CASE UNCHANGED result
      BY <1>2, <2>1, StutterRefines DEF FindUserWallet
    <2>2. ASSUME Return(r, "ErrWalletNotFound"), UserWallet(r) \notin Wallets
          PROVE  Atomic!Next
      <3>1. Atomic!Reason(r, "ErrWalletNotFound")
        BY <2>2, <1>2, ConstantsAssumption DEF Atomic!Reason, UserWallet, IsTransfer,
           FindUserWallet, IInv, TypeOK, CallInv, CallOK, CallKinds
      <3> QED
        BY <1>2, <2>2, <3>1, RefusalRefines DEF FindUserWallet, Refusals, Atomic!Next,
           Atomic!Refusals
    <2>3. ASSUME Return(r, "ErrSelfTransfer"),
                 IsTransfer(r) /\ call[r].source = call[r].target
          PROVE  Atomic!Next
      <3>1. Atomic!Reason(r, "ErrSelfTransfer")
        BY <2>3 DEF Atomic!Reason, IsTransfer
      <3> QED
        BY <1>2, <2>3, <3>1, RefusalRefines DEF FindUserWallet, Refusals, Atomic!Next,
           Atomic!Refusals
    <2> QED
      BY <1>2, <2>1, <2>2, <2>3 DEF FindUserWallet
  <1>3. ASSUME NEW r \in Requests, FindTargetWallet(r)
        PROVE  Atomic!Next \/ UNCHANGED Atomic!avars
    <2>1. CASE UNCHANGED result
      BY <1>3, <2>1, StutterRefines DEF FindTargetWallet
    <2>2. ASSUME Return(r, "ErrTargetWalletNotFound"), call[r].target \notin Wallets
          PROVE  Atomic!Next
      <3>1. Atomic!Reason(r, "ErrTargetWalletNotFound")
        BY <1>3, <2>2 DEF Atomic!Reason, IsTransfer, FindTargetWallet, IInv, CallInv, CallOK
      <3> QED
        BY <1>3, <2>2, <3>1, RefusalRefines DEF FindTargetWallet, Refusals, Atomic!Next,
           Atomic!Refusals
    <2> QED
      BY <1>3, <2>1, <2>2 DEF FindTargetWallet
  <1>4. ASSUME NEW r \in Requests, RefuseInsufficient(r) PROVE Atomic!Next
    <2>1. Atomic!Reason(r, "ErrInsufficientBalance")
      <3>1. IsTransfer(r) /\ ~(seen[r][call[r].source] >= call[r].amount)
        BY <1>4 DEF RefuseInsufficient, EnoughFunds
      <3>2. call[r].source \in Wallets /\ seen[r][call[r].source] = balance[call[r].source]
            /\ balance[call[r].source] \in Int /\ call[r].amount \in Int
        BY <1>4, <3>1, ConstantsAssumption DEF RefuseInsufficient, IInv, TypeOK, CallInv,
           CallOK, LockInv, LockOK, LockedSteps, TxSteps, Validated, Involved, StoredAmounts
      <3> QED
        BY <3>1, <3>2 DEF Atomic!Reason, IsTransfer
    <2> QED
      BY <1>4, <2>1, RefusalRefines DEF RefuseInsufficient, Refusals, Atomic!Next,
         Atomic!Refusals
  <1>5. ASSUME NEW r \in Requests, Commit(r) PROVE Atomic!Next
    BY <1>5, CommitRefines DEF Atomic!Next
  <1>6. ASSUME NEW r \in Requests,
               Acknowledge(r) \/ CommitUnacknowledged(r) \/ Fail(r) \/ ConstraintFails(r)
        PROVE  Atomic!Next
    BY <1>6, AnswerRefines DEF ConstraintFails, Atomic!Next
  <1>7. ASSUME NEW r \in Requests,
               \/ Begin(r) \/ LockRow(r) \/ CreateTransaction(r) \/ UpdateSource(r)
               \/ UpdateTarget(r) \/ InsertDebit(r) \/ InsertCredit(r) \/ Complete(r)
               \/ Rollback(r) \/ PublishSucceeds(r) \/ PublishFails(r)
        PROVE  UNCHANGED Atomic!avars
    <2>1. UNCHANGED <<db, call, result>>
      BY <1>7 DEF Begin, LockRow, CreateTransaction, UpdateSource, UpdateTarget,
         UpdateBalance, InsertDebit, InsertCredit, InsertEntry, Complete, Rollback,
         PublishSucceeds, PublishFails, events, staged, db
    <2>2. \A q \in Requests : txns[q] = "COMPLETED" => UNCHANGED seen[q]
      <3>1. CASE LockRow(r)
        BY <3>1, Uncommitted DEF LockRow, IInv, TypeOK
      <3>2. CASE ~LockRow(r)
        BY <1>7, <3>2 DEF Begin, CreateTransaction, UpdateSource, UpdateTarget,
           UpdateBalance, InsertDebit, InsertCredit, InsertEntry, Complete, Rollback,
           PublishSucceeds, PublishFails
      <3> QED
        BY <3>1, <3>2
    <2> QED
      BY <2>1, <2>2, StutterRefines
  <1>8. CASE Crash
    BY <1>8, CrashRefines DEF Atomic!Next, InFlight
  <1>9. CASE UNCHANGED vars
    BY <1>9, StutterRefines DEF vars, db
  <1> QED
    BY <1>1, <1>2, <1>3, <1>4, <1>5, <1>6, <1>7, <1>8, <1>9 DEF Next, Advance

\* Concurrent top-ups and transfers behave as if each took place whole at its commit.
THEOREM Refinement == ASSUME CentAmounts PROVE Spec => ImplementsAtomicLedger
  <1>1. Init => Atomic!Init
    BY InitRefines
  <1>2. IInv /\ [Next]_vars => [Atomic!Next]_(Atomic!avars)
    BY StepRefines
  <1> QED
    BY <1>1, <1>2, Invariance, PTL DEF Spec, ImplementsAtomicLedger, Atomic!Spec

=============================================================================
