---------------------------- MODULE AtomicLedger ----------------------------
(***************************************************************************)
(* What the service promises of top-ups and transfers: a call that takes   *)
(* effect does so whole, at one instant, on the balances of that instant;  *)
(* what it answers agrees with whether it did.                             *)
(***************************************************************************)
EXTENDS Integers, Sequences

CONSTANTS Requests, Wallets, Calls, Opening

VARIABLES
    balance,
    ledger,
    asked,      \* what a call asked, NoCall before it arrived
    effected,   \* the balance its effect left in the caller's wallet, or NoEffect
    told        \* its answer

avars == <<balance, ledger, asked, effected, told>>

NoCall == [kind |-> "none", source |-> 0, target |-> 0, amount |-> 0]
NoEffect == -1

Init ==
    /\ balance = Opening
    /\ ledger = << >>
    /\ asked = [r \in Requests |-> NoCall]
    /\ effected = [r \in Requests |-> NoEffect]
    /\ told = [r \in Requests |-> "none"]

Credit(r) == [txn |-> r, wallet |-> asked[r].target, type |-> "CREDIT",
              amount |-> asked[r].amount]
Debit(r) == [txn |-> r, wallet |-> asked[r].source, type |-> "DEBIT",
             amount |-> asked[r].amount]

Ask(r, c) ==
    /\ asked[r] = NoCall
    /\ asked' = [asked EXCEPT ![r] = c]
    /\ UNCHANGED <<balance, ledger, effected, told>>

\* Undecided: asked, without effect, without answer.
Open(r) == asked[r] # NoCall /\ effected[r] = NoEffect /\ told[r] = "none"

TopUp(r) ==
    /\ Open(r)
    /\ asked[r].kind = "TopUp"
    /\ asked[r].target \in Wallets
    /\ balance' = [balance EXCEPT ![asked[r].target] = @ + asked[r].amount]
    /\ ledger' = ledger \o <<Credit(r)>>
    /\ effected' = [effected EXCEPT ![r] = balance[asked[r].target] + asked[r].amount]
    /\ UNCHANGED <<asked, told>>

Transfer(r) ==
    /\ Open(r)
    /\ asked[r].kind = "Transfer"
    /\ {asked[r].source, asked[r].target} \subseteq Wallets
    /\ asked[r].source # asked[r].target
    /\ balance[asked[r].source] >= asked[r].amount
    /\ balance' = [balance EXCEPT ![asked[r].source] = @ - asked[r].amount,
                                  ![asked[r].target] = @ + asked[r].amount]
    /\ ledger' = ledger \o <<Debit(r), Credit(r)>>
    /\ effected' = [effected EXCEPT ![r] = balance[asked[r].source] - asked[r].amount]
    /\ UNCHANGED <<asked, told>>

\* The reason of a refusal is true when it is given.
Reason(r, why) ==
    LET c == asked[r] IN
    \/ why = "ErrWalletNotFound"
       /\ (IF c.kind = "TopUp" THEN c.target ELSE c.source) \notin Wallets
    \/ why = "ErrSelfTransfer" /\ c.kind = "Transfer" /\ c.source = c.target
    \/ why = "ErrTargetWalletNotFound" /\ c.kind = "Transfer" /\ c.target \notin Wallets
    \/ why = "ErrInsufficientBalance" /\ c.kind = "Transfer"
       /\ c.source \in Wallets /\ balance[c.source] < c.amount

Refuse(r, why) ==
    /\ Open(r)
    /\ Reason(r, why)
    /\ told' = [told EXCEPT ![r] = why]
    /\ UNCHANGED <<balance, ledger, asked, effected>>

Confirm(r) ==
    /\ told[r] = "none" /\ effected[r] # NoEffect
    /\ told' = [told EXCEPT ![r] = "ok"]
    /\ UNCHANGED <<balance, ledger, asked, effected>>

\* An internal error says nothing of the effect, and none follows it.
Error(r) ==
    /\ asked[r] # NoCall /\ told[r] = "none"
    /\ told' = [told EXCEPT ![r] = "error"]
    /\ UNCHANGED <<balance, ledger, asked, effected>>

\* Calls that are cut off get no answer and no later effect.
CutOff(S) ==
    /\ \A r \in S : asked[r] # NoCall /\ told[r] = "none"
    /\ told' = [r \in Requests |-> IF r \in S THEN "lost" ELSE told[r]]
    /\ UNCHANGED <<balance, ledger, asked, effected>>

Refusals == {"ErrWalletNotFound", "ErrSelfTransfer", "ErrTargetWalletNotFound",
             "ErrInsufficientBalance"}

Next ==
    \/ \E r \in Requests :
          \/ \E c \in Calls : Ask(r, c)
          \/ TopUp(r) \/ Transfer(r)
          \/ \E why \in Refusals : Refuse(r, why)
          \/ Confirm(r) \/ Error(r)
    \/ \E S \in SUBSET Requests : CutOff(S)

Spec == Init /\ [][Next]_avars
=============================================================================
