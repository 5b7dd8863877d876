---------------------------- MODULE Registration ----------------------------
(***************************************************************************)
(* POST /auth/register (internal/service/auth_service.go) run by several   *)
(* clients against PostgreSQL: the lookup of the email outside any         *)
(* transaction, then user and wallet in one.  The UNIQUE index on          *)
(* users.email makes an INSERT wait for an uncommitted row with its email. *)
(***************************************************************************)
EXTENDS Naturals, FiniteSets

CONSTANTS
    Requests,   \* HTTP calls of POST /auth/register
    Emails,
    NoEmail,
    MaxConns,   \* cfg.MaxConns of the pool
    MaxFaults   \* bound on failing statements, lost acknowledgements and crashes

ASSUME RegistrationAssumption ==
    /\ NoEmail \notin Emails
    /\ MaxConns \in Nat \ {0}
    /\ MaxFaults \in Nat

VARIABLES
    users,     \* registrations whose users row is committed
    wallets,   \* registrations whose wallets row is committed
    pc,        \* the step a registration is at
    email,     \* its email
    staged,    \* tables its open database transaction inserted into
    result,    \* what the service method returned
    faulted,   \* history: registrations a fault hit
    faults

vars == <<users, wallets, pc, email, staged, result, faulted, faults>>

TxSteps == {"createUser", "createWallet", "commit", "rollback"}
Steps == {"idle", "find", "begin", "committed", "done"} \cup TxSteps
Results == {"none", "ok", "ErrEmailConflict", "error", "lost"}

InFlight == {r \in Requests : pc[r] \notin {"idle", "done"}}
ConnFree ==
    Cardinality({r \in Requests : pc[r] \in TxSteps \cup {"committed"}}) < MaxConns

Goto(r, step) == pc' = [pc EXCEPT ![r] = step]
Return(r, value) == result' = [result EXCEPT ![r] = value]
Fault(hit) ==
    /\ faults < MaxFaults
    /\ faults' = faults + 1
    /\ faulted' = faulted \cup hit
NoFault == UNCHANGED <<faulted, faults>>

Init ==
    /\ users = {} /\ wallets = {}
    /\ pc = [r \in Requests |-> "idle"]
    /\ email = [r \in Requests |-> NoEmail]
    /\ staged = [r \in Requests |-> {}]
    /\ result = [r \in Requests |-> "none"]
    /\ faulted = {}
    /\ faults = 0

-----------------------------------------------------------------------------

Arrive(r, e) ==
    /\ pc[r] = "idle"
    /\ email' = [email EXCEPT ![r] = e]
    /\ Goto(r, "find")
    /\ NoFault /\ UNCHANGED <<users, wallets, staged, result>>

EmailTaken(e) == \E s \in users : email[s] = e

\* Variant: the lookup reads rows that are not committed.
UserSeen(e) == \E s \in Requests : (s \in users \/ "user" \in staged[s]) /\ email[s] = e

\* What the SELECT by email finds.
UserFound(e) == EmailTaken(e)

FindByEmail(r) ==
    /\ pc[r] = "find"
    /\ ConnFree
    /\ \/ /\ UserFound(email[r])
          /\ Return(r, "ErrEmailConflict")
          /\ Goto(r, "done")
       \/ /\ ~UserFound(email[r])
          /\ Goto(r, "begin")
          /\ UNCHANGED result
    /\ NoFault /\ UNCHANGED <<users, wallets, email, staged>>

\* HashPassword, then pool.Begin.
Begin(r) ==
    /\ pc[r] = "begin"
    /\ ConnFree
    /\ Goto(r, "createUser")
    /\ NoFault /\ UNCHANGED <<users, wallets, email, staged, result>>

\* Another open database transaction inserted the email.
EmailPending(r) ==
    \E s \in Requests \ {r} : "user" \in staged[s] /\ email[s] = email[r]

\* Variant: the repository called with a nil tx inserts through the pool at once.
CreateUserOutsideTx(r) ==
    /\ pc[r] = "createUser"
    /\ ~EmailPending(r) /\ ~EmailTaken(email[r])
    /\ users' = users \cup {r}
    /\ Goto(r, "createWallet")
    /\ NoFault /\ UNCHANGED <<wallets, email, staged, result>>

CreateUser(r) ==
    /\ pc[r] = "createUser"
    /\ ~EmailPending(r) /\ ~EmailTaken(email[r])
    /\ staged' = [staged EXCEPT ![r] = @ \cup {"user"}]
    /\ Goto(r, "createWallet")
    /\ NoFault /\ UNCHANGED <<users, wallets, email, result>>

\* Variant: an INSERT that would have to wait fails.
DuplicateOrPending(r) ==
    /\ pc[r] = "createUser"
    /\ EmailPending(r) \/ EmailTaken(email[r])
    /\ Return(r, "error")
    /\ Goto(r, "rollback")
    /\ NoFault /\ UNCHANGED <<users, wallets, email, staged>>

\* The index refuses the row; the error is not told apart from any other.
DuplicateEmail(r) ==
    /\ pc[r] = "createUser"
    /\ ~EmailPending(r) /\ EmailTaken(email[r])
    /\ Return(r, "error")
    /\ Goto(r, "rollback")
    /\ NoFault /\ UNCHANGED <<users, wallets, email, staged>>

CreateWallet(r) ==
    /\ pc[r] = "createWallet"
    /\ staged' = [staged EXCEPT ![r] = @ \cup {"wallet"}]
    /\ Goto(r, "commit")
    /\ NoFault /\ UNCHANGED <<users, wallets, email, result>>

Commit(r) ==
    /\ pc[r] = "commit"
    /\ users' = IF "user" \in staged[r] THEN users \cup {r} ELSE users
    /\ wallets' = IF "wallet" \in staged[r] THEN wallets \cup {r} ELSE wallets
    /\ staged' = [staged EXCEPT ![r] = {}]
    /\ Goto(r, "committed")
    /\ NoFault /\ UNCHANGED <<email, result>>

\* The goroutine that publishes REGISTER starts here: see EventDelivery.
Acknowledge(r) ==
    /\ pc[r] = "committed"
    /\ Return(r, "ok")
    /\ Goto(r, "done")
    /\ NoFault /\ UNCHANGED <<users, wallets, email, staged>>

\* Variant: an error path without the deferred rollback leaves the row uncommitted.
RollbackForgotten(r) ==
    /\ pc[r] = "rollback"
    /\ Goto(r, "done")
    /\ NoFault /\ UNCHANGED <<users, wallets, email, staged, result>>

\* The deferred tx.Rollback on an error path.
Rollback(r) ==
    /\ pc[r] = "rollback"
    /\ staged' = [staged EXCEPT ![r] = {}]
    /\ Goto(r, "done")
    /\ NoFault /\ UNCHANGED <<users, wallets, email, result>>

-----------------------------------------------------------------------------
(* What can go wrong.                                                        *)

\* A statement, the hash or a random id fails.
Fail(r) ==
    /\ pc[r] \in {"find", "begin"} \cup (TxSteps \ {"rollback"})
    /\ Fault({r})
    /\ Return(r, "error")
    /\ Goto(r, IF pc[r] \in TxSteps THEN "rollback" ELSE "done")
    /\ UNCHANGED <<users, wallets, email, staged>>

\* The commit took place and its acknowledgement was lost.
CommitUnacknowledged(r) ==
    /\ pc[r] = "committed"
    /\ Fault({r})
    /\ Return(r, "error")
    /\ Goto(r, "done")
    /\ UNCHANGED <<users, wallets, email, staged>>

\* The server dies; PostgreSQL rolls back what it had open.
Crash ==
    /\ InFlight # {}
    /\ Fault(InFlight)
    /\ pc' = [r \in Requests |-> IF r \in InFlight THEN "done" ELSE pc[r]]
    /\ result' = [r \in Requests |->
                    IF r \in InFlight /\ result[r] = "none" THEN "lost" ELSE result[r]]
    /\ staged' = [r \in Requests |-> {}]
    /\ UNCHANGED <<users, wallets, email>>

Advance(r) ==
    \/ FindByEmail(r) \/ Begin(r) \/ CreateUser(r) \/ DuplicateEmail(r)
    \/ CreateWallet(r) \/ Commit(r) \/ Acknowledge(r) \/ Rollback(r)

Next ==
    \/ \E r \in Requests :
          \/ \E e \in Emails : Arrive(r, e)
          \/ Advance(r) \/ Fail(r) \/ CommitUnacknowledged(r)
    \/ Crash

Spec == Init /\ [][Next]_vars

\* The goroutine of a request runs and PostgreSQL answers; nothing is assumed of faults.
FairSpec == Spec /\ \A r \in Requests : WF_vars(Advance(r))

-----------------------------------------------------------------------------
(* Correctness.                                                              *)

\* Types; only an open database transaction has uncommitted rows.
TypeOK ==
    /\ users \subseteq Requests /\ wallets \subseteq Requests
    /\ pc \in [Requests -> Steps]
    /\ email \in [Requests -> Emails \cup {NoEmail}]
    /\ staged \in [Requests -> SUBSET {"user", "wallet"}]
    /\ result \in [Requests -> Results]
    /\ faulted \subseteq Requests
    /\ faults \in 0..MaxFaults
    /\ \A r \in Requests : staged[r] # {} => pc[r] \in TxSteps

\* An email has one user, however many registrations of it passed the lookup.
OneUserPerEmail == \A r, s \in users : email[r] = email[s] => r = s

\* A user and its wallet exist together or not at all ("automatically spawns a wallet",
\* README.md:403): every path of the service relies on a user's wallet being there.
UsersHaveWallets == users = wallets

\* An answer is truthful: success means the user exists, a conflict that somebody else
\* has the email.
AnswersAreTrue ==
    \A r \in Requests :
        /\ result[r] = "ok" => r \in users
        /\ result[r] = "ErrEmailConflict" => r \notin users /\ EmailTaken(email[r])

\* A registration no fault hit leaves its email registered: it created the user and said
\* so, or somebody else did and it said no.  Rivals that fail never make it lose.
EmailIsWon ==
    \A r \in Requests \ faulted :
        pc[r] = "done" =>
            \E s \in users : email[s] = email[r] /\ (result[r] = "ok" <=> s = r)

\* Neither the index nor the pool holds a registration for ever.
EveryRegistrationEnds == \A r \in Requests : (pc[r] = "find") ~> (pc[r] = "done")
=============================================================================
