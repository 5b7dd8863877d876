------------------------- MODULE RegistrationProofs -------------------------
(***************************************************************************)
(* The safety of registration for any number of requests, emails,          *)
(* connections and faults.  The heart is UniqueInv: the UNIQUE index keeps *)
(* one row per email among committed and open transactions alike.          *)
(***************************************************************************)
EXTENDS Registration, FiniteSetTheorems, TLAPS

\* What an open transaction has inserted at each step.
StageInv ==
    \A r \in Requests :
        /\ pc[r] = "createWallet" => staged[r] = {"user"}
        /\ pc[r] = "commit" => staged[r] = {"user", "wallet"}
        /\ pc[r] \notin {"createWallet", "commit", "rollback"} => staged[r] = {}

\* Rows belong to registrations that arrived and committed.
RowInv ==
    /\ users = wallets
    /\ \A r \in Requests :
          /\ pc[r] # "idle" <=> email[r] \in Emails
          /\ r \in users => pc[r] \in {"committed", "done"}
          /\ pc[r] = "committed" => r \in users

HasRow(r) == r \in users \/ "user" \in staged[r]
UniqueInv ==
    \A r, s \in Requests : HasRow(r) /\ HasRow(s) /\ email[r] = email[s] => r = s

AnswerInv ==
    /\ AnswersAreTrue
    /\ \A r \in Requests : result[r] # "none" => pc[r] \in {"rollback", "done"}

\* An undisturbed registration only rolls back over a taken email.
WonInv ==
    /\ EmailIsWon
    /\ \A r \in Requests \ faulted :
          pc[r] = "rollback" => result[r] # "ok" /\ EmailTaken(email[r])

IInv == TypeOK /\ StageInv /\ RowInv /\ UniqueInv /\ AnswerInv /\ WonInv

-----------------------------------------------------------------------------
(* Users are never removed and keep their email.                             *)

LEMMA TakenStays ==
    ASSUME NEW e, EmailTaken(e), users \subseteq users',
           \A s \in users : email'[s] = email[s]
    PROVE  EmailTaken(e)'
BY DEF EmailTaken

LEMMA WonStays ==
    ASSUME users \subseteq users', \A s \in users : email'[s] = email[s],
           NEW r \in Requests, email'[r] = email[r], result'[r] = result[r],
           \E s \in users : email[s] = email[r] /\ (result[r] = "ok" <=> s = r)
    PROVE  (\E s \in users : email[s] = email[r] /\ (result[r] = "ok" <=> s = r))'
OBVIOUS

-----------------------------------------------------------------------------
(* The invariant is inductive: one lemma per action.                         *)

LEMMA InitIInv == Init => IInv
BY RegistrationAssumption DEF Init, IInv, TypeOK, StageInv, RowInv, UniqueInv, HasRow,
   AnswerInv, AnswersAreTrue, WonInv, EmailIsWon, Steps, TxSteps, Results

LEMMA ArriveIInv ==
    ASSUME NEW r \in Requests, NEW e \in Emails, Arrive(r, e), IInv
    PROVE  IInv'
<1> USE RegistrationAssumption DEF Arrive, Goto, NoFault
<1>1. TypeOK'
  BY DEF IInv, TypeOK, StageInv, Steps, TxSteps, Results
<1>2. StageInv'
  BY DEF IInv, TypeOK, StageInv, TxSteps
<1>3. RowInv'
  BY DEF IInv, TypeOK, StageInv, RowInv, TxSteps
<1>4. UniqueInv'
  BY DEF IInv, TypeOK, StageInv, RowInv, UniqueInv, HasRow, TxSteps
<1>5. users \subseteq users' /\ \A s \in users : email'[s] = email[s]
  BY DEF IInv, TypeOK, RowInv
<1>6. AnswerInv'
  BY <1>5, TakenStays DEF IInv, TypeOK, RowInv, AnswerInv, AnswersAreTrue, TxSteps
<1>7. WonInv'
  <2>1. ASSUME NEW q \in Requests \ faulted', pc'[q] = "rollback"
        PROVE  result'[q] # "ok" /\ EmailTaken(email[q])' /\ email'[q] = email[q]
    BY <1>5, <2>1, TakenStays DEF IInv, TypeOK, RowInv, AnswerInv, WonInv, TxSteps
  <2>2. ASSUME NEW q \in Requests \ faulted', pc'[q] = "done"
        PROVE  (\E s \in users : email[s] = email[q] /\ (result[q] = "ok" <=> s = q))'
    BY <1>5, <2>2, WonStays DEF IInv, TypeOK, RowInv, AnswerInv, AnswersAreTrue, WonInv,
       EmailIsWon, TxSteps, EmailTaken
  <2> QED
    BY <2>1, <2>2 DEF WonInv, EmailIsWon, EmailTaken
<1> QED
  BY <1>1, <1>2, <1>3, <1>4, <1>6, <1>7 DEF IInv

LEMMA FindByEmailIInv ==
    ASSUME NEW r \in Requests, FindByEmail(r), IInv
    PROVE  IInv'
<1> USE RegistrationAssumption DEF FindByEmail, UserFound, Goto, Return, NoFault
<1>1. TypeOK'
  BY DEF IInv, TypeOK, StageInv, Steps, TxSteps, Results
<1>2. StageInv'
  BY DEF IInv, TypeOK, StageInv, TxSteps
<1>3. RowInv'
  BY DEF IInv, TypeOK, StageInv, RowInv, TxSteps
<1>4. UniqueInv'
  BY DEF IInv, TypeOK, StageInv, RowInv, UniqueInv, HasRow, TxSteps
<1>5. users \subseteq users' /\ \A s \in users : email'[s] = email[s]
  BY DEF IInv, TypeOK, RowInv
<1>6. AnswerInv'
  BY <1>5, TakenStays DEF IInv, TypeOK, RowInv, AnswerInv, AnswersAreTrue, TxSteps
<1>7. WonInv'
  <2>1. ASSUME NEW q \in Requests \ faulted', pc'[q] = "rollback"
        PROVE  result'[q] # "ok" /\ EmailTaken(email[q])' /\ email'[q] = email[q]
    BY <1>5, <2>1, TakenStays DEF IInv, TypeOK, RowInv, AnswerInv, WonInv, TxSteps
  <2>2. ASSUME NEW q \in Requests \ faulted', pc'[q] = "done"
        PROVE  (\E s \in users : email[s] = email[q] /\ (result[q] = "ok" <=> s = q))'
    BY <1>5, <2>2, WonStays DEF IInv, TypeOK, RowInv, AnswerInv, AnswersAreTrue, WonInv,
       EmailIsWon, TxSteps, EmailTaken
  <2> QED
    BY <2>1, <2>2 DEF WonInv, EmailIsWon, EmailTaken
<1> QED
  BY <1>1, <1>2, <1>3, <1>4, <1>6, <1>7 DEF IInv

LEMMA BeginIInv ==
    ASSUME NEW r \in Requests, Begin(r), IInv
    PROVE  IInv'
<1> USE RegistrationAssumption DEF Begin, Goto, NoFault
<1>1. TypeOK'
  BY DEF IInv, TypeOK, StageInv, Steps, TxSteps, Results
<1>2. StageInv'
  BY DEF IInv, TypeOK, StageInv, TxSteps
<1>3. RowInv'
  BY DEF IInv, TypeOK, StageInv, RowInv, TxSteps
<1>4. UniqueInv'
  BY DEF IInv, TypeOK, StageInv, RowInv, UniqueInv, HasRow, TxSteps
<1>5. users \subseteq users' /\ \A s \in users : email'[s] = email[s]
  BY DEF IInv, TypeOK, RowInv
<1>6. AnswerInv'
  BY <1>5, TakenStays DEF IInv, TypeOK, RowInv, AnswerInv, AnswersAreTrue, TxSteps
<1>7. WonInv'
  <2>1. ASSUME NEW q \in Requests \ faulted', pc'[q] = "rollback"
        PROVE  result'[q] # "ok" /\ EmailTaken(email[q])' /\ email'[q] = email[q]
    BY <1>5, <2>1, TakenStays DEF IInv, TypeOK, RowInv, AnswerInv, WonInv, TxSteps
  <2>2. ASSUME NEW q \in Requests \ faulted', pc'[q] = "done"
        PROVE  (\E s \in users : email[s] = email[q] /\ (result[q] = "ok" <=> s = q))'
    BY <1>5, <2>2, WonStays DEF IInv, TypeOK, RowInv, AnswerInv, AnswersAreTrue, WonInv,
       EmailIsWon, TxSteps, EmailTaken
  <2> QED
    BY <2>1, <2>2 DEF WonInv, EmailIsWon, EmailTaken
<1> QED
  BY <1>1, <1>2, <1>3, <1>4, <1>6, <1>7 DEF IInv

LEMMA CreateUserIInv ==
    ASSUME NEW r \in Requests, CreateUser(r), IInv
    PROVE  IInv'
<1> USE RegistrationAssumption DEF CreateUser, Goto, NoFault
<1>1. TypeOK'
  BY DEF IInv, TypeOK, StageInv, Steps, TxSteps, Results
<1>2. StageInv'
  BY DEF IInv, TypeOK, StageInv, TxSteps
<1>3. RowInv'
  BY DEF IInv, TypeOK, StageInv, RowInv, TxSteps
<1>4. UniqueInv'
  BY DEF IInv, TypeOK, StageInv, RowInv, UniqueInv, HasRow, TxSteps, EmailPending, EmailTaken
<1>5. users \subseteq users' /\ \A s \in users : email'[s] = email[s]
  BY DEF IInv, TypeOK, RowInv
<1>6. AnswerInv'
  BY <1>5, TakenStays DEF IInv, TypeOK, RowInv, AnswerInv, AnswersAreTrue, TxSteps
<1>7. WonInv'
  <2>1. ASSUME NEW q \in Requests \ faulted', pc'[q] = "rollback"
        PROVE  result'[q] # "ok" /\ EmailTaken(email[q])' /\ email'[q] = email[q]
    BY <1>5, <2>1, TakenStays DEF IInv, TypeOK, RowInv, AnswerInv, WonInv, TxSteps
  <2>2. ASSUME NEW q \in Requests \ faulted', pc'[q] = "done"
        PROVE  (\E s \in users : email[s] = email[q] /\ (result[q] = "ok" <=> s = q))'
    BY <1>5, <2>2, WonStays DEF IInv, TypeOK, RowInv, AnswerInv, AnswersAreTrue, WonInv,
       EmailIsWon, TxSteps, EmailTaken
  <2> QED
    BY <2>1, <2>2 DEF WonInv, EmailIsWon, EmailTaken
<1> QED
  BY <1>1, <1>2, <1>3, <1>4, <1>6, <1>7 DEF IInv

LEMMA DuplicateEmailIInv ==
    ASSUME NEW r \in Requests, DuplicateEmail(r), IInv
    PROVE  IInv'
<1> USE RegistrationAssumption DEF DuplicateEmail, Goto, Return, NoFault
<1>1. TypeOK'
  BY DEF IInv, TypeOK, StageInv, Steps, TxSteps, Results
<1>2. StageInv'
  BY DEF IInv, TypeOK, StageInv, TxSteps
<1>3. RowInv'
  BY DEF IInv, TypeOK, StageInv, RowInv, TxSteps
<1>4. UniqueInv'
  BY DEF IInv, TypeOK, StageInv, RowInv, UniqueInv, HasRow, TxSteps
<1>5. users \subseteq users' /\ \A s \in users : email'[s] = email[s]
  BY DEF IInv, TypeOK, RowInv
<1>6. AnswerInv'
  BY <1>5, TakenStays DEF IInv, TypeOK, RowInv, AnswerInv, AnswersAreTrue, TxSteps
<1>7. WonInv'
  <2>1. ASSUME NEW q \in Requests \ faulted', pc'[q] = "rollback"
        PROVE  result'[q] # "ok" /\ EmailTaken(email[q])' /\ email'[q] = email[q]
    BY <1>5, <2>1, TakenStays DEF IInv, TypeOK, RowInv, AnswerInv, WonInv, TxSteps
  <2>2. ASSUME NEW q \in Requests \ faulted', pc'[q] = "done"
        PROVE  (\E s \in users : email[s] = email[q] /\ (result[q] = "ok" <=> s = q))'
    BY <1>5, <2>2, WonStays DEF IInv, TypeOK, RowInv, AnswerInv, AnswersAreTrue, WonInv,
       EmailIsWon, TxSteps, EmailTaken
  <2> QED
    BY <2>1, <2>2 DEF WonInv, EmailIsWon, EmailTaken
<1> QED
  BY <1>1, <1>2, <1>3, <1>4, <1>6, <1>7 DEF IInv

LEMMA CreateWalletIInv ==
    ASSUME NEW r \in Requests, CreateWallet(r), IInv
    PROVE  IInv'
<1> USE RegistrationAssumption DEF CreateWallet, Goto, NoFault
<1>1. TypeOK'
  BY DEF IInv, TypeOK, StageInv, Steps, TxSteps, Results
<1>2. StageInv'
  BY DEF IInv, TypeOK, StageInv, TxSteps
<1>3. RowInv'
  BY DEF IInv, TypeOK, StageInv, RowInv, TxSteps
<1>4. UniqueInv'
  BY DEF IInv, TypeOK, StageInv, RowInv, UniqueInv, HasRow, TxSteps
<1>5. users \subseteq users' /\ \A s \in users : email'[s] = email[s]
  BY DEF IInv, TypeOK, RowInv
<1>6. AnswerInv'
  BY <1>5, TakenStays DEF IInv, TypeOK, RowInv, AnswerInv, AnswersAreTrue, TxSteps
<1>7. WonInv'
  <2>1. ASSUME NEW q \in Requests \ faulted', pc'[q] = "rollback"
        PROVE  result'[q] # "ok" /\ EmailTaken(email[q])' /\ email'[q] = email[q]
    BY <1>5, <2>1, TakenStays DEF IInv, TypeOK, RowInv, AnswerInv, WonInv, TxSteps
  <2>2. ASSUME NEW q \in Requests \ faulted', pc'[q] = "done"
        PROVE  (\E s \in users : email[s] = email[q] /\ (result[q] = "ok" <=> s = q))'
    BY <1>5, <2>2, WonStays DEF IInv, TypeOK, RowInv, AnswerInv, AnswersAreTrue, WonInv,
       EmailIsWon, TxSteps, EmailTaken
  <2> QED
    BY <2>1, <2>2 DEF WonInv, EmailIsWon, EmailTaken
<1> QED
  BY <1>1, <1>2, <1>3, <1>4, <1>6, <1>7 DEF IInv

LEMMA CommitIInv ==
    ASSUME NEW r \in Requests, Commit(r), IInv
    PROVE  IInv'
<1> USE RegistrationAssumption DEF Commit, Goto, NoFault
<1>1. TypeOK'
  BY DEF IInv, TypeOK, StageInv, Steps, TxSteps, Results
<1>2. StageInv'
  BY DEF IInv, TypeOK, StageInv, TxSteps
<1>3. RowInv'
  BY DEF IInv, TypeOK, StageInv, RowInv, TxSteps
<1>4. UniqueInv'
  BY DEF IInv, TypeOK, StageInv, RowInv, UniqueInv, HasRow, TxSteps
<1>5. users \subseteq users' /\ \A s \in users : email'[s] = email[s]
  BY DEF IInv, TypeOK, RowInv
<1>6. AnswerInv'
  BY <1>5, TakenStays DEF IInv, TypeOK, RowInv, AnswerInv, AnswersAreTrue, TxSteps
<1>7. WonInv'
  <2>1. ASSUME NEW q \in Requests \ faulted', pc'[q] = "rollback"
        PROVE  result'[q] # "ok" /\ EmailTaken(email[q])' /\ email'[q] = email[q]
    BY <1>5, <2>1, TakenStays DEF IInv, TypeOK, RowInv, AnswerInv, WonInv, TxSteps
  <2>2. ASSUME NEW q \in Requests \ faulted', pc'[q] = "done"
        PROVE  (\E s \in users : email[s] = email[q] /\ (result[q] = "ok" <=> s = q))'
    BY <1>5, <2>2, WonStays DEF IInv, TypeOK, RowInv, AnswerInv, AnswersAreTrue, WonInv,
       EmailIsWon, TxSteps, EmailTaken
  <2> QED
    BY <2>1, <2>2 DEF WonInv, EmailIsWon, EmailTaken
<1> QED
  BY <1>1, <1>2, <1>3, <1>4, <1>6, <1>7 DEF IInv

LEMMA AcknowledgeIInv ==
    ASSUME NEW r \in Requests, Acknowledge(r), IInv
    PROVE  IInv'
<1> USE RegistrationAssumption DEF Acknowledge, Goto, Return, NoFault
<1>1. TypeOK'
  BY DEF IInv, TypeOK, StageInv, Steps, TxSteps, Results
<1>2. StageInv'
  BY DEF IInv, TypeOK, StageInv, TxSteps
<1>3. RowInv'
  BY DEF IInv, TypeOK, StageInv, RowInv, TxSteps
<1>4. UniqueInv'
  BY DEF IInv, TypeOK, StageInv, RowInv, UniqueInv, HasRow, TxSteps
<1>5. users \subseteq users' /\ \A s \in users : email'[s] = email[s]
  BY DEF IInv, TypeOK, RowInv
<1>6. AnswerInv'
  BY <1>5, TakenStays DEF IInv, TypeOK, RowInv, AnswerInv, AnswersAreTrue, TxSteps
<1>7. WonInv'
  <2>1. ASSUME NEW q \in Requests \ faulted', pc'[q] = "rollback"
        PROVE  result'[q] # "ok" /\ EmailTaken(email[q])' /\ email'[q] = email[q]
    BY <1>5, <2>1, TakenStays DEF IInv, TypeOK, RowInv, AnswerInv, WonInv, TxSteps
  <2>2. ASSUME NEW q \in Requests \ faulted', pc'[q] = "done"
        PROVE  (\E s \in users : email[s] = email[q] /\ (result[q] = "ok" <=> s = q))'
    BY <1>5, <2>2, WonStays DEF IInv, TypeOK, RowInv, AnswerInv, AnswersAreTrue, WonInv,
       EmailIsWon, TxSteps, EmailTaken
  <2> QED
    BY <2>1, <2>2 DEF WonInv, EmailIsWon, EmailTaken
<1> QED
  BY <1>1, <1>2, <1>3, <1>4, <1>6, <1>7 DEF IInv

LEMMA RollbackIInv ==
    ASSUME NEW r \in Requests, Rollback(r), IInv
    PROVE  IInv'
<1> USE RegistrationAssumption DEF Rollback, Goto, NoFault
<1>1. TypeOK'
  BY DEF IInv, TypeOK, StageInv, Steps, TxSteps, Results
<1>2. StageInv'
  BY DEF IInv, TypeOK, StageInv, TxSteps
<1>3. RowInv'
  BY DEF IInv, TypeOK, StageInv, RowInv, TxSteps
<1>4. UniqueInv'
  BY DEF IInv, TypeOK, StageInv, RowInv, UniqueInv, HasRow, TxSteps
<1>5. users \subseteq users' /\ \A s \in users : email'[s] = email[s]
  BY DEF IInv, TypeOK, RowInv
<1>6. AnswerInv'
  BY <1>5, TakenStays DEF IInv, TypeOK, RowInv, AnswerInv, AnswersAreTrue, TxSteps
<1>7. WonInv'
  <2>1. ASSUME NEW q \in Requests \ faulted', pc'[q] = "rollback"
        PROVE  result'[q] # "ok" /\ EmailTaken(email[q])' /\ email'[q] = email[q]
    BY <1>5, <2>1, TakenStays DEF IInv, TypeOK, RowInv, AnswerInv, WonInv, TxSteps
  <2>2. ASSUME NEW q \in Requests \ faulted', pc'[q] = "done"
        PROVE  (\E s \in users : email[s] = email[q] /\ (result[q] = "ok" <=> s = q))'
    BY <1>5, <2>2, WonStays DEF IInv, TypeOK, RowInv, AnswerInv, AnswersAreTrue, WonInv,
       EmailIsWon, TxSteps, EmailTaken
  <2> QED
    BY <2>1, <2>2 DEF WonInv, EmailIsWon, EmailTaken
<1> QED
  BY <1>1, <1>2, <1>3, <1>4, <1>6, <1>7 DEF IInv

LEMMA FailIInv ==
    ASSUME NEW r \in Requests, Fail(r), IInv
    PROVE  IInv'
<1> USE RegistrationAssumption DEF Fail, Fault, Goto, Return
<1>1. TypeOK'
  BY DEF IInv, TypeOK, StageInv, Steps, TxSteps, Results
<1>2. StageInv'
  BY DEF IInv, TypeOK, StageInv, TxSteps
<1>3. RowInv'
  BY DEF IInv, TypeOK, StageInv, RowInv, TxSteps
<1>4. UniqueInv'
  BY DEF IInv, TypeOK, StageInv, RowInv, UniqueInv, HasRow, TxSteps
<1>5. users \subseteq users' /\ \A s \in users : email'[s] = email[s]
  BY DEF IInv, TypeOK, RowInv
<1>6. AnswerInv'
  BY <1>5, TakenStays DEF IInv, TypeOK, RowInv, AnswerInv, AnswersAreTrue, TxSteps
<1>7. WonInv'
  <2>1. ASSUME NEW q \in Requests \ faulted', pc'[q] = "rollback"
        PROVE  result'[q] # "ok" /\ EmailTaken(email[q])' /\ email'[q] = email[q]
    BY <1>5, <2>1, TakenStays DEF IInv, TypeOK, RowInv, AnswerInv, WonInv, TxSteps
  <2>2. ASSUME NEW q \in Requests \ faulted', pc'[q] = "done"
        PROVE  (\E s \in users : email[s] = email[q] /\ (result[q] = "ok" <=> s = q))'
    BY <1>5, <2>2, WonStays DEF IInv, TypeOK, RowInv, AnswerInv, AnswersAreTrue, WonInv,
       EmailIsWon, TxSteps, EmailTaken
  <2> QED
    BY <2>1, <2>2 DEF WonInv, EmailIsWon, EmailTaken
<1> QED
  BY <1>1, <1>2, <1>3, <1>4, <1>6, <1>7 DEF IInv

LEMMA CommitUnacknowledgedIInv ==
    ASSUME NEW r \in Requests, CommitUnacknowledged(r), IInv
    PROVE  IInv'
<1> USE RegistrationAssumption DEF CommitUnacknowledged, Fault, Goto, Return
<1>1. TypeOK'
  BY DEF IInv, TypeOK, StageInv, Steps, TxSteps, Results
<1>2. StageInv'
  BY DEF IInv, TypeOK, StageInv, TxSteps
<1>3. RowInv'
  BY DEF IInv, TypeOK, StageInv, RowInv, TxSteps
<1>4. UniqueInv'
  BY DEF IInv, TypeOK, StageInv, RowInv, UniqueInv, HasRow, TxSteps
<1>5. users \subseteq users' /\ \A s \in users : email'[s] = email[s]
  BY DEF IInv, TypeOK, RowInv
<1>6. AnswerInv'
  BY <1>5, TakenStays DEF IInv, TypeOK, RowInv, AnswerInv, AnswersAreTrue, TxSteps
<1>7. WonInv'
  <2>1. ASSUME NEW q \in Requests \ faulted', pc'[q] = "rollback"
        PROVE  result'[q] # "ok" /\ EmailTaken(email[q])' /\ email'[q] = email[q]
    BY <1>5, <2>1, TakenStays DEF IInv, TypeOK, RowInv, AnswerInv, WonInv, TxSteps
  <2>2. ASSUME NEW q \in Requests \ faulted', pc'[q] = "done"
        PROVE  (\E s \in users : email[s] = email[q] /\ (result[q] = "ok" <=> s = q))'
    BY <1>5, <2>2, WonStays DEF IInv, TypeOK, RowInv, AnswerInv, AnswersAreTrue, WonInv,
       EmailIsWon, TxSteps, EmailTaken
  <2> QED
    BY <2>1, <2>2 DEF WonInv, EmailIsWon, EmailTaken
<1> QED
  BY <1>1, <1>2, <1>3, <1>4, <1>6, <1>7 DEF IInv

LEMMA CrashIInv ==
    ASSUME Crash, IInv
    PROVE  IInv'
<1> USE RegistrationAssumption DEF Crash, Fault, InFlight
<1>1. TypeOK'
  BY DEF IInv, TypeOK, StageInv, Steps, TxSteps, Results
<1>2. StageInv'
  BY DEF IInv, TypeOK, StageInv, TxSteps
<1>3. RowInv'
  BY DEF IInv, TypeOK, StageInv, RowInv, TxSteps
<1>4. UniqueInv'
  BY DEF IInv, TypeOK, StageInv, RowInv, UniqueInv, HasRow, TxSteps
<1>5. users \subseteq users' /\ \A s \in users : email'[s] = email[s]
  BY DEF IInv, TypeOK, RowInv
<1>6. AnswerInv'
  BY <1>5, TakenStays DEF IInv, TypeOK, RowInv, AnswerInv, AnswersAreTrue, TxSteps
<1>7. WonInv'
  <2>1. ASSUME NEW q \in Requests \ faulted', pc'[q] = "rollback"
        PROVE  result'[q] # "ok" /\ EmailTaken(email[q])' /\ email'[q] = email[q]
    BY <1>5, <2>1, TakenStays DEF IInv, TypeOK, RowInv, AnswerInv, WonInv, TxSteps
  <2>2. ASSUME NEW q \in Requests \ faulted', pc'[q] = "done"
        PROVE  (\E s \in users : email[s] = email[q] /\ (result[q] = "ok" <=> s = q))'
    BY <1>5, <2>2, WonStays DEF IInv, TypeOK, RowInv, AnswerInv, AnswersAreTrue, WonInv,
       EmailIsWon, TxSteps, EmailTaken
  <2> QED
    BY <2>1, <2>2 DEF WonInv, EmailIsWon, EmailTaken
<1> QED
  BY <1>1, <1>2, <1>3, <1>4, <1>6, <1>7 DEF IInv

LEMMA StutterIInv == IInv /\ UNCHANGED vars => IInv'
BY DEF vars, IInv, TypeOK, StageInv, RowInv, UniqueInv, HasRow, AnswerInv, AnswersAreTrue,
   WonInv, EmailIsWon, EmailTaken

LEMMA NextIInv == IInv /\ [Next]_vars => IInv'
<1> SUFFICES ASSUME IInv, [Next]_vars PROVE IInv'
  OBVIOUS
<1>1. ASSUME NEW r \in Requests, NEW e \in Emails, Arrive(r, e) PROVE IInv'
  BY <1>1, ArriveIInv
<1>2. ASSUME NEW r \in Requests, FindByEmail(r) PROVE IInv'
  BY <1>2, FindByEmailIInv
<1>3. ASSUME NEW r \in Requests, Begin(r) PROVE IInv'
  BY <1>3, BeginIInv
<1>4. ASSUME NEW r \in Requests, CreateUser(r) PROVE IInv'
  BY <1>4, CreateUserIInv
<1>5. ASSUME NEW r \in Requests, DuplicateEmail(r) PROVE IInv'
  BY <1>5, DuplicateEmailIInv
<1>6. ASSUME NEW r \in Requests, CreateWallet(r) PROVE IInv'
  BY <1>6, CreateWalletIInv
<1>7. ASSUME NEW r \in Requests, Commit(r) PROVE IInv'
  BY <1>7, CommitIInv
<1>8. ASSUME NEW r \in Requests, Acknowledge(r) PROVE IInv'
  BY <1>8, AcknowledgeIInv
<1>9. ASSUME NEW r \in Requests, Rollback(r) PROVE IInv'
  BY <1>9, RollbackIInv
<1>10. ASSUME NEW r \in Requests, Fail(r) PROVE IInv'
  BY <1>10, FailIInv
<1>11. ASSUME NEW r \in Requests, CommitUnacknowledged(r) PROVE IInv'
  BY <1>11, CommitUnacknowledgedIInv
<1>12. CASE Crash
  BY <1>12, CrashIInv
<1>13. CASE UNCHANGED vars
  BY <1>13, StutterIInv
<1> QED
  BY <1>1, <1>2, <1>3, <1>4, <1>5, <1>6, <1>7, <1>8, <1>9, <1>10, <1>11, <1>12, <1>13 DEF
     Next, Advance

-----------------------------------------------------------------------------
(* The theorems.                                                             *)

\* The inductive invariant holds in every state.
THEOREM Invariance == Spec => []IInv
<1> QED
  BY InitIInv, NextIInv, PTL DEF Spec

\* Types; only an open database transaction has uncommitted rows, and what it inserted
\* is gone when it ends.
THEOREM TypeCorrect == Spec => []TypeOK
<1>1. IInv => TypeOK
  BY DEF IInv
<1> QED
  BY <1>1, Invariance, PTL

\* No two committed users share an email, however many registrations pass the lookup.
THEOREM EmailsUnique == Spec => []OneUserPerEmail
<1>1. IInv => OneUserPerEmail
  BY DEF IInv, TypeOK, UniqueInv, HasRow, OneUserPerEmail
<1> QED
  BY <1>1, Invariance, PTL

\* No user is ever without its wallet, and no wallet without its user.
THEOREM WalletsExist == Spec => []UsersHaveWallets
<1>1. IInv => UsersHaveWallets
  BY DEF IInv, RowInv, UsersHaveWallets
<1> QED
  BY <1>1, Invariance, PTL

\* Success and conflict are only ever answered when they are so.
THEOREM TrueAnswers == Spec => []AnswersAreTrue
<1>1. IInv => AnswersAreTrue
  BY DEF IInv, AnswerInv
<1> QED
  BY <1>1, Invariance, PTL

\* A registration that no fault hits ends with its email registered, by it or by a rival.
THEOREM EmailWon == Spec => []EmailIsWon
<1>1. IInv => EmailIsWon
  BY DEF IInv, WonInv
<1> QED
  BY <1>1, Invariance, PTL

-----------------------------------------------------------------------------
(* What stands behind EveryRegistrationEnds.                                 *)

\* The next statement of a registration need not wait: Advance(r) can be taken.
CanMove(r) ==
    /\ pc[r] \notin {"idle", "done"}
    /\ pc[r] \in {"find", "begin"} => ConnFree
    /\ pc[r] = "createUser" => ~EmailPending(r)

\* While a registration is under way one of them can move: an INSERT that waits for
\* another's row with its email keeps a connection, yet index and pool together
\* never stop all of them.
NoStandstill ==
    (\E r \in Requests : pc[r] \notin {"idle", "done"}) => \E r \in Requests : CanMove(r)

\* The transaction an INSERT waits for waits for nothing itself: its own INSERT is done.
LEMMA HolderMoves ==
    ASSUME IInv, NEW r \in Requests, pc[r] \in TxSteps \cup {"committed"}
    PROVE  \E s \in Requests : CanMove(s)
<1>1. CASE pc[r] = "createUser" /\ EmailPending(r)
  <2>1. PICK s \in Requests : "user" \in staged[s]
    BY <1>1 DEF EmailPending
  <2>2. pc[s] \in {"createWallet", "commit", "rollback"}
    BY <2>1 DEF IInv, StageInv
  <2> QED
    BY <2>2 DEF CanMove
<1>2. CASE ~(pc[r] = "createUser" /\ EmailPending(r))
  BY <1>2 DEF CanMove, TxSteps
<1> QED
  BY <1>1, <1>2

\* Registrations never wait for each other all at once, however few connections there are.
THEOREM SomeoneMoves == Spec => []NoStandstill
<1>1. IInv => NoStandstill
  <2> SUFFICES ASSUME IInv, NEW q \in Requests, pc[q] \notin {"idle", "done"},
                      ~\E r \in Requests : pc[r] \in TxSteps \cup {"committed"}
               PROVE  CanMove(q)
    BY HolderMoves DEF NoStandstill
  <2>1. {r \in Requests : pc[r] \in TxSteps \cup {"committed"}} = {}
    OBVIOUS
  <2>2. ConnFree
    BY <2>1, FS_EmptySet, RegistrationAssumption DEF ConnFree
  <2> QED
    BY <2>2 DEF CanMove, TxSteps
<1> QED
  BY <1>1, Invariance, PTL

=============================================================================
