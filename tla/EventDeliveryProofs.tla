------------------------ MODULE EventDeliveryProofs ------------------------
(***************************************************************************)
(* AuditComplete, NoticeComplete and FaultsCostLittle for any number of    *)
(* events and faults.                                                      *)
(* What a queue owes an event is one of four: a copy the broker holds, one *)
(* it must requeue, one it dropped, or the row the worker wrote.  No row   *)
(* is ever taken back, so the argument only follows the copies.            *)
(***************************************************************************)
EXTENDS EventDelivery, FiniteSetTheorems, TLAPS

\* Events whose rows the worker of a queue may not give up.
Owed(q, e) ==
    \/ q = "audit_queue"
    \/ q = "notification_queue" /\ Kind[e] \notin {"TRANSFER", "AUDIT"}

Written(q, e) == IF q = "audit_queue" THEN logs[e] > 0 ELSE notices[e]["user"] > 0

\* A worker at the event at hand: it is at the one statement that writes the row, or past
\* it with the row written, or asks for redelivery.
HandInv(q) ==
    hand[q] # NoEvent /\ Owed(q, hand[q]) =>
        \/ step[q] = (IF q = "audit_queue" THEN "log" ELSE "user")
        \/ step[q] = "nack"
        \/ step[q] = "ack" /\ Written(q, hand[q])

\* The broker's side.
CopyInv(q, e) ==
    Owed(q, e) /\ stage[e] = "routed" =>
        Waits(q, e) \/ e \in dropped[q] \/ Written(q, e)

IInv ==
    /\ TypeOK
    /\ \A q \in Queues : HandInv(q)
    /\ \A q \in Queues, e \in Events : CopyInv(q, e)

-----------------------------------------------------------------------------
(* The invariant is inductive: one lemma per action.                         *)

LEMMA InitIInv == Init => IInv
BY EventsAssumption DEF Init, IInv, TypeOK, HandInv, CopyInv, WorkerSteps, SaveSteps, Readers

LEMMA RaiseIInv ==
    ASSUME NEW e \in Events, Raise(e), IInv
    PROVE  IInv'
<1> USE EventsAssumption DEF Raise
<1>1. TypeOK'
  BY DEF IInv, TypeOK, Queues, WorkerSteps, SaveSteps, Readers
<1>2. ASSUME NEW p \in Queues PROVE HandInv(p)'
  <2>1. HandInv(p)
    BY DEF IInv
  <2> QED
    BY <2>1 DEF IInv, TypeOK, HandInv, Owed, Written, Queues, WorkerSteps, SaveSteps, Readers
<1>3. ASSUME NEW p \in Queues, NEW f \in Events PROVE CopyInv(p, f)'
  <2>1. CopyInv(p, f) /\ HandInv(p)
    BY DEF IInv
  <2> QED
    BY <2>1 DEF IInv, TypeOK, HandInv, CopyInv, Owed, Waits, Unsettled, Written, Queues,
       WorkerSteps, SaveSteps, Readers
<1> QED
  BY <1>1, <1>2, <1>3 DEF IInv

LEMMA PublishIInv ==
    ASSUME NEW e \in Events, Publish(e), IInv
    PROVE  IInv'
<1> USE EventsAssumption DEF Publish
<1>1. TypeOK'
  BY DEF IInv, TypeOK, Queues, WorkerSteps, SaveSteps, Readers
<1>2. ASSUME NEW p \in Queues PROVE HandInv(p)'
  <2>1. HandInv(p)
    BY DEF IInv
  <2> QED
    BY <2>1 DEF IInv, TypeOK, HandInv, Owed, Written, Queues, WorkerSteps, SaveSteps, Readers
<1>3. ASSUME NEW p \in Queues, NEW f \in Events PROVE CopyInv(p, f)'
  <2>1. CopyInv(p, f) /\ HandInv(p)
    BY DEF IInv
  <2> QED
    BY <2>1 DEF IInv, TypeOK, HandInv, CopyInv, Owed, Waits, Unsettled, Written, Queues,
       WorkerSteps, SaveSteps, Readers
<1> QED
  BY <1>1, <1>2, <1>3 DEF IInv

LEMMA PublishFailsIInv ==
    ASSUME NEW e \in Events, PublishFails(e), IInv
    PROVE  IInv'
<1> USE EventsAssumption DEF PublishFails
<1>1. TypeOK'
  BY DEF IInv, TypeOK, Queues, WorkerSteps, SaveSteps, Readers
<1>2. ASSUME NEW p \in Queues PROVE HandInv(p)'
  <2>1. HandInv(p)
    BY DEF IInv
  <2> QED
    BY <2>1 DEF IInv, TypeOK, HandInv, Owed, Written, Queues, WorkerSteps, SaveSteps, Readers
<1>3. ASSUME NEW p \in Queues, NEW f \in Events PROVE CopyInv(p, f)'
  <2>1. CopyInv(p, f) /\ HandInv(p)
    BY DEF IInv
  <2> QED
    BY <2>1 DEF IInv, TypeOK, HandInv, CopyInv, Owed, Waits, Unsettled, Written, Queues,
       WorkerSteps, SaveSteps, Readers
<1> QED
  BY <1>1, <1>2, <1>3 DEF IInv

LEMMA AttachIInv ==
    ASSUME NEW q \in Queues, Attach(q), IInv
    PROVE  IInv'
<1> USE EventsAssumption DEF Attach
<1>1. TypeOK'
  BY DEF IInv, TypeOK, Queues, WorkerSteps, SaveSteps, Readers
<1>2. ASSUME NEW p \in Queues PROVE HandInv(p)'
  <2>1. HandInv(p)
    BY DEF IInv
  <2> QED
    BY <2>1 DEF IInv, TypeOK, HandInv, Owed, Written, Queues, WorkerSteps, SaveSteps, Readers
<1>3. ASSUME NEW p \in Queues, NEW f \in Events PROVE CopyInv(p, f)'
  <2>1. CopyInv(p, f) /\ HandInv(p)
    BY DEF IInv
  <2> QED
    BY <2>1 DEF IInv, TypeOK, HandInv, CopyInv, Owed, Waits, Unsettled, Written, Queues,
       WorkerSteps, SaveSteps, Readers
<1> QED
  BY <1>1, <1>2, <1>3 DEF IInv

LEMMA TakeIInv ==
    ASSUME NEW q \in Queues, NEW e \in Events, Take(q, e), IInv
    PROVE  IInv'
<1> USE EventsAssumption DEF Take, FirstStep
<1>1. TypeOK'
  BY DEF IInv, TypeOK, Queues, WorkerSteps, SaveSteps, Readers
<1>2. ASSUME NEW p \in Queues PROVE HandInv(p)'
  <2>1. HandInv(p)
    BY DEF IInv
  <2> QED
    BY <2>1 DEF IInv, TypeOK, HandInv, Owed, Written, Queues, WorkerSteps, SaveSteps, Readers
<1>3. ASSUME NEW p \in Queues, NEW f \in Events PROVE CopyInv(p, f)'
  <2>1. CopyInv(p, f) /\ HandInv(p)
    BY DEF IInv
  <2> QED
    BY <2>1 DEF IInv, TypeOK, HandInv, CopyInv, Owed, Waits, Unsettled, Written, Queues,
       WorkerSteps, SaveSteps, Readers
<1> QED
  BY <1>1, <1>2, <1>3 DEF IInv

\* What an INSERT leaves is of the types of the tables.
LEMMA SavedType ==
    ASSUME TypeOK, NEW q \in Queues, step[q] \in SaveSteps, Saved(q)
    PROVE  logs' \in [Events -> Nat] /\ notices' \in [Events -> [Readers -> Nat]]
<1>1. hand[q] \in Events
  BY DEF TypeOK, SaveSteps, Readers
<1>2. CASE step[q] = "log"
  <2>1. logs' = [logs EXCEPT ![hand[q]] = logs[hand[q]] + 1] /\ notices' = notices
    BY <1>2 DEF Saved
  <2> QED
    BY <1>1, <2>1 DEF TypeOK
<1>3. CASE step[q] # "log"
  <2>1. step[q] \in Readers
    BY <1>3 DEF SaveSteps
  <2> DEFINE row == [notices[hand[q]] EXCEPT ![step[q]] = notices[hand[q]][step[q]] + 1]
  <2>2. notices[hand[q]] \in [Readers -> Nat]
    BY <1>1 DEF TypeOK
  <2>3. row \in [Readers -> Nat]
    BY <2>1, <2>2
  <2>4. notices' = [notices EXCEPT ![hand[q]] = row] /\ logs' = logs
    BY <1>3 DEF Saved
  <2> HIDE DEF row
  <2> QED
    BY <1>1, <2>3, <2>4 DEF TypeOK
<1> QED
  BY <1>2, <1>3

\* An INSERT takes no row back.
LEMMA SavedKeeps ==
    ASSUME TypeOK, NEW q \in Queues, step[q] \in SaveSteps, Saved(q),
           NEW p \in Queues, NEW f \in Events, Written(p, f)
    PROVE  Written(p, f)'
<1>1. hand[q] \in Events /\ logs[f] \in Nat
  BY DEF TypeOK, SaveSteps, Readers
<1>2. CASE step[q] = "log"
  <2>1. logs' = [logs EXCEPT ![hand[q]] = logs[hand[q]] + 1] /\ notices' = notices
    BY <1>2 DEF Saved
  <2>2. logs'[f] = logs[f] \/ logs'[f] = logs[f] + 1
    BY <1>1, <2>1 DEF TypeOK
  <2> QED
    BY <1>1, <2>1, <2>2 DEF Written
<1>3. CASE step[q] # "log"
  <2>1. step[q] \in Readers
    BY <1>3 DEF SaveSteps
  <2>2. notices[hand[q]] \in [Readers -> Nat] /\ notices[f] \in [Readers -> Nat]
    BY <1>1 DEF TypeOK
  <2>3. notices'[f]["user"] = notices[f]["user"] \/ notices'[f]["user"] = notices[f]["user"] + 1
    <3> DEFINE row == [notices[hand[q]] EXCEPT ![step[q]] = notices[hand[q]][step[q]] + 1]
    <3>1. notices' = [notices EXCEPT ![hand[q]] = row]
      BY <1>3 DEF Saved
    <3>2. row["user"] = notices[hand[q]]["user"] \/ row["user"] = notices[hand[q]]["user"] + 1
      BY <2>1, <2>2 DEF Readers
    <3> HIDE DEF row
    <3> QED
      BY <1>1, <3>1, <3>2 DEF TypeOK
  <2>4. logs' = logs
    BY <1>3 DEF Saved
  <2> QED
    BY <2>2, <2>3, <2>4 DEF Written, Readers
<1> QED
  BY <1>2, <1>3

\* An INSERT for an event that is owed its row writes it.
LEMMA SavedWrites ==
    ASSUME TypeOK, NEW q \in Queues, Saved(q), UNCHANGED hand,
           step[q] = (IF q = "audit_queue" THEN "log" ELSE "user")
    PROVE  Written(q, hand[q])'
<1>1. hand[q] \in Events
  BY DEF TypeOK
<1>2. logs[hand[q]] \in Nat /\ notices[hand[q]] \in [Readers -> Nat]
  BY <1>1 DEF TypeOK
<1>3. CASE q = "audit_queue"
  <2>1. logs'[hand[q]] = logs[hand[q]] + 1
    BY <1>1, <1>3 DEF Saved, TypeOK
  <2> QED
    BY <1>2, <1>3, <2>1 DEF Written
<1>4. CASE q # "audit_queue"
  <2>1. notices'[hand[q]]["user"] = notices[hand[q]]["user"] + 1
    <3> DEFINE row == [notices[hand[q]] EXCEPT !["user"] = notices[hand[q]]["user"] + 1]
    <3>1. notices' = [notices EXCEPT ![hand[q]] = row]
      BY <1>4 DEF Saved
    <3>2. row["user"] = notices[hand[q]]["user"] + 1
      BY <1>2 DEF Readers
    <3> HIDE DEF row
    <3> QED
      BY <1>1, <3>1, <3>2 DEF TypeOK
  <2> QED
    BY <1>2, <1>4, <2>1 DEF Written, Readers
<1> QED
  BY <1>3, <1>4

LEMMA SaveIInv ==
    ASSUME NEW q \in Queues, Save(q), IInv
    PROVE  IInv'
<1> USE EventsAssumption DEF Save, AfterSuccess
<1>1. TypeOK'
  <2>1. hand[q] \in Events /\ step[q] \in SaveSteps
    BY DEF IInv, TypeOK, SaveSteps, Readers
  <2>2. logs' \in [Events -> Nat] /\ notices' \in [Events -> [Readers -> Nat]]
    BY <2>1, SavedType DEF IInv
  <2>3. step' \in [Queues -> WorkerSteps] /\ (\A p \in Queues : hand'[p] = NoEvent <=> step'[p] = "idle")
    BY <2>1 DEF IInv, TypeOK, WorkerSteps, SaveSteps, Readers
  <2> QED
    BY <2>2, <2>3 DEF IInv, TypeOK
<1>2. ASSUME NEW p \in Queues PROVE HandInv(p)'
  <2>1. HandInv(p)
    BY DEF IInv
  <2>2. hand[p] \in Events /\ Written(p, hand[p]) => Written(p, hand[p])'
    BY SavedKeeps DEF IInv
  <2>3. CASE p = q
    BY <2>1, <2>3, SavedWrites DEF IInv, TypeOK, HandInv, Owed, SaveSteps, Readers, Queues
  <2>4. CASE p # q
    BY <2>1, <2>2, <2>4 DEF IInv, TypeOK, HandInv, Owed
  <2> QED
    BY <2>3, <2>4
<1>3. ASSUME NEW p \in Queues, NEW f \in Events PROVE CopyInv(p, f)'
  <2>1. CopyInv(p, f)
    BY DEF IInv
  <2>2. Written(p, f) => Written(p, f)'
    BY SavedKeeps DEF IInv
  <2> QED
    BY <2>1, <2>2 DEF CopyInv, Owed, Waits, Unsettled
<1> QED
  BY <1>1, <1>2, <1>3 DEF IInv

LEMMA SaveFailsIInv ==
    ASSUME NEW q \in Queues, SaveFails(q), IInv
    PROVE  IInv'
<1> USE EventsAssumption DEF SaveFails, Fault, AfterError
<1>1. TypeOK'
  <2>1. hand[q] \in Events /\ step[q] \in SaveSteps
    BY DEF IInv, TypeOK, SaveSteps, Readers
  <2>2. logs' \in [Events -> Nat] /\ notices' \in [Events -> [Readers -> Nat]]
    <3>1. CASE UNCHANGED <<notices, logs>>
      BY <3>1 DEF IInv, TypeOK
    <3>2. CASE Saved(q)
      BY <2>1, <3>2, SavedType DEF IInv
    <3> QED
      BY <3>1, <3>2
  <2>3. step' \in [Queues -> WorkerSteps] /\ (\A p \in Queues : hand'[p] = NoEvent <=> step'[p] = "idle")
    BY <2>1 DEF IInv, TypeOK, WorkerSteps, SaveSteps, Readers
  <2> QED
    BY <2>2, <2>3 DEF IInv, TypeOK
<1>2. ASSUME NEW p \in Queues PROVE HandInv(p)'
  <2>1. HandInv(p)
    BY DEF IInv
  <2>2. hand[p] \in Events /\ Written(p, hand[p]) => Written(p, hand[p])'
    BY SavedKeeps DEF IInv, Written
  <2>3. CASE p = q
    BY <2>1, <2>3 DEF IInv, TypeOK, HandInv, Owed, SaveSteps, Readers, Queues
  <2>4. CASE p # q
    BY <2>1, <2>2, <2>4 DEF IInv, TypeOK, HandInv, Owed
  <2> QED
    BY <2>3, <2>4
<1>3. ASSUME NEW p \in Queues, NEW f \in Events PROVE CopyInv(p, f)'
  <2>1. CopyInv(p, f)
    BY DEF IInv
  <2>2. Written(p, f) => Written(p, f)'
    BY SavedKeeps DEF IInv, Written
  <2> QED
    BY <2>1, <2>2 DEF CopyInv, Owed, Waits, Unsettled
<1> QED
  BY <1>1, <1>2, <1>3 DEF IInv

LEMMA LookupIInv ==
    ASSUME NEW q \in Queues, Lookup(q), IInv
    PROVE  IInv'
<1> USE EventsAssumption DEF Lookup, AfterSuccess
<1>1. TypeOK'
  BY DEF IInv, TypeOK, Queues, WorkerSteps, SaveSteps, Readers
<1>2. ASSUME NEW p \in Queues PROVE HandInv(p)'
  <2>1. HandInv(p)
    BY DEF IInv
  <2> QED
    BY <2>1 DEF IInv, TypeOK, HandInv, Owed, Written, Queues, WorkerSteps, SaveSteps, Readers
<1>3. ASSUME NEW p \in Queues, NEW f \in Events PROVE CopyInv(p, f)'
  <2>1. CopyInv(p, f) /\ HandInv(p)
    BY DEF IInv
  <2> QED
    BY <2>1 DEF IInv, TypeOK, HandInv, CopyInv, Owed, Waits, Unsettled, Written, Queues,
       WorkerSteps, SaveSteps, Readers
<1> QED
  BY <1>1, <1>2, <1>3 DEF IInv

LEMMA LookupFailsIInv ==
    ASSUME NEW q \in Queues, LookupFails(q), IInv
    PROVE  IInv'
<1> USE EventsAssumption DEF LookupFails, Fault, AfterError
<1>1. TypeOK'
  BY DEF IInv, TypeOK, Queues, WorkerSteps, SaveSteps, Readers
<1>2. ASSUME NEW p \in Queues PROVE HandInv(p)'
  <2>1. HandInv(p)
    BY DEF IInv
  <2> QED
    BY <2>1 DEF IInv, TypeOK, HandInv, Owed, Written, Queues, WorkerSteps, SaveSteps, Readers
<1>3. ASSUME NEW p \in Queues, NEW f \in Events PROVE CopyInv(p, f)'
  <2>1. CopyInv(p, f) /\ HandInv(p)
    BY DEF IInv
  <2> QED
    BY <2>1 DEF IInv, TypeOK, HandInv, CopyInv, Owed, Waits, Unsettled, Written, Queues,
       WorkerSteps, SaveSteps, Readers
<1> QED
  BY <1>1, <1>2, <1>3 DEF IInv

LEMMA SettleIInv ==
    ASSUME NEW q \in Queues, Settle(q), IInv
    PROVE  IInv'
<1> USE EventsAssumption DEF Settle
<1>1. TypeOK'
  BY DEF IInv, TypeOK, Queues, WorkerSteps, SaveSteps, Readers
<1>2. ASSUME NEW p \in Queues PROVE HandInv(p)'
  <2>1. HandInv(p)
    BY DEF IInv
  <2> QED
    BY <2>1 DEF IInv, TypeOK, HandInv, Owed, Written, Queues, WorkerSteps, SaveSteps, Readers
<1>3. ASSUME NEW p \in Queues, NEW f \in Events PROVE CopyInv(p, f)'
  <2>1. CopyInv(p, f) /\ HandInv(p)
    BY DEF IInv
  <2> QED
    BY <2>1 DEF IInv, TypeOK, HandInv, CopyInv, Owed, Waits, Unsettled, Written, Queues,
       WorkerSteps, SaveSteps, Readers
<1> QED
  BY <1>1, <1>2, <1>3 DEF IInv

LEMMA DisconnectIInv ==
    ASSUME Disconnect, IInv
    PROVE  IInv'
<1> USE EventsAssumption DEF Disconnect, Fault, Requeued, Detached
<1>1. TypeOK'
  BY DEF IInv, TypeOK, Queues, WorkerSteps, SaveSteps, Readers
<1>2. ASSUME NEW p \in Queues PROVE HandInv(p)'
  <2>1. HandInv(p)
    BY DEF IInv
  <2> QED
    BY <2>1 DEF IInv, TypeOK, HandInv, Owed, Written, Queues, WorkerSteps, SaveSteps, Readers
<1>3. ASSUME NEW p \in Queues, NEW f \in Events PROVE CopyInv(p, f)'
  <2>1. CopyInv(p, f) /\ HandInv(p)
    BY DEF IInv
  <2> QED
    BY <2>1 DEF IInv, TypeOK, HandInv, CopyInv, Owed, Waits, Unsettled, Written, Queues,
       WorkerSteps, SaveSteps, Readers
<1> QED
  BY <1>1, <1>2, <1>3 DEF IInv

LEMMA BrokerRestartIInv ==
    ASSUME BrokerRestart, IInv
    PROVE  IInv'
<1> USE EventsAssumption DEF BrokerRestart, Fault, Detached
<1>1. TypeOK'
  <2>1. queued' \in [Queues -> [Events -> Nat]]
    OBVIOUS
  <2>2. dropped' \in [Queues -> SUBSET Events]
    <3>1. \A p \in Queues : Unsettled(p) \subseteq Events
      BY DEF IInv, TypeOK, Unsettled
    <3> QED
      BY <3>1 DEF IInv, TypeOK
  <2> QED
    BY <2>1, <2>2 DEF IInv, TypeOK
<1>2. ASSUME NEW p \in Queues PROVE HandInv(p)'
  <2>1. HandInv(p)
    BY DEF IInv
  <2> QED
    BY <2>1 DEF IInv, TypeOK, HandInv, Owed, Written, Queues, WorkerSteps, SaveSteps, Readers
<1>3. ASSUME NEW p \in Queues, NEW f \in Events PROVE CopyInv(p, f)'
  <2>1. CopyInv(p, f) /\ HandInv(p)
    BY DEF IInv
  <2> QED
    BY <2>1 DEF IInv, TypeOK, HandInv, CopyInv, Owed, Waits, Unsettled, Written, Queues,
       WorkerSteps, SaveSteps, Readers
<1> QED
  BY <1>1, <1>2, <1>3 DEF IInv

LEMMA CrashIInv ==
    ASSUME Crash, IInv
    PROVE  IInv'
<1> USE EventsAssumption DEF Crash, Fault, Requeued, Detached
<1>1. TypeOK'
  BY DEF IInv, TypeOK, Queues, WorkerSteps, SaveSteps, Readers
<1>2. ASSUME NEW p \in Queues PROVE HandInv(p)'
  <2>1. HandInv(p)
    BY DEF IInv
  <2> QED
    BY <2>1 DEF IInv, TypeOK, HandInv, Owed, Written, Queues, WorkerSteps, SaveSteps, Readers
<1>3. ASSUME NEW p \in Queues, NEW f \in Events PROVE CopyInv(p, f)'
  <2>1. CopyInv(p, f) /\ HandInv(p)
    BY DEF IInv
  <2> QED
    BY <2>1 DEF IInv, TypeOK, HandInv, CopyInv, Owed, Waits, Unsettled, Written, Queues,
       WorkerSteps, SaveSteps, Readers
<1> QED
  BY <1>1, <1>2, <1>3 DEF IInv

LEMMA StutterIInv ==
    ASSUME UNCHANGED vars, IInv
    PROVE  IInv'
BY DEF vars, IInv, TypeOK, HandInv, CopyInv, Owed, Waits, Unsettled, Written

LEMMA NextIInv ==
    ASSUME [Next]_vars, IInv
    PROVE  IInv'
<1>1. ASSUME NEW e \in Events, Raise(e) PROVE IInv'
  BY <1>1, RaiseIInv
<1>2. ASSUME NEW e \in Events, Publish(e) PROVE IInv'
  BY <1>2, PublishIInv
<1>3. ASSUME NEW e \in Events, PublishFails(e) PROVE IInv'
  BY <1>3, PublishFailsIInv
<1>4. ASSUME NEW q \in Queues, Attach(q) PROVE IInv'
  BY <1>4, AttachIInv
<1>5. ASSUME NEW q \in Queues, NEW e \in Events, Take(q, e) PROVE IInv'
  BY <1>5, TakeIInv
<1>6. ASSUME NEW q \in Queues, Save(q) PROVE IInv'
  BY <1>6, SaveIInv
<1>7. ASSUME NEW q \in Queues, SaveFails(q) PROVE IInv'
  BY <1>7, SaveFailsIInv
<1>8. ASSUME NEW q \in Queues, Lookup(q) PROVE IInv'
  BY <1>8, LookupIInv
<1>9. ASSUME NEW q \in Queues, LookupFails(q) PROVE IInv'
  BY <1>9, LookupFailsIInv
<1>10. ASSUME NEW q \in Queues, Settle(q) PROVE IInv'
  BY <1>10, SettleIInv
<1>11. CASE Disconnect
  BY <1>11, DisconnectIInv
<1>12. CASE BrokerRestart
  BY <1>12, BrokerRestartIInv
<1>13. CASE Crash
  BY <1>13, CrashIInv
<1>14. CASE UNCHANGED vars
  BY <1>14, StutterIInv
<1> QED
  BY <1>1, <1>2, <1>3, <1>4, <1>5, <1>6, <1>7, <1>8, <1>9, <1>10, <1>11, <1>12, <1>13, <1>14
     DEF Next, Work

-----------------------------------------------------------------------------

\* IInv holds in every reachable state.
THEOREM Invariance == Spec => []IInv
BY InitIInv, NextIInv, PTL DEF Spec

\* The types are kept (TypeOK).
THEOREM TypeCorrect == Spec => []TypeOK
<1>1. IInv => TypeOK
  BY DEF IInv
<1> QED
  BY <1>1, Invariance, PTL

\* No audit log is lost between the broker and its table (AuditComplete).
THEOREM AuditKept == Spec => []AuditComplete
<1>1. IInv => AuditComplete
  BY DEF IInv, CopyInv, Owed, Written, AuditComplete, Handled, Queues
<1> QED
  BY <1>1, Invariance, PTL

\* Nor the notification of an event with one reader (NoticeComplete).
THEOREM NoticeKept == Spec => []NoticeComplete
<1>1. IInv => NoticeComplete
  BY DEF IInv, CopyInv, Owed, Written, NoticeComplete, Handled, Queues
<1> QED
  BY <1>1, Invariance, PTL

-----------------------------------------------------------------------------
(* What faults cost.  Every row an event may still get has a cause that can  *)
(* be counted: its publishing to come, a copy in the queue, the copy at hand *)
(* before the row's statement or about to go back.  Only a fault adds one.   *)

\* The queue whose worker writes a row.
Home(row) == IF row = "log" THEN "audit_queue" ELSE "notification_queue"

Count(row, e) == IF row = "log" THEN logs[e] ELSE notices[e][row]

\* Steps from which a worker reaches the statement of a row.
Before(row) == IF row = "receiver" THEN {"sender", "lookup", "receiver"} ELSE {row}

AtHand(row, e) ==
    LET q == Home(row) IN
    IF hand[q] = e /\ (step[q] \in Before(row) \/ (step[q] = "nack" /\ attached[q]))
      THEN 1 ELSE 0

ToPublish(e) == IF stage[e] \in {"none", "publishing"} THEN 1 ELSE 0

DebtInv(row, e) ==
    Count(row, e) + queued[Home(row)][e] + AtHand(row, e) + ToPublish(e) <= 1 + faults

\* Each worker runs the statements of its own handler.
StepInv(q) ==
    /\ q = "audit_queue" => step[q] \in {"idle", "log", "ack", "nack"}
    /\ q = "notification_queue" => step[q] # "log"
    /\ q = "analytics_queue" => step[q] \in {"idle", "ack"}

Missing(row, e) == IF notices[e][row] = 0 THEN 1 ELSE 0
Lost(e) == Missing("sender", e) + Missing("receiver", e)

\* A transfer's event at hand, and with the broker: behind each statement that left no
\* notification there is a fault.
LossInv(e) ==
    Kind[e] = "TRANSFER" =>
        /\ hand["notification_queue"] = e =>
              /\ step["notification_queue"] \in {"sender", "lookup", "receiver", "ack", "nack"}
              /\ step["notification_queue"] \in {"lookup", "receiver"} =>
                    Missing("sender", e) <= faults
              /\ step["notification_queue"] = "ack" => Lost(e) <= faults
        /\ stage[e] = "routed" =>
              \/ Waits("notification_queue", e)
              \/ e \in dropped["notification_queue"]
              \/ Lost(e) <= faults

CostInv ==
    /\ \A q \in Queues : StepInv(q)
    /\ \A row \in SaveSteps, e \in Events : DebtInv(row, e)
    /\ \A e \in Events : LossInv(e)

LEMMA CountNat ==
    ASSUME TypeOK, NEW row \in SaveSteps, NEW e \in Events
    PROVE  Count(row, e) \in Nat
BY DEF TypeOK, Count, SaveSteps, Readers

LEMMA InitCost == Init => CostInv
<1> SUFFICES ASSUME Init PROVE CostInv
  OBVIOUS
<1> USE EventsAssumption DEF Init
<1>1. \A q \in Queues : StepInv(q)
  BY DEF StepInv
<1>2. ASSUME NEW row \in SaveSteps, NEW e \in Events PROVE DebtInv(row, e)
  <2>1. Home(row) \in Queues /\ hand[Home(row)] # e
    BY DEF Home, Queues
  <2>2. Count(row, e) = 0 /\ queued[Home(row)][e] = 0 /\ AtHand(row, e) = 0 /\ ToPublish(e) = 1
    BY <2>1 DEF Count, AtHand, ToPublish, SaveSteps
  <2> QED
    BY <2>2 DEF DebtInv
<1>3. \A e \in Events : LossInv(e)
  BY DEF LossInv, Queues
<1> QED
  BY <1>1, <1>2, <1>3 DEF CostInv

\* An INSERT adds one to one row of one event.
LEMMA SavedCounts ==
    ASSUME TypeOK, NEW q \in Queues, step[q] \in SaveSteps, Saved(q),
           NEW row \in SaveSteps, NEW e \in Events
    PROVE  Count(row, e)' = Count(row, e) + (IF row = step[q] /\ e = hand[q] THEN 1 ELSE 0)
<1>1. hand[q] \in Events
  BY DEF TypeOK, SaveSteps, Readers
<1>2. CASE step[q] = "log"
  <2>1. logs' = [logs EXCEPT ![hand[q]] = logs[hand[q]] + 1] /\ notices' = notices
    BY <1>2 DEF Saved
  <2>2. logs'[e] = logs[e] + (IF e = hand[q] THEN 1 ELSE 0)
    BY <1>1, <2>1 DEF TypeOK
  <2>3. row # "log" => notices[e][row] \in Nat
    BY DEF TypeOK, SaveSteps
  <2> QED
    BY <1>2, <2>1, <2>2, <2>3 DEF Count
<1>3. CASE step[q] # "log"
  <2>1. step[q] \in Readers
    BY <1>3 DEF SaveSteps
  <2>2. notices[hand[q]] \in [Readers -> Nat] /\ notices[e] \in [Readers -> Nat] /\ logs[e] \in Nat
    BY <1>1 DEF TypeOK
  <2> DEFINE new == [notices[hand[q]] EXCEPT ![step[q]] = notices[hand[q]][step[q]] + 1]
  <2>3. notices' = [notices EXCEPT ![hand[q]] = new] /\ logs' = logs
    BY <1>3 DEF Saved
  <2>4. row # "log" => new[row] = notices[hand[q]][row] + (IF row = step[q] THEN 1 ELSE 0)
    BY <2>1, <2>2 DEF SaveSteps
  <2> HIDE DEF new
  <2>5. notices'[e] = (IF e = hand[q] THEN new ELSE notices[e])
    BY <1>1, <2>3 DEF TypeOK
  <2>6. CASE row = "log"
    BY <1>3, <2>2, <2>3, <2>6 DEF Count
  <2>7. CASE row # "log"
    <3>1. row \in Readers
      BY <2>7 DEF SaveSteps
    <3>2. CASE e = hand[q]
      BY <2>4, <2>5, <2>7, <3>2 DEF Count
    <3>3. CASE e # hand[q]
      BY <2>2, <2>5, <2>7, <3>1, <3>3 DEF Count
    <3> QED
      BY <3>2, <3>3
  <2> QED
    BY <2>6, <2>7
<1> QED
  BY <1>2, <1>3

LEMMA RaiseCost ==
    ASSUME NEW e \in Events, Raise(e), IInv, IInv', CostInv
    PROVE  CostInv'
<1> USE EventsAssumption DEF Raise
<1>1. TypeOK /\ TypeOK'
  BY DEF IInv
<1>2. ASSUME NEW p \in Queues PROVE StepInv(p)'
  <2>1. StepInv(p)
    BY DEF CostInv
  <2> QED
    BY <1>1, <2>1 DEF StepInv, TypeOK, Queues
<1>3. ASSUME NEW row \in SaveSteps, NEW f \in Events PROVE DebtInv(row, f)'
  <2>1. DebtInv(row, f) /\ Home(row) \in Queues /\ StepInv(Home(row))
    BY DEF CostInv, Home, Queues
  <2>2. Count(row, f) \in Nat /\ Count(row, f)' = Count(row, f)
    BY <1>1, CountNat DEF Count
  <2>3. queued[Home(row)][f] \in Nat /\ faults \in Nat
    BY <1>1, <2>1 DEF TypeOK
  <2> QED
    BY <1>1, <2>1, <2>2, <2>3 DEF DebtInv, AtHand, ToPublish, TypeOK, Before, StepInv
<1>4. ASSUME NEW f \in Events PROVE LossInv(f)'
  <2>1. LossInv(f) /\ "notification_queue" \in Queues
    BY DEF CostInv, Queues
  <2>2. /\ Missing("sender", f) \in {0, 1} /\ Missing("receiver", f) \in {0, 1}
        /\ Missing("sender", f)' = Missing("sender", f)
        /\ Missing("receiver", f)' = Missing("receiver", f)
    BY DEF Missing
  <2> QED
    BY <1>1, <2>1, <2>2 DEF LossInv, Lost, Waits, Unsettled, TypeOK
<1> QED
  BY <1>2, <1>3, <1>4 DEF CostInv

LEMMA PublishCost ==
    ASSUME NEW e \in Events, Publish(e), IInv, IInv', CostInv
    PROVE  CostInv'
<1> USE EventsAssumption DEF Publish
<1>1. TypeOK /\ TypeOK'
  BY DEF IInv
<1>2. ASSUME NEW p \in Queues PROVE StepInv(p)'
  <2>1. StepInv(p)
    BY DEF CostInv
  <2> QED
    BY <1>1, <2>1 DEF StepInv, TypeOK, Queues
<1>3. ASSUME NEW row \in SaveSteps, NEW f \in Events PROVE DebtInv(row, f)'
  <2>1. DebtInv(row, f) /\ Home(row) \in Queues /\ StepInv(Home(row))
    BY DEF CostInv, Home, Queues
  <2>2. Count(row, f) \in Nat /\ Count(row, f)' = Count(row, f)
    BY <1>1, CountNat DEF Count
  <2>3. queued[Home(row)][f] \in Nat /\ faults \in Nat
    BY <1>1, <2>1 DEF TypeOK
  <2> QED
    BY <1>1, <2>1, <2>2, <2>3 DEF DebtInv, AtHand, ToPublish, TypeOK, Before, StepInv
<1>4. ASSUME NEW f \in Events PROVE LossInv(f)'
  <2>1. LossInv(f) /\ "notification_queue" \in Queues
    BY DEF CostInv, Queues
  <2>2. /\ Missing("sender", f) \in {0, 1} /\ Missing("receiver", f) \in {0, 1}
        /\ Missing("sender", f)' = Missing("sender", f)
        /\ Missing("receiver", f)' = Missing("receiver", f)
    BY DEF Missing
  <2> QED
    BY <1>1, <2>1, <2>2 DEF LossInv, Lost, Waits, Unsettled, TypeOK
<1> QED
  BY <1>2, <1>3, <1>4 DEF CostInv

LEMMA PublishFailsCost ==
    ASSUME NEW e \in Events, PublishFails(e), IInv, IInv', CostInv
    PROVE  CostInv'
<1> USE EventsAssumption DEF PublishFails
<1>1. TypeOK /\ TypeOK'
  BY DEF IInv
<1>2. ASSUME NEW p \in Queues PROVE StepInv(p)'
  <2>1. StepInv(p)
    BY DEF CostInv
  <2> QED
    BY <1>1, <2>1 DEF StepInv, TypeOK, Queues
<1>3. ASSUME NEW row \in SaveSteps, NEW f \in Events PROVE DebtInv(row, f)'
  <2>1. DebtInv(row, f) /\ Home(row) \in Queues /\ StepInv(Home(row))
    BY DEF CostInv, Home, Queues
  <2>2. Count(row, f) \in Nat /\ Count(row, f)' = Count(row, f)
    BY <1>1, CountNat DEF Count
  <2>3. queued[Home(row)][f] \in Nat /\ faults \in Nat
    BY <1>1, <2>1 DEF TypeOK
  <2> QED
    BY <1>1, <2>1, <2>2, <2>3 DEF DebtInv, AtHand, ToPublish, TypeOK, Before, StepInv
<1>4. ASSUME NEW f \in Events PROVE LossInv(f)'
  <2>1. LossInv(f) /\ "notification_queue" \in Queues
    BY DEF CostInv, Queues
  <2>2. /\ Missing("sender", f) \in {0, 1} /\ Missing("receiver", f) \in {0, 1}
        /\ Missing("sender", f)' = Missing("sender", f)
        /\ Missing("receiver", f)' = Missing("receiver", f)
    BY DEF Missing
  <2> QED
    BY <1>1, <2>1, <2>2 DEF LossInv, Lost, Waits, Unsettled, TypeOK
<1> QED
  BY <1>2, <1>3, <1>4 DEF CostInv

LEMMA AttachCost ==
    ASSUME NEW q \in Queues, Attach(q), IInv, IInv', CostInv
    PROVE  CostInv'
<1> USE EventsAssumption DEF Attach
<1>1. TypeOK /\ TypeOK'
  BY DEF IInv
<1>2. ASSUME NEW p \in Queues PROVE StepInv(p)'
  <2>1. StepInv(p)
    BY DEF CostInv
  <2> QED
    BY <1>1, <2>1 DEF StepInv, TypeOK, Queues
<1>3. ASSUME NEW row \in SaveSteps, NEW f \in Events PROVE DebtInv(row, f)'
  <2>1. DebtInv(row, f) /\ Home(row) \in Queues /\ StepInv(Home(row))
    BY DEF CostInv, Home, Queues
  <2>2. Count(row, f) \in Nat /\ Count(row, f)' = Count(row, f)
    BY <1>1, CountNat DEF Count
  <2>3. queued[Home(row)][f] \in Nat /\ faults \in Nat
    BY <1>1, <2>1 DEF TypeOK
  <2> QED
    BY <1>1, <2>1, <2>2, <2>3 DEF DebtInv, AtHand, ToPublish, TypeOK, Before, StepInv
<1>4. ASSUME NEW f \in Events PROVE LossInv(f)'
  <2>1. LossInv(f) /\ "notification_queue" \in Queues
    BY DEF CostInv, Queues
  <2>2. /\ Missing("sender", f) \in {0, 1} /\ Missing("receiver", f) \in {0, 1}
        /\ Missing("sender", f)' = Missing("sender", f)
        /\ Missing("receiver", f)' = Missing("receiver", f)
    BY DEF Missing
  <2> QED
    BY <1>1, <2>1, <2>2 DEF LossInv, Lost, Waits, Unsettled, TypeOK
<1> QED
  BY <1>2, <1>3, <1>4 DEF CostInv

LEMMA TakeCost ==
    ASSUME NEW q \in Queues, NEW e \in Events, Take(q, e), IInv, IInv', CostInv
    PROVE  CostInv'
<1> USE EventsAssumption DEF Take, FirstStep
<1>1. TypeOK /\ TypeOK'
  BY DEF IInv
<1>2. ASSUME NEW p \in Queues PROVE StepInv(p)'
  <2>1. StepInv(p)
    BY DEF CostInv
  <2> QED
    BY <1>1, <2>1 DEF StepInv, TypeOK, Queues
<1>3. ASSUME NEW row \in SaveSteps, NEW f \in Events PROVE DebtInv(row, f)'
  <2>1. DebtInv(row, f) /\ Home(row) \in Queues /\ StepInv(Home(row))
    BY DEF CostInv, Home, Queues
  <2>2. Count(row, f) \in Nat /\ Count(row, f)' = Count(row, f)
    BY <1>1, CountNat DEF Count
  <2>3. queued[Home(row)][f] \in Nat /\ faults \in Nat
    BY <1>1, <2>1 DEF TypeOK
  <2> QED
    BY <1>1, <2>1, <2>2, <2>3 DEF DebtInv, AtHand, ToPublish, TypeOK, Before, StepInv
<1>4. ASSUME NEW f \in Events PROVE LossInv(f)'
  <2>1. LossInv(f) /\ "notification_queue" \in Queues
    BY DEF CostInv, Queues
  <2>2. /\ Missing("sender", f) \in {0, 1} /\ Missing("receiver", f) \in {0, 1}
        /\ Missing("sender", f)' = Missing("sender", f)
        /\ Missing("receiver", f)' = Missing("receiver", f)
    BY DEF Missing
  <2> QED
    BY <1>1, <2>1, <2>2 DEF LossInv, Lost, Waits, Unsettled, TypeOK
<1> QED
  BY <1>2, <1>3, <1>4 DEF CostInv

LEMMA LookupCost ==
    ASSUME NEW q \in Queues, Lookup(q), IInv, IInv', CostInv
    PROVE  CostInv'
<1> USE EventsAssumption DEF Lookup, AfterSuccess
<1>1. TypeOK /\ TypeOK'
  BY DEF IInv
<1>2. ASSUME NEW p \in Queues PROVE StepInv(p)'
  <2>1. StepInv(p)
    BY DEF CostInv
  <2> QED
    BY <1>1, <2>1 DEF StepInv, TypeOK, Queues
<1>3. ASSUME NEW row \in SaveSteps, NEW f \in Events PROVE DebtInv(row, f)'
  <2>1. DebtInv(row, f) /\ Home(row) \in Queues /\ StepInv(Home(row))
    BY DEF CostInv, Home, Queues
  <2>2. Count(row, f) \in Nat /\ Count(row, f)' = Count(row, f)
    BY <1>1, CountNat DEF Count
  <2>3. queued[Home(row)][f] \in Nat /\ faults \in Nat
    BY <1>1, <2>1 DEF TypeOK
  <2> QED
    BY <1>1, <2>1, <2>2, <2>3 DEF DebtInv, AtHand, ToPublish, TypeOK, Before, StepInv,
       SaveSteps, Readers
<1>4. ASSUME NEW f \in Events PROVE LossInv(f)'
  <2>1. LossInv(f) /\ "notification_queue" \in Queues
    BY DEF CostInv, Queues
  <2>2. /\ Missing("sender", f) \in {0, 1} /\ Missing("receiver", f) \in {0, 1}
        /\ Missing("sender", f)' = Missing("sender", f)
        /\ Missing("receiver", f)' = Missing("receiver", f)
    BY DEF Missing
  <2> QED
    BY <1>1, <2>1, <2>2 DEF LossInv, Lost, Waits, Unsettled, TypeOK
<1> QED
  BY <1>2, <1>3, <1>4 DEF CostInv

LEMMA LookupFailsCost ==
    ASSUME NEW q \in Queues, LookupFails(q), IInv, IInv', CostInv
    PROVE  CostInv'
<1> USE EventsAssumption DEF LookupFails, Fault, AfterError
<1>1. TypeOK /\ TypeOK'
  BY DEF IInv
<1>2. ASSUME NEW p \in Queues PROVE StepInv(p)'
  <2>1. StepInv(p)
    BY DEF CostInv
  <2> QED
    BY <1>1, <2>1 DEF StepInv, TypeOK, Queues
<1>3. ASSUME NEW row \in SaveSteps, NEW f \in Events PROVE DebtInv(row, f)'
  <2>1. DebtInv(row, f) /\ Home(row) \in Queues /\ StepInv(Home(row))
    BY DEF CostInv, Home, Queues
  <2>2. Count(row, f) \in Nat /\ Count(row, f)' = Count(row, f)
    BY <1>1, CountNat DEF Count
  <2>3. queued[Home(row)][f] \in Nat /\ faults \in Nat
    BY <1>1, <2>1 DEF TypeOK
  <2> QED
    BY <1>1, <2>1, <2>2, <2>3 DEF DebtInv, AtHand, ToPublish, TypeOK, Before, StepInv
<1>4. ASSUME NEW f \in Events PROVE LossInv(f)'
  <2>1. LossInv(f) /\ "notification_queue" \in Queues
    BY DEF CostInv, Queues
  <2>2. /\ Missing("sender", f) \in {0, 1} /\ Missing("receiver", f) \in {0, 1}
        /\ Missing("sender", f)' = Missing("sender", f)
        /\ Missing("receiver", f)' = Missing("receiver", f)
    BY DEF Missing
  <2> QED
    BY <1>1, <2>1, <2>2 DEF LossInv, Lost, Waits, Unsettled, TypeOK
<1> QED
  BY <1>2, <1>3, <1>4 DEF CostInv

LEMMA SettleCost ==
    ASSUME NEW q \in Queues, Settle(q), IInv, IInv', CostInv
    PROVE  CostInv'
<1> USE EventsAssumption DEF Settle
<1>1. TypeOK /\ TypeOK'
  BY DEF IInv
<1>2. ASSUME NEW p \in Queues PROVE StepInv(p)'
  <2>1. StepInv(p)
    BY DEF CostInv
  <2> QED
    BY <1>1, <2>1 DEF StepInv, TypeOK, Queues
<1>3. ASSUME NEW row \in SaveSteps, NEW f \in Events PROVE DebtInv(row, f)'
  <2>1. DebtInv(row, f) /\ Home(row) \in Queues /\ StepInv(Home(row))
    BY DEF CostInv, Home, Queues
  <2>2. Count(row, f) \in Nat /\ Count(row, f)' = Count(row, f)
    BY <1>1, CountNat DEF Count
  <2>3. queued[Home(row)][f] \in Nat /\ faults \in Nat
    BY <1>1, <2>1 DEF TypeOK
  <2> QED
    BY <1>1, <2>1, <2>2, <2>3 DEF DebtInv, AtHand, ToPublish, TypeOK, Before, StepInv
<1>4. ASSUME NEW f \in Events PROVE LossInv(f)'
  <2>1. LossInv(f) /\ "notification_queue" \in Queues
    BY DEF CostInv, Queues
  <2>2. /\ Missing("sender", f) \in {0, 1} /\ Missing("receiver", f) \in {0, 1}
        /\ Missing("sender", f)' = Missing("sender", f)
        /\ Missing("receiver", f)' = Missing("receiver", f)
    BY DEF Missing
  <2> QED
    BY <1>1, <2>1, <2>2 DEF LossInv, Lost, Waits, Unsettled, TypeOK
<1> QED
  BY <1>2, <1>3, <1>4 DEF CostInv

LEMMA DisconnectCost ==
    ASSUME Disconnect, IInv, IInv', CostInv
    PROVE  CostInv'
<1> USE EventsAssumption DEF Disconnect, Fault, Requeued, Detached, Unsettled
<1>1. TypeOK /\ TypeOK'
  BY DEF IInv
<1>2. ASSUME NEW p \in Queues PROVE StepInv(p)'
  <2>1. StepInv(p)
    BY DEF CostInv
  <2> QED
    BY <1>1, <2>1 DEF StepInv, TypeOK, Queues
<1>3. ASSUME NEW row \in SaveSteps, NEW f \in Events PROVE DebtInv(row, f)'
  <2>1. DebtInv(row, f) /\ Home(row) \in Queues /\ StepInv(Home(row))
    BY DEF CostInv, Home, Queues
  <2>2. Count(row, f) \in Nat /\ Count(row, f)' = Count(row, f)
    BY <1>1, CountNat DEF Count
  <2>3. queued[Home(row)][f] \in Nat /\ faults \in Nat
    BY <1>1, <2>1 DEF TypeOK
  <2> QED
    BY <1>1, <2>1, <2>2, <2>3 DEF DebtInv, AtHand, ToPublish, TypeOK, Before, StepInv
<1>4. ASSUME NEW f \in Events PROVE LossInv(f)'
  <2>1. LossInv(f) /\ "notification_queue" \in Queues
    BY DEF CostInv, Queues
  <2>2. /\ Missing("sender", f) \in {0, 1} /\ Missing("receiver", f) \in {0, 1}
        /\ Missing("sender", f)' = Missing("sender", f)
        /\ Missing("receiver", f)' = Missing("receiver", f)
    BY DEF Missing
  <2> QED
    BY <1>1, <2>1, <2>2 DEF LossInv, Lost, Waits, Unsettled, TypeOK
<1> QED
  BY <1>2, <1>3, <1>4 DEF CostInv

LEMMA BrokerRestartCost ==
    ASSUME BrokerRestart, IInv, IInv', CostInv
    PROVE  CostInv'
<1> USE EventsAssumption DEF BrokerRestart, Fault, Detached, Unsettled
<1>1. TypeOK /\ TypeOK'
  BY DEF IInv
<1>2. ASSUME NEW p \in Queues PROVE StepInv(p)'
  <2>1. StepInv(p)
    BY DEF CostInv
  <2> QED
    BY <1>1, <2>1 DEF StepInv, TypeOK, Queues
<1>3. ASSUME NEW row \in SaveSteps, NEW f \in Events PROVE DebtInv(row, f)'
  <2>1. DebtInv(row, f) /\ Home(row) \in Queues /\ StepInv(Home(row))
    BY DEF CostInv, Home, Queues
  <2>2. Count(row, f) \in Nat /\ Count(row, f)' = Count(row, f)
    BY <1>1, CountNat DEF Count
  <2>3. queued[Home(row)][f] \in Nat /\ faults \in Nat
    BY <1>1, <2>1 DEF TypeOK
  <2> QED
    BY <1>1, <2>1, <2>2, <2>3 DEF DebtInv, AtHand, ToPublish, TypeOK, Before, StepInv
<1>4. ASSUME NEW f \in Events PROVE LossInv(f)'
  <2>1. LossInv(f) /\ "notification_queue" \in Queues
    BY DEF CostInv, Queues
  <2>2. /\ Missing("sender", f) \in {0, 1} /\ Missing("receiver", f) \in {0, 1}
        /\ Missing("sender", f)' = Missing("sender", f)
        /\ Missing("receiver", f)' = Missing("receiver", f)
    BY DEF Missing
  <2> QED
    BY <1>1, <2>1, <2>2 DEF LossInv, Lost, Waits, Unsettled, TypeOK
<1> QED
  BY <1>2, <1>3, <1>4 DEF CostInv

LEMMA CrashCost ==
    ASSUME Crash, IInv, IInv', CostInv
    PROVE  CostInv'
<1> USE EventsAssumption DEF Crash, Fault, Requeued, Detached, Unsettled
<1>1. TypeOK /\ TypeOK'
  BY DEF IInv
<1>2. ASSUME NEW p \in Queues PROVE StepInv(p)'
  <2>1. StepInv(p)
    BY DEF CostInv
  <2> QED
    BY <1>1, <2>1 DEF StepInv, TypeOK, Queues
<1>3. ASSUME NEW row \in SaveSteps, NEW f \in Events PROVE DebtInv(row, f)'
  <2>1. DebtInv(row, f) /\ Home(row) \in Queues /\ StepInv(Home(row))
    BY DEF CostInv, Home, Queues
  <2>2. Count(row, f) \in Nat /\ Count(row, f)' = Count(row, f)
    BY <1>1, CountNat DEF Count
  <2>3. queued[Home(row)][f] \in Nat /\ faults \in Nat
    BY <1>1, <2>1 DEF TypeOK
  <2> QED
    BY <1>1, <2>1, <2>2, <2>3 DEF DebtInv, AtHand, ToPublish, TypeOK, Before, StepInv
<1>4. ASSUME NEW f \in Events PROVE LossInv(f)'
  <2>1. LossInv(f) /\ "notification_queue" \in Queues
    BY DEF CostInv, Queues
  <2>2. /\ Missing("sender", f) \in {0, 1} /\ Missing("receiver", f) \in {0, 1}
        /\ Missing("sender", f)' = Missing("sender", f)
        /\ Missing("receiver", f)' = Missing("receiver", f)
    BY DEF Missing
  <2> QED
    BY <1>1, <2>1, <2>2 DEF LossInv, Lost, Waits, Unsettled, TypeOK
<1> QED
  BY <1>2, <1>3, <1>4 DEF CostInv

\* A step of a worker that returns, with or without its INSERT in effect.
LEMMA SaveStepCost ==
    ASSUME IInv, IInv', CostInv, NEW q \in Queues, step[q] \in SaveSteps,
           UNCHANGED <<stage, queued, attached, hand, dropped>>,
           \/ Saved(q) /\ faults' = faults /\ step' = [step EXCEPT ![q] = AfterSuccess[step[q]]]
           \/ /\ Saved(q) \/ UNCHANGED <<notices, logs>>
              /\ faults' = faults + 1
              /\ step' = [step EXCEPT ![q] = AfterError[step[q]]]
    PROVE  CostInv'
<1>1. StepInv(q) /\ hand[q] \in Events /\ TypeOK /\ TypeOK'
  BY DEF IInv, CostInv, TypeOK, SaveSteps, Readers
<1>2. q = (IF step[q] = "log" THEN "audit_queue" ELSE "notification_queue")
  BY <1>1 DEF StepInv, Queues, SaveSteps, Readers
<1>3. ASSUME NEW p \in Queues PROVE StepInv(p)'
  <2>1. StepInv(p)
    BY DEF CostInv
  <2> QED
    BY <1>1, <1>2, <2>1 DEF StepInv, TypeOK, AfterSuccess, AfterError, SaveSteps, Readers
<1>4. ASSUME NEW row \in SaveSteps, NEW e \in Events PROVE DebtInv(row, e)'
  <2> DEFINE h == Home(row)
  <2>1. DebtInv(row, e) /\ h \in Queues
    BY DEF CostInv, Home, Queues
  <2>2. Count(row, e) \in Nat /\ queued[h][e] \in Nat /\ faults \in Nat /\ ToPublish(e) \in Nat
    BY <1>1, <2>1, CountNat, EventsAssumption DEF TypeOK, ToPublish
  <2>3. queued'[h][e] = queued[h][e] /\ ToPublish(e)' = ToPublish(e)
    BY DEF ToPublish
  <2>4. AtHand(row, e) \in {0, 1} /\ AtHand(row, e)' \in {0, 1}
    BY DEF AtHand
  <2>5. CASE Saved(q) /\ faults' = faults /\ step' = [step EXCEPT ![q] = AfterSuccess[step[q]]]
    <3>1. Count(row, e)' = Count(row, e) + (IF row = step[q] /\ e = hand[q] THEN 1 ELSE 0)
      BY <1>1, <2>5, SavedCounts
    <3>2. CASE row = step[q] /\ e = hand[q]
      <4>1. Home(row) = q /\ step'[q] = AfterSuccess[row] /\ hand'[q] = hand[q]
        BY <1>1, <1>2, <2>5, <3>2 DEF Home, TypeOK
      <4>2. step[q] \in Before(row) /\ AfterSuccess[row] \notin Before(row) \cup {"nack"}
        BY <3>2 DEF Before, AfterSuccess, SaveSteps, Readers
      <4>3. AtHand(row, e) = 1
        BY <3>2, <4>1, <4>2 DEF AtHand
      <4>4. AtHand(row, e)' = 0
        BY <4>1, <4>2 DEF AtHand
      <4> QED
        BY <2>1, <2>2, <2>3, <2>5, <3>1, <3>2, <4>3, <4>4 DEF DebtInv
    <3>3. CASE ~(row = step[q] /\ e = hand[q])
      <4>3. AtHand(row, e)' <= AtHand(row, e)
        <5>1. CASE h # q
          <6>1. step'[h] = step[h] /\ hand'[h] = hand[h] /\ attached'[h] = attached[h]
            BY <1>1, <2>1, <2>5, <5>1 DEF TypeOK
          <6>2. AtHand(row, e)' = AtHand(row, e)
            BY <6>1 DEF AtHand
          <6> QED
            BY <2>4, <6>2
        <5>2. CASE h = q
          <6>1. step'[q] = AfterSuccess[step[q]] /\ hand'[q] = hand[q]
            BY <1>1, <2>5 DEF TypeOK
          <6>2. AfterSuccess[step[q]] \in Before(row) => step[q] \in Before(row)
            BY DEF Before, AfterSuccess, SaveSteps, Readers
          <6>3. AfterSuccess[step[q]] # "nack"
            BY DEF AfterSuccess, SaveSteps, Readers
          <6>4. AtHand(row, e)' = 1 => AtHand(row, e) = 1
            BY <5>2, <6>1, <6>2, <6>3 DEF AtHand
          <6> QED
            BY <2>4, <6>4
        <5> QED
          BY <5>1, <5>2
      <4> QED
        BY <2>1, <2>2, <2>3, <2>4, <2>5, <3>1, <3>3, <4>3 DEF DebtInv
    <3> QED
      BY <3>2, <3>3
  <2>6. CASE /\ Saved(q) \/ UNCHANGED <<notices, logs>>
             /\ faults' = faults + 1
             /\ step' = [step EXCEPT ![q] = AfterError[step[q]]]
    <3>1. \/ Count(row, e)' = Count(row, e)
          \/ row = step[q] /\ e = hand[q] /\ Count(row, e)' = Count(row, e) + 1
      <4>1. CASE Saved(q)
        BY <1>1, <2>2, <4>1, SavedCounts
      <4>2. CASE UNCHANGED <<notices, logs>>
        BY <4>2 DEF Count
      <4> QED
        BY <2>6, <4>1, <4>2
    <3>2. row = step[q] /\ e = hand[q] => AtHand(row, e) = 1
      BY <1>1, <1>2 DEF AtHand, Home, Before, SaveSteps, Readers
    <3> QED
      BY <2>1, <2>2, <2>3, <2>4, <2>6, <3>1, <3>2 DEF DebtInv
  <2> QED
    BY <2>5, <2>6
<1>5. ASSUME NEW e \in Events PROVE LossInv(e)'
  <2> DEFINE nq == "notification_queue"
  <2>1. LossInv(e) /\ nq \in Queues /\ faults \in Nat /\ faults' \in Nat /\ faults' >= faults
    BY <1>1, EventsAssumption DEF CostInv, Queues, TypeOK
  <2>2. \A row \in {"sender", "receiver"} :
          /\ notices[e][row] \in Nat
          /\ \/ notices'[e][row] = notices[e][row]
             \/ notices'[e][row] = notices[e][row] + 1
    <3> SUFFICES ASSUME NEW row \in {"sender", "receiver"}
                 PROVE  /\ notices[e][row] \in Nat
                        /\ \/ notices'[e][row] = notices[e][row]
                           \/ notices'[e][row] = notices[e][row] + 1
      OBVIOUS
    <3>1. row \in SaveSteps /\ Count(row, e) = notices[e][row] /\ Count(row, e)' = notices'[e][row]
      BY DEF Count, SaveSteps, Readers
    <3>2. Count(row, e) \in Nat
      BY <1>1, <3>1, CountNat
    <3>3. CASE Saved(q)
      BY <1>1, <3>1, <3>2, <3>3, SavedCounts
    <3>4. CASE UNCHANGED <<notices, logs>>
      BY <3>1, <3>2, <3>4
    <3> QED
      BY <3>1, <3>2, <3>3, <3>4
  <2>3. /\ Missing("sender", e)' <= Missing("sender", e)
        /\ Missing("receiver", e)' <= Missing("receiver", e)
        /\ Missing("sender", e) \in {0, 1} /\ Missing("receiver", e) \in {0, 1}
        /\ Missing("sender", e)' \in {0, 1} /\ Missing("receiver", e)' \in {0, 1}
    BY <2>2 DEF Missing
  <2>4. Waits(nq, e)' <=> Waits(nq, e)
    BY DEF Waits, Unsettled
  <2>5. CASE ~(q = nq /\ hand[q] = e)
    <3>1. hand[nq] = e => step'[nq] = step[nq]
      BY <1>1, <2>1, <2>5 DEF TypeOK
    <3> QED
      BY <2>1, <2>3, <2>4, <3>1 DEF LossInv, Lost
  <2>6. CASE q = nq /\ hand[q] = e /\ Kind[e] = "TRANSFER"
    <3>1. step[q] \in {"sender", "receiver"}
      BY <1>1, <2>1, <2>6 DEF LossInv, SaveSteps, Readers
    <3>2. ASSUME Saved(q), NEW row \in {"sender", "receiver"}, row = step[q]
          PROVE  Missing(row, e)' = 0
      <4>1. row \in SaveSteps /\ Count(row, e) \in Nat
        BY <1>1, CountNat DEF SaveSteps, Readers
      <4>2. Count(row, e)' = Count(row, e) + 1
        BY <1>1, <2>6, <3>2, <4>1, SavedCounts
      <4>3. Count(row, e)' = notices'[e][row]
        BY DEF Count
      <4> QED
        BY <4>1, <4>2, <4>3 DEF Missing
    <3>3. \/ Saved(q) /\ faults' = faults
          \/ faults' = faults + 1
      OBVIOUS
    <3>4. CASE step[q] = "sender"
      <4>1. step'[q] = "lookup" /\ hand'[q] = e
        BY <1>1, <2>6, <3>4 DEF TypeOK, AfterSuccess, AfterError
      <4>2. Saved(q) => Missing("sender", e)' = 0
        BY <3>2, <3>4
      <4> QED
        BY <2>1, <2>3, <2>4, <2>6, <3>3, <4>1, <4>2 DEF LossInv, Lost
    <3>5. CASE step[q] = "receiver"
      <4>1. step'[q] = "ack" /\ hand'[q] = e
        BY <1>1, <2>6, <3>5 DEF TypeOK, AfterSuccess, AfterError
      <4>2. Saved(q) => Missing("receiver", e)' = 0
        BY <3>2, <3>5
      <4>3. Missing("sender", e) <= faults
        BY <2>1, <2>6, <3>5 DEF LossInv
      <4> QED
        BY <2>1, <2>3, <2>4, <2>6, <3>3, <4>1, <4>2, <4>3 DEF LossInv, Lost
    <3> QED
      BY <3>1, <3>4, <3>5
  <2> QED
    BY <2>5, <2>6 DEF LossInv
<1> QED
  BY <1>3, <1>4, <1>5 DEF CostInv

LEMMA SaveCost ==
    ASSUME NEW q \in Queues, Save(q), IInv, IInv', CostInv
    PROVE  CostInv'
BY SaveStepCost DEF Save

LEMMA SaveFailsCost ==
    ASSUME NEW q \in Queues, SaveFails(q), IInv, IInv', CostInv
    PROVE  CostInv'
BY SaveStepCost DEF SaveFails, Fault

LEMMA StutterCost ==
    ASSUME UNCHANGED vars, CostInv
    PROVE  CostInv'
BY DEF vars, CostInv, StepInv, DebtInv, Count, AtHand, ToPublish, LossInv, Missing, Lost,
   Waits, Unsettled

LEMMA NextCost ==
    ASSUME [Next]_vars, IInv, IInv', CostInv
    PROVE  CostInv'
<1>1. ASSUME NEW e \in Events, Raise(e) PROVE CostInv'
  BY <1>1, RaiseCost
<1>2. ASSUME NEW e \in Events, Publish(e) PROVE CostInv'
  BY <1>2, PublishCost
<1>3. ASSUME NEW e \in Events, PublishFails(e) PROVE CostInv'
  BY <1>3, PublishFailsCost
<1>4. ASSUME NEW q \in Queues, Attach(q) PROVE CostInv'
  BY <1>4, AttachCost
<1>5. ASSUME NEW q \in Queues, NEW e \in Events, Take(q, e) PROVE CostInv'
  BY <1>5, TakeCost
<1>6. ASSUME NEW q \in Queues, Save(q) PROVE CostInv'
  BY <1>6, SaveCost
<1>7. ASSUME NEW q \in Queues, SaveFails(q) PROVE CostInv'
  BY <1>7, SaveFailsCost
<1>8. ASSUME NEW q \in Queues, Lookup(q) PROVE CostInv'
  BY <1>8, LookupCost
<1>9. ASSUME NEW q \in Queues, LookupFails(q) PROVE CostInv'
  BY <1>9, LookupFailsCost
<1>10. ASSUME NEW q \in Queues, Settle(q) PROVE CostInv'
  BY <1>10, SettleCost
<1>11. CASE Disconnect
  BY <1>11, DisconnectCost
<1>12. CASE BrokerRestart
  BY <1>12, BrokerRestartCost
<1>13. CASE Crash
  BY <1>13, CrashCost
<1>14. CASE UNCHANGED vars
  BY <1>14, StutterCost
<1> QED
  BY <1>1, <1>2, <1>3, <1>4, <1>5, <1>6, <1>7, <1>8, <1>9, <1>10, <1>11, <1>12, <1>13, <1>14
     DEF Next, Work

\* What FewLosses counts is Lost.
LEMMA LostCounts ==
    ASSUME NEW e \in Events, notices[e]["sender"] \in Nat, notices[e]["receiver"] \in Nat
    PROVE  Cardinality({who \in {"sender", "receiver"} : notices[e][who] = 0}) = Lost(e)
<1> DEFINE S == {who \in {"sender", "receiver"} : notices[e][who] = 0}
<1>1. CASE Missing("sender", e) = 0 /\ Missing("receiver", e) = 0
  <2>1. S = {}
    BY <1>1 DEF Missing
  <2>2. Cardinality({}) = 0
    BY FS_EmptySet
  <2>3. Cardinality(S) = 0
    BY <2>1, <2>2
  <2>4. Lost(e) = 0
    BY <1>1 DEF Lost
  <2> QED
    BY <2>3, <2>4
<1>2. CASE Missing("sender", e) = 1 /\ Missing("receiver", e) = 0
  <2>1. S = {"sender"}
    BY <1>2 DEF Missing
  <2>2. Cardinality({"sender"}) = 1
    BY FS_Singleton
  <2>3. Cardinality(S) = 1
    BY <2>1, <2>2
  <2>4. Lost(e) = 1
    BY <1>2 DEF Lost
  <2> QED
    BY <2>3, <2>4
<1>3. CASE Missing("sender", e) = 0 /\ Missing("receiver", e) = 1
  <2>1. S = {"receiver"}
    BY <1>3 DEF Missing
  <2>2. Cardinality({"receiver"}) = 1
    BY FS_Singleton
  <2>3. Cardinality(S) = 1
    BY <2>1, <2>2
  <2>4. Lost(e) = 1
    BY <1>3 DEF Lost
  <2> QED
    BY <2>3, <2>4
<1>4. CASE Missing("sender", e) = 1 /\ Missing("receiver", e) = 1
  <2>1. S = {"sender"} \cup {"receiver"}
    BY <1>4 DEF Missing
  <2>2. Cardinality({"sender"} \cup {"receiver"}) = 2
    <3>1. IsFiniteSet({"sender"}) /\ Cardinality({"sender"}) = 1
      BY FS_Singleton
    <3>2. Cardinality({"sender"} \cup {"receiver"}) =
            IF "receiver" \in {"sender"} THEN Cardinality({"sender"}) ELSE Cardinality({"sender"}) + 1
      BY <3>1, FS_AddElement, Zenon
    <3> QED
      BY <3>1, <3>2
  <2>3. Cardinality(S) = 2
    BY <2>1, <2>2
  <2>4. Lost(e) = 2
    BY <1>4 DEF Lost
  <2> QED
    BY <2>3, <2>4
<1> QED
  BY <1>1, <1>2, <1>3, <1>4 DEF Missing

\* A fault costs at most one duplicate of a row and one of a transfer's two notifications
\* (FaultsCostLittle), for any number of events and faults.
THEOREM CostBounded == Spec => []FaultsCostLittle
<1>1. Spec => []CostInv
  BY Invariance, InitCost, NextCost, PTL DEF Spec
<1>2. ASSUME IInv, CostInv PROVE FaultsCostLittle
  <2> USE EventsAssumption
  <2>1. TypeOK
    BY <1>2 DEF IInv
  <2>2. ASSUME NEW e \in Events, NEW row \in SaveSteps PROVE Count(row, e) <= 1 + faults
    <3>1. DebtInv(row, e) /\ Home(row) \in Queues /\ Count(row, e) \in Nat
      BY <1>2, <2>1, CountNat DEF CostInv, Home, Queues
    <3>2. queued[Home(row)][e] \in Nat /\ faults \in Nat
      BY <2>1, <3>1 DEF TypeOK
    <3>3. AtHand(row, e) \in {0, 1} /\ ToPublish(e) \in {0, 1}
      BY DEF AtHand, ToPublish
    <3> QED
      BY <3>1, <3>2, <3>3 DEF DebtInv
  <2>3. FewDuplicates
    BY <2>2 DEF FewDuplicates, Count, SaveSteps, Readers
  <2>4. FewLosses
    <3> SUFFICES ASSUME NEW e \in Events, Handled("notification_queue", e), Kind[e] = "TRANSFER"
                 PROVE  Cardinality({who \in {"sender", "receiver"} : notices[e][who] = 0}) <= faults
      BY DEF FewLosses
    <3>1. notices[e]["sender"] \in Nat /\ notices[e]["receiver"] \in Nat
      BY <2>1 DEF TypeOK, Readers
    <3>2. Lost(e) <= faults
      BY <1>2 DEF CostInv, LossInv, Handled
    <3> QED
      BY <3>1, <3>2, LostCounts
  <2> QED
    BY <2>3, <2>4 DEF FaultsCostLittle
<1> QED
  BY <1>1, <1>2, Invariance, PTL
=============================================================================
