--------------------------- MODULE EventDelivery ---------------------------
(***************************************************************************)
(* From a successful request to what its event leaves behind: the          *)
(* publishing goroutines, the wallet_events exchange and its three queues, *)
(* and the workers of internal/worker, which acknowledge by hand.          *)
(*                                                                         *)
(* A queue is a bag: RabbitMQ requeues into the order it had, but with no  *)
(* prefetch limit what is requeued overtakes nothing already pushed, so    *)
(* the model fixes no order.  A message pushed to a worker and not yet     *)
(* taken counts as queued: it is, once the channel closes.                 *)
(***************************************************************************)
EXTENDS Naturals, FiniteSets

CONSTANTS
    Events,     \* one per publishing goroutine
    Kind,       \* the event_type of an event
    NoEvent,
    MaxFaults   \* bound on failing saves, disconnections, restarts and crashes

EventKinds == {"REGISTER", "LOGIN", "TOPUP", "TRANSFER", "AUDIT"}

ASSUME EventsAssumption ==
    /\ Kind \in [Events -> EventKinds]
    /\ NoEvent \notin Events
    /\ MaxFaults \in Nat

VARIABLES
    stage,     \* where the publishing of an event is
    queued,    \* copies of an event a queue holds
    attached,  \* whether the worker's channel is open
    hand,      \* the event a worker is processing
    step,      \* and the statement it is at
    notices,   \* rows of notifications, per event and reader
    logs,      \* rows of audit_logs, per event
    dropped,   \* history: events a restart of the broker took out of a queue
    faults

vars == <<stage, queued, attached, hand, step, notices, logs, dropped, faults>>

Queues == {"notification_queue", "audit_queue", "analytics_queue"}
Readers == {"user", "sender", "receiver"}
SaveSteps == Readers \cup {"log"}
WorkerSteps == SaveSteps \cup {"idle", "lookup", "ack", "nack"}

Init ==
    /\ stage = [e \in Events |-> "none"]
    /\ queued = [q \in Queues |-> [e \in Events |-> 0]]
    /\ attached = [q \in Queues |-> FALSE]
    /\ hand = [q \in Queues |-> NoEvent]
    /\ step = [q \in Queues |-> "idle"]
    /\ notices = [e \in Events |-> [who \in Readers |-> 0]]
    /\ logs = [e \in Events |-> 0]
    /\ dropped = [q \in Queues |-> {}]
    /\ faults = 0

Fault == faults < MaxFaults /\ faults' = faults + 1

-----------------------------------------------------------------------------
(* Publishing.                                                               *)

\* A request succeeded and starts its publishing goroutine.
Raise(e) ==
    /\ stage[e] = "none"
    /\ stage' = [stage EXCEPT ![e] = "publishing"]
    /\ UNCHANGED <<queued, attached, hand, step, notices, logs, dropped, faults>>

\* The exchange routes wallet.event.# to the three queues.
Publish(e) ==
    /\ stage[e] = "publishing"
    /\ stage' = [stage EXCEPT ![e] = "routed"]
    /\ queued' = [q \in Queues |-> [queued[q] EXCEPT ![e] = 1]]
    /\ UNCHANGED <<attached, hand, step, notices, logs, dropped, faults>>

\* Both attempts fail, or the broker never reads what was written: an error is logged
\* at most, and nobody tries again.
PublishFails(e) ==
    /\ stage[e] = "publishing"
    /\ stage' = [stage EXCEPT ![e] = "unsent"]
    /\ UNCHANGED <<queued, attached, hand, step, notices, logs, dropped, faults>>

-----------------------------------------------------------------------------
(* A worker.                                                                 *)

\* NewChannel, Consume.
Attach(q) ==
    /\ ~attached[q] /\ hand[q] = NoEvent
    /\ attached' = [attached EXCEPT ![q] = TRUE]
    /\ UNCHANGED <<stage, queued, hand, step, notices, logs, dropped, faults>>

\* Variant: the analytics worker gives back what it has no use for.
AnalyticsRequeued(q, e) ==
    CASE q = "analytics_queue" -> "nack"
      [] q = "audit_queue" -> "log"
      [] q = "notification_queue" ->
           CASE Kind[e] = "TRANSFER" -> "sender"
             [] Kind[e] = "AUDIT" -> "ack"
             [] OTHER -> "user"

FirstStep(q, e) ==
    CASE q = "analytics_queue" -> "ack"
      [] q = "audit_queue" -> "log"
      [] q = "notification_queue" ->
           CASE Kind[e] = "TRANSFER" -> "sender"
             [] Kind[e] = "AUDIT" -> "ack"
             [] OTHER -> "user"

Take(q, e) ==
    /\ attached[q] /\ hand[q] = NoEvent
    /\ queued[q][e] > 0
    /\ queued' = [queued EXCEPT ![q][e] = @ - 1]
    /\ hand' = [hand EXCEPT ![q] = e]
    /\ step' = [step EXCEPT ![q] = FirstStep(q, e)]
    /\ UNCHANGED <<stage, attached, notices, logs, dropped, faults>>

\* The step after one that worked.
AfterSuccess ==
    [log |-> "ack", user |-> "ack", sender |-> "lookup", lookup |-> "receiver",
     receiver |-> "ack"]

\* Variant: an audit log that cannot be written is acknowledged.
AuditErrorDropped ==
    [log |-> "ack", user |-> "nack", sender |-> "lookup", lookup |-> "nack",
     receiver |-> "ack"]

\* Variant: every notification that cannot be written is acknowledged.
NoticeErrorDropped ==
    [log |-> "nack", user |-> "ack", sender |-> "lookup", lookup |-> "nack",
     receiver |-> "ack"]

\* Variant: the worker returns after the sender's error without passing it on.
SenderErrorEnds ==
    [log |-> "nack", user |-> "nack", sender |-> "ack", lookup |-> "nack",
     receiver |-> "ack"]

\* The step after one that returned an error: those of a transfer's two notifications
\* are logged only, any other asks for redelivery.
AfterError ==
    [log |-> "nack", user |-> "nack", sender |-> "lookup", lookup |-> "nack",
     receiver |-> "ack"]

\* The INSERT of a worker takes effect.
Saved(q) ==
    LET e == hand[q] IN
    IF step[q] = "log"
    THEN logs' = [logs EXCEPT ![e] = @ + 1] /\ UNCHANGED notices
    ELSE notices' = [notices EXCEPT ![e][step[q]] = @ + 1] /\ UNCHANGED logs

Save(q) ==
    /\ step[q] \in SaveSteps
    /\ Saved(q)
    /\ step' = [step EXCEPT ![q] = AfterSuccess[step[q]]]
    /\ UNCHANGED <<stage, queued, attached, hand, dropped, faults>>

\* The INSERT returns an error, without effect or (its answer lost) with one.
SaveFails(q) ==
    /\ step[q] \in SaveSteps
    /\ Fault
    /\ Saved(q) \/ UNCHANGED <<notices, logs>>
    /\ step' = [step EXCEPT ![q] = AfterError[step[q]]]
    /\ UNCHANGED <<stage, queued, attached, hand, dropped>>

\* walletRepo.FindByID of a transfer's target, which exists: no wallet is ever deleted.
Lookup(q) ==
    /\ step[q] = "lookup"
    /\ step' = [step EXCEPT ![q] = AfterSuccess.lookup]
    /\ UNCHANGED <<stage, queued, attached, hand, notices, logs, dropped, faults>>

LookupFails(q) ==
    /\ step[q] = "lookup"
    /\ Fault
    /\ step' = [step EXCEPT ![q] = AfterError.lookup]
    /\ UNCHANGED <<stage, queued, attached, hand, notices, logs, dropped>>

\* Variant: an event that is settled stays the one at hand.
SettleKeepsHand(q) ==
    /\ step[q] \in {"ack", "nack"}
    /\ step' = [step EXCEPT ![q] = "idle"]
    /\ UNCHANGED <<stage, queued, attached, hand, notices, logs, dropped, faults>>

\* Ack or Nack(requeue).  On a closed channel either fails and is logged at most.
Settle(q) ==
    /\ step[q] \in {"ack", "nack"}
    /\ hand' = [hand EXCEPT ![q] = NoEvent]
    /\ step' = [step EXCEPT ![q] = "idle"]
    /\ queued' = IF step[q] = "nack" /\ attached[q]
                   THEN [queued EXCEPT ![q][hand[q]] = @ + 1] ELSE queued
    /\ UNCHANGED <<stage, attached, notices, logs, dropped, faults>>

-----------------------------------------------------------------------------
(* The connection, the broker and the server.                                *)

\* What a worker has taken and not settled, over a channel that is open.
Unsettled(q) == IF attached[q] THEN {hand[q]} \ {NoEvent} ELSE {}

Requeued ==
    [q \in Queues |-> [e \in Events |->
        queued[q][e] + (IF e \in Unsettled(q) THEN 1 ELSE 0)]]
Detached == [q \in Queues |-> FALSE]

\* The connection all channels share closes; the broker requeues, the workers finish the
\* event at hand and then reconnect.
Disconnect ==
    /\ Fault
    /\ queued' = Requeued
    /\ attached' = Detached
    /\ UNCHANGED <<stage, hand, step, notices, logs, dropped>>

\* The queues are durable and the messages are not (no DeliveryMode).
BrokerRestart ==
    /\ Fault
    /\ dropped' = [q \in Queues |->
                     dropped[q] \cup Unsettled(q) \cup {e \in Events : queued[q][e] > 0}]
    /\ queued' = [q \in Queues |-> [e \in Events |-> 0]]
    /\ attached' = Detached
    /\ UNCHANGED <<stage, hand, step, notices, logs>>

\* The server dies, or exits without waiting for goroutines, and is started again.
Crash ==
    /\ Fault
    /\ stage' = [e \in Events |-> IF stage[e] = "publishing" THEN "unsent" ELSE stage[e]]
    /\ queued' = Requeued
    /\ attached' = Detached
    /\ hand' = [q \in Queues |-> NoEvent]
    /\ step' = [q \in Queues |-> "idle"]
    /\ UNCHANGED <<notices, logs, dropped>>

\* What a worker does next when nothing fails.
Work(q) ==
    \/ Attach(q)
    \/ \E e \in Events : Take(q, e)
    \/ Save(q) \/ Lookup(q) \/ Settle(q)

Next ==
    \/ \E e \in Events : Raise(e) \/ Publish(e) \/ PublishFails(e)
    \/ \E q \in Queues : Work(q) \/ SaveFails(q) \/ LookupFails(q)
    \/ Disconnect \/ BrokerRestart \/ Crash

Spec == Init /\ [][Next]_vars

\* The workers' goroutines run, the broker delivers, and faults end (MaxFaults).
FairSpec == Spec /\ \A q \in Queues : WF_vars(Work(q))

-----------------------------------------------------------------------------
(* Correctness.                                                              *)

\* Types; a worker holds an event exactly while it is at a statement for it.
TypeOK ==
    /\ stage \in [Events -> {"none", "publishing", "routed", "unsent"}]
    /\ queued \in [Queues -> [Events -> Nat]]
    /\ attached \in [Queues -> BOOLEAN]
    /\ hand \in [Queues -> Events \cup {NoEvent}]
    /\ step \in [Queues -> WorkerSteps]
    /\ notices \in [Events -> [Readers -> Nat]]
    /\ logs \in [Events -> Nat]
    /\ dropped \in [Queues -> SUBSET Events]
    /\ faults \in 0..MaxFaults
    /\ \A q \in Queues : hand[q] = NoEvent <=> step[q] = "idle"

\* The broker still has the event for the worker of a queue.
Waits(q, e) == queued[q][e] > 0 \/ e \in Unsettled(q)

\* The broker took the event and gave it up to nobody but the worker.
Handled(q, e) == stage[e] = "routed" /\ ~Waits(q, e) /\ e \notin dropped[q]

\* Failing inserts, disconnections and crashes lose no audit log: an event leaves
\* audit_queue only with its row written (README.md:42).
AuditComplete ==
    \A e \in Events : Handled("audit_queue", e) => logs[e] > 0

\* Nor do they lose the notification of a registration, a login or a top-up (README.md:54).
NoticeComplete ==
    \A e \in Events :
        Handled("notification_queue", e) /\ Kind[e] \notin {"TRANSFER", "AUDIT"} =>
            notices[e]["user"] > 0

\* A fault duplicates a row at most once: with none of them every event leaves at most
\* one log and one notification per reader.
FewDuplicates ==
    \A e \in Events :
        /\ logs[e] <= 1 + faults
        /\ \A who \in Readers : notices[e][who] <= 1 + faults

\* The errors of a transfer's two notifications are logged only, so its event is not
\* redelivered; but a fault costs one of the two at most (README.md:54).
FewLosses ==
    \A e \in Events :
        Handled("notification_queue", e) /\ Kind[e] = "TRANSFER" =>
            Cardinality({who \in {"sender", "receiver"} : notices[e][who] = 0}) <= faults

\* What faults cost is bounded by their number, duplicates and losses alike.
FaultsCostLittle == FewDuplicates /\ FewLosses

\* The queues drain: whatever failed before, in the end nothing that was routed waits.
QueuesDrain ==
    <>[](\A q \in Queues, e \in Events : stage[e] = "routed" => ~Waits(q, e))
=============================================================================
