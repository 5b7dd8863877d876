--------------------------- MODULE LifecycleProofs ---------------------------
(***************************************************************************)
(* GracefulIsClean and ShutdownKeepsEvents for any number of requests and  *)
(* streams.  A shutdown that is not forced leaves no request behind it;    *)
(* and the workers it cancels give back what they cannot write, except     *)
(* that a transfer's last statement has nothing after it to do so.         *)
(***************************************************************************)
EXTENDS Lifecycle, TLAPS

\* Requests and the deferred closes behind them.
RequestInv ==
    /\ \A r \in Streams : req[r] \in {"idle", "streaming", "done", "cut"}
    /\ main # "exited" => \A r \in Requests : req[r] # "cut"
    /\ Cancelled /\ ~forced => \A r \in Requests : req[r] \in {"idle", "done"}
    /\ ~forced => \A e \in Events : stage[e] # "none" => req[e] = "store" \/ e \in stored

\* The audit worker and its queue.
LogHandInv ==
    hand["audit_queue"] # NoEvent =>
        \/ step["audit_queue"] \in {"log", "nack"}
        \/ step["audit_queue"] = "ack" /\ logs[hand["audit_queue"]] > 0

LogCopyInv(e) ==
    stage[e] = "routed" =>
        \/ Delivery!Waits("audit_queue", e)
        \/ e \in dropped["audit_queue"]
        \/ logs[e] > 0

\* What a transfer's event leaves behind once it is settled.
Told(e) == notices[e]["sender"] > 0 /\ (notices[e]["receiver"] > 0 \/ Cancelled)

\* The notification worker and its queue.  After a cancelled INSERT for the sender the
\* lookup is bound to fail.
NoticeHandInv(e) ==
    hand["notification_queue"] = e /\ Kind[e] = "TRANSFER" =>
        \/ step["notification_queue"] \in {"sender", "nack"}
        \/ /\ step["notification_queue"] = "lookup"
           /\ \/ notices[e]["sender"] > 0
              \/ Cancelled /\ "notification_queue" \notin underWay
        \/ step["notification_queue"] = "receiver" /\ notices[e]["sender"] > 0
        \/ step["notification_queue"] = "ack" /\ Told(e)

NoticeCopyInv(e) ==
    stage[e] = "routed" /\ Kind[e] = "TRANSFER" =>
        \/ Delivery!Waits("notification_queue", e)
        \/ e \in dropped["notification_queue"]
        \/ Told(e)

WorkerInv ==
    /\ underWay # {} => Cancelled
    /\ LogHandInv
    /\ \A e \in Events : LogCopyInv(e) /\ NoticeHandInv(e) /\ NoticeCopyInv(e)

IInv == TypeOK /\ RequestInv /\ WorkerInv

-----------------------------------------------------------------------------
(* Steps that touch one side only.                                           *)

LEMMA InitIInv == Init => IInv
<1> SUFFICES ASSUME Init PROVE IInv
  OBVIOUS
<1> USE LifecycleAssumption
<1>1. TypeOK
  <2>1. Delivery!TypeOK
    BY DEF Init, Delivery!Init, Delivery!TypeOK, Delivery!WorkerSteps, Delivery!SaveSteps,
       Delivery!Readers
  <2> QED
    BY <2>1 DEF Init, TypeOK
<1>2. RequestInv
  BY DEF Init, RequestInv, Requests, Cancelled, Delivery!Init
<1>3. WorkerInv
  BY DEF Init, WorkerInv, LogHandInv, LogCopyInv, NoticeHandInv, NoticeCopyInv, Delivery!Init,
     Delivery!Queues
<1> QED
  BY <1>1, <1>2, <1>3 DEF IInv

\* Nothing in the workers' invariant is about requests; a shutdown only goes on.
LEMMA DeliverySame ==
    ASSUME WorkerInv, UNCHANGED <<queued, attached, hand, step, notices, logs, dropped, underWay>>,
           Cancelled => Cancelled',
           \A e \in Events : stage'[e] = "routed" => stage[e] = "routed"
    PROVE  WorkerInv'
<1>1. \A q, e : Delivery!Waits(q, e)' <=> Delivery!Waits(q, e)
  BY DEF Delivery!Waits, Delivery!Unsettled
<1>2. \A e : Told(e) => Told(e)'
  BY DEF Told
<1> QED
  BY <1>1, <1>2 DEF WorkerInv, LogHandInv, LogCopyInv, NoticeHandInv, NoticeCopyInv

LEMMA RequestsSame ==
    ASSUME RequestInv, UNCHANGED <<main, forced, req, stored>>,
           \A e \in Events : stage'[e] # "none" => stage[e] # "none"
    PROVE  RequestInv'
BY DEF RequestInv, Cancelled

LEMMA RequestIInv ==
    ASSUME IInv, NEW r \in Requests,
           Accept(r) \/ Begin(r) \/ Refuse(r) \/ Store(r) \/ Reply(r) \/ Disconnect(r)
    PROVE  IInv'
<1> USE DEF Accept, Begin, Refuse, Store, Reply, Disconnect, Becomes
<1>1. UNCHANGED <<main, forced, loop, underWay, stage, queued, attached, hand, step, notices, logs,
                  dropped>>
  BY DEF shutdown, workers, delivery
<1>2. Delivery!TypeOK'
  BY <1>1 DEF IInv, TypeOK, Delivery!TypeOK
<1>3. TypeOK'
  BY <1>1, <1>2 DEF IInv, TypeOK, RequestInv, Requests
<1>4. RequestInv'
  BY <1>1, LifecycleAssumption DEF IInv, TypeOK, RequestInv, Requests, Cancelled, Running
<1>5. WorkerInv'
  BY <1>1, DeliverySame DEF IInv, Cancelled
<1> QED
  BY <1>3, <1>4, <1>5 DEF IInv

LEMMA CommitIInv == ASSUME IInv, NEW r \in Requests, Commit(r) PROVE IInv'
<1> USE DEF Commit, Becomes, Delivery!Raise
<1>1. r \in Events
  BY DEF IInv, RequestInv, Requests
<1>2. /\ UNCHANGED <<main, forced, stored, loop, underWay, queued, attached, hand, step, notices, logs,
                     dropped>>
      /\ stage' = [stage EXCEPT ![r] = "publishing"]
      /\ req' = [req EXCEPT ![r] = "store"] /\ outcome' = [outcome EXCEPT ![r] = "ok"]
  BY DEF shutdown, workers
<1>3. Delivery!TypeOK'
  BY <1>1, <1>2 DEF IInv, TypeOK, Delivery!TypeOK
<1>4. TypeOK'
  BY <1>2, <1>3 DEF IInv, TypeOK
<1>5. RequestInv'
  BY <1>1, <1>2, LifecycleAssumption DEF IInv, TypeOK, RequestInv, Requests, Cancelled, Running,
     Delivery!TypeOK
<1>6. \A e \in Events : stage'[e] = "routed" => stage[e] = "routed"
  BY <1>1, <1>2 DEF IInv, TypeOK, Delivery!TypeOK
<1>7. WorkerInv'
  BY <1>2, <1>6, DeliverySame DEF IInv, Cancelled
<1> QED
  BY <1>4, <1>5, <1>7 DEF IInv

\* The steps of main before the exit.
LEMMA MainIInv ==
    ASSUME IInv, Signal \/ Drained \/ Deadline \/ CloseRedis \/ ClosePool
    PROVE  IInv'
<1> USE DEF Signal, Drained, Deadline, Cancel, CloseRedis, ClosePool
<1>1. /\ UNCHANGED <<req, outcome, stored, loop, stage, queued, attached, hand, step, notices, logs,
                     dropped>>
      /\ Cancelled => Cancelled' /\ UNCHANGED underWay
  BY DEF requests, workers, delivery, Cancelled
<1>2. Delivery!TypeOK'
  BY <1>1 DEF IInv, TypeOK, Delivery!TypeOK
<1>3. TypeOK'
  BY <1>1, <1>2 DEF IInv, TypeOK, requests, workers, shutdown
<1>4. RequestInv'
  BY <1>1 DEF IInv, TypeOK, RequestInv, Cancelled, Active
<1>5. WorkerInv'
  <2>1. CASE UNCHANGED underWay
    BY <1>1, <2>1, DeliverySame DEF IInv
  <2>2. CASE ~Cancelled /\ Cancelled'
    <3>1. \A q, e : Delivery!Waits(q, e)' <=> Delivery!Waits(q, e)
      BY <1>1 DEF Delivery!Waits, Delivery!Unsettled
    <3>2. \A e : Told(e) => Told(e)'
      BY <1>1, <2>2 DEF Told
    <3> QED
      BY <1>1, <2>2, <3>1, <3>2 DEF IInv, WorkerInv, LogHandInv, LogCopyInv, NoticeHandInv,
         NoticeCopyInv
  <2> QED
    BY <1>1, <2>1, <2>2 DEF Cancelled, workers
<1> QED
  BY <1>3, <1>4, <1>5 DEF IInv

-----------------------------------------------------------------------------
(* Workers.                                                                  *)

LEMMA PublishIInv == ASSUME IInv, NEW e \in Events, Publish(e) PROVE IInv'
<1> USE DEF Publish, Delivery!Publish
<1>1. /\ UNCHANGED <<main, forced, req, outcome, stored, loop, underWay, attached, hand, step,
                     notices, logs, dropped>>
      /\ stage[e] = "publishing" /\ stage' = [stage EXCEPT ![e] = "routed"]
      /\ queued' = [q \in Delivery!Queues |-> [queued[q] EXCEPT ![e] = 1]]
  BY DEF shutdown, requests, workers
<1>2. Delivery!TypeOK'
  BY <1>1 DEF IInv, TypeOK, Delivery!TypeOK
<1>3. TypeOK'
  BY <1>1, <1>2 DEF IInv, TypeOK
<1>4. \A f \in Events : stage'[f] # "none" => stage[f] # "none"
  BY <1>1 DEF IInv, TypeOK, Delivery!TypeOK
<1>5. RequestInv'
  BY <1>1, <1>4, RequestsSame DEF IInv
<1>6. ASSUME NEW f \in Events, stage'[f] = "routed", NEW q \in Delivery!Queues
      PROVE  Delivery!Waits(q, f)' \/ (stage[f] = "routed" /\ ~Delivery!Waits(q, f))
  <2>1. CASE f = e
    <3>1. queued'[q][f] = 1
      BY <1>1, <2>1 DEF IInv, TypeOK, Delivery!TypeOK
    <3> QED
      BY <3>1 DEF Delivery!Waits
  <2>2. CASE f # e
    <3>1. stage[f] = "routed" /\ queued'[q][f] = queued[q][f]
      BY <1>1, <1>6, <2>2 DEF IInv, TypeOK, Delivery!TypeOK
    <3> QED
      BY <1>1, <3>1 DEF Delivery!Waits, Delivery!Unsettled
  <2> QED
    BY <2>1, <2>2
<1>7. \A f : Told(f)' <=> Told(f)
  BY <1>1 DEF Told, Cancelled
<1>8. WorkerInv'
  BY <1>1, <1>6, <1>7 DEF IInv, WorkerInv, LogHandInv, LogCopyInv, NoticeHandInv, NoticeCopyInv,
     Cancelled, Delivery!Queues
<1> QED
  BY <1>3, <1>5, <1>8 DEF IInv

\* A worker between two events.
LEMMA LoopIInv ==
    ASSUME IInv, NEW q \in Delivery!Queues, Top(q) \/ Attach(q) \/ Leave(q)
    PROVE  IInv'
<1> USE DEF Top, Attach, Leave, Delivery!Attach
<1>1. /\ UNCHANGED <<main, forced, req, outcome, stored, underWay, stage, queued, hand, step, notices,
                     logs, dropped>>
      /\ hand[q] = NoEvent /\ \E b \in BOOLEAN : attached' = [attached EXCEPT ![q] = b]
  <2>1. CASE Top(q)
    <3>1. attached[q] \in BOOLEAN /\ attached = [attached EXCEPT ![q] = attached[q]]
      BY DEF IInv, TypeOK, Delivery!TypeOK
    <3> QED
      BY <2>1, <3>1 DEF shutdown, requests, delivery
  <2>2. CASE Attach(q)
    BY <2>2 DEF shutdown, requests
  <2>3. CASE Leave(q)
    BY <2>3 DEF shutdown, requests
  <2> QED
    BY <2>1, <2>2, <2>3
<1>2. Delivery!TypeOK'
  BY <1>1 DEF IInv, TypeOK, Delivery!TypeOK
<1>3. TypeOK'
  BY <1>1, <1>2 DEF IInv, TypeOK
<1>4. RequestInv'
  BY <1>1, RequestsSame DEF IInv
<1>5. \A p \in Delivery!Queues, e \in Events : Delivery!Waits(p, e)' <=> Delivery!Waits(p, e)
  BY <1>1 DEF IInv, TypeOK, Delivery!TypeOK, Delivery!Waits, Delivery!Unsettled
<1>6. \A e : Told(e)' <=> Told(e)
  BY <1>1 DEF Told, Cancelled
<1>7. WorkerInv'
  BY <1>1, <1>5, <1>6 DEF IInv, WorkerInv, LogHandInv, LogCopyInv, NoticeHandInv, NoticeCopyInv,
     Cancelled, Delivery!Queues
<1> QED
  BY <1>3, <1>4, <1>7 DEF IInv

LEMMA TakeIInv == ASSUME IInv, NEW q \in Delivery!Queues, Take(q) PROVE IInv'
<1>1. PICK e \in Events : Delivery!Take(q, e)
  BY DEF Take
<1>2. /\ UNCHANGED <<main, forced, req, outcome, stored, loop, underWay, stage, attached, notices,
                     logs, dropped>>
      /\ attached[q] /\ hand[q] = NoEvent
      /\ queued' = [queued EXCEPT ![q][e] = @ - 1] /\ queued[q][e] > 0
      /\ hand' = [hand EXCEPT ![q] = e]
      /\ step' = [step EXCEPT ![q] = Delivery!FirstStep(q, e)]
  BY <1>1 DEF Take, Delivery!Take, shutdown, requests, workers
<1>3. Delivery!FirstStep(q, e) \in {"log", "sender", "user", "ack"}
  BY LifecycleAssumption DEF Delivery!FirstStep, Delivery!Queues
<1>4. step[q] = "idle"
  BY <1>2 DEF IInv, TypeOK, Delivery!TypeOK
<1>5. Delivery!TypeOK'
  <2>1. queued' \in [Delivery!Queues -> [Events -> Nat]]
    <3>1. queued[q] \in [Events -> Nat] /\ queued[q][e] - 1 \in Nat
      BY <1>2 DEF IInv, TypeOK, Delivery!TypeOK
    <3>2. queued' = [queued EXCEPT ![q] = [queued[q] EXCEPT ![e] = queued[q][e] - 1]]
      BY <1>2
    <3>3. [queued[q] EXCEPT ![e] = queued[q][e] - 1] \in [Events -> Nat]
      BY <3>1
    <3> QED
      BY <3>2, <3>3 DEF IInv, TypeOK, Delivery!TypeOK
  <2>2. step' \in [Delivery!Queues -> Delivery!WorkerSteps]
    BY <1>2, <1>3 DEF IInv, TypeOK, Delivery!TypeOK, Delivery!WorkerSteps, Delivery!SaveSteps,
       Delivery!Readers
  <2>3. \A p \in Delivery!Queues : hand'[p] = NoEvent <=> step'[p] = "idle"
    BY <1>2, <1>3, LifecycleAssumption DEF IInv, TypeOK, Delivery!TypeOK
  <2> QED
    BY <1>2, <2>1, <2>2, <2>3 DEF IInv, TypeOK, Delivery!TypeOK
<1>6. TypeOK'
  <2>1. \A p \in underWay : p # q
    BY <1>4 DEF IInv, TypeOK, Delivery!SaveSteps, Delivery!Readers
  <2> QED
    BY <1>2, <1>5, <2>1 DEF IInv, TypeOK, Delivery!TypeOK
<1>7. RequestInv'
  BY <1>2, RequestsSame DEF IInv
<1>8. ASSUME NEW p \in Delivery!Queues, NEW f \in Events
      PROVE  Delivery!Waits(p, f)' <=> Delivery!Waits(p, f)
  <2>1. CASE p = q /\ f = e
    BY <1>2, <2>1, LifecycleAssumption DEF IInv, TypeOK, Delivery!TypeOK, Delivery!Waits,
       Delivery!Unsettled
  <2>2. CASE ~(p = q /\ f = e)
    <3>1. queued'[p][f] = queued[p][f]
      BY <1>2, <2>2 DEF IInv, TypeOK, Delivery!TypeOK
    <3>2. f \in Delivery!Unsettled(p)' <=> f \in Delivery!Unsettled(p)
      BY <1>2, <2>2, LifecycleAssumption DEF IInv, TypeOK, Delivery!TypeOK, Delivery!Unsettled
    <3> QED
      BY <3>1, <3>2 DEF Delivery!Waits
  <2> QED
    BY <2>1, <2>2
<1>9. \A f : Told(f)' <=> Told(f)
  BY <1>2 DEF Told, Cancelled
<1>10. LogHandInv'
  BY <1>2, LifecycleAssumption DEF IInv, TypeOK, Delivery!TypeOK, WorkerInv, LogHandInv,
     Delivery!FirstStep,
     Delivery!Queues
<1>11. \A f \in Events : NoticeHandInv(f)'
  BY <1>2, LifecycleAssumption DEF IInv, TypeOK, Delivery!TypeOK, WorkerInv, NoticeHandInv, Told,
     Cancelled, Delivery!FirstStep, Delivery!Queues
<1>12. WorkerInv'
  BY <1>2, <1>8, <1>9, <1>10, <1>11 DEF IInv, WorkerInv, LogCopyInv, NoticeCopyInv, Cancelled,
     Delivery!Queues
<1> QED
  BY <1>6, <1>7, <1>12 DEF IInv

\* What an INSERT leaves: rows of the tables' types, none taken back, its own there.
LEMMA SavedFacts ==
    ASSUME Delivery!TypeOK, NEW q \in Delivery!Queues, step[q] \in Delivery!SaveSteps,
           Delivery!Saved(q)
    PROVE  /\ logs' \in [Events -> Nat] /\ notices' \in [Events -> [Delivery!Readers -> Nat]]
           /\ \A e \in Events : logs[e] > 0 => logs'[e] > 0
           /\ \A e \in Events, who \in Delivery!Readers :
                 notices[e][who] > 0 => notices'[e][who] > 0
           /\ IF step[q] = "log" THEN logs'[hand[q]] > 0 ELSE notices'[hand[q]][step[q]] > 0
<1>1. hand[q] \in Events
  BY DEF Delivery!TypeOK, Delivery!SaveSteps, Delivery!Readers
<1>2. CASE step[q] = "log"
  <2>1. logs' = [logs EXCEPT ![hand[q]] = logs[hand[q]] + 1] /\ notices' = notices
    BY <1>2 DEF Delivery!Saved
  <2> QED
    BY <1>1, <1>2, <2>1 DEF Delivery!TypeOK
<1>3. CASE step[q] # "log"
  <2>1. step[q] \in Delivery!Readers
    BY <1>3 DEF Delivery!SaveSteps
  <2> DEFINE old == notices[hand[q]]
  <2> DEFINE row == [old EXCEPT ![step[q]] = old[step[q]] + 1]
  <2>2. old \in [Delivery!Readers -> Nat]
    BY <1>1 DEF Delivery!TypeOK
  <2>3. /\ row \in [Delivery!Readers -> Nat] /\ row[step[q]] > 0
        /\ \A who \in Delivery!Readers : old[who] > 0 => row[who] > 0
    <3> HIDE DEF old
    <3> QED
      BY <2>1, <2>2
  <2>4. notices' = [notices EXCEPT ![hand[q]] = row] /\ logs' = logs
    BY <1>3 DEF Delivery!Saved
  <2> HIDE DEF row
  <2> QED
    BY <1>1, <1>3, <2>3, <2>4 DEF Delivery!TypeOK
<1> QED
  BY <1>2, <1>3

\* A worker moves from one statement to the next, with its event at hand.
LEMMA MoveIInv ==
    ASSUME IInv, NEW q \in Delivery!Queues, NEW next \in {"ack", "nack", "lookup", "receiver"},
           step[q] \in Delivery!SaveSteps \cup {"lookup"},
           UNCHANGED <<main, forced, req, outcome, stored, loop, stage, queued, attached, hand, dropped>>,
           underWay' = underWay \ {q},
           step' = [step EXCEPT ![q] = next],
           logs' \in [Events -> Nat], notices' \in [Events -> [Delivery!Readers -> Nat]],
           \A e \in Events : logs[e] > 0 => logs'[e] > 0,
           \A e \in Events, who \in Delivery!Readers : notices[e][who] > 0 => notices'[e][who] > 0,
           q = "audit_queue" /\ next # "nack" => next = "ack" /\ logs'[hand[q]] > 0,
           q = "notification_queue" /\ Kind[hand[q]] = "TRANSFER" /\ next # "nack" =>
               \/ /\ step[q] = "sender" /\ next = "lookup"
                  /\ notices'[hand[q]]["sender"] > 0 \/ Cancelled
               \/ step[q] = "lookup" /\ next = "receiver" /\ (Cancelled => q \in underWay)
               \/ /\ step[q] = "receiver" /\ next = "ack"
                  /\ notices'[hand[q]]["receiver"] > 0 \/ Cancelled
    PROVE  IInv'
<1>1. hand[q] \in Events
  BY DEF IInv, TypeOK, Delivery!TypeOK, Delivery!SaveSteps, Delivery!Readers
<1>2. Delivery!TypeOK'
  <2>1. step' \in [Delivery!Queues -> Delivery!WorkerSteps]
    BY DEF IInv, TypeOK, Delivery!TypeOK, Delivery!WorkerSteps, Delivery!SaveSteps, Delivery!Readers
  <2>2. \A p \in Delivery!Queues : hand'[p] = NoEvent <=> step'[p] = "idle"
    BY <1>1, LifecycleAssumption DEF IInv, TypeOK, Delivery!TypeOK
  <2> QED
    BY <2>1, <2>2 DEF IInv, TypeOK, Delivery!TypeOK
<1>3. TypeOK'
  BY <1>2 DEF IInv, TypeOK, Delivery!TypeOK
<1>4. RequestInv'
  BY RequestsSame DEF IInv
<1>5. \A p, e : Delivery!Waits(p, e)' <=> Delivery!Waits(p, e)
  BY DEF Delivery!Waits, Delivery!Unsettled
<1>6. \A e \in Events : Told(e) => Told(e)'
  BY DEF Told, Cancelled, Delivery!Readers
<1>7. LogHandInv'
  <2>1. CASE q = "audit_queue"
    BY <2>1 DEF IInv, TypeOK, Delivery!TypeOK, LogHandInv
  <2>2. CASE q # "audit_queue"
    BY <2>2 DEF IInv, TypeOK, Delivery!TypeOK, Delivery!Queues, WorkerInv, LogHandInv
  <2> QED
    BY <2>1, <2>2
<1>8. ASSUME NEW e \in Events PROVE NoticeHandInv(e)'
  <2>1. /\ notices[e]["sender"] > 0 => notices'[e]["sender"] > 0
        /\ "notification_queue" \notin underWay => "notification_queue" \notin underWay'
    BY DEF Delivery!Readers
  <2>2. NoticeHandInv(e) /\ Cancelled' = Cancelled
    BY DEF IInv, WorkerInv, Cancelled
  <2>3. CASE q = "notification_queue"
    <3>1. step'[q] = next
      BY DEF IInv, TypeOK, Delivery!TypeOK
    <3> QED
      BY <1>1, <2>1, <2>2, <2>3, <3>1 DEF NoticeHandInv, Told
  <2>4. CASE q # "notification_queue"
    <3>1. step'["notification_queue"] = step["notification_queue"]
      BY <2>4 DEF IInv, TypeOK, Delivery!TypeOK, Delivery!Queues
    <3> QED
      BY <1>6, <2>1, <2>2, <3>1 DEF NoticeHandInv
  <2> QED
    BY <2>3, <2>4
<1>9. WorkerInv'
  BY <1>5, <1>6, <1>7, <1>8 DEF IInv, WorkerInv, LogCopyInv, NoticeCopyInv, Cancelled
<1> QED
  BY <1>3, <1>4, <1>9 DEF IInv

\* Which statements a worker runs is the business of its queue.
LEMMA HandlersApart ==
    ASSUME IInv, NEW q \in Delivery!Queues, step[q] \in Delivery!SaveSteps \cup {"lookup"}
    PROVE  /\ q = "audit_queue" => step[q] = "log"
           /\ q = "notification_queue" /\ Kind[hand[q]] = "TRANSFER" =>
                 step[q] \in {"sender", "lookup", "receiver"}
<1>1. hand[q] \in Events /\ step[q] \notin {"ack", "nack", "idle"}
  BY DEF IInv, TypeOK, Delivery!TypeOK, Delivery!SaveSteps, Delivery!Readers
<1> QED
  BY <1>1, LifecycleAssumption DEF IInv, WorkerInv, LogHandInv, NoticeHandInv

LEMMA QueryIInv == ASSUME IInv, NEW q \in Delivery!Queues, Query(q) PROVE IInv'
<1>1. /\ UNCHANGED <<main, forced, req, outcome, stored, loop, stage, queued, attached, hand, dropped>>
      /\ underWay' = underWay \ {q} /\ (Cancelled => q \in underWay)
  BY DEF Query, Delivery!Save, Delivery!Lookup, shutdown, requests
<1>2. CASE Delivery!Save(q)
  <2>1. /\ step[q] \in Delivery!SaveSteps /\ Delivery!Saved(q)
        /\ step' = [step EXCEPT ![q] = Delivery!AfterSuccess[step[q]]]
    BY <1>2 DEF Delivery!Save
  <2>2. /\ logs' \in [Events -> Nat] /\ notices' \in [Events -> [Delivery!Readers -> Nat]]
        /\ \A e \in Events : logs[e] > 0 => logs'[e] > 0
        /\ \A e \in Events, who \in Delivery!Readers :
              notices[e][who] > 0 => notices'[e][who] > 0
        /\ IF step[q] = "log" THEN logs'[hand[q]] > 0 ELSE notices'[hand[q]][step[q]] > 0
    BY <2>1, SavedFacts DEF IInv, TypeOK
  <2>3. Delivery!AfterSuccess[step[q]] \in {"ack", "lookup"}
        /\ (step[q] = "sender" <=> Delivery!AfterSuccess[step[q]] = "lookup")
    BY <2>1 DEF Delivery!AfterSuccess, Delivery!SaveSteps, Delivery!Readers
  <2>4. step[q] # "lookup"
    BY <2>1 DEF Delivery!SaveSteps, Delivery!Readers
  <2>5. /\ q = "audit_queue" => step[q] = "log"
        /\ q = "notification_queue" /\ Kind[hand[q]] = "TRANSFER" =>
              step[q] \in {"sender", "lookup", "receiver"}
    BY <2>1, HandlersApart
  <2> DEFINE next == Delivery!AfterSuccess[step[q]]
  <2>6. step' = [step EXCEPT ![q] = next] /\ next \in {"ack", "nack", "lookup", "receiver"}
    BY <2>1, <2>3
  <2>7. q = "audit_queue" => next = "ack" /\ logs'[hand[q]] > 0
    BY <2>2, <2>3, <2>5
  <2>8. q = "notification_queue" /\ Kind[hand[q]] = "TRANSFER" =>
            \/ step[q] = "sender" /\ next = "lookup" /\ notices'[hand[q]]["sender"] > 0
            \/ step[q] = "receiver" /\ next = "ack" /\ notices'[hand[q]]["receiver"] > 0
    BY <2>2, <2>3, <2>4, <2>5
  <2> HIDE DEF next
  <2> QED
    BY <1>1, <2>1, <2>2, <2>6, <2>7, <2>8, MoveIInv
<1>3. CASE Delivery!Lookup(q)
  <2>1. /\ step[q] = "lookup" /\ UNCHANGED <<notices, logs>>
        /\ step' = [step EXCEPT ![q] = "receiver"]
    BY <1>3 DEF Delivery!Lookup, Delivery!AfterSuccess
  <2>2. q # "audit_queue"
    BY <2>1, HandlersApart
  <2>3. logs' \in [Events -> Nat] /\ notices' \in [Events -> [Delivery!Readers -> Nat]]
    BY <2>1 DEF IInv, TypeOK, Delivery!TypeOK
  <2> QED
    BY <1>1, <2>1, <2>2, <2>3, MoveIInv
<1> QED
  BY <1>2, <1>3 DEF Query

LEMMA QueryCancelledIInv ==
    ASSUME IInv, NEW q \in Delivery!Queues, QueryCancelled(q)
    PROVE  IInv'
<1>1. /\ UNCHANGED <<main, forced, req, outcome, stored, loop, stage, queued, attached, hand, dropped>>
      /\ underWay' = underWay \ {q} /\ Cancelled
      /\ step[q] \in Delivery!SaveSteps \cup {"lookup"}
      /\ step' = [step EXCEPT ![q] = Delivery!AfterError[step[q]]]
  BY DEF QueryCancelled, shutdown, requests
<1>2. /\ logs' \in [Events -> Nat] /\ notices' \in [Events -> [Delivery!Readers -> Nat]]
      /\ \A e \in Events : logs[e] > 0 => logs'[e] > 0
      /\ \A e \in Events, who \in Delivery!Readers :
            notices[e][who] > 0 => notices'[e][who] > 0
  <2>1. CASE UNCHANGED <<notices, logs>>
    BY <2>1 DEF IInv, TypeOK, Delivery!TypeOK
  <2>2. CASE step[q] # "lookup" /\ Delivery!Saved(q)
    BY <1>1, <2>2, SavedFacts DEF IInv, TypeOK
  <2> QED
    BY <2>1, <2>2 DEF QueryCancelled
<1> DEFINE next == Delivery!AfterError[step[q]]
<1>3. /\ next \in {"ack", "nack", "lookup", "receiver"}
      /\ step[q] = "log" \/ step[q] = "lookup" => next = "nack"
      /\ step[q] = "sender" => next = "lookup"
      /\ step[q] = "receiver" => next = "ack"
  BY <1>1 DEF Delivery!AfterError, Delivery!SaveSteps, Delivery!Readers
<1>4. step' = [step EXCEPT ![q] = next]
  BY <1>1
<1> HIDE DEF next
<1>5. /\ q = "audit_queue" => step[q] = "log"
      /\ q = "notification_queue" /\ Kind[hand[q]] = "TRANSFER" =>
            step[q] \in {"sender", "lookup", "receiver"}
  BY <1>1, HandlersApart
<1> QED
  BY <1>1, <1>2, <1>3, <1>4, <1>5, MoveIInv

\* Settling takes no copy from a queue, and gives a refused delivery back to its own.
LEMMA SettleQueued ==
    ASSUME IInv, NEW q \in Delivery!Queues, Settle(q)
    PROVE  /\ queued' \in [Delivery!Queues -> [Events -> Nat]]
           /\ \A p \in Delivery!Queues, f \in Events : queued[p][f] > 0 => queued'[p][f] > 0
           /\ step[q] = "nack" /\ attached[q] => queued'[q][hand[q]] > 0
<1>1. /\ step[q] \in {"ack", "nack"}
      /\ queued' = IF step[q] = "nack" /\ attached[q]
                     THEN [queued EXCEPT ![q][hand[q]] = @ + 1] ELSE queued
  BY DEF Settle, Delivery!Settle, shutdown, requests, workers
<1>2. hand[q] \in Events
  BY <1>1 DEF IInv, TypeOK, Delivery!TypeOK
<1>3. queued[q] \in [Events -> Nat] /\ queued \in [Delivery!Queues -> [Events -> Nat]]
  BY DEF IInv, TypeOK, Delivery!TypeOK
<1>4. CASE step[q] = "nack" /\ attached[q]
  <2> DEFINE e == hand[q]
             row == [queued[q] EXCEPT ![e] = queued[q][e] + 1]
  <2>1. queued' = [queued EXCEPT ![q] = row]
    BY <1>1, <1>4
  <2>2. row \in [Events -> Nat] /\ row[e] > 0
        /\ \A f \in Events : queued[q][f] > 0 => row[f] > 0
    BY <1>2, <1>3
  <2> HIDE DEF row
  <2> QED
    BY <1>3, <2>1, <2>2
<1>5. CASE ~(step[q] = "nack" /\ attached[q])
  BY <1>1, <1>3, <1>5
<1> QED
  BY <1>4, <1>5

LEMMA SettleIInv == ASSUME IInv, NEW q \in Delivery!Queues, Settle(q) PROVE IInv'
<1>1. /\ UNCHANGED <<main, forced, req, outcome, stored, loop, underWay, stage, attached, notices,
                     logs, dropped>>
      /\ step[q] \in {"ack", "nack"}
      /\ hand' = [hand EXCEPT ![q] = NoEvent] /\ step' = [step EXCEPT ![q] = "idle"]
      /\ queued' = IF step[q] = "nack" /\ attached[q]
                     THEN [queued EXCEPT ![q][hand[q]] = @ + 1] ELSE queued
  BY DEF Settle, Delivery!Settle, shutdown, requests, workers
<1> DEFINE e == hand[q]
<1>2. e \in Events
  BY <1>1 DEF IInv, TypeOK, Delivery!TypeOK
<1>3. /\ queued' \in [Delivery!Queues -> [Events -> Nat]]
      /\ \A p \in Delivery!Queues, f \in Events : queued[p][f] > 0 => queued'[p][f] > 0
      /\ step[q] = "nack" /\ attached[q] => queued'[q][e] > 0
  BY SettleQueued
<1> HIDE DEF e
<1>4. Delivery!TypeOK'
  <2>1. step' \in [Delivery!Queues -> Delivery!WorkerSteps]
    BY <1>1 DEF IInv, TypeOK, Delivery!TypeOK, Delivery!WorkerSteps, Delivery!SaveSteps
  <2>2. hand' \in [Delivery!Queues -> Events \cup {NoEvent}]
        /\ \A p \in Delivery!Queues : hand'[p] = NoEvent <=> step'[p] = "idle"
    BY <1>1 DEF IInv, TypeOK, Delivery!TypeOK
  <2> QED
    BY <1>1, <1>3, <2>1, <2>2 DEF IInv, TypeOK, Delivery!TypeOK
<1>5. TypeOK'
  <2>1. \A p \in underWay : p # q
    BY <1>1 DEF IInv, TypeOK, Delivery!SaveSteps, Delivery!Readers
  <2> QED
    BY <1>1, <1>4, <2>1 DEF IInv, TypeOK, Delivery!TypeOK
<1>6. RequestInv'
  BY <1>1, RequestsSame DEF IInv
<1>7. ASSUME NEW p \in Delivery!Queues, NEW f \in Events, Delivery!Waits(p, f)
      PROVE  Delivery!Waits(p, f)' \/ (p = q /\ f = e /\ step[q] = "ack")
  <2>1. CASE queued[p][f] > 0
    <3>1. queued'[p][f] > 0
      BY <2>1, SettleQueued
    <3> QED
      BY <3>1 DEF Delivery!Waits
  <2>2. CASE f \in Delivery!Unsettled(p) /\ p = q
    <3>1. f = e /\ attached[q]
      BY <2>2 DEF Delivery!Unsettled, e
    <3>2. step[q] \in {"ack", "nack"}
      BY <1>1
    <3>3. CASE step[q] = "nack"
      <4>1. queued'[p][f] > 0
        BY <2>2, <3>1, <3>3, SettleQueued DEF e
      <4> QED
        BY <4>1 DEF Delivery!Waits
    <3> QED
      BY <2>2, <3>1, <3>2, <3>3
  <2>3. CASE f \in Delivery!Unsettled(p) /\ p # q
    <3>1. f \in Delivery!Unsettled(p)'
      BY <1>1, <2>3 DEF IInv, TypeOK, Delivery!TypeOK, Delivery!Unsettled
    <3> QED
      BY <3>1 DEF Delivery!Waits
  <2> QED
    BY <1>7, <2>1, <2>2, <2>3 DEF Delivery!Waits
<1>8. \A f : Told(f)' <=> Told(f)
  BY <1>1 DEF Told, Cancelled
<1>9. LogHandInv' /\ \A f \in Events : NoticeHandInv(f)'
  <2>1. LogHandInv'
    BY <1>1 DEF IInv, TypeOK, Delivery!TypeOK, WorkerInv, LogHandInv, Delivery!Queues
  <2>2. ASSUME NEW f \in Events PROVE NoticeHandInv(f)'
    BY <1>1, <1>8, LifecycleAssumption DEF IInv, TypeOK, Delivery!TypeOK, WorkerInv, NoticeHandInv,
       Cancelled, Delivery!Queues
  <2> QED
    BY <2>1, <2>2
<1>10. ASSUME NEW f \in Events PROVE LogCopyInv(f)' /\ NoticeCopyInv(f)'
  <2>1. LogCopyInv(f) /\ NoticeCopyInv(f) /\ NoticeHandInv(f) /\ LogHandInv
    BY DEF IInv, WorkerInv
  <2>2. LogCopyInv(f)'
    <3>1. q = "audit_queue" /\ f = e /\ step[q] = "ack" => logs[f] > 0
      BY <1>2, <2>1, LifecycleAssumption DEF LogHandInv, e
    <3> QED
      BY <1>1, <1>7, <2>1, <3>1 DEF LogCopyInv, Delivery!Queues
  <2>3. NoticeCopyInv(f)'
    <3>1. q = "notification_queue" /\ f = e /\ step[q] = "ack" /\ Kind[f] = "TRANSFER" => Told(f)
      BY <2>1 DEF NoticeHandInv, e
    <3> QED
      BY <1>1, <1>7, <1>8, <2>1, <3>1 DEF NoticeCopyInv, Delivery!Queues
  <2> QED
    BY <2>2, <2>3
<1>11. WorkerInv'
  BY <1>1, <1>9, <1>10 DEF IInv, WorkerInv, Cancelled
<1> QED
  BY <1>5, <1>6, <1>11 DEF IInv

-----------------------------------------------------------------------------
(* The broker's side of a close, and the exit.                               *)

\* What no worker has settled goes back to its queue.
LEMMA RequeuedKeeps ==
    ASSUME Delivery!TypeOK, queued' = Delivery!Requeued, attached' = Delivery!Detached
    PROVE  /\ queued' \in [Delivery!Queues -> [Events -> Nat]]
           /\ attached' \in [Delivery!Queues -> BOOLEAN]
           /\ \A q \in Delivery!Queues, e \in Events :
                 Delivery!Waits(q, e) => Delivery!Waits(q, e)'
<1> DEFINE extra(q, e) == IF e \in Delivery!Unsettled(q) THEN 1 ELSE 0
<1>1. \A q \in Delivery!Queues, e \in Events :
          queued[q][e] \in Nat /\ queued'[q][e] = queued[q][e] + extra(q, e)
  BY DEF Delivery!Requeued, Delivery!TypeOK
<1>2. queued' = [q \in Delivery!Queues |-> [e \in Events |-> queued[q][e] + extra(q, e)]]
  BY DEF Delivery!Requeued
<1>3. \A q, e : extra(q, e) \in Nat
  OBVIOUS
<1>4. \A q, e : e \in Delivery!Unsettled(q) => extra(q, e) = 1
  OBVIOUS
<1> HIDE DEF extra
<1>5. queued' \in [Delivery!Queues -> [Events -> Nat]]
  BY <1>1, <1>2, <1>3
<1>6. \A q \in Delivery!Queues, e \in Events : Delivery!Waits(q, e) => queued'[q][e] > 0
  BY <1>1, <1>3, <1>4 DEF Delivery!Waits
<1> QED
  BY <1>5, <1>6 DEF Delivery!Waits, Delivery!Detached

LEMMA CloseRabbitIInv == ASSUME IInv, CloseRabbit PROVE IInv'
<1> USE DEF CloseRabbit
<1>1. /\ UNCHANGED <<forced, req, outcome, stored, loop, underWay, stage, hand, step, notices, logs,
                     dropped>>
      /\ Cancelled /\ Cancelled' /\ main' # "exited"
  BY DEF requests, workers, Cancelled
<1>2. /\ queued' \in [Delivery!Queues -> [Events -> Nat]]
      /\ attached' \in [Delivery!Queues -> BOOLEAN]
      /\ \A q \in Delivery!Queues, e \in Events : Delivery!Waits(q, e) => Delivery!Waits(q, e)'
  BY RequeuedKeeps DEF IInv, TypeOK
<1>3. Delivery!TypeOK'
  BY <1>1, <1>2 DEF IInv, TypeOK, Delivery!TypeOK
<1>4. TypeOK'
  BY <1>1, <1>3 DEF IInv, TypeOK
<1>5. RequestInv'
  BY <1>1 DEF IInv, RequestInv, Cancelled
<1>6. \A e : Told(e) => Told(e)'
  BY <1>1 DEF Told
<1>7. WorkerInv'
  BY <1>1, <1>2, <1>6 DEF IInv, WorkerInv, LogHandInv, LogCopyInv, NoticeHandInv, NoticeCopyInv,
     Delivery!Queues
<1> QED
  BY <1>4, <1>5, <1>7 DEF IInv

LEMMA ExitIInv == ASSUME IInv, Exit PROVE IInv'
<1> USE DEF Exit
<1>1. /\ UNCHANGED <<forced, outcome, stored, underWay, notices, logs, dropped>>
      /\ Cancelled /\ Cancelled' /\ underWay = {}
      /\ \A e \in Events : stage'[e] = "routed" => stage[e] = "routed"
      /\ \A e \in Events : stage'[e] # "none" => stage[e] # "none"
      /\ \A q \in Delivery!Queues : hand'[q] = NoEvent /\ step'[q] = "idle"
  BY DEF Cancelled
<1>2. /\ queued' \in [Delivery!Queues -> [Events -> Nat]]
      /\ attached' \in [Delivery!Queues -> BOOLEAN]
      /\ \A q \in Delivery!Queues, e \in Events : Delivery!Waits(q, e) => Delivery!Waits(q, e)'
  BY RequeuedKeeps DEF IInv, TypeOK
<1>3. Delivery!TypeOK'
  BY <1>1, <1>2 DEF IInv, TypeOK, Delivery!TypeOK, Delivery!WorkerSteps
<1>4. TypeOK'
  BY <1>1, <1>3 DEF IInv, TypeOK
<1>5. RequestInv'
  BY <1>1 DEF IInv, TypeOK, RequestInv, Cancelled, Active, Requests
<1>6. \A e : Told(e) => Told(e)'
  BY <1>1 DEF Told
<1>7. WorkerInv'
  BY <1>1, <1>2, <1>6, LifecycleAssumption DEF IInv, WorkerInv, LogHandInv, LogCopyInv,
     NoticeHandInv,
     NoticeCopyInv, Delivery!Queues
<1> QED
  BY <1>4, <1>5, <1>7 DEF IInv

LEMMA NextIInv == IInv /\ [Next]_vars => IInv'
<1> SUFFICES ASSUME IInv, [Next]_vars PROVE IInv'
  OBVIOUS
<1>1. CASE \E r \in Requests : Accept(r) \/ Serve(r) \/ Disconnect(r)
  BY <1>1, RequestIInv, CommitIInv DEF Serve
<1>2. CASE \E e \in Events : Publish(e)
  BY <1>2, PublishIInv
<1>3. CASE \E q \in Delivery!Queues : Work(q)
  BY <1>3, LoopIInv, TakeIInv, QueryIInv, QueryCancelledIInv, SettleIInv DEF Work
<1>4. CASE Signal \/ Main
  BY <1>4, MainIInv, CloseRabbitIInv, ExitIInv DEF Main
<1>5. CASE UNCHANGED vars
  <2>1. UNCHANGED <<main, forced, req, outcome, stored, loop, underWay, stage, queued, attached, hand,
                    step, notices, logs, dropped>>
    BY <1>5 DEF vars, shutdown, requests, workers, delivery
  <2>2. TypeOK'
    BY <2>1 DEF IInv, TypeOK, Delivery!TypeOK
  <2>3. RequestInv' /\ WorkerInv'
    BY <2>1, RequestsSame, DeliverySame DEF IInv, Cancelled
  <2> QED
    BY <2>2, <2>3 DEF IInv
<1> QED
  BY <1>1, <1>2, <1>3, <1>4, <1>5 DEF Next

\* The handlers, server.Shutdown, the deferred closes and the two workers (main.go:120-190)
\* keep the invariant.
THEOREM Invariance == Spec => []IInv
<1> QED
  BY InitIInv, NextIInv, PTL DEF Spec

-----------------------------------------------------------------------------
(* What it gives.                                                            *)

\* Requests, streams, workers and what EventDelivery keeps of them have their types; a
\* statement that is under way is one a worker is at.
THEOREM TypeCorrect == Spec => []TypeOK
<1>1. IInv => TypeOK
  BY DEF IInv
<1> QED
  BY <1>1, Invariance, PTL

\* An exit that is not forced interrupts no request, and every effect of one has been
\* stored for its idempotency key (main.go:175-190).
THEOREM Graceful == Spec => []GracefulIsClean
<1>1. IInv => GracefulIsClean
  <2> SUFFICES ASSUME IInv, main = "exited", ~forced
               PROVE  /\ \A r \in Requests : req[r] \in {"idle", "done"}
                      /\ \A e \in Events : stage[e] # "none" => e \in stored
    BY DEF GracefulIsClean
  <2>1. \A r \in Requests : req[r] \in {"idle", "done"}
    BY DEF IInv, RequestInv, Cancelled
  <2>2. ASSUME NEW e \in Events, stage[e] # "none" PROVE e \in stored
    <3>1. req[e] # "store"
      BY <2>1 DEF Requests
    <3> QED
      BY <2>2, <3>1 DEF IInv, RequestInv
  <2> QED
    BY <2>1, <2>2
<1> QED
  BY <1>1, Invariance, PTL

\* Cancelled statements, closed channels and the exit lose, of an event the broker took,
\* the notification of a transfer's receiver at most (notification_worker.go:174-199).
THEOREM ShutdownKeeps == Spec => []ShutdownKeepsEvents
<1>1. IInv => ShutdownKeepsEvents
  <2> SUFFICES ASSUME IInv PROVE ShutdownKeepsLogs /\ ShutdownKeepsNotices
    BY DEF ShutdownKeepsEvents
  <2>1. ShutdownKeepsLogs
    BY DEF IInv, WorkerInv, LogCopyInv, ShutdownKeepsLogs, Delivery!AuditComplete, Delivery!Handled
  <2>2. ShutdownKeepsNotices
    BY DEF IInv, WorkerInv, NoticeCopyInv, Told, ShutdownKeepsNotices, Delivery!Handled
  <2> QED
    BY <2>1, <2>2
<1> QED
  BY <1>1, Invariance, PTL

-----------------------------------------------------------------------------
(* What stands behind ShutdownEnds: what pool.Close waits for only becomes     *)
(* less, so that the exit is not put off again and again.                      *)

Order == [serving |-> 0, draining |-> 1, cancelled |-> 2, rabbitClosed |-> 3,
          redisClosed |-> 4, poolClosing |-> 5, exited |-> 6]

\* main never goes back.  Once ctx is cancelled no worker starts a statement, once the
\* pool closes no request opens a transaction, and a worker that left its loop neither
\* comes back nor takes an event.
GoesForward ==
    /\ Order[main] <= Order[main']
    /\ Cancelled => underWay' \subseteq underWay
    /\ main = "poolClosing" => \A r \in Requests : req'[r] = "tx" => req[r] = "tx"
    /\ \A q \in Delivery!Queues :
          loop[q] = "left" => loop'[q] = "left" /\ hand'[q] = NoEvent

\* A worker leaves with its channel closed and nothing in its hand.
LeftInv ==
    \A q \in Delivery!Queues : loop[q] = "left" => ~attached[q] /\ hand[q] = NoEvent

LEMMA StepGoesForward ==
    ASSUME IInv, LeftInv, [Next]_vars
    PROVE  LeftInv' /\ [GoesForward]_vars
<1>1. /\ loop \in [Delivery!Queues -> {"select", "connect", "left"}]
      /\ attached \in [Delivery!Queues -> BOOLEAN]
      /\ hand \in [Delivery!Queues -> Events \cup {NoEvent}]
      /\ req \in [Requests -> {"idle", "streaming", "begin", "tx", "store", "reply", "done",
                               "cut"}]
      /\ \A q \in Delivery!Queues : hand[q] = NoEvent <=> step[q] = "idle"
  BY DEF IInv, TypeOK, Delivery!TypeOK
<1>10. Order[main] \in Nat
  BY DEF IInv, TypeOK, Order
<1> USE <1>10 DEF LeftInv, GoesForward, Order, Cancelled, shutdown, workers, requests, delivery
<1>2. ASSUME NEW r \in Requests, Accept(r) \/ Serve(r) \/ Disconnect(r)
      PROVE  LeftInv' /\ GoesForward
  <2>1. UNCHANGED <<main, loop, underWay, attached, hand>>
    BY <1>2 DEF Accept, Serve, Begin, Refuse, Commit, Store, Reply, Disconnect,
       Delivery!Raise
  <2>2. main = "poolClosing" => \A s \in Requests : req'[s] = "tx" => req[s] = "tx"
    BY <1>1, <1>2 DEF Accept, Serve, Begin, Refuse, Commit, Store, Reply, Disconnect, Becomes
  <2> QED
    BY <2>1, <2>2
<1>3. ASSUME NEW e \in Events, Publish(e) PROVE LeftInv' /\ GoesForward
  BY <1>3 DEF Publish, Delivery!Publish
<1>4. ASSUME NEW q \in Delivery!Queues, Top(q) \/ Attach(q) \/ Leave(q)
      PROVE  LeftInv' /\ GoesForward
  BY <1>1, <1>4 DEF Top, Attach, Leave, Delivery!Attach
<1>5. ASSUME NEW q \in Delivery!Queues, Take(q) PROVE LeftInv' /\ GoesForward
  BY <1>1, <1>5 DEF Take, Delivery!Take
<1>6. ASSUME NEW q \in Delivery!Queues, Query(q) \/ QueryCancelled(q)
      PROVE  LeftInv' /\ GoesForward
  BY <1>6 DEF Query, QueryCancelled, Delivery!Save, Delivery!Lookup
<1>7. ASSUME NEW q \in Delivery!Queues, Settle(q) PROVE LeftInv' /\ GoesForward
  BY <1>1, <1>7 DEF Settle, Delivery!Settle
<1>8. CASE Signal \/ Main
  BY <1>1, <1>8 DEF Signal, Main, Drained, Deadline, Cancel, CloseRabbit, CloseRedis, ClosePool,
     Exit, Delivery!Detached
<1>9. CASE UNCHANGED vars
  BY <1>9 DEF vars
<1> QED
  BY <1>2, <1>3, <1>4, <1>5, <1>6, <1>7, <1>8, <1>9 DEF Next, Work

\* cancel() and pool.Close() stop what is new at its source, for any number of requests.
THEOREM NothingNewBegins == Spec => [][GoesForward]_vars
<1>1. Init => LeftInv
  BY DEF Init, LeftInv
<1>2. IInv /\ LeftInv /\ [Next]_vars => LeftInv' /\ [GoesForward]_vars
  BY StepGoesForward
<1> QED
  BY <1>1, <1>2, Invariance, PTL DEF Spec

=============================================================================
