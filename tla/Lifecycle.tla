----------------------------- MODULE Lifecycle -----------------------------
(***************************************************************************)
(* cmd/server/main.go from SIGTERM to the exit of the process, composed    *)
(* with the requests it serves, their publishing goroutines and the        *)
(* workers, whose statements are those of EventDelivery.  Nothing else     *)
(* fails here: what goes wrong is the shutdown's doing.                    *)
(***************************************************************************)
EXTENDS Naturals, FiniteSets

CONSTANTS
    Events,   \* top-ups and transfers; each raises one event
    Kind,     \* the event_type of its event
    Streams,  \* requests of GET /notifications/stream
    NoEvent

Requests == Events \cup Streams

ASSUME LifecycleAssumption ==
    /\ Kind \in [Events -> {"TOPUP", "TRANSFER"}]
    /\ Events \cap Streams = {}
    /\ NoEvent \notin Events

VARIABLES
    main,     \* where main is
    forced,   \* whether srv.Shutdown gave up
    req,      \* where a request is
    outcome,  \* what its handler answers
    stored,   \* requests whose answer the idempotency middleware has stored in Redis
    loop,     \* where a worker is in Start, between channels
    underWay, \* workers whose statement ran when ctx was cancelled
    stage, queued, attached, hand, step, notices, logs, dropped

Delivery == INSTANCE EventDelivery WITH MaxFaults <- 0, faults <- 0

shutdown == <<main, forced>>
requests == <<req, outcome, stored>>
workers == <<loop, underWay>>
delivery == <<stage, queued, attached, hand, step, notices, logs, dropped>>
vars == <<shutdown, requests, workers, delivery>>

Init ==
    /\ main = "serving" /\ forced = FALSE
    /\ req = [r \in Requests |-> "idle"]
    /\ outcome = [r \in Requests |-> "none"]
    /\ stored = {}
    /\ loop = [q \in Delivery!Queues |-> "select"]
    /\ underWay = {}
    /\ Delivery!Init

Active == {r \in Requests : req[r] \notin {"idle", "done", "cut"}}
Running == main # "exited"
Cancelled == main \notin {"serving", "draining"}

Becomes(r, to) == req' = [req EXCEPT ![r] = to]

-----------------------------------------------------------------------------
(* Requests.                                                                 *)

\* Shutdown closes the listener, but a request may still come in over a connection it
\* has not found idle.
Accept(r) ==
    /\ main \in {"serving", "draining"} /\ req[r] = "idle"
    /\ Becomes(r, IF r \in Streams THEN "streaming" ELSE "begin")
    /\ UNCHANGED <<outcome, stored, shutdown, workers, delivery>>

\* pool.Begin, which waits for nobody here; a closed pool refuses: 500.
Begin(r) ==
    /\ Running /\ req[r] = "begin"
    /\ \/ main # "poolClosing" /\ Becomes(r, "tx") /\ UNCHANGED outcome
       \/ main = "poolClosing" /\ Becomes(r, "reply")
          /\ outcome' = [outcome EXCEPT ![r] = "error"]
    /\ UNCHANGED <<stored, shutdown, workers, delivery>>

\* A refusal, with the deferred rollback.
Refuse(r) ==
    /\ Running /\ req[r] = "tx"
    /\ Becomes(r, "reply")
    /\ outcome' = [outcome EXCEPT ![r] = "error"]
    /\ UNCHANGED <<stored, shutdown, workers, delivery>>

\* Commit, and the goroutine that publishes.
Commit(r) ==
    /\ Running /\ req[r] = "tx"
    /\ Becomes(r, "store")
    /\ outcome' = [outcome EXCEPT ![r] = "ok"]
    /\ Delivery!Raise(r)
    /\ UNCHANGED <<stored, shutdown, workers>>

\* SET of the idempotency middleware; the error of a closed client is dropped.
Store(r) ==
    /\ Running /\ req[r] = "store"
    /\ stored' = IF main \in {"redisClosed", "poolClosing"} THEN stored ELSE stored \cup {r}
    /\ Becomes(r, "reply")
    /\ UNCHANGED <<outcome, shutdown, workers, delivery>>

Reply(r) ==
    /\ Running /\ req[r] = "reply"
    /\ Becomes(r, "done")
    /\ UNCHANGED <<outcome, stored, shutdown, workers, delivery>>

\* Only its client ends a stream: nothing of the shutdown does.
Disconnect(r) ==
    /\ Running /\ req[r] = "streaming"
    /\ Becomes(r, "done")
    /\ UNCHANGED <<outcome, stored, shutdown, workers, delivery>>

\* The publishing goroutine; SafeChannel reconnects even after its Close.
Publish(e) ==
    /\ Running
    /\ Delivery!Publish(e)
    /\ UNCHANGED <<shutdown, requests, workers>>

-----------------------------------------------------------------------------
(* Workers.  Their context is main's ctx.                                    *)

\* The top of the loop in Start.
Top(q) ==
    /\ Running /\ loop[q] = "select" /\ ~attached[q] /\ hand[q] = NoEvent
    /\ loop' = [loop EXCEPT ![q] = IF Cancelled THEN "left" ELSE "connect"]
    /\ UNCHANGED <<underWay, shutdown, requests, delivery>>

\* NewChannel and Consume, which look at no context.
Attach(q) ==
    /\ Running /\ loop[q] = "connect"
    /\ Delivery!Attach(q)
    /\ loop' = [loop EXCEPT ![q] = "select"]
    /\ UNCHANGED <<underWay, shutdown, requests>>

\* select picks ctx.Done(); the deferred Close gives back what was prefetched.
Leave(q) ==
    /\ Running /\ Cancelled /\ attached[q] /\ hand[q] = NoEvent
    /\ loop' = [loop EXCEPT ![q] = "left"]
    /\ attached' = [attached EXCEPT ![q] = FALSE]
    /\ UNCHANGED <<underWay, shutdown, requests, stage, queued, hand, step, notices, logs, dropped>>

\* select picks a message, as it may with ctx done as well.
Take(q) ==
    /\ Running
    /\ \E e \in Events : Delivery!Take(q, e)
    /\ UNCHANGED <<shutdown, requests, workers>>

\* A statement works if it was under way when ctx was cancelled.
Query(q) ==
    /\ Running /\ (Cancelled => q \in underWay)
    /\ Delivery!Save(q) \/ Delivery!Lookup(q)
    /\ underWay' = underWay \ {q}
    /\ UNCHANGED <<loop, shutdown, requests>>

\* "context canceled": an INSERT that was under way may have had its effect.
QueryCancelled(q) ==
    /\ Running /\ Cancelled /\ step[q] \in Delivery!SaveSteps \cup {"lookup"}
    /\ \/ q \in underWay /\ step[q] # "lookup" /\ Delivery!Saved(q)
       \/ UNCHANGED <<notices, logs>>
    /\ step' = [step EXCEPT ![q] = Delivery!AfterError[step[q]]]
    /\ underWay' = underWay \ {q}
    /\ UNCHANGED <<loop, shutdown, requests, stage, queued, attached, hand, dropped>>

Settle(q) ==
    /\ Running
    /\ Delivery!Settle(q)
    /\ UNCHANGED <<shutdown, requests, workers>>

-----------------------------------------------------------------------------
(* main.                                                                     *)

Signal ==
    /\ main = "serving"
    /\ main' = "draining"
    /\ UNCHANGED <<forced, requests, workers, delivery>>

\* cancel()
Cancel ==
    /\ main' = "cancelled"
    /\ underWay' = {q \in Delivery!Queues : step[q] \in Delivery!SaveSteps \cup {"lookup"}}

\* Variant: srv.Close instead of srv.Shutdown.
DrainedAtOnce ==
    /\ main = "draining"
    /\ Cancel
    /\ UNCHANGED <<forced, requests, loop, delivery>>

\* srv.Shutdown returns once every connection is idle.
Drained ==
    /\ main = "draining" /\ Active = {}
    /\ Cancel
    /\ UNCHANGED <<forced, requests, loop, delivery>>

\* Variant: Shutdown without a deadline.
NoDeadline == FALSE /\ UNCHANGED vars

\* Or its 10 s pass.
Deadline ==
    /\ main = "draining"
    /\ Cancel
    /\ forced' = TRUE
    /\ UNCHANGED <<requests, loop, delivery>>

\* The deferred calls, last first.
CloseRabbit ==
    /\ main = "cancelled" /\ main' = "rabbitClosed"
    /\ queued' = Delivery!Requeued /\ attached' = Delivery!Detached
    /\ UNCHANGED <<forced, requests, workers, stage, hand, step, notices, logs, dropped>>

CloseRedis ==
    /\ main = "rabbitClosed" /\ main' = "redisClosed"
    /\ UNCHANGED <<forced, requests, workers, delivery>>

\* From now on the pool refuses, and waits for the connections it has lent.
ClosePool ==
    /\ main = "redisClosed" /\ main' = "poolClosing"
    /\ UNCHANGED <<forced, requests, workers, delivery>>

\* Nothing waits for handlers, publishing goroutines or workers.
Exit ==
    /\ main = "poolClosing"
    /\ underWay = {} /\ \A r \in Requests : req[r] # "tx"
    /\ main' = "exited"
    /\ req' = [r \in Requests |-> IF r \in Active THEN "cut" ELSE req[r]]
    /\ stage' = [e \in Events |-> IF stage[e] = "publishing" THEN "unsent" ELSE stage[e]]
    /\ queued' = Delivery!Requeued /\ attached' = Delivery!Detached
    /\ hand' = [q \in Delivery!Queues |-> NoEvent]
    /\ step' = [q \in Delivery!Queues |-> "idle"]
    /\ loop' = [q \in Delivery!Queues |-> "left"]
    /\ UNCHANGED <<forced, outcome, stored, underWay, notices, logs, dropped>>

Main == Drained \/ Deadline \/ CloseRabbit \/ CloseRedis \/ ClosePool \/ Exit
Serve(r) == Begin(r) \/ Refuse(r) \/ Commit(r) \/ Store(r) \/ Reply(r)
Work(q) ==
    Top(q) \/ Attach(q) \/ Leave(q) \/ Take(q) \/ Query(q) \/ QueryCancelled(q) \/ Settle(q)

Next ==
    \/ \E r \in Requests : Accept(r) \/ Serve(r) \/ Disconnect(r)
    \/ \E e \in Events : Publish(e)
    \/ \E q \in Delivery!Queues : Work(q)
    \/ Signal \/ Main

Spec == Init /\ [][Next]_vars

\* main runs and its timer fires; handlers run (the row locks they wait for are given
\* back, as WalletLedger shows) and so do workers.  Clients of streams need not leave.
FairSpec ==
    /\ Spec
    /\ WF_vars(Main)
    /\ \A r \in Requests : WF_vars(Serve(r))
    /\ \A q \in Delivery!Queues : WF_vars(Work(q))

-----------------------------------------------------------------------------
(* Correctness.                                                              *)

\* Types; the workers' and the queues' are EventDelivery's.  What runs when ctx is
\* cancelled is at a statement.
TypeOK ==
    /\ main \in {"serving", "draining", "cancelled", "rabbitClosed", "redisClosed",
                 "poolClosing", "exited"}
    /\ forced \in BOOLEAN
    /\ req \in [Requests ->
                  {"idle", "streaming", "begin", "tx", "store", "reply", "done", "cut"}]
    /\ outcome \in [Requests -> {"none", "ok", "error"}]
    /\ stored \subseteq Events
    /\ loop \in [Delivery!Queues -> {"select", "connect", "left"}]
    /\ underWay \subseteq Delivery!Queues
    /\ \A q \in underWay : step[q] \in Delivery!SaveSteps \cup {"lookup"}
    /\ Delivery!TypeOK

\* If Shutdown returns in time, the exit interrupts no request and every top-up or
\* transfer that committed has been answered and remembered for its idempotency key: the
\* stores are closed behind the handlers that use them (main.go:180-189).
GracefulIsClean ==
    main = "exited" /\ ~forced =>
        /\ \A r \in Requests : req[r] \in {"idle", "done"}
        /\ \A e \in Events : stage[e] # "none" => e \in stored

\* No shutdown loses the audit log of an event the broker took, although it cancels the
\* workers' statements, closes their channels and exits at any point of theirs.
ShutdownKeepsLogs == Delivery!AuditComplete

\* Nor does it lose the notification of a transfer's sender, although its cancelled INSERT
\* is logged only: the lookup after it is cancelled too and gives the event back.  The
\* receiver's INSERT comes last, and only a shutdown can lose it (README.md:54-55).
ShutdownKeepsNotices ==
    \A e \in Events :
        Delivery!Handled("notification_queue", e) /\ Kind[e] = "TRANSFER" =>
            /\ notices[e]["sender"] > 0
            /\ notices[e]["receiver"] > 0 \/ Cancelled

\* All in all a shutdown loses, of the events the broker took, a receiver's notification.
ShutdownKeepsEvents == ShutdownKeepsLogs /\ ShutdownKeepsNotices

\* A signal is followed by the exit, whatever streams are open and wherever the requests
\* and workers are.
ShutdownEnds == (main = "draining") ~> (main = "exited")
=============================================================================
