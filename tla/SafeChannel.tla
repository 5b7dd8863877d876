---------------------------- MODULE SafeChannel ----------------------------
(***************************************************************************)
(* internal/utils/rabbitmq.go: one connection and one publishing channel   *)
(* behind a mutex.  Both die on their own and tell through NotifyClose, at *)
(* some later time; a call finds out by a notification, by IsClosed or by  *)
(* a publish that fails, reopens what is missing and tries once more.      *)
(*                                                                         *)
(* Connections and channels have ids; 0 is the nil pointer.                *)
(***************************************************************************)
EXTENDS Naturals, FiniteSets

CONSTANTS
    Publishers,  \* calls of PublishWithContext, one per publishing goroutine
    Openers,     \* calls of NewChannel, one per reconnecting worker
    Free,        \* nobody has the mutex
    MaxFaults    \* bound on what goes wrong at the broker or the network

Callers == Publishers \cup Openers

ASSUME SafeChannelAssumption ==
    /\ Publishers \cap Openers = {}
    /\ Free \notin Callers
    /\ MaxFaults \in Nat

\* They never run out: after the first, each needs a fault or a Close that came before.
Ids == 1..(MaxFaults + 2)

VARIABLES
    holder,     \* s.mu
    conn, ch,   \* s.conn, s.ch
    connClose,  \* the connection whose end s.connClose reports
    chClose,    \* the channel whose end s.chClose reports
    link,       \* connections: a failing one is broken, and nobody has noticed
    chan,       \* channels
    home,       \* the connection of a channel
    told,       \* channels whose end has been notified
    closed,     \* whether main has called Close
    pc, attempt, result,
    routed,     \* messages handed to a connection that works, per publisher
    excused,    \* history: calls during which something was broken
    faults

manager == <<conn, ch, connClose, chClose>>
broker == <<link, chan, home, told>>
calls == <<holder, pc, attempt, result, routed>>
vars == <<manager, broker, calls, closed, excused, faults>>

Init ==
    /\ holder = Free
    /\ conn = 0 /\ ch = 0 /\ connClose = 0 /\ chClose = 0
    /\ link = [i \in Ids |-> "none"]
    /\ chan = [i \in Ids |-> "none"]
    /\ home = [i \in Ids |-> 0]
    /\ told = {}
    /\ closed = FALSE
    /\ pc = [p \in Callers |-> "idle"]
    /\ attempt = [p \in Callers |-> 1]
    /\ result = [p \in Callers |-> "none"]
    /\ routed = [p \in Publishers |-> 0]
    /\ excused = {}
    /\ faults = 0

Running == {p \in Callers : pc[p] \notin {"idle", "done"}}
Works(i) == i # 0 /\ chan[i] = "open" /\ link[home[i]] = "up"
Unused(f) == {i \in Ids : f[i] = "none"}
New(f) == CHOOSE i \in Ids : f[i] = "none"

\* What goes wrong excuses every call under way.
Fault ==
    /\ faults < MaxFaults /\ faults' = faults + 1
    /\ excused' = excused \cup Running

Goto(p, step) == pc' = [pc EXCEPT ![p] = step] /\ UNCHANGED <<holder, result>>

\* Variant: an early return forgets to unlock.
ReturnLocked(p, outcome) ==
    /\ pc' = [pc EXCEPT ![p] = "done"]
    /\ result' = [result EXCEPT ![p] = outcome]
    /\ holder' = IF outcome = "error" THEN holder ELSE Free

Return(p, outcome) ==
    /\ pc' = [pc EXCEPT ![p] = "done"]
    /\ result' = [result EXCEPT ![p] = outcome]
    /\ holder' = Free

-----------------------------------------------------------------------------
(* Calls.                                                                    *)

Call(p) ==
    /\ pc[p] = "idle"
    /\ Goto(p, "lock")
    /\ excused' = IF \E i \in Ids : link[i] = "failing" THEN excused \cup {p} ELSE excused
    /\ UNCHANGED <<manager, broker, attempt, routed, closed, faults>>

Lock(p) ==
    /\ pc[p] = "lock" /\ holder = Free
    /\ holder' = p
    /\ pc' = [pc EXCEPT ![p] = "check"]
    /\ UNCHANGED <<manager, broker, attempt, result, routed, closed, excused, faults>>

\* The step of a call once connection and channel are there.
Ready(p) == IF p \in Publishers THEN "send" ELSE "open"

\* Close of a channel and of a connection at the broker.
CloseChan(f, i) == IF i = 0 THEN f ELSE [f EXCEPT ![i] = "closed"]

\* The notifications that have arrived, IsClosed, and the reset of what is gone.
Check(p) ==
    /\ pc[p] = "check"
    /\ LET conn1 == IF connClose # 0 /\ link[connClose] = "closed" THEN 0 ELSE conn
           ch1 == IF chClose \in told THEN 0 ELSE ch
       IN  IF conn1 = 0 \/ link[conn1] = "closed"
             THEN /\ conn' = 0 /\ ch' = 0
                  /\ chan' = CloseChan(chan, ch1)
                  /\ Goto(p, "dial")
             ELSE /\ conn' = conn1 /\ ch' = ch1
                  /\ UNCHANGED chan
                  /\ Goto(p, IF ch1 = 0 THEN "channel" ELSE Ready(p))
    /\ UNCHANGED <<connClose, chClose, link, home, told, attempt, routed, closed, excused, faults>>

Dial(p) ==
    /\ pc[p] = "dial" /\ Unused(link) # {}
    /\ conn' = New(link) /\ connClose' = conn'
    /\ link' = [link EXCEPT ![conn'] = "up"]
    /\ Goto(p, "channel")
    /\ UNCHANGED <<ch, chClose, chan, home, told, attempt, routed, closed, excused, faults>>

DialFails(p) ==
    /\ pc[p] = "dial"
    /\ Fault
    /\ Return(p, "error")
    /\ UNCHANGED <<manager, broker, attempt, routed, closed>>

\* Variant: NotifyClose is registered for the first channel only.
OpenChannelUnwatched(p) ==
    /\ pc[p] = "channel" /\ link[conn] = "up" /\ Unused(chan) # {}
    /\ ch' = New(chan)
    /\ chClose' = IF chClose = 0 THEN ch' ELSE chClose
    /\ chan' = [chan EXCEPT ![ch'] = "open"]
    /\ home' = [home EXCEPT ![ch'] = conn]
    /\ Goto(p, Ready(p))
    /\ UNCHANGED <<conn, connClose, link, told, attempt, routed, closed, excused, faults>>

\* A channel on the connection, with its exchange and queues declared.
OpenChannel(p) ==
    /\ pc[p] = "channel" /\ link[conn] = "up" /\ Unused(chan) # {}
    /\ ch' = New(chan) /\ chClose' = ch'
    /\ chan' = [chan EXCEPT ![ch'] = "open"]
    /\ home' = [home EXCEPT ![ch'] = conn]
    /\ Goto(p, Ready(p))
    /\ UNCHANGED <<conn, connClose, link, told, attempt, routed, closed, excused, faults>>

DeclareFails(p) ==
    /\ pc[p] = "channel" /\ link[conn] = "up" /\ Unused(chan) # {}
    /\ Fault
    /\ LET new == New(chan) IN
          /\ chan' = [chan EXCEPT ![new] = "closed"]
          /\ home' = [home EXCEPT ![new] = conn]
    /\ Return(p, "error")
    /\ UNCHANGED <<manager, link, told, attempt, routed, closed>>

\* conn.Channel() on a connection that broke, noticed or not.
ChannelFails(p) ==
    /\ pc[p] \in {"channel", "open"} /\ link[conn] # "up"
    /\ Return(p, "error")
    /\ UNCHANGED <<manager, broker, attempt, routed, closed, excused, faults>>

\* NewChannel: the worker's own channel, which the manager does not keep.
OpenOwn(p) ==
    /\ pc[p] = "open" /\ link[conn] = "up"
    /\ Return(p, "ok")
    /\ UNCHANGED <<manager, broker, attempt, routed, closed, excused, faults>>

\* Variant: the second attempt follows a first that worked.
SendTwice(p) ==
    /\ pc[p] = "send" /\ Works(ch)
    /\ routed' = [routed EXCEPT ![p] = @ + 1]
    /\ IF attempt[p] = 1
         THEN Goto(p, "check") /\ attempt' = [attempt EXCEPT ![p] = 2]
         ELSE Return(p, "ok") /\ UNCHANGED attempt
    /\ UNCHANGED <<manager, broker, closed, excused, faults>>

Send(p) ==
    /\ pc[p] = "send" /\ Works(ch)
    /\ routed' = [routed EXCEPT ![p] = @ + 1]
    /\ Return(p, "ok")
    /\ UNCHANGED <<manager, broker, attempt, closed, excused, faults>>

\* A broken connection takes what is written to it: there are no confirmations.
SendIsLost(p) ==
    /\ pc[p] = "send"
    /\ chan[ch] = "open" /\ link[home[ch]] = "failing"
    /\ Return(p, "ok")
    /\ UNCHANGED <<manager, broker, attempt, routed, closed, excused, faults>>

\* Variant: the channel is kept for the second attempt.
RetryKeepsChannel(p) ==
    /\ pc[p] = "send" /\ ~Works(ch)
    /\ IF attempt[p] = 1
         THEN Goto(p, "check") /\ attempt' = [attempt EXCEPT ![p] = 2]
         ELSE Return(p, "error") /\ UNCHANGED attempt
    /\ UNCHANGED <<manager, broker, routed, closed, excused, faults>>

\* The channel is dropped, not closed, and everything is tried once more.
SendFails(p) ==
    /\ pc[p] = "send" /\ ~Works(ch)
    /\ IF attempt[p] = 1
         THEN ch' = 0 /\ Goto(p, "check") /\ attempt' = [attempt EXCEPT ![p] = 2]
         ELSE Return(p, "error") /\ UNCHANGED <<ch, attempt>>
    /\ UNCHANGED <<conn, connClose, chClose, broker, routed, closed, excused, faults>>

\* main's deferred Close.  Calls may come after it.
Close ==
    /\ ~closed /\ holder = Free
    /\ closed' = TRUE
    /\ chan' = CloseChan(chan, ch)
    /\ link' = CloseChan(link, conn)
    /\ conn' = 0 /\ ch' = 0
    /\ UNCHANGED <<connClose, chClose, home, told, calls, excused, faults>>

-----------------------------------------------------------------------------
(* The broker, the network and the library's goroutines.                     *)

LinkFails(i) ==
    /\ link[i] = "up"
    /\ Fault
    /\ link' = [link EXCEPT ![i] = "failing"]
    /\ UNCHANGED <<manager, chan, home, told, calls, closed>>

\* The broker closes a connection, or a broken one is noticed: by a heartbeat, by its
\* reader, or by the goroutine a failing write starts.
LinkCloses(i) ==
    /\ \/ link[i] = "up" /\ Fault
       \/ link[i] = "failing" /\ UNCHANGED <<excused, faults>>
    /\ link' = [link EXCEPT ![i] = "closed"]
    /\ UNCHANGED <<manager, chan, home, told, calls, closed>>

\* The broker closes a channel with an exception.
ChannelCloses(i) ==
    /\ Works(i)
    /\ Fault
    /\ chan' = [chan EXCEPT ![i] = "closed"]
    /\ UNCHANGED <<manager, link, home, told, calls, closed>>

Notify(i) ==
    /\ i \notin told
    /\ chan[i] = "closed" \/ (chan[i] = "open" /\ link[home[i]] = "closed")
    /\ told' = told \cup {i}
    /\ chan' = CloseChan(chan, i)
    /\ UNCHANGED <<manager, link, home, calls, closed, excused, faults>>

Progress(p) ==
    \/ Lock(p) \/ Check(p) \/ Dial(p) \/ OpenChannel(p) \/ ChannelFails(p)
    \/ OpenOwn(p) \/ Send(p) \/ SendIsLost(p) \/ SendFails(p)

Next ==
    \/ \E p \in Callers : Call(p) \/ Progress(p) \/ DialFails(p) \/ DeclareFails(p)
    \/ Close
    \/ \E i \in Ids : LinkFails(i) \/ LinkCloses(i) \/ ChannelCloses(i) \/ Notify(i)

Spec == Init /\ [][Next]_vars

\* Goroutines run and the library's calls return (its dials and writes time out).
FairSpec == Spec /\ \A p \in Callers : WF_vars(Progress(p))

-----------------------------------------------------------------------------
(* Correctness.                                                              *)

\* Types; only the holder of the mutex is between Lock and Return, and it has what its
\* step dereferences.
TypeOK ==
    /\ holder \in Callers \cup {Free}
    /\ {conn, ch, connClose, chClose} \subseteq Ids \cup {0}
    /\ link \in [Ids -> {"none", "up", "failing", "closed"}]
    /\ chan \in [Ids -> {"none", "open", "closed"}]
    /\ home \in [Ids -> Ids \cup {0}]
    /\ told \subseteq Ids
    /\ closed \in BOOLEAN
    /\ pc \in [Callers -> {"idle", "lock", "check", "dial", "channel", "open", "send", "done"}]
    /\ attempt \in [Callers -> {1, 2}]
    /\ result \in [Callers -> {"none", "ok", "error"}]
    /\ routed \in [Publishers -> Nat]
    /\ excused \subseteq Callers
    /\ faults \in 0..MaxFaults
    /\ \A p \in Callers :
          /\ holder = p <=> pc[p] \notin {"idle", "lock", "done"}
          /\ pc[p] \in {"channel", "open", "send"} => conn # 0
          /\ pc[p] \in {"open", "send"} => ch # 0

\* Nothing leaks: whatever died, was dropped or was reopened, by whom and in which order,
\* a connection that works is the manager's own, and so is a publishing channel on it.
NothingLeaks ==
    /\ \A i \in Ids : link[i] = "up" => i = conn
    /\ \A i \in Ids : Works(i) => i = ch

\* A call fails only for something broken while it ran: what broke before and has been
\* noticed is repaired by the call itself (rabbitmq.go:93-94).
FailureHasCause ==
    \A p \in Callers : result[p] = "error" => p \in excused

\* And results are true: an error means that nothing was sent, and success, unless
\* something was broken meanwhile, that one copy was.
ResultIsTrue ==
    /\ FailureHasCause
    /\ \A p \in Publishers :
          /\ result[p] = "error" => routed[p] = 0
          /\ result[p] = "ok" /\ p \notin excused => routed[p] = 1

\* Nobody keeps the mutex: every call returns.
EveryCallReturns == \A p \in Callers : (pc[p] # "idle") ~> (pc[p] = "done")

\* Refinement: publishing in EventDelivery, whose workers and queues do nothing here.
Events == INSTANCE EventDelivery WITH
    Events <- Publishers,
    Kind <- [p \in Publishers |-> "AUDIT"],
    NoEvent <- Free,
    stage <- [p \in Publishers |->
                CASE pc[p] = "idle" -> "none"
                  [] routed[p] > 0 -> "routed"
                  [] routed[p] = 0 /\ pc[p] = "done" -> "unsent"
                  [] OTHER -> "publishing"],
    queued <- [q \in {"notification_queue", "audit_queue", "analytics_queue"} |-> routed],
    attached <- [q \in {"notification_queue", "audit_queue", "analytics_queue"} |-> FALSE],
    hand <- [q \in {"notification_queue", "audit_queue", "analytics_queue"} |-> Free],
    step <- [q \in {"notification_queue", "audit_queue", "analytics_queue"} |-> "idle"],
    notices <- [p \in Publishers |-> [who \in {"user", "sender", "receiver"} |-> 0]],
    logs <- [p \in Publishers |-> 0],
    dropped <- [q \in {"notification_queue", "audit_queue", "analytics_queue"} |-> {}],
    faults <- 0

\* What EventDelivery takes for granted: a publish routes one copy or none, and is over.
ImplementsPublishing == Events!Spec
=============================================================================
