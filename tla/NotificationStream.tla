------------------------ MODULE NotificationStream ------------------------
(***************************************************************************)
(* The notifications of one user: the notification worker inserts a row    *)
(* and then publishes it to the user's Redis channel, streams (server-sent *)
(* events) hand on what Redis delivers, and a client that opens a page     *)
(* asks for its stream and for the first page of the list.  Redis delivers *)
(* to those subscribed at that instant and remembers nothing.  Redelivered *)
(* events make further notifications; EventDelivery counts them.           *)
(***************************************************************************)
EXTENDS Naturals, FiniteSets, Sequences, SequencesExt

CONSTANTS
    Notices,   \* notifications of the user
    Clients,   \* its open pages
    Limit,     \* page size
    MaxFaults  \* bound on failing publishes and connections

ASSUME StreamAssumption ==
    /\ Limit \in Nat \ {0}
    /\ MaxFaults \in Nat

VARIABLES
    created,  \* history: notifications in the order of their INSERTs
    stored,   \* rows of the table
    read,     \* rows with is_read
    pending,  \* inserted, and not yet published
    stream,   \* what Redis knows of a client's stream
    inbox,    \* delivered by Redis, and not yet written to the client
    shown,    \* written to the client
    pc,       \* the SELECT its list is at
    listed, total,
    overlaps, \* history: the list was read while subscribed, and nothing failed since
    cleared,  \* history: rows that were deleted
    faults

vars == <<created, stored, read, pending, stream, inbox, shown, pc, listed, total,
          overlaps, cleared, faults>>
table == <<created, stored, read, cleared>>
streams == <<stream, inbox, shown>>
lists == <<pc, listed, total>>

Init ==
    /\ created = <<>> /\ stored = {} /\ read = {} /\ cleared = {} /\ pending = {}
    /\ stream = [c \in Clients |-> "closed"]
    /\ inbox = [c \in Clients |-> <<>>]
    /\ shown = [c \in Clients |-> <<>>]
    /\ pc = [c \in Clients |-> "idle"]
    /\ listed = [c \in Clients |-> {}]
    /\ total = [c \in Clients |-> 0]
    /\ overlaps = [c \in Clients |-> FALSE]
    /\ faults = 0

-----------------------------------------------------------------------------
(* CreateAndPushNotification.                                                *)

\* Variant: the push runs in a goroutine of its own.
CreateUnwaiting(n) ==
    /\ n \notin ToSet(created)
    /\ created' = Append(created, n)
    /\ stored' = stored \cup {n}
    /\ pending' = pending \cup {n}
    /\ UNCHANGED <<read, cleared, streams, lists, overlaps, faults>>

\* INSERT.  The one worker handles one event after the other.
Create(n) ==
    /\ n \notin ToSet(created) /\ pending = {}
    /\ created' = Append(created, n)
    /\ stored' = stored \cup {n}
    /\ pending' = {n}
    /\ UNCHANGED <<read, cleared, streams, lists, overlaps, faults>>

\* Variant: what a stream has no room for is dropped.
DeliveredIfRoom(n) ==
    inbox' = [c \in Clients |->
                IF stream[c] = "open" /\ inbox[c] = <<>> THEN <<n>> ELSE inbox[c]]

\* What PUBLISH does: it reaches those that are subscribed.
Delivered(n) ==
    inbox' = [c \in Clients |->
                IF stream[c] = "open" THEN Append(inbox[c], n) ELSE inbox[c]]

Push(n) ==
    /\ n \in pending
    /\ Delivered(n)
    /\ pending' = pending \ {n}
    /\ UNCHANGED <<table, stream, shown, lists, overlaps, faults>>

Fault(excused) ==
    /\ faults < MaxFaults /\ faults' = faults + 1
    /\ overlaps' = [c \in Clients |-> overlaps[c] /\ c \notin excused]

\* Best effort: the error is logged and the notification counts as created.
PushFails(n) ==
    /\ n \in pending
    /\ Fault(Clients)
    /\ pending' = pending \ {n}
    /\ UNCHANGED <<table, streams, lists>>

-----------------------------------------------------------------------------
(* StreamNotifications.                                                      *)

\* The handler sends SUBSCRIBE and does not wait for its confirmation.
Open(c) ==
    /\ stream[c] = "closed"
    /\ stream' = [stream EXCEPT ![c] = "opening"]
    /\ UNCHANGED <<table, pending, inbox, shown, lists, overlaps, faults>>

Subscribe(c) ==
    /\ stream[c] = "opening"
    /\ stream' = [stream EXCEPT ![c] = "open"]
    /\ UNCHANGED <<table, pending, inbox, shown, lists, overlaps, faults>>

\* The connection to Redis breaks; go-redis subscribes again on a new one.
Unsubscribe(c) ==
    /\ stream[c] = "open"
    /\ Fault({c})
    /\ stream' = [stream EXCEPT ![c] = "opening"]
    /\ UNCHANGED <<table, pending, inbox, shown, lists>>

\* Variant: the callback of c.Stream asks for no further call.
StreamOnce(c) ==
    /\ inbox[c] # <<>> /\ shown[c] = <<>>
    /\ inbox' = [inbox EXCEPT ![c] = Tail(@)]
    /\ shown' = [shown EXCEPT ![c] = Append(@, Head(inbox[c]))]
    /\ UNCHANGED <<table, pending, stream, lists, overlaps, faults>>

StreamEvent(c) ==
    /\ inbox[c] # <<>>
    /\ inbox' = [inbox EXCEPT ![c] = Tail(@)]
    /\ shown' = [shown EXCEPT ![c] = Append(@, Head(inbox[c]))]
    /\ UNCHANGED <<table, pending, stream, lists, overlaps, faults>>

\* The client goes, and with it what it has been shown; it may come back.
Leave(c) ==
    /\ stream[c] # "closed" \/ pc[c] # "idle"
    /\ stream' = [stream EXCEPT ![c] = "closed"]
    /\ inbox' = [inbox EXCEPT ![c] = <<>>]
    /\ shown' = [shown EXCEPT ![c] = <<>>]
    /\ pc' = [pc EXCEPT ![c] = "idle"]
    /\ listed' = [listed EXCEPT ![c] = {}]
    /\ total' = [total EXCEPT ![c] = 0]
    /\ overlaps' = [overlaps EXCEPT ![c] = FALSE]
    /\ UNCHANGED <<table, pending, faults>>

-----------------------------------------------------------------------------
(* GetNotifications, MarkAsRead, ClearAll.                                   *)

Newer(n, m) ==
    \E i, j \in DOMAIN created : created[i] = n /\ created[j] = m /\ i > j

\* ORDER BY created_at DESC LIMIT: one worker inserts, so no two rows share an instant.
FirstPage == {n \in stored : Cardinality({m \in stored : Newer(m, n)}) < Limit}

FindPage(c) ==
    /\ pc[c] = "idle"
    /\ listed' = [listed EXCEPT ![c] = FirstPage]
    /\ overlaps' = [overlaps EXCEPT ![c] = stream[c] = "open"]
    /\ pc' = [pc EXCEPT ![c] = "count"]
    /\ UNCHANGED <<table, pending, streams, total, faults>>

CountRows(c) ==
    /\ pc[c] = "count"
    /\ total' = [total EXCEPT ![c] = Cardinality(stored)]
    /\ pc' = [pc EXCEPT ![c] = "done"]
    /\ UNCHANGED <<table, pending, streams, listed, overlaps, faults>>

\* The second SELECT fails: 500, and the client may ask again.
CountFails(c) ==
    /\ pc[c] = "count"
    /\ pc' = [pc EXCEPT ![c] = "idle"]
    /\ listed' = [listed EXCEPT ![c] = {}]
    /\ overlaps' = [overlaps EXCEPT ![c] = FALSE]
    /\ UNCHANGED <<table, pending, streams, total, faults>>

\* UPDATE ... WHERE id: of a row that is there, or of none.
MarkAsRead(n) ==
    /\ read' = read \cup ({n} \cap stored)
    /\ UNCHANGED <<created, stored, cleared, pending, streams, lists, overlaps, faults>>

ClearAll ==
    /\ stored' = {} /\ read' = {}
    /\ cleared' = cleared \cup stored
    /\ UNCHANGED <<created, pending, streams, lists, overlaps, faults>>

Next ==
    \/ \E n \in Notices : Create(n) \/ Push(n) \/ PushFails(n) \/ MarkAsRead(n)
    \/ \E c \in Clients :
          \/ Open(c) \/ Subscribe(c) \/ Unsubscribe(c) \/ StreamEvent(c) \/ Leave(c)
          \/ FindPage(c) \/ CountRows(c) \/ CountFails(c)
    \/ ClearAll

Spec == Init /\ [][Next]_vars

\* The worker goes on to its PUBLISH and the handlers' goroutines run.
FairSpec ==
    /\ Spec
    /\ \A n \in Notices : WF_vars(Push(n))
    /\ \A c \in Clients : WF_vars(StreamEvent(c))

-----------------------------------------------------------------------------
(* Correctness.                                                              *)

Received(c) == shown[c] \o inbox[c]

\* Types; rows are what was created and not cleared, and Redis delivers what was.
TypeOK ==
    /\ created \in Seq(Notices) /\ IsInjective(created)
    /\ stored = ToSet(created) \ cleared
    /\ cleared \subseteq ToSet(created)
    /\ read \subseteq stored
    /\ pending \subseteq ToSet(created) /\ \A n, m \in pending : n = m
    /\ stream \in [Clients -> {"closed", "opening", "open"}]
    /\ inbox \in [Clients -> Seq(Notices)] /\ shown \in [Clients -> Seq(Notices)]
    /\ pc \in [Clients -> {"idle", "count", "done"}]
    /\ listed \in [Clients -> SUBSET Notices]
    /\ total \in [Clients -> Nat]
    /\ overlaps \in [Clients -> BOOLEAN]
    /\ faults \in 0..MaxFaults
    /\ \A c \in Clients : (listed[c] \cup ToSet(Received(c))) \subseteq ToSet(created)

\* A client whose list was read after its subscription took effect misses nothing: every
\* notification is in the page or on an older one, streamed, about to be published or
\* cleared, at whatever moment its INSERT and its PUBLISH met the list and the stream.
NothingMissed ==
    \A c \in Clients : overlaps[c] =>
        \A n \in ToSet(created) :
            \/ n \in listed[c] \cup ToSet(Received(c)) \cup pending \cup cleared
            \/ Cardinality(listed[c]) = Limit /\ \A m \in listed[c] : Newer(m, n)

\* A stream shows a notification at most once, and in the order of the list.
StreamInListOrder ==
    \A c \in Clients : \A i, j \in DOMAIN Received(c) :
        i < j => Newer(Received(c)[j], Received(c)[i])

\* List and stream complement each other: nothing is missing, and what is streamed is on
\* top of what was streamed before, as it is in the list.
StreamCompletesList == NothingMissed /\ StreamInListOrder

\* What is created while a stream is subscribed is shown there, unless a publish or a
\* connection to Redis fails or the client goes first.
CreatedIsStreamed ==
    \A c \in Clients, n \in Notices :
        (n \in pending /\ stream[c] = "open" /\ faults = 0) ~>
            (n \in ToSet(shown[c]) \/ stream[c] # "open" \/ faults > 0)
=============================================================================
