----------------------------- MODULE RateLimit -----------------------------
(***************************************************************************)
(* The limiter of internal/middleware/rate_limit_middleware.go: one Redis  *)
(* counter per client address, counted and given its time to live by one   *)
(* script, which Redis runs whole.  Time passes in ticks; requests fall    *)
(* between them.  Names that Idempotency has too begin with Limiter here:  *)
(* the theorems of both middlewares stand in one module.                   *)
(***************************************************************************)
EXTENDS Integers

CONSTANTS
    Clients,      \* client addresses
    MaxRequests,  \* requests a window admits
    Window,       \* its length in ticks
    MaxTime,      \* bound on the ticks
    MaxPerTick    \* bound on the requests of a client in a tick

ASSUME RateLimitAssumption ==
    /\ MaxRequests \in Nat /\ Window \in Nat \ {0}
    /\ MaxTime \in Nat /\ MaxPerTick \in Nat

VARIABLES
    now,
    count,     \* the counter of "ratelimit:<address>"; 0 when the key is absent
    ttl,       \* the ticks it has left
    counted,   \* history: runs of the script for a client before each tick
    admitted,  \* history: requests it let go on to their handler, likewise
    refused    \* clients whose latest request got 429

limiterVars == <<now, count, ttl, counted, admitted, refused>>

Times == 0..MaxTime
Marks == 0..(MaxTime + 1)  \* the beginnings of ticks, and the end of the last

\* A history with one more event of client c in this tick, and what one has between two marks.
OneMore(h, c) == [h EXCEPT ![c] = [t \in Marks |-> IF t > now THEN h[c][t] + 1 ELSE h[c][t]]]
Between(h, from, to) == h[to] - h[from]

LimiterInit ==
    /\ now = 0
    /\ count = [c \in Clients |-> 0]
    /\ ttl = [c \in Clients |-> 0]
    /\ counted = [c \in Clients |-> [t \in Marks |-> 0]]
    /\ admitted = [c \in Clients |-> [t \in Marks |-> 0]]
    /\ refused = {}

\* Variant: the request after the limit still passes.
OverLimitByTwo(n) == n > MaxRequests + 1

OverLimit(n) == n > MaxRequests

\* Variant: the key's time to live starts anew with every request.
ScriptRenews(c) ==
    /\ count' = [count EXCEPT ![c] = @ + 1]
    /\ ttl' = [ttl EXCEPT ![c] = Window]
    /\ counted' = OneMore(counted, c)

\* Variant: INCR and EXPIRE sent apart, the second lost.
ScriptWithoutExpire(c) ==
    /\ count' = [count EXCEPT ![c] = @ + 1]
    /\ counted' = OneMore(counted, c)
    /\ UNCHANGED ttl

\* rateLimitScript: INCR, and EXPIRE when the key is new.
Script(c) ==
    /\ count' = [count EXCEPT ![c] = @ + 1]
    /\ ttl' = [ttl EXCEPT ![c] = IF count[c] = 0 THEN Window ELSE @]
    /\ counted' = OneMore(counted, c)

Request(c) ==
    /\ Between(counted[c], now, now + 1) < MaxPerTick
    /\ Script(c)
    /\ \/ /\ OverLimit(count'[c])
          /\ refused' = refused \cup {c}
          /\ UNCHANGED admitted
       \/ /\ ~OverLimit(count'[c])
          /\ refused' = refused \ {c}
          /\ admitted' = OneMore(admitted, c)
    /\ UNCHANGED now

\* Redis runs the script and its reply is lost: the request goes on, uncounted as admitted.
ReplyLost(c) ==
    /\ Between(counted[c], now, now + 1) < MaxPerTick
    /\ Script(c)
    /\ refused' = refused \ {c}
    /\ UNCHANGED <<now, admitted>>

\* Redis does not answer: the request goes on without the limiter.
FailOpen(c) ==
    /\ refused' = refused \ {c}
    /\ UNCHANGED <<now, count, ttl, counted, admitted>>

\* A tick; keys whose time to live ends are gone.
Tick ==
    /\ now < MaxTime
    /\ now' = now + 1
    /\ ttl' = [c \in Clients |-> IF ttl[c] = 0 THEN 0 ELSE ttl[c] - 1]
    /\ count' = [c \in Clients |-> IF ttl[c] = 1 THEN 0 ELSE count[c]]
    /\ UNCHANGED <<counted, admitted, refused>>

LimiterNext ==
    \/ \E c \in Clients : Request(c) \/ ReplyLost(c) \/ FailOpen(c)
    \/ Tick

LimiterSpec == LimiterInit /\ [][LimiterNext]_limiterVars

-----------------------------------------------------------------------------
(* Correctness.                                                              *)

\* Types; a counter never outlives its window, so no client stays locked out.
LimiterTypeOK ==
    /\ now \in Times
    /\ count \in [Clients -> Nat]
    /\ ttl \in [Clients -> 0..Window]
    /\ counted \in [Clients -> [Marks -> Nat]]
    /\ admitted \in [Clients -> [Marks -> Nat]]
    /\ refused \subseteq Clients
    /\ \A c \in Clients : count[c] > 0 <=> ttl[c] > 0

\* A fixed window's promise, while Redis answers: any Window consecutive ticks see at most
\* twice MaxRequests admissions of a client, however its requests fall around the end of a
\* window.
TwiceTheLimit ==
    \A c \in Clients : \A t \in Times :
        t + Window \in Marks => Between(admitted[c], t, t + Window) <= 2 * MaxRequests

\* A client is refused only after the script ran MaxRequests times for it within the
\* latest Window ticks: neither old requests nor those of others use its limit up.
RecentStart == IF now < Window THEN 0 ELSE now + 1 - Window
RefusalIsEarned ==
    [][\A c \in Clients :
          c \in refused' /\ counted'[c] # counted[c] =>
             Between(counted[c], RecentStart, now + 1) >= MaxRequests]_limiterVars
=============================================================================
