---------------------------- MODULE Idempotency ----------------------------
(***************************************************************************)
(* POST /wallets/topup and POST /transfers behind the middleware of        *)
(* internal/middleware/idempotency_middleware.go, with the cache it keeps  *)
(* in Redis.  The handler is modelled by what AtomicLedger promises of it: *)
(* an effect at one instant, an answer later.  The answer of a successful  *)
(* execution names its transaction, so it is modelled by the request that  *)
(* executed.                                                               *)
(***************************************************************************)
EXTENDS Naturals, FiniteSets

CONSTANTS
    Requests,  \* HTTP requests
    Keys,      \* values of the Idempotency-Key header
    NoKey,     \* the header is absent
    Nobody,    \* no execution
    Faults     \* which faults may happen

FaultKinds == {"lookup", "store", "expire", "commit", "crash"}

ASSUME IdempotencyAssumption ==
    /\ NoKey \notin Keys
    /\ Nobody \notin Requests
    /\ Faults \subseteq FaultKinds

VARIABLES
    cache,       \* Redis: the execution whose answer is stored under a key
    pc,          \* the step a request is at
    key,         \* its key
    executed,    \* requests whose top-up or transfer took effect
    answer,      \* what its client got
    overlapped,  \* history: keys used by two requests at a time
    faulted      \* history: keys whose execution an answer or a cache entry got lost of

vars == <<cache, pc, key, executed, answer, overlapped, faulted>>

Steps == {"idle", "lookup", "handle", "effected", "store", "done"}
NoAnswer == [status |-> "none", from |-> Nobody]
Answers == [status : {"none", "missingKey", "ok", "refused", "error", "lost"},
            from : Requests \cup {Nobody}]

InFlight(r) == pc[r] \notin {"idle", "done"}
WithKey(k) == {r \in Requests : key[r] = k}

Init ==
    /\ cache = [k \in Keys |-> Nobody]
    /\ pc = [r \in Requests |-> "idle"]
    /\ key = [r \in Requests |-> NoKey]
    /\ executed = {}
    /\ answer = [r \in Requests |-> NoAnswer]
    /\ overlapped = {}
    /\ faulted = {}

Finish(r, status, from) ==
    /\ pc' = [pc EXCEPT ![r] = "done"]
    /\ answer' = [answer EXCEPT ![r] = [status |-> status, from |-> from]]

Goto(r, step) == pc' = [pc EXCEPT ![r] = step] /\ UNCHANGED answer

-----------------------------------------------------------------------------

Arrive(r, k) ==
    /\ pc[r] = "idle"
    /\ key' = [key EXCEPT ![r] = k]
    /\ overlapped' = IF \E s \in WithKey(k) : InFlight(s)
                       THEN overlapped \cup {k} ELSE overlapped
    /\ Goto(r, "lookup")
    /\ UNCHANGED <<cache, executed, faulted>>

\* No Idempotency-Key header: 400.
RejectMissingKey(r) ==
    /\ pc[r] = "idle"
    /\ Finish(r, "missingKey", Nobody)
    /\ UNCHANGED <<cache, key, executed, overlapped, faulted>>

\* Cache hit: the stored answer is replayed and the handler is not run.
Replay(r) ==
    /\ pc[r] = "lookup"
    /\ cache[key[r]] # Nobody
    /\ Finish(r, "ok", cache[key[r]])
    /\ UNCHANGED <<cache, key, executed, overlapped, faulted>>

\* Variant: the key is claimed before the handler runs and never given back.
MissClaims(r) ==
    /\ pc[r] = "lookup"
    /\ cache[key[r]] = Nobody
    /\ cache' = [cache EXCEPT ![key[r]] = r]
    /\ Goto(r, "handle")
    /\ UNCHANGED <<key, executed, overlapped, faulted>>

Miss(r) ==
    /\ pc[r] = "lookup"
    /\ cache[key[r]] = Nobody
    /\ Goto(r, "handle")
    /\ UNCHANGED <<cache, key, executed, overlapped, faulted>>

\* An error of Redis counts as a miss.
LookupFails(r) ==
    /\ "lookup" \in Faults
    /\ pc[r] = "lookup"
    /\ Goto(r, "handle")
    /\ faulted' = IF cache[key[r]] = Nobody THEN faulted ELSE faulted \cup {key[r]}
    /\ UNCHANGED <<cache, key, executed, overlapped>>

\* Variant: answers are stored whatever their status.
RefusalIsStored(r) ==
    /\ pc[r] = "handle"
    /\ Goto(r, "store")
    /\ UNCHANGED <<cache, key, executed, overlapped, faulted>>

\* Validation, a business rule or an internal error, without effect; not cached.
HandlerRefuses(r) ==
    /\ pc[r] = "handle"
    /\ \E status \in {"refused", "error"} : Finish(r, status, Nobody)
    /\ UNCHANGED <<cache, key, executed, overlapped, faulted>>

\* The transaction of the service commits.
HandlerTakesEffect(r) ==
    /\ pc[r] = "handle"
    /\ executed' = executed \cup {r}
    /\ Goto(r, "effected")
    /\ UNCHANGED <<cache, key, overlapped, faulted>>

HandlerSucceeds(r) ==
    /\ pc[r] = "effected"
    /\ Goto(r, "store")
    /\ UNCHANGED <<cache, key, executed, overlapped, faulted>>

\* The acknowledgement of the commit was lost: 500, not cached.
HandlerErrsAfterEffect(r) ==
    /\ "commit" \in Faults
    /\ pc[r] = "effected"
    /\ Finish(r, "error", Nobody)
    /\ faulted' = faulted \cup {key[r]}
    /\ UNCHANGED <<cache, key, executed, overlapped>>

\* Variant: only 201 Created is stored, and the handlers answer 200.
StoreCreatedOnly(r) ==
    /\ pc[r] = "store"
    /\ Finish(r, "ok", r)
    /\ UNCHANGED <<cache, key, executed, overlapped, faulted>>

\* Redis SET after the handler, whatever is stored by now; the answer leaves after it.
Store(r) ==
    /\ pc[r] = "store"
    /\ cache' = [cache EXCEPT ![key[r]] = r]
    /\ Finish(r, "ok", r)
    /\ UNCHANGED <<key, executed, overlapped, faulted>>

\* The error of SET is dropped and the answer is success.
StoreFails(r) ==
    /\ "store" \in Faults
    /\ pc[r] = "store"
    /\ Finish(r, "ok", r)
    /\ faulted' = faulted \cup {key[r]}
    /\ UNCHANGED <<cache, key, executed, overlapped>>

\* The entry's 24 hours pass, or Redis loses it.
Expire(k) ==
    /\ "expire" \in Faults
    /\ cache[k] # Nobody
    /\ cache' = [cache EXCEPT ![k] = Nobody]
    /\ faulted' = faulted \cup {k}
    /\ UNCHANGED <<pc, key, executed, answer, overlapped>>

\* The server dies; Redis and PostgreSQL keep what they have.
Crash ==
    /\ "crash" \in Faults
    /\ \E r \in Requests : InFlight(r)
    /\ pc' = [r \in Requests |-> IF InFlight(r) THEN "done" ELSE pc[r]]
    /\ answer' = [r \in Requests |->
                    IF InFlight(r) THEN [status |-> "lost", from |-> Nobody] ELSE answer[r]]
    /\ faulted' = faulted \cup {key[r] : r \in {s \in Requests : pc[s] \in {"effected", "store"}}}
    /\ UNCHANGED <<cache, key, executed, overlapped>>

Next ==
    \/ \E r \in Requests :
          \/ \E k \in Keys : Arrive(r, k)
          \/ RejectMissingKey(r)
          \/ Replay(r) \/ Miss(r) \/ LookupFails(r)
          \/ HandlerRefuses(r) \/ HandlerTakesEffect(r)
          \/ HandlerSucceeds(r) \/ HandlerErrsAfterEffect(r)
          \/ Store(r) \/ StoreFails(r)
    \/ \E k \in Keys : Expire(k)
    \/ Crash

Spec == Init /\ [][Next]_vars

-----------------------------------------------------------------------------
(* Correctness.                                                              *)

\* Types; a cached answer is of a request that executed.
TypeOK ==
    /\ cache \in [Keys -> executed \cup {Nobody}]
    /\ pc \in [Requests -> Steps]
    /\ key \in [Requests -> Keys \cup {NoKey}]
    /\ executed \subseteq Requests
    /\ answer \in [Requests -> Answers]
    /\ overlapped \subseteq Keys
    /\ faulted \subseteq Keys

Executions(k) == executed \cap WithKey(k)

\* A key executes at most once, unless two requests used it at a time or Redis, a commit
\* or the server failed around an execution of it: repeating a request after its answer
\* never repeats the top-up or the transfer (README.md:127).
Sound == Keys \ (overlapped \cup faulted)
OncePerKey ==
    \A k \in Sound : \A r, s \in Executions(k) : r = s

\* A success, replayed or not, is the answer of an execution of the same key, and all
\* successes of a key that nothing disturbed are the answer of the same execution.
AnswersFromOneExecution ==
    /\ \A r \in Requests :
          answer[r].status = "ok" => answer[r].from \in Executions(key[r])
    /\ \A k \in Sound : \A r, s \in WithKey(k) :
          answer[r].status = "ok" /\ answer[s].status = "ok" => answer[r] = answer[s]

\* What the middleware's comment says of it: it "prevents duplicate execution of mutation
\* requests" (idempotency_middleware.go:47; README.md:43 "against accidental
\* double-submissions").  Two requests with one key that both look it up before either
\* stores its answer both execute.
AtMostOncePerKey == \A k \in Keys : \A r, s \in Executions(k) : r = s
=============================================================================
