-------------------------- MODULE MiddlewareProofs --------------------------
(***************************************************************************)
(* Theorems of the two middlewares that keep their state in Redis.         *)
(*                                                                         *)
(* Idempotency, for every set of requests, keys and faults: the inductive  *)
(* invariant says where the one execution of an undisturbed key is, in the *)
(* cache or in the one request still in flight.                            *)
(*                                                                         *)
(* RateLimit, for every limit, window and number of requests:              *)
(* the inductive invariant says what the window of a client and the span   *)
(* before it have admitted.                                                *)
(***************************************************************************)
EXTENDS Idempotency, RateLimit, TLAPS

\* What the step a request is at says of it.
StepInv ==
    \A r \in Requests :
        /\ InFlight(r) => key[r] \in Keys
        /\ pc[r] \in {"idle", "lookup", "handle"} => r \notin executed
        /\ pc[r] \in {"effected", "store"} => r \in executed
        /\ pc[r] = "idle" => key[r] = NoKey
        /\ answer[r].status = "ok" => pc[r] = "done" /\ key[r] \in Keys

\* Where answers come from, disturbed or not.
OriginInv ==
    /\ \A k \in Keys : cache[k] # Nobody => cache[k] \in Executions(k)
    /\ \A r \in Requests :
          answer[r].status = "ok" => answer[r].from \in Executions(key[r])

\* An undisturbed key.
SoundInv(k) ==
    /\ \A r, s \in WithKey(k) : InFlight(r) /\ InFlight(s) => r = s
    /\ \A r \in Executions(k) :
          \/ cache[k] = r
          \/ cache[k] = Nobody /\ pc[r] \in {"effected", "store"}
    /\ \A r \in WithKey(k) :
          /\ pc[r] = "handle" => Executions(k) = {}
          /\ answer[r].status = "ok" => answer[r].from = cache[k]

IInv ==
    /\ TypeOK
    /\ StepInv
    /\ OriginInv
    /\ \A k \in Sound : SoundInv(k)

-----------------------------------------------------------------------------
(* The invariant is inductive: one lemma per action.                         *)

LEMMA InitIInv == Init => IInv
BY IdempotencyAssumption DEF Init, IInv, TypeOK, StepInv, OriginInv, SoundInv, Sound, Steps,
   Answers, NoAnswer, InFlight, WithKey, Executions

LEMMA ArriveIInv ==
    ASSUME NEW r \in Requests, NEW k \in Keys, Arrive(r, k), IInv
    PROVE  IInv'
<1> USE IdempotencyAssumption DEF Arrive, Goto
<1>1. TypeOK'
  BY DEF IInv, TypeOK, StepInv, InFlight, Steps, Answers
<1>2. StepInv'
  BY DEF IInv, TypeOK, StepInv, InFlight
<1>3. OriginInv'
  BY DEF IInv, TypeOK, StepInv, OriginInv, InFlight, WithKey, Executions
<1>4. ASSUME NEW j \in Keys, j \in Sound' PROVE SoundInv(j)'
  <2>1. j \in Sound /\ SoundInv(j)
    BY <1>4 DEF IInv, Sound
  <2> QED
    BY <1>4, <2>1 DEF IInv, TypeOK, StepInv, OriginInv, SoundInv, Sound, InFlight, WithKey,
       Executions
<1> QED
  BY <1>1, <1>2, <1>3, <1>4 DEF IInv, Sound

LEMMA RejectMissingKeyIInv ==
    ASSUME NEW r \in Requests, RejectMissingKey(r), IInv
    PROVE  IInv'
<1> USE IdempotencyAssumption DEF RejectMissingKey, Finish
<1>1. TypeOK'
  BY DEF IInv, TypeOK, StepInv, InFlight, Steps, Answers
<1>2. StepInv'
  BY DEF IInv, TypeOK, StepInv, InFlight
<1>3. OriginInv'
  BY DEF IInv, TypeOK, StepInv, OriginInv, InFlight, WithKey, Executions
<1>4. ASSUME NEW j \in Keys, j \in Sound' PROVE SoundInv(j)'
  <2>1. j \in Sound /\ SoundInv(j)
    BY <1>4 DEF IInv, Sound
  <2> QED
    BY <1>4, <2>1 DEF IInv, TypeOK, StepInv, OriginInv, SoundInv, Sound, InFlight, WithKey,
       Executions
<1> QED
  BY <1>1, <1>2, <1>3, <1>4 DEF IInv, Sound

LEMMA ReplayIInv ==
    ASSUME NEW r \in Requests, Replay(r), IInv
    PROVE  IInv'
<1> USE IdempotencyAssumption DEF Replay, Finish
<1>1. TypeOK'
  BY DEF IInv, TypeOK, StepInv, InFlight, Steps, Answers
<1>2. StepInv'
  BY DEF IInv, TypeOK, StepInv, InFlight
<1>3. OriginInv'
  BY DEF IInv, TypeOK, StepInv, OriginInv, InFlight, WithKey, Executions
<1>4. ASSUME NEW j \in Keys, j \in Sound' PROVE SoundInv(j)'
  <2>1. j \in Sound /\ SoundInv(j)
    BY <1>4 DEF IInv, Sound
  <2> QED
    BY <1>4, <2>1 DEF IInv, TypeOK, StepInv, OriginInv, SoundInv, Sound, InFlight, WithKey,
       Executions
<1> QED
  BY <1>1, <1>2, <1>3, <1>4 DEF IInv, Sound

LEMMA MissIInv ==
    ASSUME NEW r \in Requests, Miss(r), IInv
    PROVE  IInv'
<1> USE IdempotencyAssumption DEF Miss, Goto
<1>1. TypeOK'
  BY DEF IInv, TypeOK, StepInv, InFlight, Steps, Answers
<1>2. StepInv'
  BY DEF IInv, TypeOK, StepInv, InFlight
<1>3. OriginInv'
  BY DEF IInv, TypeOK, StepInv, OriginInv, InFlight, WithKey, Executions
<1>4. ASSUME NEW j \in Keys, j \in Sound' PROVE SoundInv(j)'
  <2>1. j \in Sound /\ SoundInv(j)
    BY <1>4 DEF IInv, Sound
  <2> QED
    BY <1>4, <2>1 DEF IInv, TypeOK, StepInv, OriginInv, SoundInv, Sound, InFlight, WithKey,
       Executions
<1> QED
  BY <1>1, <1>2, <1>3, <1>4 DEF IInv, Sound

LEMMA LookupFailsIInv ==
    ASSUME NEW r \in Requests, LookupFails(r), IInv
    PROVE  IInv'
<1> USE IdempotencyAssumption DEF LookupFails, Goto
<1>1. TypeOK'
  BY DEF IInv, TypeOK, StepInv, InFlight, Steps, Answers
<1>2. StepInv'
  BY DEF IInv, TypeOK, StepInv, InFlight
<1>3. OriginInv'
  BY DEF IInv, TypeOK, StepInv, OriginInv, InFlight, WithKey, Executions
<1>4. ASSUME NEW j \in Keys, j \in Sound' PROVE SoundInv(j)'
  <2>1. j \in Sound /\ SoundInv(j)
    BY <1>4 DEF IInv, Sound
  <2> QED
    BY <1>4, <2>1 DEF IInv, TypeOK, StepInv, OriginInv, SoundInv, Sound, InFlight, WithKey,
       Executions
<1> QED
  BY <1>1, <1>2, <1>3, <1>4 DEF IInv, Sound

LEMMA HandlerRefusesIInv ==
    ASSUME NEW r \in Requests, HandlerRefuses(r), IInv
    PROVE  IInv'
<1> USE IdempotencyAssumption DEF HandlerRefuses, Finish
<1>1. TypeOK'
  BY DEF IInv, TypeOK, StepInv, InFlight, Steps, Answers
<1>2. StepInv'
  BY DEF IInv, TypeOK, StepInv, InFlight
<1>3. OriginInv'
  BY DEF IInv, TypeOK, StepInv, OriginInv, InFlight, WithKey, Executions
<1>4. ASSUME NEW j \in Keys, j \in Sound' PROVE SoundInv(j)'
  <2>1. j \in Sound /\ SoundInv(j)
    BY <1>4 DEF IInv, Sound
  <2> QED
    BY <1>4, <2>1 DEF IInv, TypeOK, StepInv, OriginInv, SoundInv, Sound, InFlight, WithKey,
       Executions
<1> QED
  BY <1>1, <1>2, <1>3, <1>4 DEF IInv, Sound

LEMMA HandlerTakesEffectIInv ==
    ASSUME NEW r \in Requests, HandlerTakesEffect(r), IInv
    PROVE  IInv'
<1> USE IdempotencyAssumption DEF HandlerTakesEffect, Goto
<1>1. TypeOK'
  BY DEF IInv, TypeOK, StepInv, InFlight, Steps, Answers
<1>2. StepInv'
  BY DEF IInv, TypeOK, StepInv, InFlight
<1>3. OriginInv'
  BY DEF IInv, TypeOK, StepInv, OriginInv, InFlight, WithKey, Executions
<1>4. ASSUME NEW j \in Keys, j \in Sound' PROVE SoundInv(j)'
  <2>1. j \in Sound /\ SoundInv(j)
    BY <1>4 DEF IInv, Sound
  <2> QED
    BY <1>4, <2>1 DEF IInv, TypeOK, StepInv, OriginInv, SoundInv, Sound, InFlight, WithKey,
       Executions
<1> QED
  BY <1>1, <1>2, <1>3, <1>4 DEF IInv, Sound

LEMMA HandlerSucceedsIInv ==
    ASSUME NEW r \in Requests, HandlerSucceeds(r), IInv
    PROVE  IInv'
<1> USE IdempotencyAssumption DEF HandlerSucceeds, Goto
<1>1. TypeOK'
  BY DEF IInv, TypeOK, StepInv, InFlight, Steps, Answers
<1>2. StepInv'
  BY DEF IInv, TypeOK, StepInv, InFlight
<1>3. OriginInv'
  BY DEF IInv, TypeOK, StepInv, OriginInv, InFlight, WithKey, Executions
<1>4. ASSUME NEW j \in Keys, j \in Sound' PROVE SoundInv(j)'
  <2>1. j \in Sound /\ SoundInv(j)
    BY <1>4 DEF IInv, Sound
  <2> QED
    BY <1>4, <2>1 DEF IInv, TypeOK, StepInv, OriginInv, SoundInv, Sound, InFlight, WithKey,
       Executions
<1> QED
  BY <1>1, <1>2, <1>3, <1>4 DEF IInv, Sound

LEMMA HandlerErrsAfterEffectIInv ==
    ASSUME NEW r \in Requests, HandlerErrsAfterEffect(r), IInv
    PROVE  IInv'
<1> USE IdempotencyAssumption DEF HandlerErrsAfterEffect, Finish
<1>1. TypeOK'
  BY DEF IInv, TypeOK, StepInv, InFlight, Steps, Answers
<1>2. StepInv'
  BY DEF IInv, TypeOK, StepInv, InFlight
<1>3. OriginInv'
  BY DEF IInv, TypeOK, StepInv, OriginInv, InFlight, WithKey, Executions
<1>4. ASSUME NEW j \in Keys, j \in Sound' PROVE SoundInv(j)'
  <2>1. j \in Sound /\ SoundInv(j)
    BY <1>4 DEF IInv, Sound
  <2> QED
    BY <1>4, <2>1 DEF IInv, TypeOK, StepInv, OriginInv, SoundInv, Sound, InFlight, WithKey,
       Executions
<1> QED
  BY <1>1, <1>2, <1>3, <1>4 DEF IInv, Sound

LEMMA StoreIInv ==
    ASSUME NEW r \in Requests, Store(r), IInv
    PROVE  IInv'
<1> USE IdempotencyAssumption DEF Store, Finish
<1>1. TypeOK'
  BY DEF IInv, TypeOK, StepInv, InFlight, Steps, Answers
<1>2. StepInv'
  BY DEF IInv, TypeOK, StepInv, InFlight
<1>3. OriginInv'
  BY DEF IInv, TypeOK, StepInv, OriginInv, InFlight, WithKey, Executions
<1>4. ASSUME NEW j \in Keys, j \in Sound' PROVE SoundInv(j)'
  <2>1. j \in Sound /\ SoundInv(j)
    BY <1>4 DEF IInv, Sound
  <2> QED
    BY <1>4, <2>1 DEF IInv, TypeOK, StepInv, OriginInv, SoundInv, Sound, InFlight, WithKey,
       Executions
<1> QED
  BY <1>1, <1>2, <1>3, <1>4 DEF IInv, Sound

LEMMA StoreFailsIInv ==
    ASSUME NEW r \in Requests, StoreFails(r), IInv
    PROVE  IInv'
<1> USE IdempotencyAssumption DEF StoreFails, Finish
<1>1. TypeOK'
  BY DEF IInv, TypeOK, StepInv, InFlight, Steps, Answers
<1>2. StepInv'
  BY DEF IInv, TypeOK, StepInv, InFlight
<1>3. OriginInv'
  BY DEF IInv, TypeOK, StepInv, OriginInv, InFlight, WithKey, Executions
<1>4. ASSUME NEW j \in Keys, j \in Sound' PROVE SoundInv(j)'
  <2>1. j \in Sound /\ SoundInv(j)
    BY <1>4 DEF IInv, Sound
  <2> QED
    BY <1>4, <2>1 DEF IInv, TypeOK, StepInv, OriginInv, SoundInv, Sound, InFlight, WithKey,
       Executions
<1> QED
  BY <1>1, <1>2, <1>3, <1>4 DEF IInv, Sound

LEMMA ExpireIInv ==
    ASSUME NEW k \in Keys, Expire(k), IInv
    PROVE  IInv'
<1> USE IdempotencyAssumption DEF Expire
<1>1. TypeOK'
  BY DEF IInv, TypeOK, StepInv, InFlight, Steps, Answers
<1>2. StepInv'
  BY DEF IInv, TypeOK, StepInv, InFlight
<1>3. OriginInv'
  BY DEF IInv, TypeOK, StepInv, OriginInv, InFlight, WithKey, Executions
<1>4. ASSUME NEW j \in Keys, j \in Sound' PROVE SoundInv(j)'
  <2>1. j \in Sound /\ SoundInv(j)
    BY <1>4 DEF IInv, Sound
  <2> QED
    BY <1>4, <2>1 DEF IInv, TypeOK, StepInv, OriginInv, SoundInv, Sound, InFlight, WithKey,
       Executions
<1> QED
  BY <1>1, <1>2, <1>3, <1>4 DEF IInv, Sound

LEMMA CrashIInv ==
    ASSUME Crash, IInv
    PROVE  IInv'
<1> USE IdempotencyAssumption DEF Crash
<1>1. TypeOK'
  BY DEF IInv, TypeOK, StepInv, InFlight, Steps, Answers
<1>2. StepInv'
  BY DEF IInv, TypeOK, StepInv, InFlight
<1>3. OriginInv'
  BY DEF IInv, TypeOK, StepInv, OriginInv, InFlight, WithKey, Executions
<1>4. ASSUME NEW j \in Keys, j \in Sound' PROVE SoundInv(j)'
  <2>1. j \in Sound /\ SoundInv(j)
    BY <1>4 DEF IInv, Sound
  <2> QED
    BY <1>4, <2>1 DEF IInv, TypeOK, StepInv, OriginInv, SoundInv, Sound, InFlight, WithKey,
       Executions
<1> QED
  BY <1>1, <1>2, <1>3, <1>4 DEF IInv, Sound

LEMMA StutterIInv ==
    ASSUME UNCHANGED vars, IInv
    PROVE  IInv'
BY DEF vars, IInv, TypeOK, StepInv, OriginInv, SoundInv, Sound, InFlight, WithKey, Executions

LEMMA NextIInv ==
    ASSUME [Next]_vars, IInv
    PROVE  IInv'
<1>1. ASSUME NEW r \in Requests, NEW k \in Keys, Arrive(r, k) PROVE IInv'
  BY <1>1, ArriveIInv
<1>2. ASSUME NEW r \in Requests, RejectMissingKey(r) PROVE IInv'
  BY <1>2, RejectMissingKeyIInv
<1>3. ASSUME NEW r \in Requests, Replay(r) PROVE IInv'
  BY <1>3, ReplayIInv
<1>4. ASSUME NEW r \in Requests, Miss(r) PROVE IInv'
  BY <1>4, MissIInv
<1>5. ASSUME NEW r \in Requests, LookupFails(r) PROVE IInv'
  BY <1>5, LookupFailsIInv
<1>6. ASSUME NEW r \in Requests, HandlerRefuses(r) PROVE IInv'
  BY <1>6, HandlerRefusesIInv
<1>7. ASSUME NEW r \in Requests, HandlerTakesEffect(r) PROVE IInv'
  BY <1>7, HandlerTakesEffectIInv
<1>8. ASSUME NEW r \in Requests, HandlerSucceeds(r) PROVE IInv'
  BY <1>8, HandlerSucceedsIInv
<1>9. ASSUME NEW r \in Requests, HandlerErrsAfterEffect(r) PROVE IInv'
  BY <1>9, HandlerErrsAfterEffectIInv
<1>10. ASSUME NEW r \in Requests, Store(r) PROVE IInv'
  BY <1>10, StoreIInv
<1>11. ASSUME NEW r \in Requests, StoreFails(r) PROVE IInv'
  BY <1>11, StoreFailsIInv
<1>12. ASSUME NEW k \in Keys, Expire(k) PROVE IInv'
  BY <1>12, ExpireIInv
<1>13. CASE Crash
  BY <1>13, CrashIInv
<1>14. CASE UNCHANGED vars
  BY <1>14, StutterIInv
<1> QED
  BY <1>1, <1>2, <1>3, <1>4, <1>5, <1>6, <1>7, <1>8, <1>9, <1>10, <1>11, <1>12, <1>13, <1>14
     DEF Next

-----------------------------------------------------------------------------

\* IInv holds in every reachable state.
THEOREM Invariance == Spec => []IInv
BY InitIInv, NextIInv, PTL DEF Spec

\* The types are kept, and the cache only holds answers of executions (TypeOK).
THEOREM TypeCorrect == Spec => []TypeOK
<1>1. IInv => TypeOK
  BY DEF IInv
<1> QED
  BY <1>1, Invariance, PTL

\* An undisturbed key executes at most once, however many requests carry it (OncePerKey).
THEOREM ExecutesOnce == Spec => []OncePerKey
<1>1. IInv => OncePerKey
  <2> SUFFICES ASSUME IInv, NEW k \in Sound, NEW r \in Executions(k), NEW s \in Executions(k)
               PROVE  r = s
    BY DEF OncePerKey
  <2>1. SoundInv(k) /\ k \in Keys
    BY DEF IInv, Sound
  <2>2. r \in WithKey(k) /\ s \in WithKey(k) /\ r # Nobody /\ s # Nobody
    BY IdempotencyAssumption DEF Executions, WithKey
  <2>3. CASE cache[k] = Nobody
    BY <2>1, <2>2, <2>3 DEF SoundInv, InFlight
  <2>4. CASE cache[k] # Nobody
    BY <2>1, <2>4 DEF SoundInv
  <2> QED
    BY <2>3, <2>4
<1> QED
  BY <1>1, Invariance, PTL

\* Successes come from an execution of their key; those of an undisturbed key from the
\* same one (AnswersFromOneExecution).
THEOREM AnswersAgree == Spec => []AnswersFromOneExecution
<1>1. IInv => AnswersFromOneExecution
  <2> SUFFICES ASSUME IInv PROVE AnswersFromOneExecution
    OBVIOUS
  <2>1. ASSUME NEW r \in Requests, answer[r].status = "ok"
        PROVE  answer[r].from \in Executions(key[r])
    BY <2>1 DEF IInv, OriginInv
  <2>2. ASSUME NEW k \in Sound, NEW r \in WithKey(k), NEW s \in WithKey(k),
               answer[r].status = "ok", answer[s].status = "ok"
        PROVE  answer[r] = answer[s]
    <3>1. answer[r] \in Answers /\ answer[s] \in Answers
      BY DEF IInv, TypeOK, WithKey
    <3>2. answer[r].from = cache[k] /\ answer[s].from = cache[k]
      BY <2>2 DEF IInv, SoundInv
    <3> QED
      BY <3>1, <3>2, <2>2 DEF Answers
  <2> QED
    BY <2>1, <2>2 DEF AnswersFromOneExecution
<1> QED
  BY <1>1, Invariance, PTL

-----------------------------------------------------------------------------
(* RateLimit, the other middleware.                                          *)

\* A history only grows, and is settled for the marks to come.
Grows(h) ==
    /\ \A s, t \in Marks : s <= t => h[s] <= h[t]
    /\ \A t \in Marks : t > now => h[t] = h[now + 1]

\* The tick in which the key of a client was created.
Started(c) == now + ttl[c] - Window

\* While the key lives, it has counted what came since it was created, and the window
\* before, cut short where any span reaching into this one begins, admitted its share.
OpenInv(c) ==
    /\ Started(c) \in 0..now
    /\ count[c] = Between(counted[c], Started(c), now + 1)
    /\ Between(admitted[c], Started(c), now + 1) <= count[c]
    /\ Between(admitted[c], Started(c), now + 1) <= MaxRequests
    /\ \A t \in Times :
          t <= Started(c) /\ Started(c) < t + Window =>
              Between(admitted[c], t, Started(c)) <= MaxRequests

\* Without a key, nothing has been counted in this tick, and one share admitted in those
\* before it that a span reaching into it has.
ClosedInv(c) ==
    /\ counted[c][now + 1] = counted[c][now]
    /\ admitted[c][now + 1] = admitted[c][now]
    /\ \A t \in Times :
          t <= now /\ now < t + Window => Between(admitted[c], t, now) <= MaxRequests

ClientInv(c) ==
    /\ Grows(counted[c]) /\ Grows(admitted[c])
    /\ count[c] > 0 => OpenInv(c)
    /\ count[c] = 0 => ClosedInv(c)

LimiterInv == LimiterTypeOK /\ TwiceTheLimit /\ \A c \in Clients : ClientInv(c)

-----------------------------------------------------------------------------

LEMMA InitLimiterInv == LimiterInit => LimiterInv
<1> SUFFICES ASSUME LimiterInit PROVE LimiterInv
  OBVIOUS
<1> USE RateLimitAssumption DEF RateLimitAssumption, LimiterInit
<1>1. LimiterTypeOK
  BY DEF LimiterTypeOK, Times, Marks
<1>2. TwiceTheLimit
  BY DEF TwiceTheLimit, Between, Times, Marks
<1>3. ASSUME NEW c \in Clients PROVE ClientInv(c)
  BY DEF ClientInv, Grows, ClosedInv, Between, Times, Marks
<1> QED
  BY <1>1, <1>2, <1>3 DEF LimiterInv

\* One more event in this tick.
LEMMA OneMoreFacts ==
    ASSUME NEW h \in [Clients -> [Marks -> Nat]], NEW c \in Clients,
           now \in Times, Grows(h[c])
    PROVE  /\ OneMore(h, c) \in [Clients -> [Marks -> Nat]]
           /\ \A d \in Clients : d # c => OneMore(h, c)[d] = h[d]
           /\ \A t \in Marks :
                 OneMore(h, c)[c][t] = IF t > now THEN h[c][t] + 1 ELSE h[c][t]
           /\ Grows(OneMore(h, c)[c])
<1> DEFINE g == OneMore(h, c)[c]
<1>1. g = [t \in Marks |-> IF t > now THEN h[c][t] + 1 ELSE h[c][t]]
  BY DEF OneMore
<1>2. h[c] \in [Marks -> Nat] /\ g \in [Marks -> Nat]
  BY <1>1
<1>3. now + 1 \in Marks /\ now + 1 > now
  BY RateLimitAssumption DEF RateLimitAssumption, Times, Marks
<1>4. Marks \subseteq Int /\ now \in Int
  BY RateLimitAssumption DEF RateLimitAssumption, Times, Marks
<1>5. Grows(g)
  BY <1>1, <1>2, <1>3, <1>4 DEF Grows
<1> QED
  BY <1>1, <1>2, <1>5 DEF OneMore

\* A step that runs the script for c; admitted tells whether it lets a request go on.
Counted(c) ==
    /\ Script(c)
    /\ UNCHANGED now
    /\ \/ UNCHANGED admitted
       \/ admitted' = OneMore(admitted, c) /\ count[c] + 1 <= MaxRequests

\* Types and histories survive it.
LEMMA CountedType ==
    ASSUME LimiterTypeOK, NEW c \in Clients, Grows(counted[c]), Grows(admitted[c]), Counted(c),
           refused' \subseteq Clients
    PROVE  LimiterTypeOK' /\ Grows(counted[c])' /\ Grows(admitted[c])'
<1> USE RateLimitAssumption DEF RateLimitAssumption
<1>1. /\ counted \in [Clients -> [Marks -> Nat]]
      /\ admitted \in [Clients -> [Marks -> Nat]]
      /\ now \in Times /\ now' = now
      /\ count \in [Clients -> Nat] /\ ttl \in [Clients -> 0..Window]
      /\ \A d \in Clients : count[d] > 0 <=> ttl[d] > 0
  BY DEF LimiterTypeOK, Counted
<1>2. /\ count' = [count EXCEPT ![c] = count[c] + 1]
      /\ ttl' = [ttl EXCEPT ![c] = IF count[c] = 0 THEN Window ELSE ttl[c]]
  BY DEF Counted, Script
<1>3. counted' \in [Clients -> [Marks -> Nat]] /\ Grows(counted[c])'
  <2>1. counted' = OneMore(counted, c)
    BY DEF Counted, Script
  <2>2. /\ OneMore(counted, c) \in [Clients -> [Marks -> Nat]]
        /\ Grows(OneMore(counted, c)[c])
    BY <1>1, OneMoreFacts
  <2> QED
    BY <1>1, <2>1, <2>2 DEF Grows
<1>4. admitted' \in [Clients -> [Marks -> Nat]] /\ Grows(admitted[c])'
  <2>1. CASE UNCHANGED admitted
    BY <1>1, <2>1 DEF Grows
  <2>2. CASE admitted' = OneMore(admitted, c)
    <3>1. /\ OneMore(admitted, c) \in [Clients -> [Marks -> Nat]]
          /\ Grows(OneMore(admitted, c)[c])
      BY <1>1, OneMoreFacts
    <3> QED
      BY <1>1, <2>2, <3>1 DEF Grows
  <2> QED
    BY <2>1, <2>2 DEF Counted
<1>5. count' \in [Clients -> Nat] /\ ttl' \in [Clients -> 0..Window]
  BY <1>1, <1>2
<1>6. \A d \in Clients : count'[d] > 0 <=> ttl'[d] > 0
  BY <1>1, <1>2
<1> QED
  BY <1>1, <1>3, <1>4, <1>5, <1>6 DEF LimiterTypeOK

\* What the script makes of the window of c.
LEMMA CountedOpens ==
    ASSUME LimiterInv, NEW c \in Clients, Counted(c)
    PROVE  OpenInv(c)'
<1> USE RateLimitAssumption DEF RateLimitAssumption
<1>1. /\ counted[c] \in [Marks -> Nat] /\ admitted[c] \in [Marks -> Nat]
      /\ Grows(counted[c]) /\ Grows(admitted[c])
      /\ now \in Times /\ now' = now /\ now \in Marks /\ now + 1 \in Marks
      /\ count[c] \in Nat /\ ttl[c] \in 0..Window
      /\ count[c] > 0 <=> ttl[c] > 0
      /\ count[c] > 0 => OpenInv(c)
      /\ count[c] = 0 => ClosedInv(c)
  BY DEF LimiterInv, LimiterTypeOK, ClientInv, Counted, Times, Marks
<1>2. /\ count'[c] = count[c] + 1
      /\ ttl'[c] = IF count[c] = 0 THEN Window ELSE ttl[c]
      /\ counted' = OneMore(counted, c)
  BY DEF Counted, Script, LimiterInv, LimiterTypeOK
<1>3. \A t \in Marks : counted'[c][t] = IF t > now THEN counted[c][t] + 1 ELSE counted[c][t]
  BY <1>1, <1>2, OneMoreFacts DEF LimiterInv, LimiterTypeOK
<1>4. \/ \A t \in Marks : admitted'[c][t] = admitted[c][t]
      \/ /\ count[c] + 1 <= MaxRequests
         /\ \A t \in Marks :
               admitted'[c][t] = IF t > now THEN admitted[c][t] + 1 ELSE admitted[c][t]
  BY <1>1, OneMoreFacts DEF Counted, LimiterInv, LimiterTypeOK
<1>5. CASE count[c] = 0
  <2>1. Started(c)' = now
    BY <1>1, <1>2, <1>5 DEF Started, Times
  <2>2. count'[c] = 1 /\ ClosedInv(c)
    BY <1>1, <1>2, <1>5
  <2>3. Between(counted[c], Started(c), now + 1)' = 1
    BY <1>1, <1>3, <2>1, <2>2 DEF ClosedInv, Between, Times
  <2>4. Between(admitted[c], Started(c), now + 1)' \in {0, 1}
        /\ Between(admitted[c], Started(c), now + 1)' <= MaxRequests
    BY <1>1, <1>4, <1>5, <2>1, <2>2 DEF ClosedInv, Between, Times
  <2>5. ASSUME NEW t \in Times, t <= now, now < t + Window
        PROVE  Between(admitted[c], t, now)' <= MaxRequests
    <3>1. t \in Marks /\ t \in Int /\ now \in Int
      BY DEF Times, Marks, LimiterInv, LimiterTypeOK
    <3>2. Between(admitted[c], t, now) <= MaxRequests
      BY <2>2, <2>5 DEF ClosedInv
    <3> QED
      BY <1>1, <1>4, <2>5, <3>1, <3>2 DEF Between
  <2> QED
    BY <1>1, <2>1, <2>2, <2>3, <2>4, <2>5 DEF OpenInv, Times
<1>6. CASE count[c] > 0
  <2>1. OpenInv(c) /\ Started(c) \in 0..now
    BY <1>1, <1>6 DEF OpenInv
  <2>2. Started(c)' = Started(c) /\ Started(c) \in Marks /\ Started(c) <= now
        /\ Started(c) \in Int /\ now \in Int
    <3>1. ttl'[c] = ttl[c]
      BY <1>1, <1>2, <1>6
    <3>2. Started(c)' = Started(c)
      BY <1>1, <3>1 DEF Started
    <3> QED
      BY <1>1, <2>1, <3>2 DEF Times, Marks
  <2>3. Between(counted[c], Started(c), now + 1)' = count'[c]
    BY <1>1, <1>2, <1>3, <2>1, <2>2 DEF OpenInv, Between
  <2>4. Between(admitted[c], Started(c), now + 1)' <= count'[c]
        /\ Between(admitted[c], Started(c), now + 1)' <= MaxRequests
    BY <1>1, <1>2, <1>4, <2>1, <2>2 DEF OpenInv, Between
  <2>5. ASSUME NEW t \in Times, t <= Started(c), Started(c) < t + Window
        PROVE  Between(admitted[c], t, Started(c))' <= MaxRequests
    <3>1. t \in Marks /\ t \in Int /\ t <= now
      BY <2>2, <2>5 DEF Times, Marks
    <3>2. Between(admitted[c], t, Started(c)) <= MaxRequests
      BY <2>1, <2>5 DEF OpenInv
    <3> QED
      BY <1>1, <1>4, <2>2, <3>1, <3>2 DEF Between
  <2> QED
    BY <1>1, <2>1, <2>2, <2>3, <2>4, <2>5 DEF OpenInv
<1> QED
  BY <1>1, <1>5, <1>6

\* A span that reaches this tick shares its admissions between at most two windows.
LEMMA CountedTwice ==
    ASSUME LimiterInv, NEW c \in Clients, Counted(c),
           LimiterTypeOK', Grows(admitted[c])', OpenInv(c)',
           NEW t \in Times, t + Window \in Marks
    PROVE  Between(admitted[c], t, t + Window)' <= 2 * MaxRequests
<1> USE RateLimitAssumption DEF RateLimitAssumption
<1> DEFINE old == admitted[c]
           new == admitted'[c]
           s == Started(c)'
<1>1. /\ old \in [Marks -> Nat] /\ new \in [Marks -> Nat] /\ Grows(old)
      /\ now \in Times /\ now' = now /\ now \in Int
      /\ now \in Marks /\ now + 1 \in Marks
      /\ t \in Marks /\ t \in Int /\ t + Window \in Int
      /\ Marks \subseteq Int /\ MaxRequests \in Int
  BY DEF LimiterInv, LimiterTypeOK, ClientInv, Counted, Times, Marks
<1>2. \/ \A m \in Marks : new[m] = old[m]
      \/ \A m \in Marks : new[m] = IF m > now THEN old[m] + 1 ELSE old[m]
  <2>1. admitted \in [Clients -> [Marks -> Nat]]
    BY DEF LimiterInv, LimiterTypeOK
  <2>2. CASE UNCHANGED admitted
    BY <2>2
  <2>3. CASE admitted' = OneMore(admitted, c)
    <3>1. \A m \in Marks :
              OneMore(admitted, c)[c][m] = IF m > now THEN old[m] + 1 ELSE old[m]
      BY <1>1, <2>1, OneMoreFacts
    <3> QED
      BY <2>3, <3>1
  <2> QED
    BY <2>2, <2>3 DEF Counted
<1>3. CASE t > now \/ t + Window <= now
  <2>1. old[t + Window] - old[t] <= 2 * MaxRequests
    BY DEF LimiterInv, TwiceTheLimit, Between
  <2>2. new[t + Window] - new[t] = old[t + Window] - old[t]
    <3>1. old[t] \in Int /\ old[t + Window] \in Int
      BY <1>1
    <3>2. t > now => t + Window > now
      BY <1>1
    <3>3. t + Window <= now => ~(t > now) /\ ~(t + Window > now)
      BY <1>1
    <3> QED
      BY <1>1, <1>2, <1>3, <3>1, <3>2, <3>3
  <2> QED
    BY <2>1, <2>2 DEF Between
<1>4. CASE t <= now /\ now < t + Window
  <2>1. /\ s \in 0..now /\ s \in Marks /\ s \in Int
        /\ new[now + 1] - new[s] <= MaxRequests
        /\ t <= s /\ s < t + Window => new[s] - new[t] <= MaxRequests
    <3>1. OpenInv(c)' /\ now' = now
      BY <1>1
    <3>2. s \in 0..now /\ new[now + 1] - new[s] <= MaxRequests
      BY <3>1 DEF OpenInv, Between
    <3>3. t <= s /\ s < t + Window => new[s] - new[t] <= MaxRequests
      BY <3>1 DEF OpenInv, Between
    <3> QED
      BY <1>1, <3>2, <3>3 DEF Times, Marks
  <2>2. new[t + Window] = new[now + 1]
    <3>1. t + Window > now /\ t + Window \in Marks
      BY <1>4
    <3> QED
      BY <1>1, <3>1 DEF Grows
  <2>3. new[s] \in Int /\ new[t] \in Int /\ new[now + 1] \in Int
    BY <1>1, <2>1
  <2>4. CASE t <= s
    <3>1. s < t + Window
      BY <1>1, <1>4, <2>1
    <3> QED
      BY <1>1, <2>1, <2>2, <2>3, <2>4, <3>1 DEF Between
  <2>5. CASE s < t
    <3>1. new[s] <= new[t]
      BY <1>1, <2>1, <2>5 DEF Grows
    <3> QED
      BY <1>1, <2>1, <2>2, <2>3, <3>1 DEF Between
  <2> QED
    BY <1>1, <2>1, <2>4, <2>5
<1> QED
  BY <1>1, <1>3, <1>4

LEMMA CountedInv ==
    ASSUME LimiterInv, NEW c \in Clients, Counted(c), refused' \subseteq Clients
    PROVE  LimiterInv'
<1> USE RateLimitAssumption DEF RateLimitAssumption
<1>1. LimiterTypeOK' /\ Grows(counted[c])' /\ Grows(admitted[c])'
  BY CountedType DEF LimiterInv, ClientInv
<1>2. OpenInv(c)'
  BY CountedOpens
<1>3. ClientInv(c)'
  <2>1. count'[c] > 0
    BY DEF LimiterInv, LimiterTypeOK, Counted, Script
  <2> QED
    BY <1>1, <1>2, <2>1 DEF ClientInv
<1>4. \A d \in Clients : d # c =>
          /\ counted'[d] = counted[d] /\ admitted'[d] = admitted[d]
          /\ count'[d] = count[d] /\ ttl'[d] = ttl[d] /\ now' = now
  BY DEF Counted, Script, OneMore, LimiterInv, LimiterTypeOK
<1>5. ASSUME NEW d \in Clients, d # c PROVE ClientInv(d)'
  <2>1. ClientInv(d)
    BY DEF LimiterInv
  <2> QED
    BY <1>4, <1>5, <2>1 DEF ClientInv, Grows, OpenInv, ClosedInv, Started
<1>6. ASSUME NEW d \in Clients, NEW t \in Times, t + Window \in Marks
      PROVE  Between(admitted[d], t, t + Window)' <= 2 * MaxRequests
  <2>1. CASE d = c
    BY <1>1, <1>2, <1>6, <2>1, CountedTwice
  <2>2. CASE d # c
    <3>1. Between(admitted[d], t, t + Window) <= 2 * MaxRequests
      BY <1>6 DEF LimiterInv, TwiceTheLimit
    <3> QED
      BY <1>4, <2>2, <3>1 DEF Between
  <2> QED
    BY <2>1, <2>2
<1> QED
  BY <1>1, <1>3, <1>5, <1>6 DEF LimiterInv, TwiceTheLimit

\* A tick ends some windows; what they admitted is behind those that open next.
LEMMA TickInv ==
    ASSUME LimiterInv, Tick
    PROVE  LimiterInv'
<1> USE RateLimitAssumption DEF RateLimitAssumption
<1>1. /\ now \in Times /\ now' = now + 1 /\ now' \in Times
      /\ ttl' = [c \in Clients |-> IF ttl[c] = 0 THEN 0 ELSE ttl[c] - 1]
      /\ count' = [c \in Clients |-> IF ttl[c] = 1 THEN 0 ELSE count[c]]
      /\ UNCHANGED <<counted, admitted, refused>>
  BY DEF Tick, LimiterInv, LimiterTypeOK, Times
<1>2. LimiterTypeOK'
  BY <1>1 DEF LimiterInv, LimiterTypeOK
<1>3. ASSUME NEW c \in Clients PROVE ClientInv(c)'
  <2>1. /\ counted[c] \in [Marks -> Nat] /\ admitted[c] \in [Marks -> Nat]
        /\ count[c] \in Nat /\ ttl[c] \in 0..Window
        /\ count[c] > 0 <=> ttl[c] > 0
        /\ Grows(counted[c]) /\ Grows(admitted[c])
        /\ count[c] > 0 => OpenInv(c)
        /\ count[c] = 0 => ClosedInv(c)
    BY DEF LimiterInv, LimiterTypeOK, ClientInv
  <2>2. /\ now \in Marks /\ now + 1 \in Marks /\ now + 2 \in Marks
        /\ now \in Int /\ now + 1 > now /\ now + 2 > now + 1
    BY <1>1 DEF Times, Marks
  <2>3. counted[c][now + 2] = counted[c][now + 1] /\ admitted[c][now + 2] = admitted[c][now + 1]
    BY <2>1, <2>2 DEF Grows
  <2>4. Grows(counted[c])' /\ Grows(admitted[c])'
    <3>1. \A m \in Marks : m > now + 1 => m > now
      BY <2>2 DEF Marks
    <3> QED
      BY <1>1, <2>1, <2>2, <2>3, <3>1 DEF Grows
  <2>5. CASE ttl[c] > 1
    <3>1. count'[c] = count[c] /\ ttl'[c] = ttl[c] - 1 /\ count[c] > 0 /\ Started(c)' = Started(c)
      BY <1>1, <2>1, <2>2, <2>5 DEF Started
    <3>2. OpenInv(c)'
      BY <1>1, <2>1, <2>2, <2>3, <3>1 DEF OpenInv, Between
    <3> QED
      BY <2>1, <2>4, <3>1, <3>2 DEF ClientInv
  <2>6. CASE ttl[c] = 1
    <3>1. count'[c] = 0 /\ OpenInv(c) /\ Started(c) = now + 1 - Window
      BY <1>1, <2>1, <2>2, <2>6 DEF Started
    <3>2. ASSUME NEW t \in Times, t <= now + 1, now + 1 < t + Window
          PROVE  Between(admitted[c], t, now + 1) <= MaxRequests
      <4>1. /\ t \in Marks /\ Started(c) \in Marks
            /\ t \in Int /\ Started(c) \in Int /\ Started(c) <= t
        BY <2>2, <3>1, <3>2 DEF OpenInv, Times, Marks
      <4>2. admitted[c][Started(c)] <= admitted[c][t]
        BY <2>1, <4>1 DEF Grows
      <4>3. /\ admitted[c][Started(c)] \in Int /\ admitted[c][t] \in Int
            /\ admitted[c][now + 1] \in Int
        BY <2>1, <2>2, <4>1
      <4> QED
        BY <3>1, <4>2, <4>3 DEF OpenInv, Between
    <3>3. ClosedInv(c)'
      BY <1>1, <2>2, <2>3, <3>2 DEF ClosedInv, Between
    <3> QED
      BY <2>4, <3>1, <3>3 DEF ClientInv
  <2>7. CASE ttl[c] = 0
    <3>1. count'[c] = 0 /\ ClosedInv(c)
      BY <1>1, <2>1, <2>7
    <3>2. ASSUME NEW t \in Times, t <= now + 1, now + 1 < t + Window
          PROVE  Between(admitted[c], t, now + 1) <= MaxRequests
      <4>1. t \in Int /\ t \in Marks /\ now < t + Window
        BY <2>2, <3>2 DEF Times, Marks
      <4>2. CASE t <= now
        BY <3>1, <4>1, <4>2 DEF ClosedInv, Between
      <4>3. CASE t = now + 1
        BY <2>1, <2>2, <4>3 DEF Between
      <4> QED
        BY <2>2, <3>2, <4>1, <4>2, <4>3
    <3>3. ClosedInv(c)'
      BY <1>1, <2>2, <2>3, <3>2 DEF ClosedInv, Between
    <3> QED
      BY <2>4, <3>1, <3>3 DEF ClientInv
  <2> QED
    BY <2>1, <2>5, <2>6, <2>7
<1>4. TwiceTheLimit'
  BY <1>1 DEF LimiterInv, TwiceTheLimit
<1> QED
  BY <1>2, <1>3, <1>4 DEF LimiterInv

LEMMA NextLimiterInv ==
    ASSUME LimiterInv, [LimiterNext]_limiterVars
    PROVE  LimiterInv'
<1>1. ASSUME NEW c \in Clients, Request(c) PROVE LimiterInv'
  <2>1. count[c] \in Nat /\ count'[c] = count[c] + 1 /\ MaxRequests \in Nat
    BY <1>1, RateLimitAssumption DEF RateLimitAssumption, Request, Script, LimiterInv,
       LimiterTypeOK
  <2>2. Counted(c)
    BY <1>1, <2>1 DEF Request, OverLimit, Counted
  <2> QED
    BY <1>1, <2>2, CountedInv DEF Request, LimiterInv, LimiterTypeOK
<1>2. ASSUME NEW c \in Clients, ReplyLost(c) PROVE LimiterInv'
  <2>1. Counted(c)
    BY <1>2 DEF ReplyLost, Counted
  <2> QED
    BY <1>2, <2>1, CountedInv DEF ReplyLost, LimiterInv, LimiterTypeOK
<1>3. ASSUME UNCHANGED <<now, count, ttl, counted, admitted>>, refused' \subseteq Clients
      PROVE  LimiterInv'
  BY <1>3 DEF LimiterInv, LimiterTypeOK, TwiceTheLimit, ClientInv, Grows, OpenInv,
     ClosedInv, Started
<1>4. ASSUME NEW c \in Clients, FailOpen(c) PROVE LimiterInv'
  BY <1>3, <1>4 DEF FailOpen, LimiterInv, LimiterTypeOK
<1>5. CASE UNCHANGED limiterVars
  BY <1>3, <1>5 DEF limiterVars, LimiterInv, LimiterTypeOK
<1> QED
  BY <1>1, <1>2, <1>4, <1>5, TickInv DEF LimiterNext

\* Requests with and without an answer of Redis and the passing of time keep the invariant
\* (rate_limit_middleware.go:12-40).
THEOREM LimiterInvariance == LimiterSpec => []LimiterInv
<1>1. LimiterInit => LimiterInv
  BY InitLimiterInv
<1>2. LimiterInv /\ [LimiterNext]_limiterVars => LimiterInv'
  BY NextLimiterInv
<1> QED
  BY <1>1, <1>2, PTL DEF LimiterSpec

\* A counter lives exactly as long as its time to live, so no client stays locked out
\* (LimiterTypeOK).
THEOREM LimiterTypes == LimiterSpec => []LimiterTypeOK
<1>1. LimiterInv => LimiterTypeOK
  BY DEF LimiterInv
<1> QED
  BY <1>1, LimiterInvariance, PTL

\* However requests fall around the end of a window, and whatever replies are lost, a span
\* as long as a window admits at most twice the limit (TwiceTheLimit).
THEOREM TwoWindows == LimiterSpec => []TwiceTheLimit
<1>1. LimiterInv => TwiceTheLimit
  BY DEF LimiterInv
<1> QED
  BY <1>1, LimiterInvariance, PTL

\* Nobody is refused for requests older than a window or for those of others
\* (RefusalIsEarned).
THEOREM RefusalsEarned == LimiterSpec => RefusalIsEarned
<1> DEFINE Earned ==
      \A c \in Clients :
          c \in refused' /\ counted'[c] # counted[c] =>
             Between(counted[c], RecentStart, now + 1) >= MaxRequests
<1>1. LimiterInv /\ [LimiterNext]_limiterVars => [Earned]_limiterVars
  <2> SUFFICES ASSUME LimiterInv, LimiterNext, NEW c \in Clients,
                      c \in refused', counted'[c] # counted[c]
               PROVE  Between(counted[c], RecentStart, now + 1) >= MaxRequests
    OBVIOUS
  <2> USE RateLimitAssumption DEF RateLimitAssumption
  <2>1. PICK d \in Clients : Request(d) \/ ReplyLost(d)
    BY DEF LimiterNext, FailOpen, Tick
  <2>2. counted \in [Clients -> [Marks -> Nat]] /\ count \in [Clients -> Nat]
        /\ counted' = OneMore(counted, d) /\ count' = [count EXCEPT ![d] = @ + 1]
    BY <2>1 DEF LimiterInv, LimiterTypeOK, Request, ReplyLost, Script
  <2>3. d = c
    BY <2>2 DEF OneMore
  <2>4. count[c] >= MaxRequests
    BY <2>1, <2>2, <2>3 DEF Request, ReplyLost, OverLimit
  <2>5. counted[c] \in [Marks -> Nat] /\ now \in Times /\ count[c] \in Nat
        /\ ttl[c] \in 0..Window /\ (count[c] > 0 => OpenInv(c)) /\ Grows(counted[c])
    BY DEF LimiterInv, LimiterTypeOK, ClientInv
  <2>6. /\ RecentStart \in 0..now /\ RecentStart \in Marks
        /\ now + 1 \in Marks /\ now \in Int
        /\ RecentStart <= now + 1
    BY <2>5 DEF RecentStart, Times, Marks
  <2>7. counted[c][RecentStart] <= counted[c][now + 1]
    BY <2>5, <2>6 DEF Grows
  <2>8. counted[c][RecentStart] \in Nat /\ counted[c][now + 1] \in Nat
    BY <2>5, <2>6
  <2>9. CASE count[c] = 0
    BY <2>4, <2>7, <2>8, <2>9 DEF Between
  <2>10. CASE count[c] > 0
    <3>1. Started(c) \in Marks /\ RecentStart <= Started(c)
      <4>1. Started(c) \in 0..now /\ now \in Nat /\ now <= MaxTime /\ ttl[c] > 0
        BY <2>5, <2>10 DEF OpenInv, LimiterInv, LimiterTypeOK, Times
      <4>2. Started(c) >= now + 1 - Window
        BY <2>5, <4>1 DEF Started
      <4> QED
        BY <4>1, <4>2 DEF RecentStart, Marks
    <3>2. /\ counted[c][RecentStart] <= counted[c][Started(c)]
          /\ counted[c][Started(c)] \in Nat
      BY <2>5, <2>6, <3>1 DEF Grows
    <3> QED
      BY <2>4, <2>5, <2>8, <2>10, <3>2 DEF OpenInv, Between
  <2> QED
    BY <2>5, <2>9, <2>10
<1> QED
  BY <1>1, LimiterInvariance, PTL DEF LimiterSpec, RefusalIsEarned
=============================================================================
