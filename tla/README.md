# A formal model of Wallet-Ledger-Service

TLA+ modules of the wallet service in `src/`: concurrent top-ups and transfers against
PostgreSQL, the idempotency and rate-limit middleware in front of them, the events they
leave with RabbitMQ and its workers, the lists and streams that show the outcome, and the
shutdown that cuts across all of it. TLC checks the modules on small instances, TLAPS
proves the central results for all instances.

    tlc -workers 2 -config WalletLedgerPair.cfg MCWalletLedger   # a run
    tlapm WalletLedgerProofs.tla                                 # proofs

`PROJECT.json` lists components, runs, the source lines of every definition (`map`),
findings, hazards and theorems.

## 1. The system

| Component | State | Operations | Talks to |
|---|---|---|---|
| Top-ups and transfers (`service/transaction_service.go`, wallet, transaction and ledger repositories) | tables `wallets`, `transactions`, `ledger_entries`; row locks; a pool of 20 connections | `TopUp`, `Transfer`; read-only lists | PostgreSQL; a goroutine per success publishes an event |
| Idempotency (`middleware/idempotency_middleware.go`) | Redis key `idempotency:<header>`, 24 h | lookup, replay, run the handler, store a success | wraps the two handlers above |
| Rate limiter (`middleware/rate_limit_middleware.go`) | Redis counter per client address, 60 s | one Lua script per request; fails open | before everything else |
| Audit middleware, publishers (`middleware/audit_middleware.go`, `publishEvent`) | goroutines that publish | one event per successful request and per business operation | SafeChannel |
| SafeChannel (`utils/rabbitmq.go`) | one connection, one publishing channel | publish with one retry, open a worker's channel, close | RabbitMQ |
| Workers (`worker/*.go`), notification and audit services | an unacknowledged delivery; tables `notifications`, `audit_logs` | consume, insert, ack or nack with requeue, reconnect | three queues bound to one topic exchange; PostgreSQL; Redis pub/sub |
| Registration and login (`service/auth_service.go`) | tables `users`, `wallets` | `Register`, `Login` | PostgreSQL; publishers |
| Notification stream (`handler/notification_handler.go`) | a Redis subscription per client | list, mark as read, clear, stream | Redis pub/sub |
| Listing (`*_service.go`, `dto/pagination.go`) | none | a page and a count | PostgreSQL |
| Lifecycle (`cmd/server/main.go`) | contexts, deferred closes | start, graceful shutdown | all of it |
| Authentication, CORS, DTOs, configuration, seeder | none that changes | checks of one request, start-up | |

A mutation passes `CORS, Recovery, Logger, RateLimit, JWTAuth, AuditLog, Idempotency` and
the handler, in this order; the audit middleware therefore also reports an answer that
the idempotency middleware replays, and a top-up leaves two events, its own and `AUDIT`.

What is hard, and what should hold (each with its line under `hazards`):

* calls on the same wallets interleave statement by statement: no update is lost, whole
  calls take effect one at a time, opposite transfers do not deadlock, the pool of
  connections does not either;
* any statement fails, an acknowledged commit is reported as an error, the server dies
  between two statements: nothing is left half done and no answer lies;
* decimals are rounded by the columns: balances and ledger stay equal;
* a client retries: the operation is not executed again, and the answers agree;
* requests fall around the end of a rate-limit window;
* inserts fail, channels close, the broker or the server restarts while a message is in
  a worker's hand: nothing is lost silently, duplicates stay bounded, queues drain;
* two registrations of one email overlap: one user, one wallet, true answers;
* a page, its total, the next page and a detail are queries of their own while others
  commit: a walk skips nothing, a total covers its page, a detail is whole;
* connection and channel die unnoticed under a mutex that many goroutines share, and `Close`
  may come before their last call: nothing leaks, failures have causes, every call returns;
* a notification falls between the list a page loads and the stream it opens;
* a shutdown waits for requests, for ten seconds, and for nothing else: it ends, and what it
  cuts off is redelivered.

## 2. Modules

| Module | Models |
|---|---|
| `MoneyColumn` | what `DECIMAL(18,2)` and its CHECKs make of a decimal |
| `LedgerReplay` | what ledger entries say of a balance |
| `WalletLedger` | `TopUp` and `Transfer`, one step per SQL statement |
| `AtomicLedger` | what the service promises: whole calls, one instant, truthful answers |
| `Idempotency` | the middleware with its cache |
| `RateLimit` | the script, the decision, time |
| `EventDelivery` | publishing, queues, workers, notifications and audit logs |
| `SafeChannel` | the connection and the channel all publishers share |
| `Lifecycle` | SIGTERM to exit, composed with requests, goroutines and workers |
| `NotificationStream` | insert, push, stream, list, mark, clear |
| `Listing` | pages, totals and details read while others commit |
| `Registration` | `Register`, one step per SQL statement |
| `MiddlewareProofs` | theorems about `Idempotency` and `RateLimit` |
| other `*Proofs` | theorems about the module they are named after |
| `MC*` | instances for TLC |

How they compose: `WalletLedger` implements `AtomicLedger`, and the handler in
`Idempotency` is what `AtomicLedger` promises. `SafeChannel` implements the publishing of
`EventDelivery`. `Lifecycle` instantiates `EventDelivery` and uses its actions for the
workers, with a context that is cancelled instead of faults.

Definitions marked "Variant" in a comment are not part of the model: no action uses them.
Each is a plausible bug of the definition after it (a dropped `FOR UPDATE`, a skipped
rollback, a total counted before its page), kept to show that each property would notice
(`mutants` in `PROJECT.json`).

### WalletLedger

A *request* is one HTTP call; `Arrive` gives it any body of `Calls`. `pc[r]` is the
statement it is at. A transfer runs `FindUserWallet`, `FindTargetWallet`, `Begin`,
`LockRow` twice in the order of the wallet ids, then `RefuseInsufficient` or
`CreateTransaction`, `UpdateSource`, `UpdateTarget`, `InsertDebit`, `InsertCredit`,
`Complete`, `Commit`, `Acknowledge`. A top-up skips what concerns the source.

| State | In the code |
|---|---|
| `balance`, `ledger`, `txns` | the committed rows; `txns[r]` is the status of the transaction row of call `r` |
| `lockOwner` | the row lock of `SELECT ... FOR UPDATE`, held to the end of the database transaction |
| `seen` | `lockedWallet.Balance` of the call |
| `wrote`, `rows`, `status` | what its open database transaction has written, visible to no one else |
| `result` | what the service method returned; `lost` when the server died first |
| `publishing`, `published` | the goroutine after the commit |

PostgreSQL at READ COMMITTED is modelled by what the code uses: a plain SELECT reads
committed rows, a locking SELECT waits for the lock and then reads the newest committed
row, COMMIT installs everything at once and releases, ROLLBACK and a lost client release
without installing. `MaxConns` bounds the open database transactions, and a statement
outside a transaction needs a connection that none of them has. `Fail` may strike every
statement; `ConstraintFails` is the one that must.

Money is counted in tenths of a cent. The columns round to 10 units, so both
representable amounts and those the API accepts beyond the column's scale are expressible.

Left out because it cannot happen: a wallet that disappears between its lookup and its
lock (no code deletes one), a nil pool or publisher. The key-share locks that foreign keys
take on `wallets` are compatible with each other and only asked by a call that holds the
row's stronger lock already. Random transaction ids are the request's own
identity, and a clash is one of the failures of `CreateTransaction`.

### AtomicLedger

The same calls, each with one effect at one instant on the balances of that instant, and
an answer that agrees with it. `ImplementsAtomicLedger` maps `effected` to the balance a
committed call left in its caller's wallet; a statement maps to a stutter, `Commit` to the
effect. Internal errors may follow an effect (a lost acknowledgement of the commit), but no
effect ever follows an answer.

### Idempotency

`cache[k]` names the execution whose answer is stored. The handler is what `AtomicLedger`
promises: an effect (`HandlerTakesEffect`) and an answer later. Only successes are stored; an error of GET counts as a miss; an
error of SET is dropped. `overlapped` and `faulted` are history: keys with two requests
in flight at a time, and keys whose execution was followed by the loss of an answer or of
the cache entry. The key is the header alone,
so requests with one key may ask for different things, of different users; the model
attaches no body to a key, and what it says of answers (whose execution they are from)
holds whatever was asked.

### RateLimit

One `Request` runs the whole script, as Redis does, and decides. `ReplyLost` counts and
lets the request pass, `FailOpen` does not even count. `Tick` moves time and expires keys.
`counted` (runs of the script: the Redis client repeats one whose reply was lost, which is
`ReplyLost` and then `Request`) and `admitted` are history: what they were, for each client, when
each tick began, so that what happened between two ticks is a difference (`Between`).

### EventDelivery

`Raise` starts a publishing goroutine, `Publish` routes to the three queues,
`PublishFails` covers both failing attempts and a message written to a socket nobody
reads (there are no publisher confirmations). A worker attaches, takes, runs
its statements (`log`; or `user`; or `sender`, `lookup`, `receiver` for a transfer) and acknowledges or
requeues. `Disconnect` closes the one connection that all channels share: what a worker
holds is requeued at the broker while the worker still finishes it. A restart of the broker
empties the queues, since messages are published without `DeliveryMode` (persistent); `dropped` remembers what
it took. `Crash` takes the goroutines. Failing inserts may have taken effect. The order of a queue
is not modelled: no property depends on it. Malformed messages and unknown kinds are left
out: the publishers produce neither.

### SafeChannel

`PublishWithContext` and `NewChannel` as `Call`, `Lock`, `Check` (notifications that arrived,
`IsClosed`, the reset of what is gone), `Dial`, `OpenChannel` (with its declarations), `Send` or
`OpenOwn`. Connections and channels are numbered as they are opened; `holder` is the mutex,
`conn`, `ch`, `connClose` and `chClose` the manager's fields. A connection is `up`, `failing` (broken,
and nobody has noticed: what is written to it is lost and reported as sent, `SendIsLost`) or
`closed`; `told` are the channels whose close notification has been delivered, which happens at
any later time. `SendFails` drops the channel and starts again once. `Close` may come before
calls that are still to be made. `excused` is history: calls during which something broke.
A worker's own channel is opened here and lives in `EventDelivery`.

### Lifecycle

`main` goes from `serving` by `Signal` to `draining`; `srv.Shutdown` returns when no request is active
(`Drained`) or after ten seconds (`Deadline`), then `cancel()`, the deferred closes in their order and
`Exit`. Requests run `Begin`, `Commit`, `Store`, `Reply`, and are refused by a closed pool; a
stream ends with its client only. Workers are those of `EventDelivery` under a context: a
statement that was under way when it was cancelled may work or be cancelled with or without
effect, later ones fail; `select` may still pick a message. Nothing else fails: what the
properties find is the shutdown's doing.

### NotificationStream

The notifications of one user. `Create` inserts, `Push` publishes to those subscribed at that
instant; both are steps of the one worker, in this order. A client opens its stream (`Open`,
then `Subscribe` when Redis has it: the handler does not wait), is shown what arrives
(`StreamEvent`), asks for the first page and its total (`FindPage`, `CountRows`), leaves and
returns. `overlaps` is history: the list was read while subscribed, and nothing failed since.

### Listing

A writer is a database transaction: `Begin` fixes the `created_at` of its rows, `Commit` makes
them visible, in any order. A reader is a request of any list or detail endpoint, or a client
that walks through the pages of a list (`NextPage`). `ORDER BY created_at DESC` is any ranking
that respects it (`Ranks`), chosen anew by every query, as PostgreSQL may. `Valid` is the binding,
`SetDefaults` what follows it. `Offset` is what `PaginationRequest.Offset` returns, `Skipped` the
`int32` of it that the repositories pass on (`transaction_repository.go:109`): with a great page it is
negative, and PostgreSQL refuses the page (`RefusePage`), or that of another page. Only the width
is a constant (`Half32`, 2^31 in the code). `Offset()` multiplies 64-bit ints, which may wrap too; that leaves
their low 32 bits as they are, and these are all that `int32` keeps. The limit fits, being at
most 100. `seen`, `repeated` and `since` are history. `DELETE` has no place here: only notifications are deleted, and they are in `NotificationStream`.

### Registration

`FindByEmail` outside a transaction, then `Begin`, `CreateUser`, `CreateWallet`, `Commit`,
`Acknowledge`. `users` and `wallets` are the committed rows, named by the registration that
wrote them; `staged` is what its open transaction inserted. The UNIQUE index on
`users.email` makes `CreateUser` wait while another open transaction has the email
(`EmailPending`) and refuse it once one has committed (`DuplicateEmail`), which the code
does not tell apart from any other error. `faulted` is history. Hashing is part of `Begin`:
it touches nothing shared.

## 3. Runs

| Run | Instance | Shows |
|---|---|---|
| `ledger_pair` | 3 requests, 8 kinds of call, wallets 1 and 2 (3 does not exist), 2 connections, 1 crash | no lost update, double entry, no wait cycle, truthful answers, immutable history, refinement of `AtomicLedger` |
| `ledger_live` | 3 requests of opposite transfers, 2 connections, fair | every call ends |
| `ledger_fraction` | half a cent | *finding*: ledger and balances part |
| `idempotency_faults` | 4 requests, 2 keys, all faults | which disturbance a key needs before it executes twice |
| `idempotency_double_submit` | the same, no faults | *finding*: overlapping requests both execute |
| `rate_limit_windows` | limit 2, window 3 ticks, 7 ticks, 3 requests a tick | twice the limit at most; refusals are earned |
| `events_faults` | a transfer and a top-up, 2 faults, fair | nothing acknowledged is lost, what faults cost is bounded, queues drain |
| `registration_faults` | 3 requests, 2 emails, 2 connections, 2 faults, fair | one user and wallet per email, true answers, no loss to a rival that fails, every registration ends |
| `listing_walk` | 3 writers, 2 users, 1 reader, page size at most 2 | walks, totals and details while others commit |
| `safe_channel_faults` | 2 publishers, 1 worker, 2 faults, fair | no leak, failures have causes, every call returns, refinement of `EventDelivery` |
| `lifecycle_shutdown` | a transfer, a stream, 3 workers, fair | a shutdown ends, is clean unless forced, and loses a receiver's notification at most |
| `notification_stream` | 3 notifications, 1 client, page of 2, 1 fault, fair | list and stream complete each other |

The type invariant of each module (`TypeOK`; `LimiterTypeOK` in `RateLimit`, whose names stand
beside those of `Idempotency` in one proof module) is checked in its first run.

### Bounds

* **Ledger.** Three calls suffice for two that conflict and a third that sees,
  blocks or outlives them; two connections make the third wait for the pool. Two wallets
  give opposite transfers, the only cycle two locks can form; larger rings are covered by
  the theorem `NoDeadlock`. The eight calls include each refusal, an amount that rounds
  to zero and a sum beyond `MaxStored` (40 units, so that an overflow happens).
* **Idempotency.** Four requests let one key be overlapped, retried and replayed while
  another is used undisturbed.
* **Rate limit.** Seven ticks hold two whole windows and their boundary at every offset;
  three requests a tick exceed the limit of two within one tick. Clients share no state
  in Redis, so one is enough.
* **Events.** Two faults are enough for a failing insert inside a reconnection, or a
  crash after a broker restart. `MaxFaults` bounds them for TLC; the proofs do not. No `AUDIT`
  event is in the instance: at the notification worker it is acknowledged at once, elsewhere
  it is like any other, and the proofs cover every kind.
* **Registration.** Three rivals for one email let one fail, one win and one wait; two
  faults hit two of them.
* **Listing.** Three writers fill two pages of one or one of two and leave one to commit between two
  queries, before or after the others in `created_at`; the parameters include an absent one
  and one beyond the maximum. Readers share nothing, so one is enough. Offsets have three bits
  (`Half32 = 4`): page 5 wraps around to a negative one and page 9 to zero. No walk from page 1
  gets that far with three writers; `WalksKeepTheirPlace` covers those that do.
* **SafeChannel.** Two publishers and a worker contend for the mutex; two faults break a
  connection and the channel or connection that replaced it. `Ids` never runs out
  (`Thrift`).
* **Lifecycle.** One event crosses request, goroutine, queue and worker at every point of a
  shutdown; a stream keeps it from draining. Workers handle one event at a time and keep
  nothing between two.
* **NotificationStream.** Three notifications and pages of two leave one on an older page.
* `MaxCrashes`, `MaxFaults`, `MaxTime`, `MaxPerTick` are the only bounds on behaviours, each
  a guard of the action it bounds.

All runs say `CHECK_DEADLOCK FALSE`: requests and events are one-shot, so every behaviour
ends in a state in which nothing is left to do. That nobody is stuck before that is
`EveryCallEnds`, `EveryRegistrationEnds`, `EveryCallReturns`, `QueuesDrain` and `ShutdownEnds`,
with `NoWaitCycle`.

### Fairness

* `ledger_live`: weak fairness of `Advance(r)` for each call: the Go scheduler runs the
  goroutine of a request and PostgreSQL executes its statement. Weak fairness is enough
  for a lock or a connection that others keep taking only because requests are finite
  here; under endless load, fairness of the row lock queue (PostgreSQL's is FIFO) and of
  the pool's would be needed. Nothing is assumed of failures.
* `registration_faults`: the same for `Advance(r)` of a registration.
* `events_faults`: weak fairness of `Work(q)` for each worker: its loop runs and the broker
  delivers. Faults are not fair and end after `MaxFaults`: a worker that fails for a
  lasting reason requeues for ever in the code (there is no limit on redelivery), and no
  property claims otherwise.
* `safe_channel_faults`: weak fairness of `Progress(p)` for each call: goroutines run and the
  library's dials and writes time out. The mutex, too, only passes on because calls are finitely many.
* `lifecycle_shutdown`: weak fairness of `Main` (main runs and its timer fires), of `Serve(r)` and of
  `Work(q)`. None of clients leaving their streams: that is what the deadline is for.
* `notification_stream`: weak fairness of `Push(n)` and `StreamEvent(c)`: the worker goes on to its
  PUBLISH and the handler's goroutine writes. None of clients or of subscriptions taking effect.

## 4. Findings

With a run that shows the disagreement:

1. **Fractions of a cent** (`ledger_fraction`; code). Requests accept any positive
   decimal. The amount and each new balance are rounded by their columns separately; a
   transfer of half a cent leaves the source unchanged, adds a cent to the target and
   writes entries of a cent. `LedgerIntegrity` and `Refinement` show that this is the only way:
   both hold whenever amounts are whole cents.
2. **Double submission** (`idempotency_double_submit`; documentation). GET before and SET after the
   handler claim nothing in between. `ExecutesOnce` says what does hold.

Met on the way; here the code does something else than its documentation says, and a
property states what the code does guarantee:

3. **Sliding window.** `README.md:44` and `:124` call the limiter's window sliding; it is fixed
   (`rate_limit_middleware.go:12`), and `TwiceTheLimit` is its promise.
4. **A transfer's notifications.** `README.md:54` says that notifications are logged persistently; the errors of
   a transfer's two are only logged and its event acknowledged (`notification_worker.go:179`,
   `:197`). `FewLosses` and `ShutdownKeepsNotices` bound the loss.
5. **Overlapping registrations.** The second fails on the UNIQUE index
   (`user_repository.go:50`) and answers 500 where `api/apispec.json:91` says 409; `AnswersAreTrue`
   of `Registration` says what each answer means.
6. **Page parameters.** `min=1` without `omitempty` (`pagination.go:4`) refuses a request without
   `page` or `limit`, for which `api/apispec.json:462` and `:472` promise defaults; `SetDefaults`
   never has anything to do. `List` of `Listing` binds as the code does.
7. **Interrupted requests.** `README.md:55` says that a shutdown interrupts no ongoing request. An open stream
   outlasts the ten seconds of `main.go:183` and is cut, and so is whatever else runs then;
   `GracefulIsClean` holds for a shutdown that is not forced.
8. **Events at a shutdown.** Nothing waits for publishing goroutines (`main.go:189`): an event that has not been
   routed is lost, where `README.md:42` says that all activities are captured. `ShutdownKeepsEvents`
   therefore speaks of what the broker took.
9. **A key used twice for different things.** The cache key is the header alone
   (`idempotency_middleware.go:65`), while its comment speaks of "subsequent identical idempotent
   requests" (`:14-15`): any later request with that key, of any user, is answered with the
   first one's response and not executed.
10. **Time of an audit log.** `audit_worker.go:142` sets `CreatedAt` to the event's time, which the
   INSERT leaves out: rows are ordered by when the worker wrote them. No model here tells
   the two apart.
11. **Great pages.** `page` has no maximum (`pagination.go:4`; nor in `api/apispec.json:461`), and every
   repository narrows the offset to an `int32` (`transaction_repository.go:109`, `:126`, `:156`, `:172`,
   `ledger_repository.go:83`, `:100`, `audit_repository.go:54`, `:83`, `user_repository.go:85`,
   `notification_repository.go:55`). Page 4294967297 with a limit of 1 gets OFFSET 0 and shows the first
   row, beyond its own `total_items` and `total_pages`; page 2147483649 gets a negative OFFSET and
   answers 500. `TotalCoversPage` therefore speaks of offsets below 2^31 only; without that condition
   TLC refutes it in `listing_walk` with page 9. `WalksKeepTheirPlace` says that a client that
   starts at page 1 and goes on never meets this.

## 5. Proofs

Assumptions: those of the modules (`ConstantsAssumption`, `MaxStoredAssumption`,
`IdempotencyAssumption`, `RateLimitAssumption`, `EventsAssumption`, `RegistrationAssumption`, `SafeChannelAssumption`,
`ListingAssumption`, `StreamAssumption`, `LifecycleAssumption`), which type the constants and keep their sets
apart; where a theorem says so, `CentAmounts` (an amount the columns accept is a whole
number of cents) and finitely many requests and wallets.

**WalletLedger.** `Invariance` proves the inductive invariant `IInv`: types; `CallInv`
(what the lookups before `Begin` established); `LockInv` (who holds which row at which
step, that a held row still has the balance read from it, that only held rows are
written); `StageInv` (an open transaction has staged exactly what the steps behind it
write, rounded); `ResultInv`. The properties alone are not inductive: that a committed
balance equals the replay follows only if what `Commit` installs was computed from the
balance it replaces, and that is `LockInv` and `StageInv` at `commit`.
From it follow `NoStaleRead`, `TrueAnswers`, `HistoryKept`, and with a second
induction along `Commit` (`OnlyCommitWrites`, `CommitInstalls`, `CommitMoves`)
`EntriesMatched` and `LedgerIntegrity`. `NoDeadlock`: in a set of calls waiting for each
other take the one that wants the greatest wallet (`GreatestOnFinite`); whoever holds it
wants a greater one (`WaitsAscend`).

`Conservation` relates all balances at once: the wallets together hold what they opened with and
what completed top-ups brought in, so no interleaving of transfers, failures and crashes
creates or destroys money. It needs `CentAmounts`, as `ledger_fraction` shows: a transfer of half a
cent creates a cent. The sums are folds over the sets of wallets and of calls. That a fold adds
its elements in any order (`SumTakeOut`), changes with one value (`SumChange`) and is monotone
(`SumLess`) is proved by taking a least set for which it fails (`LeastSet`), as finite sets are
well-founded under inclusion.

**LedgerReplay.** `ReplayAppend` (an appended entry adds its effect) would be an
induction over the length of the ledger. It is proved by the least counterexample
(`LeastNat`), since induction theorems that take an operator cannot be instantiated by
the back-ends in use.

**The ends of calls.** Fairness is beyond the prover, but not what a liveness property rests on.
`SomeoneMoves`, in three modules, says that while a call is under way the guard of some call's next
step holds (`CanMove`), without the help of a failure: in `WalletLedger` row locks and the pool
never stop all calls, however few connections there are, since who holds a connection waits at
most for a row, and such waits are not circular; in `Registration` an INSERT that waits for another's
email keeps its connection, but the one it waits for waits for nothing; in `SafeChannel` the
holder of the mutex never waits. `StepsAreBounded` gives the rest for the ledger: the
statements all calls have left (`WorkLeft`) are a natural number that every step lessens, crashes and
failures included, so that calls cannot keep each other busy either. `NothingNewBegins` does the same
for the shutdown: what `pool.Close` waits for only becomes less, as no worker starts a
statement after `cancel()` and no request a transaction after `pool.Close()`.

**Refinement.** Every step of `WalletLedger` maps to a step or a stutter of
`AtomicLedger` (`StepRefines`, one lemma per kind of step); `Commit` needs `IInv` to know
that funds suffice at that instant and that rounding changes nothing.

**Idempotency.** The invariant says where the one execution of an undisturbed key is: in
the cache, or in the one request in flight. `ExecutesOnce` and `AnswersAgree` follow.

**RateLimit.** The invariant is about the window the key of a client stands for. While it lives
(`OpenInv`) it has counted what came since it was created, and the part of the previous span
that was admitted is within the limit; when it is gone (`ClosedInv`) the same holds of the span
it covered. Any `Window` ticks meet at most two such windows, each of which admits no more than
the limit: `TwoWindows`. A refusal finds a living key over the limit, whose runs of the script all lie
within the last `Window` ticks: `RefusalsEarned`. Both hold for any limit, window, number of clients
and requests, and lost replies; `LimiterTypes` is the type invariant.

**EventDelivery.** The invariant follows copies: an event owed a row has a copy in the
queue, one in a hand over an open channel, is among the dropped, or has its row. `AuditKept`
and `NoticeKept` follow for any number of events and faults. `CostBounded` counts: for each row
and event, the rows written and those still to come (a copy in the queue, one in a hand
before its statement, a publish not made) stay within one plus the faults (`DebtInv`), and each
notification a transfer lacks has a fault of its own (`LossInv`).

**SafeChannel.** `ManagerInv` says which connection and channel the fields and their
notification channels speak of, `BrokerInv` that a channel has a connection and that only what
ended is notified, `StepInv` what the holder of the mutex knows at its step, `ExcuseInv` that nothing
is broken behind a call that has no excuse, `AnswerInv` what a result implies. `LeaksNothing` and
`ResultsTrue` need all of them: that a second attempt fails only for a fault during the call follows
from what the first one reset.
`Thrift`: a connection or channel that died did so by a fault of its own or by `Close`
(`Earned`, by counting), so that the manager dials and opens a channel once and once more for each of
these, whoever calls: it never reopens what works. It also shows that `Ids` never runs out.
`Refinement`: `Send` maps to `Publish`, a return without a copy to `PublishFails`, the rest to
stutters.

**Listing.** The place of a row that shares its `created_at` with no other is the number of rows
ahead of it (`RankIsAhead`), whatever ranking a query picks, and commits only increase it.
`PlaceInv`: what a walk has not shown of the rows that were there when it began lies beyond the
pages it has read, and its offset has not wrapped around; `SeenInv`: while nobody commits, what it
has shown lies within; `TotalInv`: a total covers the page before it, if the page's offset fits in
an `int32`. `WalksComplete` and `TotalsCover` follow for any number of writers, any page size and any
width that exceeds it. Pages of a walk are never longer than the span of offsets that become negative
(`Int32Facts`), so that none steps over it: the walk ends there with an error, and
`WalksKeepTheirPlace` says that it is never answered from another page.

**NotificationStream.** A notification is created and then published by one worker, so what is
about to be published is newer than all a stream carries (`PendingInv`), and the stream keeps the
order of the list; a list and a stream overlap only while the stream is open (`OverlapInv`). What a
first page leaves out is older than all it shows, and leaves it full (`BeyondFirstPage`, by
counting ranks). `StreamCompletes` follows for any number of notifications, clients and faults and
any page size.

**Lifecycle.** `RequestInv`: once the server stops, a shutdown that is not forced has no request
active, and every effect of a request is stored or about to be. `WorkerInv` follows copies as in
`EventDelivery`, under a cancelled context instead of faults: after a cancelled INSERT for the
sender the lookup is bound to fail, so the delivery is given back. `Graceful` and `ShutdownKeeps`
follow for any number of requests and streams.

**Registration.** The invariant keeps one row per email among committed and open
transactions alike (`UniqueInv`): with the committed rows alone, a second open transaction
could commit the same email. With what is staged at each step, `EmailsUnique`, `WalletsExist`,
`TrueAnswers` and `EmailWon` follow.

Only model-checked: the liveness properties (`EveryCallEnds`, `EveryRegistrationEnds`,
`EveryCallReturns`, `QueuesDrain`, `ShutdownEnds`, `CreatedIsStreamed`), since fairness and ENABLED are
beyond the prover; the step from the theorems on the ends of calls to them is an argument on
paper. Every other property of the passing runs is a theorem.

## 6. Not modelled, and what comes next

* `JWTAuth`, `RoleGuard`, CORS, Recovery, Logger: checks of one request that keep no state.
* Configuration, migrations, seeder: they run alone, before everything else. What migrations
  constrain is in `MoneyColumn`, `WalletLedger` and `Registration`.
* Ids, DTOs, responses, formatting: data. A clash of random ids is one of the failures of
  a statement; malformed messages are produced by no publisher of this code.
* `GetMyWallet`, a single SELECT, and `Logout`, which only raises an event.
* The buffer of go-redis in front of a stream, which drops messages for a subscriber that
  lags behind by more than a hundred for a minute; in `NotificationStream` it is unbounded.
* A `DELETE` of notifications between a page and its total: the total may then be less than the
  page shows. `NotificationStream` has the step; `TotalCoversPage` is claimed for `Listing` only.
* The order of messages in a queue: no property depends on it.

Next: `Idempotency` composed with `AtomicLedger` in one module, with bodies, so that what finding 9
describes becomes a property of balances.
