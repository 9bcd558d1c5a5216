# Verification of the Stellar Split SDK

The Stellar Split SDK (`src/`) is a TypeScript client library for a Soroban
contract that splits invoices between recipients.  An application creates a
`StellarSplitClient` (`src/src/client.ts`), and the client builds, signs,
submits and watches transactions, reads invoices through caches, and keeps
going when RPC endpoints fail.  The ledger, the RPC nodes and the wallet are
outside the repository.

This directory holds TLA+ modules of the SDK's core, the TLC configurations
that check them on small instances, and theorems that TLAPS proves for every
value of the constants.  `PROJECT.json` lists the components, the runs, which
source lines each definition models, the hazards of the code and where each is
covered.  Paths in this file are relative to the root of the repository, which
is checked out in `src/`, so its sources are `src/src/...`.

JavaScript runs one turn of the event loop at a time.  Everything between two
awaits is atomic, and everything else interleaves: a model's action is one turn,
and its state is what survives an `await`.

Contents: [1 Inventory](#1-inventory) · [2 Modules and code](#2-modules-and-code)
· [3 Runs](#3-runs) · [4 Fairness](#4-fairness) · [5 Proofs](#5-proofs) ·
[6 Findings and observations](#6-findings-and-observations) ·
[7 Not modelled](#7-not-modelled) · [8 Plan](#8-plan)

## 1 Inventory

### 1.1 The write path: from `pay()` to the ledger

| part | state it keeps | operations | what makes it correct |
|---|---|---|---|
| `pay()` and its retry loops (`client.ts`, `retry.ts`, `retryPolicy.ts`) | the attempt a call is in | call, retry after a backoff, settle | every call settles; success is backed by an applied transaction |
| `PriorityQueue` (`priorityQueue.ts`) | array heap, `seq`, `running`, `closed`, waiters of the drain | `enqueue`, drain loop, `drain`, `shutdown` | one job at a time, most urgent and oldest first; nothing accepted is lost |
| idempotency store (`idempotency.ts`) | key → result with TTL and a bound | `get`, `tryClaim`, eviction | answers only with results that really happened |
| `_submitTx`, `_doSubmitTx` (`client.ts:8181-8350`) | where a submission stands; the sequence number it read | read account, simulate, sign, send, poll, fee bump | at most one submission of the account at a time; a bump and its inner transaction exclude each other |
| `resilience/CircuitBreaker.ts` | state, counters, probes in flight, time of the last failure | `execute`, `reset`, lazy expiry | thresholds and probe limit hold; the circuit never stays shut for ever |
| `rateLimiter.ts` | bucket, LRU store of per-key windows, queue, timer | `check`, `tryAcquire`, `acquire`, `prune`, `clear` | the rate holds in every interval; whoever waits is served |
| `throttle/AdaptiveThrottle.ts` | tokens, limit read from headers, queue, drain and penalty timers | `acquire`, responses, timers | whoever waits is served after the last refusal |
| allocation and rounding (`paymentAllocation.ts`, `invoice/rounding.ts`, `routing/WaterfallRouter.ts`) | none between calls | passes of an allocation, audit, plan | parts sum to the whole, caps hold |
| `splitRollbackCoordinator.ts` | checkpoints, records, claims | `begin`, legs, `initiateRollback` with a timeout | one completion is announced per claim |
| `ScheduledPaymentManager` (`scheduler.ts`) | list in memory and in `localStorage`, timers | `schedule`, `cancel`, the timers, start from the stored list | an entry is paid once; what is stored is what is planned |
| standby (`standby.ts`) | current endpoint, probe timer | failover, recovery probe | a failover submits at most once more per attempt |

A payment passes these in the order limiter → retry loop → (circuit breaker →)
queue → idempotency lookup → submission.  The throttle may stand where the
limiter does, amounts are allocated and rounded before `pay()` is called, and
the rollback follows a split that failed.  They share state through the queue
(one job under way for the whole client), through the store, and through the
account's sequence number, which only the ledger decides.

Hard behaviours: the answer to an accepted transaction is lost; a fee bump
races the transaction it bumps; a retry repeats what has already happened; the
breaker stops waiting for a submission that goes on; `shutdown()` arrives while
a call is backing off; the node answers from an older ledger; the process dies
while a scheduled payment is made; two tabs hold the same schedule.

### 1.2 The read path

| part | state | operations | what makes it correct |
|---|---|---|---|
| `SimpleCache` (`cache.ts`) and `_withCache` | entries with TTL in LRU order | `get`, `set`, `invalidate`, eviction | bounded; reads never go back in time |
| `Deduplicator` (`dedup.ts`) | fetches under way by key | join or start, remove when settled | a caller that joins is always answered |
| `OptimisticCache` (`cache/OptimisticCache.ts`) | base, queue of predictions, expiry, freshness entry, revalidations | `get`, `set`, `invalidate`, `read`, `applyOptimistic`, commit, rollback | predictions settle in any order without disturbing each other |
| `streaming/SubscriptionManager.ts` | position of each subscription, cursor in storage | `subscribe`, `unsubscribe`, poll, retry, restart | no event skipped, none delivered twice |
| `subscription.ts` | position, seen events, retry count and timers of one invoice's polling | create, `pause`, `resume`, `unsubscribe`, poll, retry, restart | no event given twice, and none left behind while polls do not overlap; an active subscription keeps polling |
| `horizon/HorizonStreamManager.ts` | bookmark, ring of tokens, attempts, timer | `start`, `stop`, `setCursor`, messages, errors, reconnect | no record twice, none left out; it gives up after the configured number of attempts |
| `invoiceStateSubscription.ts` | one socket, subscriptions with filters, attempts, timer | `subscribe`, `updateFilter`, `unsubscribe`, `connect`, `disconnect`, socket events | an open socket serves exactly the present filters |
| `tabSync.ts` | none; messages in the channel | broadcast, receive, re-broadcast | an invalidation reaches the other tabs |

Hard behaviours: a fetch that started before a payment ends after it; callers
join a fetch in the turn in which it ends; mutations settle out of order; a
revalidation that is older than a commit answers after it; a poll answers after
`unsubscribe()`; `resume()` polls while an earlier poll is awaited; a server
repeats records after a reconnect; a socket that was replaced reports its end
later; the requests of two tabs cross.

### 1.3 Queues, and working offline

| part | state | operations | what makes it correct |
|---|---|---|---|
| `queue.ts` | sorted list, `_draining`, failed flag | `enqueue`, drain loop, `clear` | one operation of the account at a time; everything settles |
| `persistentQueue.ts` | memory, IndexedDB, chain of rounds | `enqueue`, `process`, `remove`, `hydrate` | an accepted item survives a crash; it is processed once per life |
| `offlineQueue.ts` | bounded queue, copy in local storage, `isDraining` | `enqueue`, `sync`, `clear`; `pay()` with its health check | the copy is the queue; no operation twice, none without a trace |
| `operationQueue.ts` | buffer, online flag, polling timer | `enqueue`, `setOnline`, `start`, `stop`, drain | most urgent first; nothing stays in the buffer without a drain while online |

Hard: a crash between emptying the storage and executing, or between processing
and deleting; overlapping rounds; a health check made by the sync's own
operations; `clear()` while an operation runs; a connection that goes and comes
back during a drain.

### 1.4 What a transaction borrows

| part | state | operations | what makes it correct |
|---|---|---|---|
| `submission/ChannelAccountManager.ts` | slots, balances, waiters with timers | `acquire`, `release`, refresh | a slot has one holder, whose number is current; every `acquire` ends |
| `sequenceCache.ts` | a shared entry with its refresh state | `getSequence`, `refresh`, `invalidate` | no number given to two callers |
| `nonceManager.ts` | counter, nonces in flight, replay history | acquire, validate, commit, roll back, synchronise | a nonce is held once, and the check is exact |
| `circuitBreaker.ts` | state, errors, timer | `canExecute`, `recordSuccess`, `recordFailure`, `reset` | an open circuit is left |
| `rpc/RpcLoadBalancer.ts` | errors, quarantine, probes per endpoint | select, report, health checks | an endpoint in quarantine that recovers comes back |
| `connectionPool.ts` | connections, idle list, active set | `acquire`, `execute`, `release`, `destroy` | the books agree; one holder unless exhausted |
| `client/LazyInitializer.ts` | promise, ready flag | `get`, `reset`, retries | one attempt at a time, ready only when it has resolved |
| `lifecycle/GracefulShutdownHandler.ts` | progress of the shutdown | `shutdown`, drain, teardown | nothing is torn down under a write |

### 1.5 The rest

`PROJECT.json` lists every component with its files and, for those not modelled,
the reason; section 7 summarises them.

## 2 Modules and code

| module | models | composes or implements |
|---|---|---|
| `TxSubmission` | `pay()` → queue → `_submitTx` → `_doSubmitTx`, idempotency, failover, with an external ledger | implements `PaymentPromise` |
| `PaymentPromise` | the abstract promise of a payment | |
| `GuardedSubmission` | submissions inside the circuit breaker | composes `TxSubmission` and `CircuitBreaker` |
| `PriorityQueue` | the array heap and the drain loop | implements `SubmissionQueue` |
| `SubmissionQueue` | abstract queue: pick the most urgent and oldest | |
| `TxQueue`, `PersistentQueue`, `OfflineQueue`, `OperationQueue` | the four other queues | |
| `CircuitBreaker`, `ErrorBreaker` | `resilience/CircuitBreaker.ts` and the older `circuitBreaker.ts` | |
| `RateLimiter`, `AdaptiveThrottle` | `rateLimiter.ts`, `throttle/AdaptiveThrottle.ts` | |
| `LoadBalancer`, `ConnectionPool`, `LazyInitializer`, `GracefulShutdown` | the file of that name | |
| `ChannelAccounts`, `SequenceNumbers`, `NonceManager` | `ChannelAccountManager`, `sequenceCache.ts`, `nonceManager.ts` | |
| `InvoiceReads`, `OptimisticCache` | `getInvoice()` with cache and deduplicator; `cache/OptimisticCache.ts` | |
| `Subscriptions`, `TabSync` | `streaming/SubscriptionManager.ts`, `tabSync.ts` | |
| `InvoicePolling`, `HorizonStream`, `StateSocket` | `subscription.ts`, `horizon/HorizonStreamManager.ts`, `invoiceStateSubscription.ts` | |
| `PaymentAllocation`, `SplitAlgorithms` | allocation in passes; rounding audit and waterfall plan, against reference definitions | |
| `SplitRollback` | `splitRollbackCoordinator.ts` with its claim in `idempotency.ts` | |
| `ScheduledPayments` | `ScheduledPaymentManager` of `scheduler.ts` with its storage | |
| `TxSubmissionProofs` | theorems about `TxSubmission` | |
| `PaymentPathProofs` | theorems about `ScheduledPayments`, `SplitRollback`, `GuardedSubmission`, `PaymentAllocation`, `SplitAlgorithms` | |
| `QueueProofs` | theorems about `PriorityQueue`, `TxQueue`, `PersistentQueue`, `OfflineQueue`, `OperationQueue` | |
| `ResourceProofs` | theorems about `CircuitBreaker`, `LazyInitializer`, `GracefulShutdown`, `ChannelAccounts`, `NonceManager`, `SequenceNumbers`, `ConnectionPool` | |
| `SubscriptionProofs` | theorems about `Subscriptions`, `InvoicePolling`, `HorizonStream` | |
| `LimiterProofs` | theorems about `RateLimiter` | |
| `CacheProofs` | theorems about `InvoiceReads`, `OptimisticCache`, `TabSync` | |
| `BasicLemmas` | facts about sequences and sets of naturals they share | |
| `MC*` | instances for TLC | |

`MCQueues`, `MCResources`, `MCReadPath` and `MCPaymentPath` each check several
components in one run.  The components of such a run share no state in the code,
so a behaviour picks one of them (`part`) and lets the others stand still: the
state space is the sum of theirs, never the product, and every property speaks
of its component exactly as if it were checked alone.  Components that do share
state are composed properly, in `GuardedSubmission`.

An operator whose name ends in `_<word>` (`Enqueue_DropsNewest`) is a variant
with a plausible bug.  No specification uses it: it serves to see that the
properties notice the bug.

### 2.1 TxSubmission

`pay[p].pc` is where the promise of one call of `pay()` stands: `queued` and
`starting` in the `PriorityQueue` (every caller uses priority `normal`, so the
list is first come, first served; `PriorityQueue` checks the heap itself),
`running` while `_submitTx` awaits `_doSubmitTx`, `failover` in the catch block
with a standby, `hit` when the idempotency store answered, `backoff` during the
delay of `withRetry`/`executeWithRetry`.  `attempt` counts passes of the retry
loop.  `sub[<<p, k>>]` is the k-th execution of `_doSubmitTx` for call p; it has
a life of its own because a caller may stop awaiting it (2.2).

| action | code |
|---|---|
| `Pay`, `Retry` | `pay()` reaching `enqueue`, first or after a backoff; a closed queue refuses, and no loop repeats that |
| `Hit`, `ReturnHit` | the lookup in the job, and the answer from the store in the next turn |
| `Execute`, `Failover` | the call of `_doSubmitTx`, and the second one in the catch block |
| `ReadAccount` | `getAccount()`; with `RpcLags` the number may be an old one |
| `Prepare` | simulate, assemble, sign |
| `SendAccepted`, `SendPutOff`, `SendAnswerLost` | `sendTransaction()`: accepted; `TRY_AGAIN_LATER`, which the code treats as accepted; accepted, but the answer is lost |
| `FailsBeforeSending` | any await up to the send that fails, retryable or not |
| `PollFinds`, `PollGivesUp`, `PollDisconnects` | the 21 polls: found with a status; never found, so bump or give up; the poll itself fails |
| `Shutdown` | `shutdown()` of the queue, at any moment |
| `Land`, `ForeignTx` (external) | the ledger applies a pending transaction with the next number, with either status; somebody else uses the number |
| `ExpireKey` | TTL or eviction in the idempotency store |

Settling a job and starting the next is one turn in `_drain`, so it is one
action (`SettleJob`).  Abstracted: XDR, fees, the amounts, the number of polls,
the delays (any delay may be any length), and what the contract computes.

`PaymentPromise` says what remains when all that is hidden: a submission is
executed at most once, only after its call was made, and a call that reports
success has had a submission executed.  The refinement mapping maps
`executions[s]` to the number of applied transactions that s built and a call's
`pc` to none/pending/paid/failed.

### 2.2 GuardedSubmission

`_submitTx` with `advancedCircuitBreaker` wraps the call of `_doSubmitTx` in
`execute()`.  The composition joins the actions of both modules: a submission
that begins is a call the breaker admits (`Admitted`) or refuses (`Refused`,
an error of the submission), a submission that ends settles the breaker's call
(`SubStepInBreaker`), and a probe timer (`ProbeTimesOut`) ends the wait of a
submission that runs on: `Awaited(s)` becomes false, and its late result must
reach neither the call nor the store.  `CircuitOpenError` is retried by
`executeWithRetry` and not by `withRetry` (`RetriesOpenCircuit`).

### 2.3 Queues

*PriorityQueue.* `heap` is the array, `current` the job the loop awaits, `fate`
what the caller's promise knows.  `SiftUp` and `SiftDown` are the loops of
`_insert` and `_extractMin`, as functions of the number of turns; `Up` and `Down`
are one turn of each, on an array and a position.  `running` of the code is
`current # NoJob`.
`SubmissionQueue` has a set instead of an array and picks the least (priority,
arrival) of it.

*TxQueue.* `items` is the sorted list, `draining` the loop's flag.  The end of an
operation and the start of the next are one turn.  `clears` says whether the
application calls `clear()` while an operation runs, which is the only way to
two loops.

*PersistentQueue.* `memory` and `store` are the two copies, `writes` the
IndexedDB transactions under way, which complete in their order.  A round of
`process()` copies the memory and awaits the function and then the deletion of
each item; `remove()` may come at any moment; `Restart` keeps the store.

*OfflineQueue.* `call` is a call of `pay()`: checking the health, submitting, or
answered (`paid`, `failed`, `queued`).  `sync` is the loop of `sync()` with what
it awaits.  An operation that `sync()` executes is `pay()` again, with a health
check of its own that may queue it anew.  `Crash` keeps the storage only.

*OperationQueue.* The stable sort after each insertion is the choice of the one
list with the same entries in that order.  A drain awaits one request at a time, so the requests in state
`drained` stand for the drains under way; several overlap when the connection is
lost and back during a drain.  The end of a request and the next `shift()` are one
turn (`RequestSettles`).  `checks` counts health checks on their way, which
overlap when one is slower than the interval and survive `stop()`.

### 2.4 Breakers

*CircuitBreaker.* `execute()` is two turns: an admission (`Reject`, `BeginProbe`,
`BeginNormal`) that first expires an open state lazily, and a settlement
(`NormalSucceeds`, `NormalFails`, `ProbeSucceeds`, `ProbeFails`,
`ProbeTimesOut`) whose handlers look at the state they find then.  A probe that
timed out is `timedOut` until its function ends.  The clock is the flag `cooled`.

*ErrorBreaker.* `recordSuccess()` and `recordFailure()` may be called in any
state, by calls admitted in an earlier one.  The open state is left by the timer
(`ResetTimerFires`) or by `canExecute()`.  A call that fails for a reason of its
own ends without telling the breaker (`EndsUnrecorded`, `resilientRpc.ts:224`).

### 2.5 RateLimiter and AdaptiveThrottle

Time is in ticks of a fraction of `windowMs`.  `Refilled`, `Touched` and
`Evaluate` are `_refill`, `RateLimitStore._touch` and `_evaluate`, with their
side effects; `Round` is the loop of `_processQueue` over the queue, in the
order of the queue, evaluating every entry.  Fractional rates are whole numbers
of units with `Cost` units per request.  The module discharges what
`TxSubmission` leaves out: the `await acquire()` at `client.ts:8240` ends.

The throttle's tokens are whole and arrive one at a time.  A drain timer that
fires during a penalty does nothing, and the end of the penalty sets it again.

### 2.6 Endpoints, connections, start and shutdown

*LoadBalancer* keeps for each endpoint its consecutive errors, its quarantine and
the probes on their way; rounds of probes overlap when one is slow.  Which
healthy endpoint a call takes is a choice.  *ConnectionPool* numbers connections in
the order of their creation, so that one that was removed while it was held is
not one created later; `shared` records that the pool has handed out a held
connection.  *LazyInitializer* gives each attempt a life of its own; `reset()`
drops the promise and leaves the attempt running.  *GracefulShutdown* runs the
handler over two clients: one that uses the helpers `_assertWritable()` and
`_trackInFlightRequest()`, and `StellarSplitClient`, none of whose methods does.

### 2.7 Accounts and numbers

*ChannelAccounts.* `acq` says where a call of `acquire()` stands.  It awaits one
balance per slot (`BalanceRead`), decides in one turn (`BalancesKnown`), awaits
the sequence number (`ReadSequence`), and gives back (`Release`), where the head
of the waiters takes over in the same turn.  `Spend` is the transaction that
uses up the number.

*SequenceNumbers.* `entries` are the entry objects, which the cache and the calls
that await a fetch share; a caller is between `getSequence()` and the end of the
transaction it built.  `hasty` callers let an entry be fetched twice at once, or
refreshed while a number is in use.

*NonceManager.* `stage` and `nonceOf` are the users', `inFlight`, `history` and
`current` the manager's.  The history forgets by age (`HistoryExpires`) and by
its bound (`Remembered`).

### 2.8 Reads

*InvoiceReads.* An invoice is the number of its changes.  `cache` is in LRU
order; `fetch` are fetches under way, one per invoice (or one per call where
`dedupe` is off).  `pay()` invalidates the plain id (`client.ts:3128`) while
reads are cached under `getInvoice:[id]`: the keys are modelled as they are.

*OptimisticCache.* For one invoice, because keys do not interact.  A value is the
set of mutations it accounts for.  `base`, `expiry` and `fresh` are the three
stores one value lives in; `pending` the queue of predictions; `reval` and
`revalKey` the revalidation that runs and the key in `revalidations`, which are
two things because the key is entered after the fetch has been started.  The
usages distinguish how the application drives the class.

*Subscriptions.* For one invoice, with whole pages of events.  `sub` holds a
state per `subscribe()`, because a poll of an earlier one may still be awaited;
the cursor is the one in storage.

*InvoicePolling.* For one invoice.  A `loop` is one chain of `poll()` calls: it
awaits the latest ledger (`locating`) or the events (`asking`, `answered` once
the node has decided its answer), or waits for a timer (`pausing`, `retrying`).
`resume()` begins a loop without asking whether one is under way, so loops
overlap; `timerOf` says whose timers the two fields of the state refer to, for
`clearTimers()` knows no others.  A callback may throw at any event, and the
process may restart with the stored cursor.

*HorizonStream.* A record's token is its position.  `stream` is connecting or
open; the server may go back by some records whenever the stream is open
(`ServerRepeats`), and a record becomes stale (`RecordAges`) at any moment.
`ring` is the buffer of tokens, which survives a reconnect and is emptied by
`start()`; `bookmark` and `stored` are `_cursor` and its copy.

*StateSocket.* `socket` is the present WebSocket with its `readyState`,
`replaced` counts sockets that were replaced while they were closing and whose
`onclose` is still to come.  `told` is what the server knows of each
subscription.  The timer's callback clears the one field it knows, so `timers`
and `timerKnown` are two things.

*TabSync.* `inbox` are the messages on their way to a tab, `outdated` the entries
it holds although another tab has invalidated them.

### 2.9 Amounts and rollbacks

*PaymentAllocation* takes one pass of `allocateWithCaps()` per step, over all
small needs, weights and budgets, until everything is placed or
`MAX_ALLOCATION_PASSES` (1024) have been taken.  *SplitAlgorithms* asks for one rounding or one
plan and answers in one step, over all small inputs.  Shares are exact rationals;
that the code's floats may fall just below a whole number is not modelled.
*SplitRollback* follows one split id: each call of `initiateRollback()` is an
attempt with its own execution and timeout.

### 2.10 Scheduled payments

*ScheduledPayments.* `plan[t]` is the list of tab t's manager, `saved` the one in
`localStorage`, which a manager reads only when it is made.  Every change writes
the whole list in the same turn (`Save`), and a save may fail silently.  `paying`
are the calls of `pay()` under way; one that rejects may have been applied (2.1),
and one that a restart cuts off too.  A timer whose delay exceeds what
`setTimeout()` can count (2^31 - 1 ms, `MaxTimer`) fires at once (`FiresAt`).  A
timer may fire late, so the time in which no manager exists is part of
`StartManager`.

## 3 Runs

| run | question | instance | distinct states |
|---|---|---|---|
| `tx_twins` | two equal payments, retried, with lost answers and a shutdown | 2 calls, 1 operation, 2 attempts, keys do not expire, no standby | 245 000 |
| `tx_failover` | does every submission keep the promise in the worst environment? | 2 calls, 1 attempt with failover, keys expire, lagging node, 1 foreign transaction | 1 730 000 |
| `payment_path` | submissions behind the breaker, limiter, throttle, allocation, rounding, rollback, scheduled payments | 1 call with 3 attempts; 4 and 3 requests; 3 invoices; 3 lines; 2 attempts; 2 payments in 2 tabs | 1 020 000 |
| `queues` | the five queues | 5 jobs; 4 operations; 3 items, 3 rounds, 1 crash; 3 calls; 3 requests | 267 000 |
| `resources` | what transactions borrow (1.4), both breakers, and the socket of the subscriptions | 2 or 3 users of each, 2 endpoints, 2 slots, 4 nonces, 2 subscriptions | 378 000 |
| `read_path` | caches, subscriptions, polling, streams, tabs | 3 mutations; 2 reads, 2 invoices; 3 subscriptions, 4 ledgers; 2 loops, 3 ledgers; 5 records; 2 tabs | 6 590 000 |
| `tx_retry_twice` | is an operation applied at most once? (no: 6.1) | keys never expire | violation |
| `optimistic_clobber` | does a rollback keep what was committed? (no: 6.2) | | violation |
| `offline_conflict` | is a conflict one? (no: 6.3) | | violation |
| `shutdown_writes` | are writes refused after `shutdown()`? (no: 6.4) | | violation |
| `tab_sync_stale` | do other tabs evict? (no: 6.5) | | violation |
| `horizon_gives_up` | does the stream give up after its limit? (no: 6.6) | limit of 1, every connection refused | violation |

### 3.1 What they show

* **`tx_twins`** `ResolvedIsApplied`: success is never reported without an
  applied transaction that carries this very operation. `StoredIsApplied`: the
  store only answers with such transactions. `TwinsAreSerialised`: submissions
  of the client do not overlap, and two calls for one operation report the same
  transaction. `BumpExcludesInner`: a fee bump and the transaction inside it are
  never both applied. `NoSendOnceClaimed`: a key that is in the store keeps its
  operation from being sent. `EveryPaySettles`: whatever the ledger does, each
  call ends.
* **`tx_failover`** `ImplementsPromise`: even with a standby, expiring keys, a
  node that lags and others who use the account, each submission is executed at
  most once and success follows an execution.  It does *not* say that a call
  executes once: a call makes several submissions (6.1).
* **`payment_path`** `BreakerMatchesQueue`: what the breaker counts as under way
  is what the queue's job awaits, so that neither leaks a slot of the other.
  `TwinsAreSerialised` is not checked here because it does not hold (6.7).
  `WithinBudgets`: the rate, rounded up, per window and at most twice in any
  interval of that length, and likewise per key as long as counters are kept;
  `RoundIsFair`; `WaitersGetThrough`: every `acquire()` of the limiter is granted
  and whoever waits at the throttle gets a token, with newcomers that overtake. `AllocationIsComplete`: no invoice gets more than it needs, nothing
  is lost between passes, and the passes end with everything placed.
  `SplitsAddUp`: shares sum to the total or the audit refuses, shares are within
  a stroop, and a plan satisfies exactly the tiers it can. `RollbackAnnouncedOnce`. `PaidOnceUnlessCut`: no
  manager pays an entry of its schedule twice; in a single tab whose saves
  succeed the stored list is the manager's, no pending entry is without a timer or
  a payment under way, and each further payment needs a restart that cut one off.
* **`queues`** `ImplementsQueue`: the array heap always yields the most urgent and
  oldest job; `QueuesSettle`: rejecting jobs do not stop the loop, and every
  operation of the serial queue settles, also when `clear()` leaves two loops.
  `OneOperationAtATime` without such a `clear()`.
  `ItemsPersist`: an accepted item survives, and is processed once per life.
  `ExecutedAtMostOnce`, `NothingForgotten` (but for crashes and throwing listeners
  during a sync; it includes that storage and queue agree).  `DrainedByPriority`:
  while online the buffer is in order and a drain is at work on it, also when
  drains overlap.  `QueuesSettle` also says that every `sync()` ends and that what
  is buffered when the connection returns is executed.
* **`resources`** `ProbeLimit`: probe slots are given back once, and only
  `reset()` admits more. `ClosedBelowThreshold`: counts of an open period do not
  survive into a closed one. `OutagesEnd`: open and half-open are left
  (`CircuitIsDecided`), and so is the open state of the older breaker, which always
  has a running timer (`OpenBreakerRecovers`), and a quarantine
  (`QuarantineEnds`). `SlotHasOneHolder`: and its sequence number is
  still current. `AcquireEnds`. `NoncesAreExact`: a nonce is held once, never
  after it was committed, and the check before sending tells these apart even if
  the history has forgotten. `NumberGivenOnce` for callers that are not hasty;
  and for all, an entry that is marked as being refreshed is. `OneAttemptAtATime`
  unless `reset()` comes midway. `PoolBooksAgree`. `DrainedBeforeTeardown` for a
  client that tracks its writes. `SubscribersServed`: whatever the order in which
  sockets open, break and report it, an open one serves exactly the present
  filters, and whoever subscribes is served unless the subscriber has given up
  or was stopped.
* **`read_path`** `MonotonicReads`: one caller's reads do not go back, and whoever
  waits is served by a fetch under way. `RollbackKeepsLater`; `SettledShowsTruth`
  for a caller that applies one mutation at a time, predicts from what it is shown
  and does not `read()`. `EventsDelivered`: none skipped, none twice, across
  failed polls, new subscriptions and restarts. `EvictionOnItsWay`.
  `PolledOnceAndAwake`: overlapping loops, restarts and throwing callbacks never
  give an event twice, an active subscription never stops polling, and no event
  is left behind unless loops overlapped or a callback threw.
  `RecordsOnceInReach`: repeated and stale records never reach the handler twice
  or leave a gap, and the stream is always there, asked for or given up.

Most modules keep one type invariant, which also states the bounds that are
real (capacity of a cache, size of a queue, counts below a threshold).  The runs
do not list them: where one matters it is proved (5).

### 3.2 Bounds, and why they are enough

* *Two calls, one operation* (`tx_*`): every property of `TxSubmission` relates
  at most two calls or two submissions; equal operations are the case in which
  the store and twins matter, and with two attempts each call makes a
  submission, fails in every way, waits behind the other and tries again.
  `MaxForeign = 1` uses up a sequence number once between read and send; a
  second time only repeats it.
* *Three attempts* (`payment_path`): a probe that is abandoned, one more that
  runs while the abandoned one answers, and one after it.
* *Four requests, windows of two ticks* (`payment_path`): two windows can meet in
  one interval, with a grant and a waiter for each of two keys; a store of one
  counter for two keys evicts, a store of two does not. `MaxIdle` bounds how
  many idle windows are told apart; the assumption `IdleFills` says that beyond
  it every bucket is full.
* *Three requests at the throttle*, two changes of the limit and two refusals: a
  caller that waits, one that overtakes it, and a penalty during a penalty.
* *Amounts up to 6, three invoices or lines*: all remainders of a division by
  three and by four, ties, caps that bind for one or two, zero weights.
  `MaxPasses` has the code's value.
* *Two scheduled payments, two tabs, one restart* (`payment_path`): the second
  payment's save carries the first's status with it; two managers, each of which
  may start anew from what the other has written; a restart before, during and
  after a call of `pay()`.  Delays of one and two units with timers that count to
  one give a timer that waits and one that fires at once.
* *Five jobs* (`queues`): four in the array, which gives the heap three levels
  and a node with one child and one with two; two priorities give ties that the
  arrival number decides. *Four operations*: two loops, each with one that runs
  and one that waits. *Three items, three rounds, one crash*: rounds that overlap
  on an item, and one after the restart. *Three offline operations, capacity
  two*: the third evicts the first, and a sync with two left may be overtaken.
  *Three requests, two health checks*: two drains with a request each and one
  buffered; an answer that is overtaken by a later one.
* *Three calls, thresholds of two* (`resources`): a straggler, a probe and a
  newcomer at once; two of a kind are needed to reach a threshold.
  `MaxFailureCount` and `MaxErrors` cap counters that only grow, above the
  threshold, where the value no longer matters.
* *Three callers for two slots*: two hold, one waits; *three users, four nonces, a
  history of two*: nonces out of order, one forgotten; *three users for at most
  two connections* with five ever made: sharing, failure and replacement; *three
  attempts with a retry*; *three writes*: before, during and after the drain; *two
  endpoints with two probes each*: a probe overtaken by the next.
* *Three mutations* (`read_path`): the middle one can settle first, last or
  between.  *Two reads, two changes, capacity two*: an older and a newer answer
  in flight, and a third key that makes the cache evict.  *Three subscriptions,
  four ledgers*: one that ended with a poll awaited, one that runs, and one after
  a restart.  *Three requests between two tabs*: they cross and a third follows.
  *Two loops, three ledgers, one restart*: a loop that overlaps another, an event
  for each, and a new start from the cursor.  *Five records, a ring of three, a
  server that goes back by two*: the ring overflows twice, and what it keeps is
  just enough (`BufferCovers`, section 5 and 6.7).
* *Two subscriptions, two sockets, one reconnect* (`resources`): one replaced
  while it closes, and the limit reached.

`CHECK_DEADLOCK FALSE` is in every run that passes: in each of them the system
ends by itself (all calls made, all versions reached), and what must not get
stuck there is stated as a liveness property.  No run uses symmetry.

## 4 Fairness

| module | assumed | why the code justifies it |
|---|---|---|
| `TxSubmission` | each call's own steps and each submission's steps are taken (WF) | they are continuations of promises, and every await is an RPC call that answers or fails, a finite delay or one of 21 polls |
| | nothing of the ledger | it owes the client nothing: `EveryPaySettles` holds if no transaction is ever applied |
| `PriorityQueue`, `TxQueue` | a job that runs ends (WF) | it is `_submitTx`, see above |
| `CircuitBreaker` | time passes, the probe timer fires, normal and abandoned calls end, callers keep coming (WF) | `setTimeout`; the lazy expiry needs a caller to be noticed; a *probe* may hang for ever, for which the code has its timer |
| `ErrorBreaker` | the timer fires (WF) | `setTimeout`; nobody need call |
| `LoadBalancer` | rounds of probes are started, quarantines pass, probes end (WF) | `setInterval`, the clock, and a request with a timeout |
| `ChannelAccounts` | the steps of each `acquire()` and the release its holder owes (WF) | answers of the node, the timer, and the contract of `acquire()` |
| `RateLimiter` | time passes (WF), and a timer that is due does not stay due (`[]<>(timer # 0)`) | `setTimeout` fires, late perhaps; nothing else changes a due timer, so this is WF of the callback in a form TLC evaluates quickly |
| `AdaptiveThrottle` | tokens arrive, penalties end, the drain timer fires (WF) | the clock and `setTimeout` |
| `StateSocket` | one of these happens: a timer fires, a closing socket reports it, a socket that is being made opens or breaks (WF of their union) | `setTimeout` and the browser's events; nothing is assumed of which socket opens |
| `OfflineQueue` | `sync()` goes on (WF) | each of its awaits ends |
| `OperationQueue` | a request that runs ends (WF) | it is one call of the client, and those end; nothing is assumed of the connection or the health checks |

The other modules have safety properties only: how long a fetch or a user takes
is not the code's affair.

In the composite runs a part that does not run has its fair actions disabled, so
the assumptions about all parts can be made together; only the limiter's clock
would run for ever, and its fairness is limited to behaviours of that part.

## 5 Proofs

TLAPS proves these for every value of the constants; the runs named check the
same definitions on their instances.

| theorem | states | run |
|---|---|---|
| `TxSubmissionProofs!SubmissionTypeCorrect` | `Spec => []TypeOK` | |
| `TxSubmissionProofs!QueueAlwaysConsistent` | `Spec => []QueueConsistent` | |
| `TxSubmissionProofs!SuccessMeansApplied` | `Spec => []ResolvedIsApplied` | `tx_twins` |
| `TxSubmissionProofs!StoreAnswersTruly` | `Spec => []StoredIsApplied` | `tx_twins` |
| `TxSubmissionProofs!BumpAlwaysExcludesInner` | `Spec => []BumpExcludesInner` | `tx_twins` |
| `TxSubmissionProofs!TwinsAlwaysSerialised` | `Spec => []TwinsAreSerialised` | `tx_twins` |
| `TxSubmissionProofs!NeverSentOnceClaimed` | `Spec => NoSendOnceClaimed` | `tx_twins` |
| `TxSubmissionProofs!SubmissionKeepsPromise` | `Spec => ImplementsPromise` | `tx_failover` |
| `ResourceProofs!TypeCorrect` | `Spec => []TypeOK` | |
| `ResourceProofs!ClosedCountBelowThreshold` | `Spec => []ClosedBelowThreshold` | `resources` |
| `ResourceProofs!ProbesWithinLimit` | `Spec => []ProbeLimit` | `resources` |
| `ResourceProofs!SlotsAlwaysHaveOneHolder` | `ChannelSpec => []SlotHasOneHolder` | `resources` |
| `ResourceProofs!NoncesAlwaysExact` | `NonceSpec => []NoncesAreExact` | `resources` |
| `QueueProofs!NeverExecutedTwice` | `OfflineSpec => []ExecutedAtMostOnce` | `queues` |
| `QueueProofs!NothingIsForgotten` | `OfflineSpec => []NothingForgotten` | `queues` |
| `QueueProofs!OperationsNeverOverlap` | `TxqSpec => []OneOperationAtATime` | `queues` |
| `ResourceProofs!AttemptsNeverOverlap` | `LazySpec => []OneAttemptAtATime` | `resources` |
| `ResourceProofs!TeardownAfterDrain` | `ShutdownSpec => []DrainedBeforeTeardown` | `resources` |
| `ResourceProofs!NumbersNeverShared` | `SequenceSpec => []NumberGivenOnce` | `resources` |
| `ResourceProofs!BooksAlwaysAgree` | `ConnectionSpec => []PoolBooksAgree` | `resources` |
| `QueueProofs!AcceptedItemsPersist` | `PersistentSpec => []ItemsPersist` | `queues` |
| `QueueProofs!BufferDrainsByPriority` | `OpqSpec => []DrainedByPriority` | `queues` |
| `QueueProofs!HeapImplementsQueue` | `Spec => ImplementsQueue` | `queues` |
| `PaymentPathProofs!ScheduledPaidOnce` | `ScheduleSpec => []PaidOnceUnlessCut` | `payment_path` |
| `PaymentPathProofs!RollbackNeverRepeated` | `RollbackSpec => []RollbackAnnouncedOnce` | `payment_path` |
| `PaymentPathProofs!BreakerAlwaysMatchesQueue` | `GuardedSpec => []BreakerMatchesQueue` | `payment_path` |
| `PaymentPathProofs!AllocationCompletes` | `Cardinality(Invoices) <= MaxPasses => (AllocationSpec => []AllocationIsComplete)` | `payment_path` |
| `PaymentPathProofs!SplitsAlwaysAddUp` | `SplitSpec => []SplitsAddUp` | `payment_path` |
| `LimiterProofs!BudgetsAlwaysKept` | `LimiterSpec => []WithinBudgets` | `payment_path` |
| `LimiterProofs!RoundsAlwaysFair` | `LimiterSpec => RoundIsFair` | `payment_path` |
| `LimiterProofs!LimiterTypeCorrect` | `LimiterSpec => []LimiterTypeOK` | |
| `SubscriptionProofs!EventsReachHandlers` | `SubsSpec => []EventsDelivered` | `read_path` |
| `SubscriptionProofs!PollingAlwaysOnceAndAwake` | `PollingSpec => []PolledOnceAndAwake` | `read_path` |
| `SubscriptionProofs!RecordsNeverLost` | `HorizonSpec => [](HandledSoFar /\ InReach)` | |
| `SubscriptionProofs!RecordsReachHandlerOnce` | `BufferCovers => (HorizonSpec => []RecordsOnceInReach)` | `read_path` |
| `CacheProofs!ReadsNeverGoBack` | `Dedupe => (ReadsSpec => []MonotonicReads)` | `read_path` |
| `CacheProofs!SettledAlwaysShowsTruth` | `Spec => []SettledShowsTruth` | `read_path` |
| `CacheProofs!RollbackAlwaysKeepsLater` | `Spec => RollbackKeepsLater` | `read_path` |
| `CacheProofs!EvictionAlwaysPending` | `TabSpec => []EvictionPending` | |
| `CacheProofs!EvictionNeverLost` | `TwoTabs => (TabSpec => []EvictionOnItsWay)` | `read_path` |

Assumptions are those of the modules: finite sets of calls, positive thresholds
and bounds, `OpOf` a function from calls to operations.  Nothing is assumed of
the ledger.  Four theorems have a hypothesis about a constant, and it is in
their statement: the server of a stream goes back by at most half of the ring,
rounded up (`BufferCovers`); the client's deduplicator is on (`Dedupe`, the
default of the option of `getInvoice()`, `client.ts:3507`, without which answers
may cross); there are two tabs
(`TwoTabs`, for the number of messages only); and an allocation is among no more
invoices than there are passes, 1024 in the code, which sets no limit on the
invoices themselves.

**TxSubmission.** `TypeOK` is not inductive: that `attempt` and `subs` stay in
range follows from the guards only together with where the call stands (a call
in `backoff` has an attempt left; one in `starting` has made at most two
submissions per earlier attempt), and that the next job's record may be changed
follows from the queue naming a call that is `queued`.  `IInv` is therefore
`Books /\ RestTyped`: `Books` joins the types of `pay`, `queue` and `current`
with a budget per call (`BudgetOf`) and `QueueConsistent`; `RestTyped` is the
rest of the type invariant.  The lemmas treat `Enqueue`, `SettleJob` and
`JobRejects` once each, and every action cites them.  On top of it,
`AnswersAreReceipts` (the result of each call in `hit` or `resolved` is an
applied transaction of its operation) and `StoreHoldsReceipts` are inductive,
because `landed` only grows and a result is written in one turn with reading it
from `landed` or from the store.

**TxSubmission and the ledger.** `LedgerAgrees` ties the ledger to the submissions: a pending or
applied transaction carries the sequence number its submission read, a number is
applied once and is at most the account's, and a submission that has begun is
counted by its call.  `FrameKeepsLedger` says which changes of a submission leave
that alone (none, moving on with the number kept, or a beginning of one that has
sent nothing), and every action is shown to be one of them.  A bump and the
transaction inside it would share a number, so they are one.  With
`AnswersAreReceipts` the same invariant gives the refinement: a step that lands a
transaction is `ExecuteOnce` of its submission, which had none before; the
start and the end of a submission and of a call are the promise's other steps,
and the rest stutters.  `SerialInv` is about the queue's claim: an execution that
has not ended is the one that its call awaits (`ActiveIsAwaited`), and at most
one call is under way by `QueueConsistent`; while it runs its key is free
(`RunningUnclaimed`), because only a submission that succeeds writes a key; and
what a call answers is what the key remembers (`AnswersAreStored`).

**CircuitBreaker.** `ProbeInv` relates the counter to the cardinality of the set
of probes and to the number of resets.  Three lemmas on finite sets say what
adding or removing one probe does to it; `ClosedBelowThreshold` needs only that
both writers of `"CLOSED"` zero the count and that the count opens the circuit
in the turn in which it reaches the threshold.

**ChannelAccounts.** `ChannelInv` adds to the property that the waiters are
exactly calls that wait, each once (`QueueIsSound`), and that the slots in use
and the calls that own one correspond one to one (`OwnersShareNothing`).  One
lemma each treats taking a slot, giving it back and handing it to the head of
the queue in the same turn; that a sequence number read is current follows
because only the owner of the slot spends from it.  `FirstOf`, which picks the
first suitable slot, is a `CHOOSE`: `FirstIsAvailable` shows that there is one
to choose, by the well-foundedness of `<` on the naturals.

**NonceManager.** The history may forget a nonce by age or by its bound, so the
check cannot rest on it.  `NonceInv` says what does the work: the counter is
beyond every nonce ever held or committed, one holder per nonce in flight, and
the history holds committed nonces only; exactness follows from these
(`InvariantMakesExact`).

**OfflineQueue.** `OfflineInv` says that an operation is in one place once, in the
queue or in the running sync (`InOnePlace`), that the loop has an operation in
hand when it awaits something (`LoopHasOperation`), that what is in either place
has not been executed (`Unexecuted`), and that the copy is the queue and what
waits is kept.  The lemmas are about the three moves of an operation:
`EnqueueingTakesOne` (with the drop of the oldest), `StartingMoves` (all of the
queue into the sync) and `NextOperationDrops`.

**ScheduledPayments.** That an entry was paid is not in the model's state as the
code sees it: only the status says so, which `cancel()` and the result of `pay()`
both write.  `ScheduleInv` adds that a timer is set only for an entry its manager
has not paid (`OneCallPerManager`), that what was never scheduled is known
nowhere (`UnknownBefore`), and, for a tab alone, that an entry which is pending
or being paid has been applied by calls that were cut off and by no other
(`AloneAgrees`).  One lemma treats each action; the clock and the bound of a
timer's delay are arbitrary.

**SplitRollback.** `RollbackInv` says that what was announced has its record and
its claim, so that whoever comes next finds both; and that only a timeout takes
the record away from an attempt that executes.

**GuardedSubmission.** `GuardedInv` is the invariant of the submission, `IInv`,
with the agreement to be proved.  The steps that the breaker adds (a refusal, a
probe that times out) end the job as an error does, and keep the queue's books by
the lemma that `TxSubmissionProofs` has for errors.  The steps of submission
itself are looked at for one thing: which calls are awaited before and after;
`NotRunning` and `SettledTouches` say that only one call's wait ever changes.

**TxQueue.** Whatever waits has an operation that runs before it, and a loop at
work means that one runs; the converse, and that one runs alone, holds until
`clear()` interrupts one.  The loop that goes on is one lemma (`LoopKeeps`),
cited for `enqueue()` and for both ends of an operation; `InsertionKeepsItems` is
about the place that the binary search finds.

**PersistentQueue.** What is accepted and neither handled nor removed is in the
memory, and in the store or in a write that was issued for it; a deletion is
issued only of an item that was handled or removed, and writes complete in their
order.  A round works on a copy, so an item it holds may be gone from the memory:
then it was handled or removed.  An item still to be handled was handled at most
once for each crash so far, one that is done at most once more.

**OperationQueue.** While the client is online, something buffered has a drain at
work on it: the drain begins in the turn in which the item or the connection
comes, and ends only on an empty buffer or without a connection.  The order of
the buffer is kept because the sort is of all that is in it, and `shift()` takes
from the front.

**PriorityQueue.** The refinement maps the array to the set of its entries.
`Climbs` says that an array is ordered but for one entry that is above nothing it
should be below; a turn of `_insert`'s loop keeps it and moves the entry nearer
the root (`UpClimbs`), so the loop ends on a heap with the same entries.  The loop
of `_extractMin` is its mirror image.  The root of a heap is then before every
other entry, by induction along the ancestors, which is what the abstract queue
picks.  The rest is the loop's bookkeeping: while no job is awaited the array is
empty, so a job that ends is followed by the next one or by none.

**RateLimiter.** `WithinBudgets` is about what was granted in the last window,
and neither the bucket nor the counters remember that: `LimiterInv` says how much
of it they imply.  `TokensAgree`: while the bucket's window lasts, its missing
units pay for what was granted since the window began, and twice its size, less
the units that are left, for all of the last `Window` ticks; a bucket whose
window is over has granted nothing since, so one size less what is left is enough
and a refill, however many windows late, restores the first form.  `KeysAgree` is
the same for a key, whose counter has a window of its own: a counter in its
window has counted what was granted since that began, and at most one budget was
granted before; a counter that lapsed, was pruned or never was has at most one
budget behind it and nothing in this tick.  Both keep a bound for a part of the
last window and one for all of it, because neither alone survives a refill.
`GrantIsOne`, `GrantsAge` and `RefillKeepsBooks` say what a grant, a tick and a
refill do to the counts; `Touching`, `CountingKeepsBooks`, `AgeingKeepsBooks` and
`PruneKeepsBooks` what the store's operations do to the counters, `RoomForKey`
that nothing is evicted while no more keys exist than may be tracked.  A round is
a recursive function; `Rounds` shows, from `TurnsExist`, that it is the sequence
of its turns, and `ServingOneMore` treats one turn: the books agree with a log in
which the requests served so far are granted, and whoever was passed over stays
spent (`EvaluateSpends`), because a bucket just refilled is not refilled again
within the round and the counter of a denied key is neither evicted nor rolled
over.  The keys are assumed to be finitely many, as in any run of the program.

**ConnectionPool.** Connections are numbered, so that a new one is neither idle
nor held nor among those removed.  While none is shared, the active set
corresponds one to one to what callers hold; sharing is what an exhausted pool
does, and the books of the two lists agree even then.

**PaymentAllocation.** Sums over sets are a `CHOOSE` of a recursive function in
the library.  `SumsExist` and `SumsAgree` show that it exists and does not depend
on the order, and a dozen lemmas (`TotalAdds`, `TotalScales`, `TotalOfPart`, ...)
what is needed of sums.  `AllocInv` is the conservation of the budget with two
facts about passes: while something is left to place, the active invoices are
those in need (`InNeed`); and either the passes taken and the invoices still
active, or the passes taken and the stroops still to place, are together no more
than the invoices.  A pass by weight that settles nobody was cut short by rounding
only, by less than a stroop per active invoice (`RoundingDown`), and so moves from
the first case to the second; a pass of dust places everything, since more
invoices have a remainder than there are stroops left (`DustSuffices`) and the
first n in a strict order are n (`FirstOnes`).

**SplitAlgorithms.** Both answers are functions of the call, and the work is to
show what they compute.  Audit: the lines that are adjusted are as many as the
sum of the floors is off (`TopIsFirst`, `HalfOfAll`), and with one line per
recipient the sum over recipients is the sum over lines (`TotalMoves`); if the
ratios sum to one, fewer stroops are missing than lines have a fraction
(`PartsAreMany`), so that none is rounded up which was exact.  Plan: after k turns
the satisfied tiers are the m best for some m up to k, and if m is less than k the
next one's minimum is not left (`PlanFills`).

**LazyInitializer**, **GracefulShutdown**, **SequenceNumbers.** The first property
is inductive with the types alone.  `ShutdownInv` adds that after `shutdown()` of
a tracking client all that is being sent is on the list that is awaited.
`SequenceInv` adds, for callers who leave each other's fetch alone, that numbers
are held of the valid entry in the cache only, all below the next one it gives,
and none while a fetch is under way; that an entry marked as being refreshed is
refreshed needs no such condition.

**Subscriptions.** `SubsInv` gives the position up to which events were delivered
and from which none was: the subscription's own while one is under way, the
stored cursor's when none is (`PositionAgrees`).  One lemma treats a step that
leaves the position where it is, one the delivery of an answer.

**InvoicePolling.** Loops overlap, so an event may be brought by several.
`HandedOnceOf` says why the callback gets it once: it is remembered as seen, or
it lies before the position and before the start of every poll under way.
`Awake` keeps a live loop, and `NothingLeft`, for as long as no loops have
overlapped and no callback has thrown, says that the one loop polls from the
position, before which nothing was left behind.

**HorizonStream.** What the server may still send again must be in the ring.
`Kept` says it is, and that the records which came in after it are different and
lie less than `Overlap` away: `WindowIsSmall` counts them (an injection into an
interval, by the library's facts on cardinality), and `StaysKept` concludes that
they cannot push it out.  This is where `BufferCovers` comes from; that nothing
is left out does not depend on it (`RecordsNeverLost`).

**InvoiceReads.** `ReadsInv`: the cache has no entry of an invoice whose fetch is
under way; an entry is what was returned last; an answer on its way is no older;
and a reader that waits awaits the fetch of its own invoice.  `WithoutKeeps` and
`StoredKeeps` say what dropping and storing do to the list of entries.

**OptimisticCache.** `OptInv` joins the queue of pending mutations (each unsettled
one once) with what a careful caller sees (`FollowsTruth`): at most one mutation
is pending, its prediction is the value it saved for a rollback with the mutation
added, the truth is one of these two, and with none unsettled it is the base.
That a
rollback keeps what a later mutation shows is an action property, proved from the
same invariant: the last entry stays last (`RemovingOne`).

**TabSync.** Handling a message removes it from the inbox and evicts what it
names, posting appends, and so an eviction is always ahead of what it evicts
(`EvictionPending`, for any number of tabs).  Between two tabs the messages in
both inboxes together are never more than the requests (`FewMessages`), since the
one that handles a message posts it to one other; with three they multiply (6.7).

**BasicLemmas** says what removing an element, inserting or appending one and
dropping the first does to membership, order and freedom from repetition, and
that a set of naturals has a least element and a bounded one a greatest.
`TurnsExist` says that a recursive function over the turns of a loop exists,
which is how the loops written as such functions are reasoned about.

**Only model-checked.** Liveness under fairness (`EveryPaySettles`,
`OutagesEnd`, `AcquireEnds`, `SubscribersServed`, `WaitersGetThrough`,
`QueuesSettle`) is beyond the prover.  Every other property of a passing run is
stated by a theorem.  The six runs that end in a violation check what is false.

## 6 Findings and observations

Six runs end in a violation, each of a sentence in the repository.

1. **`tx_retry_twice`.** `ARCHITECTURE.md:32` promises that requests with the
   same key never execute the operation twice.  The key is claimed only by a
   submission that succeeded.  Trace: the node accepts the transaction, the
   answer is lost, the error counts as a connection failure, `pay()` tries again
   with the next sequence number; both transactions are applied.
2. **`optimistic_clobber`.** The header of `OptimisticCache.ts` promises that a
   rollback leaves other mutations and the base alone.  Two mutations, the
   second committed, then the first rolled back: the base becomes the value
   saved when the first was applied, without the second.
3. **`offline_conflict`.** The conflict test compares the invoice's status with
   `"pending"`, the statuses are `"Pending"`, `"Released"`, ...: with the default
   strategy every queued payment whose invoice can be fetched is given up.
4. **`shutdown_writes`.** `GracefulShutdownHandler.ts:13` says that submissions
   are refused after a shutdown.  `_assertWritable()` and
   `_trackInFlightRequest()` (`client.ts:1454`, `1460`) are called by no method:
   a write that begins after `shutdown()` is sent, and no write is waited for.
5. **`tab_sync_stale`.** `tabSync.ts:4` says that the other tabs evict their
   entry.  The invoice id is passed where `invalidateCache()` takes a method name
   (`tabSync.ts:145`), and reads are cached under `getInvoice:[id]`: the entry
   stays.
6. **`horizon_gives_up`.** `HorizonStreamManager.ts:112` documents a "maximum
   number of reconnect attempts before giving up".  `_connect(true)` forgets the
   count as soon as `stream()` has returned (`:237`), before the connection is
   made: with a limit of one or more the count never passes 1, so the manager
   never gives up, and its delay never grows.

### 6.7 Observations

Met while modelling, and left without a run of their own.

*Submission.*  A probe that timed out leaves its submission running while a
retry starts the next: two submissions overlap, although `ARCHITECTURE.md:34`
says that duplicates are serialised; `payment_path` shows that nothing false is
reported all the same.  The waterfall path (`client.ts:3256-3387`) submits
outside the queue and the idempotency store; it is `ForeignTx` in
`TxSubmission`.

*Breakers.*  `reset()` while a probe is in flight zeroes the probe counter; the
probe's `finally` takes it to -1, and the next half-open period admits one more
(hence the `resets + 1` in `ProbeLimit`).  In the older breaker a failure in the
open state counts and restarts the lazy cooldown, which the comment at
`circuitBreaker.ts:118` calls a no-op; the late success of an old call closes a
half-open circuit.  `circuitBreaker.ts:9` speaks of "one probe" in the half-open state; every
call is let through until one reports its end, and one that fails for a reason of
its own reports none.

*Limiter and throttle.*  Newcomers are evaluated before those that wait;
`check()` touches and may evict a key's counter; an evicted counter gives its key
a new budget.  A header `X-RateLimit-Limit: 0` would leave the waiters of the
throttle waiting for ever; the model assumes at least 1.

*Endpoints.*  The header of `RpcLoadBalancer.ts` (:9-12) says that endpoints over
their latency budget are demoted; nothing demotes on latency.  A slow probe from
before a demotion reinstates the endpoint without a quarantine.

*Reads.*  `pay()` invalidates `id`, reads are cached under `getInvoice:[id]`
(`client.ts:3128`): no read-your-writes within the TTL.
`OptimisticCache.invalidate()` keeps the freshness entry (:268), so that `read()`
goes on serving the value; a fetcher that throws before it returns a promise
leaves the key in `revalidations` (:397) and ends revalidation.  A poll of a
subscription that has ended still delivers; together with a new subscription it
delivers twice, which the model forbids; with no cursor a restart begins at the
latest ledger.  Two tabs whose invalidation is wrapped post every message they
receive again, to each other; with a third tab each message becomes two.

*Subscriptions of one invoice.*  `resume()` without a `pause()`, or after one while
a poll is awaited, starts a second loop (`subscription.ts:519`); when the loops'
answers cross, the shared position moves past events neither has delivered.  The
retry count is reset by new events only, not by an answer without any.  A callback
that throws loses the rest of its batch, whose events count as seen; a poll
under way delivers after `unsubscribe()` and `pause()`.  `unsubscribe()` called
twice on a subscription of `stream.ts` decrements `subscriptionCount` twice.  The
subscriber of `invoiceStateSubscription.ts` is stopped for good once its last
subscription has left.  A replay asked for with `setCursor()` is swallowed by the
ring of the stream (`HorizonStreamManager.ts:244`).  The ring covers a server that
goes back by half its size, not by all of it: a record too old for the handler
takes a place in the ring without moving the bookmark (`:247`), so one that comes
again may push out a newer one that can come again too.  With a ring of two and a
server that goes back by two, seven records are enough for one to be given twice;
this showed when the proof for a ring as long as the overlap failed.

*RPC.*  In `resilientRpc.ts` a retry that sleeps while the circuit opens is sent
without asking `canExecute()` again, and with hedging the `AggregateError` hides
errors that are not to be retried (`:200`).

*Queues.*  `sync()` empties the storage before it executes
(`offlineQueue.ts:107`): a crash in between forgets the operations; a listener
that throws leaves `isDraining` set.  A processing function that rejects poisons
the chain of the persistent queue (`persistentQueue.ts:96`); an item removed
while a round has it in its snapshot is processed all the same.
`contractRetryQueue.ts` never hydrates.  `clear()` while an operation runs starts
a second loop with the next `enqueue()`.

*Scheduled payments.*  Two tabs read the same list when they start and both pay its
entries; each writes its whole list, so that entries of the other are lost and a
payment cancelled in one is made by the other (`scheduler.ts:142`, `:188`).  A
process that dies during `pay()` pays again at the next start.  `cancel()` during
`pay()` neither stops it nor lasts: the result replaces the status.  A payment
more than 2^31 - 1 ms (25 days) ahead is made at once, because its delay is more
than a timer counts (`:178`).  Errors of the storage are swallowed (`:40`).

*Numbers.*  `syncNonce()` while nonces are held forgets them.  Two callers that
miss `SequenceCache` at once get the same number.  A release that finds only
slots of low balance wakes nobody.

*Amounts.*  Consistent ratios may be refused (four times 0.25 of 3 units): the
overflow threshold is half the number of parts.  A recipient in two lines loses a
floor, so that the sum is not the total (`calculator.ts:31` says that it is).

*Rollback.*  A retry after a timeout fails with `UnknownSplitError` while the
first `execute()` goes on; overlapping attempts each run `execute()`; `begin()`
with an id that has a record keeps the old one.  `snapshot.ts:116` calls the
record immutable, but it copies the array of legs and shares the legs, which the
coordinator changes afterwards (`:143`).

*Start.*  `reset()` of `LazyInitializer` during an attempt lets the old attempt
mark the new one ready.

*Approvals.*  `ApprovalSession.execute()` passes after a `reject()`
(`approvalWorkflowSequencer.ts:163`, `212`).

## 7 Not modelled

`PROJECT.json` gives a reason for every component.  In short:

* planned: RPC access, the other balancers, the invoice life cycle, approvals,
  the other subscriptions, coalescing;
* formatting, parsing and building of transactions, validation of one input,
  errors, logging, reporting, search and user interface: sequential code without
  interleavings, or observation only;
* cryptography, hashes, compression: out of a model's reach;
* clients of external protocols (bridges, anchors, SEP services, webhooks,
  wallets): their state lives elsewhere, and here they are one request and its
  answer;
* orchestration over `pay()` (batches, rules, `JobScheduler`): the interleavings
  are those of several calls of `pay()`, which `TxSubmission` has.

The repository is large and mostly of this kind: some four hundred files, of
which about forty keep state across an await.  The models follow the state, so
the share of lines they stand for is small by nature.

Left out of modelled components: `simulate`-only calls and their branch of
`_submitTx`; the strategies `local-wins` and `latest-ledger` of the offline queue
beyond "a conflict does not end it"; the compression of cached values; the delay
lengths of backoffs; floating-point shares that come out below a whole number;
more than one account, since nothing couples accounts except the one queue,
whose order does not depend on the account.

## 8 Plan

1. `RpcAccess`: `ResilientRpc` (retry and hedging of one call) composed with
   `ErrorBreaker` as `GuardedSubmission` composes the newer breaker.
2. `BatchedRpc` and the retry queues; approvals and the life cycle of invoices;
   the standby controllers.
3. Theorems: refinements of the queues other than the heap.

To keep the set of runs small, new questions join an existing run where one
instance can answer both, and invariants that a deeper one subsumes are dropped.
