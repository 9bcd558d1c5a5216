----------------------------- MODULE RateLimiter -----------------------------
(***************************************************************************)
(* The rate limiter every submission and simulation waits for              *)
(* (src/rateLimiter.ts): a token bucket that is refilled lazily, in whole  *)
(* windows, whenever it is asked; a least-recently-used store of per-key   *)
(* counters, each with a window of its own; and the queue of callers that  *)
(* wait for a slot, served by a timer.                                     *)
(*                                                                         *)
(* Time is counted in ticks, and only as far back as the code looks: how   *)
(* long ago the bucket was refilled and each counter started.  A request   *)
(* takes Cost units of the bucket, so that a rate that is not a whole      *)
(* number is a whole number of units.                                      *)
(***************************************************************************)
EXTENDS Integers, Sequences, FiniteSets, SequencesExt

CONSTANTS
    Requests,   \* bound: how many requests are made
    Keys,       \* caller ids that have budgets of their own
    NoKey,      \* a request without a key
    Settings,   \* configurations: [max, perKey, tracked, clears]
    Cost,       \* units per request; max / Cost is maxRequestsPerSecond
    Window,     \* windowMs, in ticks
    MaxIdle     \* bound: windows without a request that are told apart

ASSUME RequestsNatural == Requests \in Nat
ASSUME LimiterSizes == Cost \in Nat \ {0} /\ Window \in Nat \ {0} /\ MaxIdle \in Nat \ {0}
ASSUME KeysDistinct == IsFiniteSet(Keys) /\ NoKey \notin Keys
ASSUME ValidSettings ==
    Settings \subseteq [max : Nat \ {0},       \* units the bucket holds
                        perKey : Nat,          \* perKeyLimit, 0 if not given
                        tracked : Nat \ {0},   \* maxTrackedKeys
                        clears : BOOLEAN]      \* the application calls store.clear()
(* Within MaxIdle windows any bucket is full again.                         *)
ASSUME IdleFills == \A s \in Settings : MaxIdle * s.max >= s.max + Cost - 1

VARIABLES
    setting,       \* the configuration in use
    bucket,        \* [tokens, age, store]: units left, ticks since the refill, counters
    calls,         \* where each request stands, its key, and (history) how long ago
                   \* it was granted
    requestQueue,  \* requests waiting, head first
    timer          \* ticks until the queue is processed, NoTimer if none is set

limiterVars == <<setting, bucket, calls, requestQueue, timer>>

NoTimer == -1
Callers == 1 .. Requests  \* numbered in the order of their requests
Ids == Keys \cup {NoKey}
CallStates == {"idle", "waiting", "granted", "denied"}

(* The counters, least recently used first.                                 *)
Counters == [key : Keys, age : 0 .. Window, count : Nat]

LimiterTypeOK ==
    /\ setting \in Settings
    /\ bucket.tokens \in (1 - Cost) .. setting.max
    /\ bucket.age \in 0 .. (MaxIdle + 1) * Window
    /\ bucket.store \in Seq(Counters)
    /\ Len(bucket.store) <= setting.tracked
    /\ \A i, j \in 1 .. Len(bucket.store) :
          bucket.store[i].key = bucket.store[j].key => i = j
    /\ \A i \in 1 .. Len(bucket.store) : bucket.store[i].count <= setting.perKey
    /\ calls \in [Callers -> [pc : CallStates, key : Ids, ago : 0 .. Window]]
    /\ requestQueue \in Seq(Callers)
    /\ timer \in {NoTimer} \cup 0 .. Window

LimiterInit ==
    /\ setting \in Settings
    /\ bucket = [tokens |-> setting.max, age |-> 0, store |-> <<>>]
    /\ calls = [c \in Callers |-> [pc |-> "idle", key |-> NoKey, ago |-> 0]]
    /\ requestQueue = <<>>
    /\ timer = NoTimer

-----------------------------------------------------------------------------
(* _refill(): whole windows only, and the remainder of the time is kept.    *)
Lesser(a, b) == IF a < b THEN a ELSE b

Refilled_ForgetsDebt(b) ==
    [b EXCEPT !.tokens = IF b.age >= Window THEN setting.max ELSE @, !.age = @ % Window]

Refilled(b) ==
    LET periods == b.age \div Window
    IN  [b EXCEPT !.tokens = Lesser(setting.max, @ + periods * setting.max),
                  !.age = @ % Window]

(* RateLimitStore._touch(): the key's counter moves to the end, starting    *)
(* anew if its window has elapsed; a new key evicts the least recently used.*)
Tracked(store, k) == \E i \in DOMAIN store : store[i].key = k
CounterOf(store, k) == CHOOSE i \in DOMAIN store : store[i].key = k
Fresh(k) == [key |-> k, age |-> 0, count |-> 0]
Rolled(e) == IF e.age = Window THEN Fresh(e.key) ELSE e

Touched(store, k) ==
    IF Tracked(store, k)
    THEN Append(RemoveAt(store, CounterOf(store, k)), Rolled(store[CounterOf(store, k)]))
    ELSE Append(IF Len(store) = setting.tracked THEN Tail(store) ELSE store, Fresh(k))

Counted(store) == [store EXCEPT ![Len(store)].count = @ + 1]

(* _evaluate(): the answer, and the bucket afterwards.  An empty bucket     *)
(* answers before the key is looked at; a key over its budget is touched    *)
(* but takes nothing from the bucket.                                       *)
Evaluate(b, k, consume) ==
    LET full == Refilled(b)
        touched == Touched(full.store, k)
        keyed == k # NoKey /\ setting.perKey > 0
        taken == full.tokens - (IF consume THEN Cost ELSE 0)
    IN  IF full.tokens <= 0 THEN [allowed |-> FALSE, bucket |-> full]
        ELSE IF ~keyed THEN [allowed |-> TRUE, bucket |-> [full EXCEPT !.tokens = taken]]
        ELSE IF Last(touched).count >= setting.perKey
             THEN [allowed |-> FALSE, bucket |-> [full EXCEPT !.store = touched]]
        ELSE [allowed |-> TRUE,
              bucket |-> [full EXCEPT !.tokens = taken,
                            !.store = IF consume THEN Counted(touched) ELSE touched]]

MsUntilRefill(b) == IF b.age < Window THEN Window - b.age ELSE 0

NotAsked(c) == calls[c].pc = "idle"
IsNext(c) == NotAsked(c) /\ \A d \in 1 .. c - 1 : ~NotAsked(d)
Asks(c, k, pc) == calls' = [calls EXCEPT ![c] = [pc |-> pc, key |-> k, ago |-> 0]]

-----------------------------------------------------------------------------
(* acquire(): granted at once, even while others wait, or queued.  The      *)
(* first to wait sets the timer.                                            *)
Acquire(c, k) ==
    LET answer == Evaluate(bucket, k, TRUE)
    IN  /\ IsNext(c)
        /\ bucket' = answer.bucket
        /\ Asks(c, k, IF answer.allowed THEN "granted" ELSE "waiting")
        /\ IF answer.allowed
           THEN UNCHANGED <<requestQueue, timer>>
           ELSE /\ requestQueue' = Append(requestQueue, c)
                /\ timer' = IF timer = NoTimer THEN MsUntilRefill(bucket') ELSE timer
        /\ UNCHANGED setting

TryAcquire(c, k) ==
    LET answer == Evaluate(bucket, k, TRUE)
    IN  /\ IsNext(c)
        /\ bucket' = answer.bucket
        /\ Asks(c, k, IF answer.allowed THEN "granted" ELSE "denied")
        /\ UNCHANGED <<setting, requestQueue, timer>>

(* check(): consumes nothing, but refills, and touches the key's counter.   *)
Check(k) ==
    /\ bucket' = Evaluate(bucket, k, FALSE).bucket
    /\ UNCHANGED <<setting, calls, requestQueue, timer>>

(* One round through the queue: each waiting request is evaluated in turn,  *)
(* and the granted ones leave it.                                           *)
Served(soFar, c) ==
    LET answer == Evaluate(soFar.bucket, calls[c].key, TRUE)
    IN  [bucket |-> answer.bucket,
         left |-> IF answer.allowed THEN soFar.left ELSE Append(soFar.left, c)]

(* A loop that moves on after removing an element.                          *)
Round_SkipsAfterGrant(b, waiting) ==
    LET first == Served([bucket |-> Refilled(b), left |-> <<>>], Head(waiting))
    IN  IF waiting = <<>> THEN [bucket |-> Refilled(b), left |-> <<>>]
        ELSE [bucket |-> first.bucket, left |-> first.left \o Tail(waiting)]

Round(b, waiting) ==
    LET upTo[i \in 0 .. Len(waiting)] ==
            IF i = 0 THEN [bucket |-> Refilled(b), left |-> <<>>]
            ELSE Served(upTo[i - 1], waiting[i])
    IN  upTo[Len(waiting)]

(* _processQueue()'s timer callback.                                        *)
ProcessQueue ==
    /\ timer = 0
    /\ \E round \in {Round(bucket, requestQueue)} :
          /\ bucket' = round.bucket
          /\ requestQueue' = round.left
          /\ calls' = [c \in Callers |->
                IF c \in ToSet(requestQueue) \ ToSet(round.left)
                THEN [calls[c] EXCEPT !.pc = "granted"] ELSE calls[c]]
          /\ timer' = IF round.left # <<>> THEN MsUntilRefill(round.bucket) ELSE NoTimer
    /\ UNCHANGED setting

(* RateLimitStore.prune() and clear(), which the application may call.      *)
Pruned(store) ==
    LET kept[i \in 0 .. Len(store)] ==
            IF i = 0 THEN <<>>
            ELSE IF store[i].age < Window THEN Append(kept[i - 1], store[i]) ELSE kept[i - 1]
    IN  kept[Len(store)]

Prune ==
    /\ bucket' = [bucket EXCEPT !.store = Pruned(@)]
    /\ UNCHANGED <<setting, calls, requestQueue, timer>>

Clear ==
    /\ setting.clears
    /\ bucket' = [bucket EXCEPT !.store = <<>>]
    /\ UNCHANGED <<setting, calls, requestQueue, timer>>

(* Time passes; a timer that is due may be served late.                     *)
StoreAged(store) == [i \in DOMAIN store |-> [store[i] EXCEPT !.age = Lesser(Window, @ + 1)]]
Aged(age) == IF age + 1 < (MaxIdle + 1) * Window THEN age + 1 ELSE age + 1 - Window

Tick ==
    /\ bucket' = [bucket EXCEPT !.age = Aged(@), !.store = StoreAged(@)]
    /\ timer' = IF timer > 0 THEN timer - 1 ELSE timer
    /\ calls' = [c \in Callers |->
          IF calls[c].pc = "granted" THEN [calls[c] EXCEPT !.ago = Lesser(Window, @ + 1)] ELSE calls[c]]
    /\ UNCHANGED <<setting, requestQueue>>

LimiterNext ==
    \/ \E c \in Callers, k \in Ids : Acquire(c, k) \/ TryAcquire(c, k)
    \/ \E k \in Ids : Check(k)
    \/ ProcessQueue \/ Prune \/ Clear \/ Tick

(* Time goes on, and a timer that is due is served in the end: as long as   *)
(* it is due ProcessQueue is enabled, and nothing else takes it away.       *)
LimiterFairness == WF_limiterVars(Tick) /\ []<>(timer # 0)

LimiterSpec == LimiterInit /\ [][LimiterNext]_limiterVars /\ LimiterFairness

-----------------------------------------------------------------------------
(* Properties.                                                              *)

(* Requests with a key in ks that were granted in the last `ticks` ticks.   *)
Grants(ks, ticks) ==
    Cardinality({c \in Callers :
        calls[c].pc = "granted" /\ calls[c].key \in ks /\ calls[c].ago < ticks})

(* No counter is lost: neither evicted nor cleared.                         *)
CountersKept == setting.tracked >= Cardinality(Keys) /\ ~setting.clears

(* "maxRequestsPerSecond requests are allowed per windowMs": since the      *)
(* window began at most the rate, rounded up, and in any interval of that   *)
(* length, whatever its start, at most twice the rate, rounded up, however  *)
(* late the timer is and however long the limiter idled.  No key is granted *)
(* more than twice its budget in such an interval as long as counters are   *)
(* kept; denied requests, check() and prune() forget nothing.               *)
WithinBudgets ==
    /\ Grants(Ids, (bucket.age % Window) + 1) * Cost < setting.max + Cost
    /\ Grants(Ids, Window) * Cost < 2 * setting.max + Cost
    /\ CountersKept /\ setting.perKey > 0 =>
          \A k \in Keys : Grants({k}, Window) <= 2 * setting.perKey

(* A round through the queue passes over a request only if the bucket is    *)
(* empty afterwards or the request's key has used up its budget, and never  *)
(* serves a later one with the same key instead.  (With fewer counters than *)
(* keys, the round itself may evict the counter of a request it passed.)    *)
Spent(b, k) ==
    \/ b.tokens <= 0
    \/ \E i \in 1 .. Len(b.store) : b.store[i].key = k /\ b.store[i].count >= setting.perKey

PassedOverRightly(i) ==
    requestQueue[i] \in ToSet(requestQueue') =>
        /\ Spent(bucket', calls[requestQueue[i]].key)
        /\ \A j \in i + 1 .. Len(requestQueue) :
              calls[requestQueue[j]].key = calls[requestQueue[i]].key => requestQueue[j] \in ToSet(requestQueue')

RoundIsFair ==
    [][CountersKept /\ timer = 0 /\ timer' # 0 =>
          \A i \in 1 .. Len(requestQueue) : PassedOverRightly(i)]_limiterVars

(* Whoever waits is granted a slot: the timer is always set again while     *)
(* somebody waits, for a rate below one per window too, and although        *)
(* newcomers may overtake the queue.  (Requests are bounded, so nobody      *)
(* waits in the end.)                                                       *)
SomebodyWaits == \E c \in Callers : calls[c].pc = "waiting"
EveryAcquireGranted == SomebodyWaits ~> ~SomebodyWaits
=============================================================================
