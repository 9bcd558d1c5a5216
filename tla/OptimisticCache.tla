--------------------------- MODULE OptimisticCache ---------------------------
(***************************************************************************)
(* The optimistic cache in front of getInvoice(), src/cache/               *)
(* OptimisticCache.ts, for one invoice (keys do not interact), with the    *)
(* two ways it is used: pay() applies a prediction and commits it or rolls *)
(* it back when the transaction settles, and read() serves, revalidates or *)
(* fetches a value.                                                        *)
(*                                                                         *)
(* A value of the invoice is abstracted to the set of mutations it         *)
(* accounts for, so that what a cached value has missed can be told.       *)
(***************************************************************************)
EXTENDS Naturals, Sequences, FiniteSets, SequencesExt

CONSTANTS
    Mutations,      \* calls of applyOptimistic()
    Readers,        \* calls of read(), each repeated
    Missing,        \* what a value that is undefined is made of
    Usages          \* ways the cache is used

(* How an application uses the cache:                                       *)
(*   paying       predictions are those of pay(), made from the client's    *)
(*                read cache; otherwise they are made from get()            *)
(*   oneAtATime   a mutation is applied after the one before has settled    *)
(*   reading      read() is called                                          *)
(*   invalidating invalidate() is called                                    *)
UsageRecords == [paying : BOOLEAN, oneAtATime : BOOLEAN, reading : BOOLEAN, invalidating : BOOLEAN]

ASSUME MissingIsNone == Missing \notin Mutations
ASSUME UsagesKnown == Usages \subseteq UsageRecords

VARIABLES
    truth,      \* the mutations the ledger has applied
    readCache,  \* the client's read cache: the ledger as last fetched there
    mutation,   \* where each mutation stands, with its entry
    pending,    \* the invoice's queue of unsettled predictions
    base,       \* the committed value
    expiry,     \* what `expiries` says: "none", "running" or "passed"
    fresh,      \* the freshness entry
    fetch,      \* blocking fetches, by reader
    reval,      \* background revalidations that run
    revalKey,   \* the key is in `revalidations`
    usage       \* how the cache is used; it does not change

optVars == <<mutation, pending>>
storeVars == <<base, expiry, fresh>>
readVars == <<fetch, reval, revalKey, usage>>
vars == <<truth, readCache, mutation, pending, base, expiry, fresh, fetch, reval,
          revalKey, usage>>

Values == SUBSET Mutations
NoValue == {Missing}
Cached == Values \cup {NoValue}
Ages == {"none", "fresh", "stale", "dead"}
Slots == 1 .. 2      \* bound: revalidations of the key that could run at once

(* A fetch under way: the value is what the ledger was when it was read.    *)
Idle == [stage |-> "idle", got |-> {}]
Flights == [stage : {"idle", "asked", "answered"}, got : Values]

TypeOK ==
    /\ truth \in Values /\ readCache \in Cached
    /\ mutation \in [Mutations -> [state : {"idle", "pending", "committed", "rolledBack"},
                                   predicted : Values, rollback : Values]]
    /\ pending \in Seq(Mutations)
    /\ base \in Cached
    /\ expiry \in {"none", "running", "passed"}
    /\ fresh \in [value : Cached, age : Ages]
    /\ fetch \in [Readers -> Flights] /\ reval \in [Slots -> Flights]
    /\ revalKey \in BOOLEAN
    /\ usage \in Usages

Init ==
    /\ truth = {}
    /\ readCache = NoValue
    /\ mutation = [m \in Mutations |-> [state |-> "idle", predicted |-> {}, rollback |-> {}]]
    /\ pending = <<>>
    /\ base = NoValue
    /\ expiry = "none"
    /\ fresh = [value |-> NoValue, age |-> "none"]
    /\ fetch = [r \in Readers |-> Idle]
    /\ reval = [i \in Slots |-> Idle]
    /\ revalKey = FALSE
    /\ usage \in Usages

-----------------------------------------------------------------------------
(* get() and set().                                                         *)

(* What get() returns.                                                      *)
Shown ==
    IF pending # <<>> THEN mutation[Last(pending)].predicted
    ELSE IF expiry = "passed" THEN NoValue
    ELSE base

(* get() drops a committed value it finds expired.                          *)
Get ==
    /\ pending = <<>> /\ expiry = "passed"
    /\ base' = NoValue
    /\ expiry' = "none"
    /\ UNCHANGED <<truth, readCache, fresh>>
    /\ UNCHANGED optVars /\ UNCHANGED readVars

Set(v) ==
    /\ base' = v
    /\ expiry' = "running"
    /\ fresh' = [value |-> v, age |-> "fresh"]

(* Time passes: first the TTL of the value, then its revalidation window.   *)
Age ==
    /\ fresh.age \in {"fresh", "stale"}
    /\ fresh' = [fresh EXCEPT !.age = IF @ = "fresh" THEN "stale" ELSE "dead"]
    /\ expiry' = IF expiry = "running" THEN "passed" ELSE expiry
    /\ UNCHANGED <<truth, readCache, base>>
    /\ UNCHANGED optVars /\ UNCHANGED readVars

Invalidate ==
    /\ usage.invalidating /\ (base # NoValue \/ pending # <<>>)
    /\ pending' = <<>>
    /\ expiry' = "none"
    /\ base' = NoValue
    /\ UNCHANGED <<truth, readCache, mutation, fresh>>
    /\ UNCHANGED readVars

-----------------------------------------------------------------------------
(* pay() and applyOptimistic().                                             *)

(* The value a caller predicts from: pay() takes its read cache and makes   *)
(* no prediction without it; a direct user takes what the cache shows, or   *)
(* an invoice it has just fetched.                                          *)
Current ==
    IF usage.paying THEN readCache
    ELSE IF Shown = NoValue THEN truth ELSE Shown

ApplyOptimistic(m) ==
    /\ mutation[m].state = "idle"
    /\ usage.oneAtATime => \A n \in Mutations : mutation[n].state # "pending"
    /\ Current # NoValue
    /\ mutation' = [mutation EXCEPT ![m] = [state |-> "pending", predicted |-> Current \cup {m},
                                            rollback |-> Current]]
    /\ pending' = Append(pending, m)
    /\ UNCHANGED <<truth, readCache>>
    /\ UNCHANGED storeVars /\ UNCHANGED readVars

(* The ledger applies the payment behind m (external).                      *)
Apply(m) ==
    /\ mutation[m].state = "pending" /\ m \notin truth
    /\ truth' = truth \cup {m}
    /\ UNCHANGED readCache
    /\ UNCHANGED optVars /\ UNCHANGED storeVars /\ UNCHANGED readVars

RemoveEntry_Newest(m) == pending' = SubSeq(pending, 1, Len(pending) - 1)
RemoveEntry(m) ==
    IF m \in ToSet(pending)
    THEN pending' = RemoveAt(pending, CHOOSE n \in 1 .. Len(pending) : pending[n] = m)
    ELSE UNCHANGED pending

Commit(m) ==
    /\ mutation[m].state = "pending" /\ m \in truth
    /\ mutation' = [mutation EXCEPT ![m].state = "committed"]
    /\ Set(mutation[m].predicted)
    /\ RemoveEntry(m)
    /\ UNCHANGED <<truth, readCache>>
    /\ UNCHANGED readVars

Restored_Prediction(m) == Set(mutation[m].predicted)
Restored(m) ==
    IF \E i \in 1 .. Len(pending) : pending[i] # m
    THEN UNCHANGED storeVars
    ELSE Set(mutation[m].rollback)

Rollback(m) ==
    /\ mutation[m].state = "pending" /\ m \notin truth
    /\ mutation' = [mutation EXCEPT ![m].state = "rolledBack"]
    /\ RemoveEntry(m)
    /\ Restored(m)
    /\ UNCHANGED <<truth, readCache>>
    /\ UNCHANGED readVars

(* getInvoice() refreshes the client's read cache.                          *)
FillReadCache ==
    /\ readCache # truth
    /\ readCache' = truth
    /\ UNCHANGED truth
    /\ UNCHANGED optVars /\ UNCHANGED storeVars /\ UNCHANGED readVars

-----------------------------------------------------------------------------
(* read().                                                                  *)

(* Nothing servable: the caller waits for the fetcher.                      *)
ReadFetches(r) ==
    /\ fetch[r].stage = "idle"
    /\ usage.reading /\ fresh.age \in {"none", "dead"}
    /\ fetch' = [fetch EXCEPT ![r].stage = "asked"]
    /\ UNCHANGED <<truth, readCache, reval, revalKey, usage>>
    /\ UNCHANGED optVars /\ UNCHANGED storeVars

FetchStores(r) ==
    /\ fetch[r].stage = "answered"
    /\ Set(fetch[r].got)
    /\ fetch' = [fetch EXCEPT ![r] = Idle]
    /\ UNCHANGED <<truth, readCache, reval, revalKey, usage>>
    /\ UNCHANGED optVars

FetchFails(r) ==
    /\ fetch[r].stage = "asked"
    /\ fetch' = [fetch EXCEPT ![r] = Idle]
    /\ UNCHANGED <<truth, readCache, reval, revalKey, usage>>
    /\ UNCHANGED optVars /\ UNCHANGED storeVars

(* A stale value is served and refreshed in the background, by one          *)
(* revalidation at a time.  If the fetcher throws at once, the finally      *)
(* block runs before the key is entered.                                    *)
MayRevalidate == ~revalKey

ReadRevalidates ==
    /\ usage.reading /\ fresh.age = "stale"
    /\ MayRevalidate
    /\ \/ \E i \in Slots : /\ reval[i].stage = "idle"
                           /\ reval' = [reval EXCEPT ![i].stage = "asked"]
       \/ UNCHANGED reval
    /\ revalKey' = TRUE
    /\ UNCHANGED <<truth, readCache, fetch, usage>>
    /\ UNCHANGED optVars /\ UNCHANGED storeVars

RevalEnds(i) ==
    /\ reval' = [reval EXCEPT ![i] = Idle]
    /\ revalKey' = FALSE
    /\ UNCHANGED <<truth, readCache, fetch, usage>>
    /\ UNCHANGED optVars

RevalStores(i) ==
    /\ reval[i].stage = "answered"
    /\ Set(reval[i].got)
    /\ RevalEnds(i)

RevalFails(i) ==
    /\ reval[i].stage = "asked"
    /\ RevalEnds(i)
    /\ UNCHANGED storeVars

(* The ledger answers a fetch; the value is then on its way (external).     *)
Answer ==
    /\ \/ \E r \in Readers : /\ fetch[r].stage = "asked"
                             /\ fetch' = [fetch EXCEPT ![r] = [stage |-> "answered", got |-> truth]]
                             /\ UNCHANGED reval
       \/ \E i \in Slots : /\ reval[i].stage = "asked"
                           /\ reval' = [reval EXCEPT ![i] = [stage |-> "answered", got |-> truth]]
                           /\ UNCHANGED fetch
    /\ UNCHANGED <<truth, readCache, revalKey, usage>>
    /\ UNCHANGED optVars /\ UNCHANGED storeVars

Reading ==
    \/ \E r \in Readers : ReadFetches(r) \/ FetchStores(r) \/ FetchFails(r)
    \/ ReadRevalidates
    \/ \E i \in Slots : RevalStores(i) \/ RevalFails(i)

Next ==
    \/ Get \/ Age \/ Invalidate
    \/ \E m \in Mutations : ApplyOptimistic(m) \/ Apply(m) \/ Commit(m) \/ Rollback(m)
    \/ FillReadCache
    \/ Reading \/ Answer

Spec == Init /\ [][Next]_vars

-----------------------------------------------------------------------------
(* Properties.                                                              *)

Unsettled == {m \in Mutations : mutation[m].state = "pending"}

(* The invoice's queue holds exactly the predictions that are not settled,  *)
(* each once, whatever order they settle in: none is shown after it settled *)
(* and none is lost before, unless invalidate() drops it.                   *)
QueueHoldsUnsettled ==
    /\ ToSet(pending) \subseteq Unsettled
    /\ ~usage.invalidating => ToSet(pending) = Unsettled
    /\ IsInjective(pending)

(* Rolling back a mutation never changes what is shown while a later one is *)
(* still pending.                                                           *)
RollbackKeepsLater ==
    [][\A m \in Mutations :
         mutation[m].state = "pending" /\ mutation'[m].state = "rolledBack"
           /\ pending # <<>> /\ Last(pending) # m
         => Shown' = Shown]_vars

(* A caller that applies one mutation at a time, predicts from what it is   *)
(* shown and does not read() meanwhile is shown the truth once everything   *)
(* has settled; and no prediction is shown after it settled, or lost        *)
(* before.                                                                  *)
SettledShowsTruth ==
    /\ QueueHoldsUnsettled
    /\ usage.oneAtATime /\ ~usage.paying /\ ~usage.reading =>
          (Unsettled = {} /\ Shown # NoValue => Shown = truth)

(* The class comment: mutations of one invoice do not clobber one another,  *)
(* and a rollback leaves the other mutations and the base alone.  What was  *)
(* committed stays accounted for in the base.                               *)
CommittedNotClobbered ==
    base # NoValue =>
        \A m \in Mutations : mutation[m].state = "committed" => m \in base
=============================================================================
