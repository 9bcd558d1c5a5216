--------------------------- MODULE Subscriptions ---------------------------
(***************************************************************************)
(* src/streaming/SubscriptionManager.ts, for one invoice: a poll asks for  *)
(* the contract's events from a ledger on, hands those of the invoice to   *)
(* the handlers, and saves a cursor.  unsubscribe() does not stop a poll   *)
(* that awaits its answer; the next subscribe() starts a state of its own  *)
(* from the cursor, and so does a restart of the process.                  *)
(***************************************************************************)
EXTENDS Naturals, FiniteSets

CONSTANTS
    MaxStarts,       \* bound: subscriptions started, one after another
    MaxLedger,       \* bound: ledgers closed
    MaxPollRetries   \* options.maxRetries

ASSUME SubscriptionBounds ==
    MaxStarts \in Nat /\ MaxLedger \in Nat \ {0} /\ MaxPollRetries \in Nat

VARIABLES
    ledger,     \* external: what each closed ledger holds for the contract
    latest,     \* external: the latest closed ledger
    sub,        \* each subscription: [at, next, retries, stopped, answer]
    savedAt,    \* lastLedger of the stored cursor, 0 for none
    delivered,  \* how often the event of a ledger was handed to the handlers
    since       \* history: the first ledger the subscriptions are to cover

subsVars == <<ledger, latest, sub, savedAt, delivered, since>>

Starts == 1 .. MaxStarts
Ledgers == 1 .. MaxLedger

(* at: before its first start ledger is known, awaiting the events, with an *)
(* answer on its way, in the pause before the next poll, or over.           *)
SubStages == {"none", "locating", "asking", "answered", "pausing", "over"}

SubsTypeOK ==
    /\ ledger \in [Ledgers -> {"open", "quiet", "other", "ours"}]
    /\ latest \in Ledgers
    /\ sub \in [Starts -> [at : SubStages, next : 0 .. MaxLedger + 1, retries : 0 .. MaxPollRetries,
                           stopped : BOOLEAN, answer : 0 .. MaxLedger]]
    /\ savedAt \in 0 .. MaxLedger + 1 /\ since \in 0 .. MaxLedger + 1
    /\ delivered \in [Ledgers -> Nat]

SubsInit ==
    /\ ledger = [l \in Ledgers |-> IF l = 1 THEN "quiet" ELSE "open"]
    /\ latest = 1
    /\ sub = [i \in Starts |->
                [at |-> "none", next |-> 0, retries |-> 0, stopped |-> FALSE, answer |-> 0]]
    /\ savedAt = 0 /\ since = 0
    /\ delivered = [l \in Ledgers |-> 0]

UnderWay(i) == sub[i].at \in {"locating", "asking", "answered", "pausing"}
Watching(i) == UnderWay(i) /\ ~sub[i].stopped

-----------------------------------------------------------------------------
(* External: a ledger closes.                                               *)
LedgerCloses ==
    /\ latest < MaxLedger
    /\ latest' = latest + 1
    /\ \E what \in {"quiet", "other", "ours"} : ledger' = [ledger EXCEPT ![latest + 1] = what]
    /\ UNCHANGED <<sub, savedAt, delivered, since>>

(* _poll() from its start to its next await.                                *)
Polls(s) == [s EXCEPT !.at = IF s.next = 0 THEN "locating" ELSE "asking"]

(* subscribe() by the first handler.  The code lets a new subscription      *)
(* begin while an old poll awaits its answer; the application must not, or  *)
(* the two deliver the same events and move each other's cursor (README,    *)
(* observations).                                                           *)
Subscribe(i) ==
    /\ sub[i].at = "none" /\ \A k \in 1 .. i - 1 : sub[k].at # "none"
    /\ \A k \in Starts : ~UnderWay(k)
    /\ sub' = [sub EXCEPT ![i] = Polls([@ EXCEPT !.next = savedAt])]
    /\ since' = IF savedAt = 0 THEN 0 ELSE since
    /\ UNCHANGED <<ledger, latest, savedAt, delivered>>

(* getLatestLedger() of a subscription without a cursor.                    *)
Locates(i) ==
    /\ sub[i].at = "locating"
    /\ sub' = [sub EXCEPT ![i].at = "asking", ![i].next = latest]
    /\ since' = latest
    /\ UNCHANGED <<ledger, latest, savedAt, delivered>>

(* The node answers with what it has; it refuses a ledger it has not got.   *)
EventsRead(i) ==
    /\ sub[i].at = "asking" /\ sub[i].next <= latest
    /\ sub' = [sub EXCEPT ![i].at = "answered", ![i].answer = latest]
    /\ UNCHANGED <<ledger, latest, savedAt, delivered, since>>

Found(i) == {l \in sub[i].next .. sub[i].answer : ledger[l] \in {"ours", "other"}}
Newest(i) == CHOOSE l \in Found(i) \cup {sub[i].next} : \A k \in Found(i) : k <= l

(* The events are handed over, and the cursor is saved if there were any of *)
(* the invoice.  A subscription that was stopped does all of it once more.  *)
Goes(i, next) ==
    sub' = [sub EXCEPT ![i].at = IF sub[i].stopped THEN "over" ELSE "pausing",
                       ![i].next = next, ![i].retries = 0, ![i].answer = 0]
HandsOver(i) ==
    delivered' = [l \in Ledgers |->
                    IF l \in Found(i) /\ ledger[l] = "ours" THEN delivered[l] + 1 ELSE delivered[l]]

PollDelivers_SavesLast(i) ==
    /\ sub[i].at = "answered"
    /\ HandsOver(i)
    /\ Goes(i, Newest(i) + 1)
    /\ savedAt' = IF \E l \in Found(i) : ledger[l] = "ours" THEN Newest(i) ELSE savedAt
    /\ UNCHANGED <<ledger, latest, since>>
PollDelivers(i) ==
    /\ sub[i].at = "answered"
    /\ HandsOver(i)
    /\ Goes(i, Newest(i) + 1)
    /\ savedAt' = IF \E l \in Found(i) : ledger[l] = "ours" THEN Newest(i) + 1 ELSE savedAt
    /\ UNCHANGED <<ledger, latest, since>>

(* A call fails: pause and poll again, or give the subscription up.         *)
PollFails(i) ==
    /\ sub[i].at \in {"locating", "asking", "answered"}
    /\ sub' = IF sub[i].stopped \/ sub[i].retries = MaxPollRetries
              THEN [sub EXCEPT ![i].at = "over", ![i].answer = 0]
              ELSE [sub EXCEPT ![i].at = "pausing", ![i].retries = @ + 1, ![i].answer = 0]
    /\ UNCHANGED <<ledger, latest, savedAt, delivered, since>>

TimerPolls(i) ==
    /\ sub[i].at = "pausing"
    /\ sub' = [sub EXCEPT ![i] = Polls(@)]
    /\ UNCHANGED <<ledger, latest, savedAt, delivered, since>>

(* unsubscribe(), or the last handler is removed: the timer is cleared.     *)
Unsubscribe(i) ==
    /\ Watching(i)
    /\ sub' = [sub EXCEPT ![i] = IF @.at = "pausing" THEN [@ EXCEPT !.at = "over"]
                                 ELSE [@ EXCEPT !.stopped = TRUE]]
    /\ UNCHANGED <<ledger, latest, savedAt, delivered, since>>

(* The process dies: what is stored stays.                                  *)
ProcessDies ==
    /\ \E i \in Starts : UnderWay(i)
    /\ sub' = [i \in Starts |-> IF UnderWay(i) THEN [sub[i] EXCEPT !.at = "over", !.answer = 0] ELSE sub[i]]
    /\ UNCHANGED <<ledger, latest, savedAt, delivered, since>>

SubsNext ==
    \/ LedgerCloses
    \/ \E i \in Starts :
          \/ Subscribe(i) \/ Locates(i) \/ EventsRead(i) \/ PollDelivers(i)
          \/ PollFails(i) \/ TimerPolls(i) \/ Unsubscribe(i)
    \/ ProcessDies

SubsSpec == SubsInit /\ [][SubsNext]_subsVars

-----------------------------------------------------------------------------
(* No event is handed over twice.                                           *)
EventDeliveredOnce == \A l \in Ledgers : delivered[l] <= 1

(* Whatever a subscription has left behind it, from the ledger where the    *)
(* cursor's history began, was handed over.                                 *)
NothingSkipped ==
    \A i \in Starts : Watching(i) /\ since # 0 =>
        \A l \in since .. sub[i].next - 1 : ledger[l] = "ours" => delivered[l] > 0

(* Events are delivered once each and none is skipped, across failed polls, *)
(* subscriptions that end and start again, a last delivery after            *)
(* unsubscribe(), and restarts.                                             *)
EventsDelivered == EventDeliveredOnce /\ NothingSkipped
=============================================================================
