--------------------------- MODULE InvoicePolling ---------------------------
(***************************************************************************)
(* subscribeInvoice() (src/subscription.ts), for one invoice: a loop polls *)
(* for the contract's events and waits, by a timer, for the next poll or   *)
(* retry.  resume() begins a loop without knowing whether an earlier one   *)
(* still awaits an answer, so loops may overlap; they share one position,  *)
(* one set of seen events, and the two fields that hold a timer.           *)
(***************************************************************************)
EXTENDS Naturals

CONSTANTS
    MaxLoops,      \* bound: loops begun by one subscription
    MaxTip,        \* bound: ledgers closed
    MaxRestarts,   \* bound: restarts of the process
    PollRetries    \* options.maxRetries

ASSUME PollingBounds ==
    /\ MaxLoops \in Nat \ {0} /\ MaxTip \in Nat \ {0} /\ MaxRestarts \in Nat
    /\ PollRetries \in Nat

VARIABLES
    holds,       \* external: what each ledger holds for the contract
    tip,         \* external: the latest closed ledger
    mode,        \* "off" before it is created, then "on", "paused" or "stopped"
    lastLedger,  \* state.lastLedger, 0 for null
    retryCount,  \* state.retryCount
    seenKeys,    \* state.seenEventKeys: the ledgers whose event was seen
    loop,        \* each loop: [at, from, upTo]
    timerOf,     \* the loops whose timers state.pollTimer and reconnectTimer hold
    cursor,      \* the stored cursor, 0 for none
    handed,      \* how often the event of a ledger was given to the callback
    origin,      \* history: the first ledger the subscription is to cover
    calm,        \* history: no loop began beside another, no callback threw
    lives        \* bound: restarts left

ledgerVars == <<holds, tip>>

pollingVars ==
    <<holds, tip, mode, lastLedger, retryCount, seenKeys, loop, timerOf, cursor, handed,
      origin, calm, lives>>

Loops == 1 .. MaxLoops
Closed == 1 .. MaxTip
TimerStages == {"pausing", "retrying"}
Polling == {"locating", "asking", "answered"}

PollingTypeOK ==
    /\ holds \in [Closed -> {"open", "nothing", "other", "ours"}] /\ tip \in Closed
    /\ mode \in {"off", "on", "paused", "stopped"}
    /\ lastLedger \in Nat /\ retryCount \in 0 .. PollRetries + 1
    /\ seenKeys \subseteq Closed /\ cursor \in Nat /\ origin \in 0 .. MaxTip + 1
    /\ loop \in [Loops -> [at : {"none", "ended"} \cup TimerStages \cup Polling,
                            from : Nat, upTo : 0 .. MaxTip]]
    /\ timerOf \in [TimerStages -> 0 .. MaxLoops]
    /\ handed \in [Closed -> Nat] /\ calm \in BOOLEAN /\ lives \in 0 .. MaxRestarts

Unused == [i \in Loops |-> [at |-> "none", from |-> 0, upTo |-> 0]]

PollingInit ==
    /\ holds = [l \in Closed |-> IF l = 1 THEN "nothing" ELSE "open"] /\ tip = 1
    /\ mode = "off" /\ lastLedger = 0 /\ retryCount = 0 /\ seenKeys = {}
    /\ loop = Unused /\ timerOf = [w \in TimerStages |-> 0]
    /\ cursor = 0 /\ handed = [l \in Closed |-> 0] /\ origin = 0
    /\ calm = TRUE /\ lives = MaxRestarts

Live(i) == loop[i].at \in TimerStages \cup Polling

(* poll() from its start to its first await.                                *)
Begun(inMode, ledger) ==
    [at |-> CASE inMode # "on" -> "ended"
              [] inMode = "on" /\ ledger = 0 -> "locating"
              [] OTHER -> "asking",
     from |-> ledger, upTo |-> 0]

(* clearTimers() knows the timer of each kind that was set last.            *)
Cleared(loops) ==
    [i \in Loops |-> IF loops[i].at \in TimerStages /\ timerOf[loops[i].at] = i
                     THEN [loops[i] EXCEPT !.at = "ended"] ELSE loops[i]]

-----------------------------------------------------------------------------
(* External: a ledger closes.                                               *)
TipMoves ==
    /\ tip < MaxTip
    /\ tip' = tip + 1
    /\ \E what \in {"nothing", "other", "ours"} : holds' = [holds EXCEPT ![tip + 1] = what]
    /\ UNCHANGED <<mode, lastLedger, retryCount, seenKeys, loop, timerOf, cursor, handed,
                   origin, calm, lives>>

(* The subscription is created: it starts from the cursor, if there is one. *)
CreateSubscription ==
    /\ mode = "off"
    /\ mode' = "on" /\ lastLedger' = cursor /\ retryCount' = 0 /\ seenKeys' = {}
    /\ loop' = [Unused EXCEPT ![1] = Begun("on", cursor)]
    /\ timerOf' = [w \in TimerStages |-> 0]
    /\ origin' = IF cursor = 0 THEN 0 ELSE origin
    /\ UNCHANGED <<ledgerVars, cursor, handed, calm, lives>>

(* getLatestLedger() answers: the position becomes its answer, wherever     *)
(* another loop may have moved it.                                          *)
LearnsTip(i) ==
    /\ loop[i].at = "locating"
    /\ lastLedger' = tip
    /\ loop' = [loop EXCEPT ![i] = [at |-> "asking", from |-> tip, upTo |-> 0]]
    /\ origin' = IF origin = 0 THEN tip ELSE origin
    /\ UNCHANGED <<ledgerVars, mode, retryCount, seenKeys, timerOf, cursor, handed, calm, lives>>

(* External: the node answers with what it has; it refuses a start ledger   *)
(* it has not closed.                                                       *)
NodeAnswers(i) ==
    /\ loop[i].at = "asking" /\ loop[i].from <= tip
    /\ loop' = [loop EXCEPT ![i].at = "answered", ![i].upTo = tip]
    /\ UNCHANGED <<ledgerVars, mode, lastLedger, retryCount, seenKeys, timerOf, cursor,
                   handed, origin, calm, lives>>

EventsIn(i) == {l \in loop[i].from .. loop[i].upTo : holds[l] \in {"ours", "other"}}
Fresh(i) == {l \in EventsIn(i) \ seenKeys : holds[l] = "ours"}
NewestOf(i) == CHOOSE l \in EventsIn(i) \cup {lastLedger} : \A k \in EventsIn(i) \cup {lastLedger} : k <= l

(* The position moves past the newest event, before any is handed over.     *)
TakesAnswer_ForgetsSeen(i) ==
    /\ loop[i].at = "answered"
    /\ lastLedger' = NewestOf(i) + 1
    /\ cursor' = IF Fresh(i) # {} THEN NewestOf(i) + 1 ELSE cursor
    /\ UNCHANGED <<ledgerVars, seenKeys, origin, lives>>
TakesAnswer(i) ==
    /\ loop[i].at = "answered"
    /\ seenKeys' = seenKeys \cup EventsIn(i)
    /\ lastLedger' = NewestOf(i) + 1
    /\ cursor' = IF Fresh(i) # {} THEN NewestOf(i) + 1 ELSE cursor
    /\ UNCHANGED <<ledgerVars, origin, lives>>

GivesToCallback(events) ==
    handed' = [l \in Closed |-> IF l \in events THEN handed[l] + 1 ELSE handed[l]]

(* The callback takes every fresh event, also after unsubscribe() or        *)
(* pause(), which only keep the timer from being set.                       *)
DeliversEvents(i) ==
    /\ TakesAnswer(i)
    /\ GivesToCallback(Fresh(i))
    /\ retryCount' = IF Fresh(i) # {} THEN 0 ELSE retryCount
    /\ loop' = [loop EXCEPT ![i].at = IF mode = "on" THEN "pausing" ELSE "ended"]
    /\ timerOf' = IF mode = "on" THEN [timerOf EXCEPT !["pausing"] = i] ELSE timerOf
    /\ UNCHANGED <<mode, calm>>

(* scheduleReconnect(): nothing once stopped; a last failure stops the      *)
(* subscription; otherwise a timer is set, also while paused.               *)
Reconnects(i, failures) ==
    \/ /\ mode = "stopped"
       /\ loop' = [loop EXCEPT ![i].at = "ended"]
       /\ retryCount' = failures
       /\ UNCHANGED <<mode, timerOf>>
    \/ /\ mode # "stopped" /\ failures = PollRetries
       /\ mode' = "stopped" /\ retryCount' = failures + 1
       /\ loop' = Cleared([loop EXCEPT ![i].at = "ended"])
       /\ UNCHANGED timerOf
    \/ /\ mode # "stopped" /\ failures < PollRetries
       /\ retryCount' = failures + 1
       /\ loop' = [loop EXCEPT ![i].at = "retrying"]
       /\ timerOf' = [timerOf EXCEPT !["retrying"] = i]
       /\ UNCHANGED mode

(* The callback throws at one event: those after it are not handed over.    *)
CallbackThrows(i) ==
    /\ TakesAnswer(i)
    /\ \E bad \in Fresh(i) : GivesToCallback({l \in Fresh(i) : l <= bad})
    /\ Reconnects(i, 0)
    /\ calm' = FALSE

RequestFails(i) ==
    /\ loop[i].at \in Polling
    /\ Reconnects(i, retryCount)
    /\ UNCHANGED <<ledgerVars, lastLedger, seenKeys, cursor, handed, origin, calm, lives>>

LoopTimerFires(i) ==
    /\ loop[i].at \in TimerStages
    /\ loop' = [loop EXCEPT ![i] = Begun(mode, lastLedger)]
    /\ UNCHANGED <<ledgerVars, mode, lastLedger, retryCount, seenKeys, timerOf, cursor,
                   handed, origin, calm, lives>>

-----------------------------------------------------------------------------
PauseSubscription ==
    /\ mode = "on"
    /\ mode' = "paused"
    /\ loop' = Cleared(loop)
    /\ UNCHANGED <<ledgerVars, lastLedger, retryCount, seenKeys, timerOf, cursor, handed,
                   origin, calm, lives>>

(* resume() polls, although a loop that began earlier may still await its   *)
(* answer, and also when the subscription was not paused.                   *)
ResumeSubscription ==
    /\ mode \in {"on", "paused"}
    /\ \E i \in Loops :
          /\ loop[i].at = "none" /\ \A j \in 1 .. i - 1 : loop[j].at # "none"
          /\ loop' = [loop EXCEPT ![i] = Begun("on", lastLedger)]
    /\ mode' = "on"
    /\ calm' = (calm /\ \A i \in Loops : ~Live(i))
    /\ UNCHANGED <<ledgerVars, lastLedger, retryCount, seenKeys, timerOf, cursor, handed,
                   origin, lives>>

StopSubscription ==
    /\ mode \in {"on", "paused"}
    /\ mode' = "stopped"
    /\ loop' = Cleared(loop)
    /\ UNCHANGED <<ledgerVars, lastLedger, retryCount, seenKeys, timerOf, cursor, handed,
                   origin, calm, lives>>

(* The process starts again, with the stored cursor.                        *)
ProcessRestarts ==
    /\ mode # "off" /\ lives > 0
    /\ lives' = lives - 1
    /\ mode' = "off" /\ loop' = Unused
    /\ UNCHANGED <<ledgerVars, lastLedger, retryCount, seenKeys, timerOf, cursor, handed,
                   origin, calm>>

PollingNext ==
    \/ TipMoves \/ CreateSubscription \/ ProcessRestarts
    \/ \E i \in Loops :
          \/ LearnsTip(i) \/ NodeAnswers(i) \/ DeliversEvents(i) \/ CallbackThrows(i)
          \/ RequestFails(i) \/ LoopTimerFires(i)
    \/ PauseSubscription \/ ResumeSubscription \/ StopSubscription

PollingSpec == PollingInit /\ [][PollingNext]_pollingVars

-----------------------------------------------------------------------------
(* The events behind the position that no poll under way will bring.        *)
MayBring(i, l) ==
    \/ loop[i].at = "asking" /\ loop[i].from <= l
    \/ loop[i].at = "answered" /\ l \in Fresh(i)

LeftBehind ==
    {l \in Closed : /\ mode # "off" /\ origin # 0 /\ l \in origin .. lastLedger - 1
                    /\ holds[l] = "ours" /\ handed[l] = 0 /\ \A i \in Loops : ~MayBring(i, l)}

(* The callback is given an event at most once, however loops overlap and   *)
(* wherever the process is restarted; an active subscription never falls    *)
(* asleep: some loop of it polls or has a timer that will fire; and while   *)
(* no loops overlap and no callback throws, no event is left behind.        *)
PolledOnceAndAwake ==
    /\ \A l \in Closed : handed[l] <= 1
    /\ mode = "on" => \E i \in Loops : Live(i)
    /\ calm => LeftBehind = {}
=============================================================================
