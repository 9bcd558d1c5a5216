-------------------------- MODULE AdaptiveThrottle --------------------------
(***************************************************************************)
(* src/throttle/AdaptiveThrottle.ts: a token bucket that takes its size    *)
(* from the server's headers and pauses after a 429.  Callers that find no *)
(* token wait in a queue; the drain timer serves it, and does nothing when *)
(* it fires during a penalty: then the penalty timer has to set it again.  *)
(*                                                                         *)
(* Tokens are whole and arrive one at a time; how long penalties are       *)
(* (_consecutiveBreaches) and how fast tokens arrive is left open.         *)
(***************************************************************************)
EXTENDS Naturals, Sequences

CONSTANTS
    Dispatches,   \* outbound requests that call acquire()
    MaxLimit,     \* bound: X-RateLimit-Limit, at least 1
    Unlimited,    \* the limit of a server that sends no header
    MaxHeaders,   \* bound: responses with headers
    MaxBreaches   \* bound: responses with status 429

ASSUME ThrottleBounds ==
    MaxLimit \in Nat \ {0} /\ MaxHeaders \in Nat /\ MaxBreaches \in Nat /\ Unlimited \notin Nat

VARIABLES
    limit,         \* _limit
    tokens,        \* _tokens
    penalized,     \* _penalized, which is also whether _penaltyTimer runs
    drainTimer,    \* _drainTimer runs
    dispatchQueue, \* _queue
    dispatched,    \* the requests that have got their token
    headers,       \* responses with headers so far
    breaches       \* responses with status 429 so far

throttleVars ==
    <<limit, tokens, penalized, drainTimer, dispatchQueue, dispatched, headers, breaches>>

Queued == {dispatchQueue[i] : i \in DOMAIN dispatchQueue}

ThrottleTypeOK ==
    /\ limit \in 1 .. MaxLimit \cup {Unlimited}
    /\ tokens \in 0 .. MaxLimit \cup {Unlimited}
    /\ penalized \in BOOLEAN /\ drainTimer \in BOOLEAN
    /\ dispatchQueue \in Seq(Dispatches) /\ dispatched \in SUBSET Dispatches

ThrottleInit ==
    /\ limit = Unlimited /\ tokens = Unlimited
    /\ penalized = FALSE /\ drainTimer = FALSE
    /\ dispatchQueue = <<>> /\ dispatched = {}
    /\ headers = 0 /\ breaches = 0

(* `count` tokens are there, and what is left without them.                 *)
Affords(count) == tokens # Unlimited => tokens >= count
Without(count) == IF tokens = Unlimited THEN Unlimited ELSE tokens - count

(* acquire(): newcomers do not look at the queue.                           *)
AcquireToken(d) ==
    /\ d \notin dispatched \cup Queued
    /\ IF ~penalized /\ Affords(1)
       THEN /\ dispatched' = dispatched \cup {d}
            /\ tokens' = Without(1)
            /\ UNCHANGED <<dispatchQueue, drainTimer>>
       ELSE /\ dispatchQueue' = Append(dispatchQueue, d)
            /\ drainTimer' = (drainTimer \/ ~penalized)
            /\ UNCHANGED <<dispatched, tokens>>
    /\ UNCHANGED <<limit, penalized, headers, breaches>>

(* update(): the headers of a response replace limit and tokens.            *)
Update ==
    /\ headers < MaxHeaders
    /\ headers' = headers + 1
    /\ \/ /\ limit' \in 1 .. MaxLimit
          /\ tokens' \in 0 .. limit'
       \/ limit' = Unlimited /\ tokens' = Unlimited
    /\ UNCHANGED <<penalized, drainTimer, dispatchQueue, dispatched, breaches>>

(* _refill() as time passes.                                                *)
Refill ==
    /\ limit # Unlimited /\ tokens # Unlimited
    /\ tokens < limit
    /\ tokens' = tokens + 1
    /\ UNCHANGED <<limit, penalized, drainTimer, dispatchQueue, dispatched, headers, breaches>>

(* recordRateLimited(): a new penalty, or a longer one.                     *)
RecordRateLimited ==
    /\ breaches < MaxBreaches
    /\ breaches' = breaches + 1
    /\ penalized' = TRUE
    /\ UNCHANGED <<limit, tokens, drainTimer, dispatchQueue, dispatched, headers>>

PenaltyEnds_NobodyDrains ==
    /\ penalized
    /\ penalized' = FALSE
    /\ UNCHANGED <<limit, tokens, drainTimer, dispatchQueue, dispatched, headers, breaches>>
PenaltyEnds ==
    /\ penalized
    /\ penalized' = FALSE
    /\ drainTimer' = (drainTimer \/ dispatchQueue # <<>>)
    /\ UNCHANGED <<limit, tokens, dispatchQueue, dispatched, headers, breaches>>

(* _drainQueue(), when its timer fires.                                     *)
DrainFires ==
    /\ drainTimer
    /\ IF penalized
       THEN drainTimer' = FALSE /\ UNCHANGED <<tokens, dispatchQueue, dispatched>>
       ELSE \E served \in 0 .. Len(dispatchQueue) :
            /\ Affords(served)
            /\ served = Len(dispatchQueue) \/ ~Affords(served + 1)
            /\ tokens' = Without(served)
            /\ dispatched' = dispatched \cup {dispatchQueue[i] : i \in 1 .. served}
            /\ dispatchQueue' = SubSeq(dispatchQueue, served + 1, Len(dispatchQueue))
            /\ drainTimer' = (served < Len(dispatchQueue))
    /\ UNCHANGED <<limit, penalized, headers, breaches>>

ThrottleNext ==
    \/ \E d \in Dispatches : AcquireToken(d)
    \/ Update \/ Refill \/ RecordRateLimited
    \/ PenaltyEnds \/ DrainFires

(* Time goes on and timers fire.                                            *)
ThrottleFairness ==
    WF_throttleVars(Refill) /\ WF_throttleVars(PenaltyEnds) /\ WF_throttleVars(DrainFires)

ThrottleSpec == ThrottleInit /\ [][ThrottleNext]_throttleVars /\ ThrottleFairness

-----------------------------------------------------------------------------
(* Every acquire() gets its token once the server has stopped refusing,     *)
(* although drain timers are lost in penalties, headers take tokens away    *)
(* and newcomers overtake the queue.  (Requests are bounded, so the queue   *)
(* empties.)                                                                *)
WaiterGetsToken == Queued # {} ~> Queued = {}
=============================================================================
