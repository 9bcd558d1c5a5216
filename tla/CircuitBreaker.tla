--------------------------- MODULE CircuitBreaker ---------------------------
(***************************************************************************)
(* The breaker of src/resilience/CircuitBreaker.ts, which the client wraps *)
(* around every transaction submission (`advancedCircuitBreaker`).         *)
(*                                                                         *)
(* execute() runs synchronously up to the first await of the wrapped call, *)
(* and everything after the await (success or failure handler and the      *)
(* finally block) runs in one turn of the event loop.  A call is therefore *)
(* two steps: one that admits or rejects it, one that settles it; any      *)
(* number of other calls may start, settle or time out in between.         *)
(*                                                                         *)
(* Time is the flag `cooled`: openDurationMs have passed since             *)
(* lastFailureAt.  Only _onFailure writes lastFailureAt, so only a failure *)
(* clears the flag.                                                        *)
(***************************************************************************)
EXTENDS Integers, FiniteSets

CONSTANTS
    Calls,              \* identities of the calls that may overlap
    FailureThreshold,   \* options.failureThreshold
    SuccessThreshold,   \* options.successThreshold
    ProbeCount,         \* options.halfOpenProbeCount
    MaxResets,          \* bound: how often reset() is called
    MaxFailureCount     \* bound: beyond it (and the threshold) failures are not counted

ASSUME CallsFinite == IsFiniteSet(Calls)
ASSUME ThresholdsPositive ==
    /\ FailureThreshold \in Nat \ {0}
    /\ SuccessThreshold \in Nat \ {0}
    /\ ProbeCount \in Nat \ {0}
    /\ MaxResets \in Nat
    /\ MaxFailureCount \in Nat /\ MaxFailureCount >= FailureThreshold

VARIABLES
    state,           \* state.state
    failureCount,    \* state.failureCount
    successCount,    \* state.successCount
    probesInFlight,  \* state.halfOpenProbesInFlight
    cooled,          \* Date.now() - state.lastFailureAt >= openDurationMs
    call,            \* where each call to execute() stands
    resets           \* how often reset() has run (bounds the model)

breakerVars == <<state, failureCount, successCount, probesInFlight, cooled, call, resets>>

States == {"CLOSED", "OPEN", "HALF_OPEN"}

(* A call is "normal" or a "probe" while execute() awaits the wrapped       *)
(* function; it is "timedOut" when the probe timer has rejected it and the  *)
(* wrapped function is still running with nobody waiting for it.            *)
CallStates == {"idle", "normal", "probe", "timedOut"}

(* The success count never reaches the threshold: the success that would    *)
(* reach it closes the circuit and zeroes the count in the same turn.       *)
TypeOK ==
    /\ state \in States
    /\ failureCount \in Nat
    /\ successCount \in 0 .. SuccessThreshold - 1
    /\ probesInFlight \in Int
    /\ cooled \in BOOLEAN
    /\ call \in [Calls -> CallStates]
    /\ resets \in Nat

Init ==
    /\ state = "CLOSED"
    /\ failureCount = 0
    /\ successCount = 0
    /\ probesInFlight = 0
    /\ cooled = TRUE
    /\ call = [c \in Calls |-> "idle"]
    /\ resets = 0

-----------------------------------------------------------------------------
(* Admission: execute() up to the await.                                    *)

(* _maybeExpireOpenState() decides the state execute() works with.          *)
Expires == state = "OPEN" /\ cooled
Effective == IF Expires THEN "HALF_OPEN" ELSE state
MaybeExpireOpenState ==
    /\ state' = Effective
    /\ successCount' = IF Expires THEN 0 ELSE successCount

(* CircuitOpenError: OPEN and still cooling, or HALF_OPEN with the probe    *)
(* limit reached.  The rejection may still have moved OPEN to HALF_OPEN.    *)
Reject(c) ==
    /\ call[c] = "idle"
    /\ \/ Effective = "OPEN"
       \/ Effective = "HALF_OPEN" /\ probesInFlight >= ProbeCount
    /\ MaybeExpireOpenState
    /\ UNCHANGED <<failureCount, probesInFlight, cooled, call, resets>>

BeginProbe_Uncounted(c) ==
    /\ call[c] = "idle"
    /\ Effective = "HALF_OPEN"
    /\ probesInFlight <= ProbeCount
    /\ MaybeExpireOpenState
    /\ probesInFlight' = probesInFlight + 1
    /\ call' = [call EXCEPT ![c] = "probe"]
    /\ UNCHANGED <<failureCount, cooled, resets>>

BeginProbe(c) ==
    /\ call[c] = "idle"
    /\ Effective = "HALF_OPEN"
    /\ probesInFlight < ProbeCount
    /\ MaybeExpireOpenState
    /\ probesInFlight' = probesInFlight + 1
    /\ call' = [call EXCEPT ![c] = "probe"]
    /\ UNCHANGED <<failureCount, cooled, resets>>

BeginNormal(c) ==
    /\ call[c] = "idle"
    /\ state = "CLOSED"
    /\ call' = [call EXCEPT ![c] = "normal"]
    /\ UNCHANGED <<state, failureCount, successCount, probesInFlight, cooled, resets>>

-----------------------------------------------------------------------------
(* Settlement: the handlers look at the state the breaker has now, which    *)
(* need not be the state in which the call was admitted.                    *)

OnSuccess_KeepsFailureCount ==
    /\ IF state = "HALF_OPEN"
       THEN LET closes == successCount + 1 >= SuccessThreshold
            IN  /\ state' = IF closes THEN "CLOSED" ELSE state
                /\ successCount' = IF closes THEN 0 ELSE successCount + 1
       ELSE UNCHANGED <<state, successCount>>
    /\ UNCHANGED <<cooled, failureCount>>

OnSuccess ==
    /\ IF state = "HALF_OPEN"
       THEN LET closes == successCount + 1 >= SuccessThreshold
            IN  /\ state' = IF closes THEN "CLOSED" ELSE state
                /\ successCount' = IF closes THEN 0 ELSE successCount + 1
                /\ failureCount' = IF closes THEN 0 ELSE failureCount
       ELSE /\ failureCount' = 0
            /\ UNCHANGED <<state, successCount>>
    /\ UNCHANGED cooled

OnFailure ==
    /\ cooled' = FALSE
    /\ IF state = "HALF_OPEN"
       THEN /\ state' = "OPEN"
            /\ successCount' = 0
            /\ UNCHANGED failureCount
       ELSE /\ failureCount' = IF failureCount < MaxFailureCount THEN failureCount + 1
                               ELSE failureCount
            /\ state' = IF failureCount + 1 >= FailureThreshold THEN "OPEN" ELSE state
            /\ UNCHANGED successCount

(* The finally block of the probe branch runs whatever the outcome was.     *)
ReleaseProbe == probesInFlight' = probesInFlight - 1

NormalSucceeds(c) ==
    /\ call[c] = "normal"
    /\ OnSuccess
    /\ call' = [call EXCEPT ![c] = "idle"]
    /\ UNCHANGED <<probesInFlight, resets>>

NormalFails(c) ==
    /\ call[c] = "normal"
    /\ OnFailure
    /\ call' = [call EXCEPT ![c] = "idle"]
    /\ UNCHANGED <<probesInFlight, resets>>

ProbeSucceeds(c) ==
    /\ call[c] = "probe"
    /\ OnSuccess
    /\ ReleaseProbe
    /\ call' = [call EXCEPT ![c] = "idle"]
    /\ UNCHANGED resets

ProbeFails(c) ==
    /\ call[c] = "probe"
    /\ OnFailure
    /\ ReleaseProbe
    /\ call' = [call EXCEPT ![c] = "idle"]
    /\ UNCHANGED resets

(* halfOpenProbeTimeoutMs elapse: execute() rejects, but nothing stops the  *)
(* wrapped function.                                                        *)
ProbeTimesOut(c) ==
    /\ call[c] = "probe"
    /\ OnFailure
    /\ ReleaseProbe
    /\ call' = [call EXCEPT ![c] = "timedOut"]
    /\ UNCHANGED resets

(* The abandoned function ends; its promise is already settled, so the      *)
(* breaker does not notice.                                                 *)
AbandonedEnds(c) ==
    /\ call[c] = "timedOut"
    /\ call' = [call EXCEPT ![c] = "idle"]
    /\ UNCHANGED <<state, failureCount, successCount, probesInFlight, cooled, resets>>

(* reset(): operator recovery.  It zeroes the probe counter whatever probes *)
(* are still in flight.                                                     *)
Reset ==
    /\ resets < MaxResets
    /\ resets' = resets + 1
    /\ state' = "CLOSED"
    /\ failureCount' = 0
    /\ successCount' = 0
    /\ probesInFlight' = 0
    /\ UNCHANGED <<cooled, call>>

(* The clock passes lastFailureAt + openDurationMs.                         *)
Cool ==
    /\ ~cooled
    /\ cooled' = TRUE
    /\ UNCHANGED <<state, failureCount, successCount, probesInFlight, call, resets>>

-----------------------------------------------------------------------------
Begin(c) == BeginProbe(c) \/ BeginNormal(c)
Settle(c) ==
    \/ NormalSucceeds(c) \/ NormalFails(c)
    \/ ProbeSucceeds(c) \/ ProbeFails(c) \/ ProbeTimesOut(c)

Next ==
    \/ \E c \in Calls : Reject(c) \/ Begin(c) \/ Settle(c) \/ AbandonedEnds(c)
    \/ Reset
    \/ Cool

Spec == Init /\ [][Next]_breakerVars

(* Time passes, the probe timer fires, callers keep coming, and a wrapped   *)
(* function that nobody times out ends some day.  A probe may hang for      *)
(* ever: only its timer is assumed.                                         *)
Fairness ==
    /\ WF_breakerVars(Cool)
    /\ WF_breakerVars(\E c \in Calls : BeginProbe(c))
    /\ \A c \in Calls :
        /\ WF_breakerVars(ProbeTimesOut(c))
        /\ WF_breakerVars(AbandonedEnds(c))
        /\ WF_breakerVars(NormalSucceeds(c) \/ NormalFails(c))

FairSpec == Spec /\ Fairness

-----------------------------------------------------------------------------
Probes == {c \in Calls : call[c] = "probe"}

(* HALF_OPEN "exactly one probe call is allowed through": never more probes *)
(* in flight than halfOpenProbeCount, over any number of open/half-open     *)
(* cycles in which probes of an earlier cycle are still running.  Each call *)
(* of reset() may let one more batch in beside the probes it forgets, and   *)
(* no more than that.                                                       *)
ProbeLimit == Cardinality(Probes) <= ProbeCount * (resets + 1)

(* The counter that admits probes counts exactly the probes in flight, so   *)
(* a probe that failed, succeeded or timed out has been given back once.    *)
(* What reset() forgot is all it can be short of.                           *)
ProbeCounterExact ==
    /\ probesInFlight <= Cardinality(Probes)
    /\ Cardinality(Probes) <= probesInFlight + ProbeCount * resets

(* A closed circuit is one that has not yet reached the threshold: the      *)
(* failure count left over from the open period, or bumped by calls that    *)
(* failed after it opened, never survives into the closed period.           *)
ClosedBelowThreshold == state = "CLOSED" => failureCount < FailureThreshold

(* The circuit cannot stay shut for ever: whenever it is open it leaves     *)
(* that state, and whenever it is half open it is decided, although wrapped *)
(* calls may hang.                                                          *)
CircuitIsDecided ==
    /\ state = "OPEN" ~> state # "OPEN"
    /\ state = "HALF_OPEN" ~> state # "HALF_OPEN"
=============================================================================
