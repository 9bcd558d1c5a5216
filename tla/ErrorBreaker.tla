---------------------------- MODULE ErrorBreaker ----------------------------
(***************************************************************************)
(* The breaker of src/circuitBreaker.ts, which the resilient RPC server    *)
(* asks before each call and tells each result.  It leaves the open state  *)
(* in two ways: by a timer, and lazily when canExecute() finds that the    *)
(* last failure is old enough.  Results of calls that began in an earlier  *)
(* state arrive at any time.                                               *)
(***************************************************************************)
EXTENDS Naturals

CONSTANTS
    ErrorThreshold,  \* failureThreshold
    MaxOverlap,      \* bound: calls under way at the same time
    MaxErrors        \* bound: failures counted

ASSUME ErrorBounds ==
    /\ ErrorThreshold \in Nat \ {0} /\ MaxOverlap \in Nat
    /\ MaxErrors \in Nat /\ MaxErrors >= ErrorThreshold

VARIABLES
    circuit,      \* _state
    errors,       \* _failureCount
    lastError,    \* _lastFailureTime: "none", "recent" or "old" (resetTimeoutMs ago)
    resetTimer,   \* _resetTimeoutId: the timer runs
    outstanding   \* calls that have been let through and have not ended

errorVars == <<circuit, errors, lastError, resetTimer, outstanding>>

ErrorTypeOK ==
    /\ circuit \in {"closed", "open", "half-open"}
    /\ errors \in 0 .. MaxErrors /\ outstanding \in 0 .. MaxOverlap
    /\ lastError \in {"none", "recent", "old"}
    /\ resetTimer \in BOOLEAN

ErrorInit ==
    /\ circuit = "closed" /\ errors = 0 /\ lastError = "none"
    /\ resetTimer = FALSE
    /\ outstanding = 0

(* canExecute() lets a call through.                                        *)
CanExecute ==
    /\ outstanding < MaxOverlap
    /\ circuit = "open" => lastError = "old"
    /\ circuit' = IF circuit = "open" THEN "half-open" ELSE circuit
    /\ outstanding' = outstanding + 1
    /\ UNCHANGED <<errors, lastError, resetTimer>>

RecordSuccess ==
    /\ outstanding > 0
    /\ outstanding' = outstanding - 1
    /\ errors' = 0
    /\ lastError' = "none"
    /\ circuit' = IF circuit = "half-open" THEN "closed" ELSE circuit
    /\ resetTimer' = (resetTimer /\ circuit # "half-open")

(* recordFailure(): a failure that arrives while the circuit is open counts *)
(* and restarts the lazy cooldown, but not the timer.                       *)
Opens ==
    \/ circuit = "closed" /\ errors + 1 >= ErrorThreshold
    \/ circuit = "half-open"

RecordFailure_SetsNoTimer ==
    /\ outstanding > 0
    /\ outstanding' = outstanding - 1
    /\ errors' = IF errors < MaxErrors THEN errors + 1 ELSE errors
    /\ lastError' = "recent"
    /\ circuit' = IF Opens THEN "open" ELSE circuit
    /\ resetTimer' = IF circuit = "half-open" THEN FALSE ELSE resetTimer \/ Opens
RecordFailure ==
    /\ outstanding > 0
    /\ outstanding' = outstanding - 1
    /\ errors' = IF errors < MaxErrors THEN errors + 1 ELSE errors
    /\ lastError' = "recent"
    /\ circuit' = IF Opens THEN "open" ELSE circuit
    /\ resetTimer' = (resetTimer \/ Opens)

(* A call that fails for a reason of its own, such as an invoice that does  *)
(* not exist, tells the breaker nothing, not even when it was a probe.      *)
EndsUnrecorded ==
    /\ outstanding > 0
    /\ outstanding' = outstanding - 1
    /\ UNCHANGED <<circuit, errors, lastError, resetTimer>>

(* The timer of _scheduleReset().                                           *)
ResetTimerFires ==
    /\ resetTimer
    /\ resetTimer' = FALSE
    /\ circuit' = IF circuit = "open" THEN "half-open" ELSE circuit
    /\ UNCHANGED <<errors, lastError, outstanding>>

CooldownPasses ==
    /\ lastError = "recent"
    /\ lastError' = "old"
    /\ UNCHANGED <<circuit, errors, resetTimer, outstanding>>

(* reset(), by an operator.                                                 *)
ResetBreaker ==
    /\ circuit # "closed" \/ errors > 0
    /\ circuit' = "closed" /\ errors' = 0 /\ lastError' = "none"
    /\ resetTimer' = FALSE
    /\ UNCHANGED outstanding

ErrorNext ==
    \/ CanExecute \/ RecordSuccess \/ RecordFailure \/ EndsUnrecorded
    \/ ResetTimerFires \/ CooldownPasses \/ ResetBreaker

ErrorFairness == WF_errorVars(ResetTimerFires)

ErrorSpec == ErrorInit /\ [][ErrorNext]_errorVars /\ ErrorFairness

-----------------------------------------------------------------------------
(* The circuit is closed only while fewer failures than the threshold are   *)
(* counted, and an open circuit is left although the results of older calls *)
(* arrive while it is open, which move the lazy cooldown or cancel it: its  *)
(* timer is running in every open period, the second and later ones too.    *)
OpenBreakerRecovers ==
    /\ [](/\ circuit = "closed" => errors < ErrorThreshold
          /\ circuit = "open" => resetTimer)
    /\ circuit = "open" ~> circuit # "open"
=============================================================================
