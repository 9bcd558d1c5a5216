------------------------- MODULE GuardedSubmission -------------------------
(***************************************************************************)
(* TxSubmission with `advancedCircuitBreaker` configured: every execution  *)
(* of _doSubmitTx runs inside breaker.execute().  The breaker may refuse a *)
(* submission, and in the half-open state it gives up waiting for one      *)
(* after halfOpenProbeTimeoutMs although _doSubmitTx keeps running, since  *)
(* a submission polls far longer than the default five seconds.            *)
(***************************************************************************)
EXTENDS TxSubmission

CONSTANTS
    FailureThreshold, SuccessThreshold, ProbeCount, MaxFailureCount,
    RetriesOpenCircuit  \* retryOptions are set: isRetryable(CircuitOpenError)

VARIABLES state, failureCount, successCount, probesInFlight, cooled, call, resets

Breaker == INSTANCE CircuitBreaker WITH Calls <- Subs, MaxResets <- 0

breakerVars == <<state, failureCount, successCount, probesInFlight, cooled, call, resets>>
guardedVars == <<vars, breakerVars>>

GuardedInit == Init /\ Breaker!Init

(* CircuitOpenError: repeated by executeWithRetry, not by withRetry.        *)
OpenCircuit == IF RetriesOpenCircuit THEN "transient" ELSE "fatal"

Admitted(p) == (Execute(p) \/ Failover(p)) /\ Breaker!Begin(NextSub(p))

Refused(p) ==
    /\ \/ pay[p].pc = "starting" /\ ~Known(p)
       \/ pay[p].pc = "failover"
    /\ Breaker!Reject(NextSub(p))
    /\ ErrorReachesJob(p, OpenCircuit)
    /\ UNCHANGED <<closed, sub, store>>
    /\ StaysOnLedger

(* An execution ends: the breaker hears of it unless it stopped waiting.    *)
SubStepInBreaker(s) ==
    /\ SubStep(s)
    /\ IF sub'[s].stage # "ended"
       THEN UNCHANGED breakerVars
       ELSE IF ~Awaited(s)
       THEN Breaker!AbandonedEnds(s)
       ELSE IF pay'[s[1]].pc = "resolved"
       THEN Breaker!NormalSucceeds(s) \/ Breaker!ProbeSucceeds(s)
       ELSE Breaker!NormalFails(s) \/ Breaker!ProbeFails(s)

ProbeTimesOut(s) ==
    /\ Awaited(s)
    /\ Breaker!ProbeTimesOut(s)
    /\ ErrorReachesJob(s[1], OpenCircuit)
    /\ UNCHANGED <<closed, sub, store>>
    /\ StaysOnLedger

(* Steps the breaker has no part in.                                        *)
Unguarded ==
    /\ \/ \E p \in Pays : Pay(p) \/ Retry(p) \/ Hit(p) \/ ReturnHit(p)
       \/ Shutdown
       \/ Environment
    /\ UNCHANGED breakerVars

GuardedNext ==
    \/ \E p \in Pays : Admitted(p) \/ Refused(p)
    \/ \E s \in Subs : SubStepInBreaker(s) \/ ProbeTimesOut(s)
    \/ Unguarded
    \/ Breaker!Cool /\ UNCHANGED vars

GuardedSpec == GuardedInit /\ [][GuardedNext]_guardedVars

-----------------------------------------------------------------------------
(* Breaker and queue agree about what is awaited: the call the breaker is   *)
(* inside of is the submission the queue's job awaits, and a submission the *)
(* breaker gave up on is awaited by nobody, so its late answer can neither  *)
(* settle a call of pay() nor move the circuit.                             *)
BreakerMatchesQueue ==
    \A s \in Subs :
        /\ call[s] \in {"normal", "probe"} <=> Awaited(s) /\ Active(s)
        /\ call[s] = "timedOut" => Active(s)
=============================================================================
