-------------------------- MODULE LazyInitializer --------------------------
(***************************************************************************)
(* src/client/LazyInitializer.ts: one shared attempt at initialisation.    *)
(* An attempt is the promise that get() stores: the factory with its       *)
(* retries.  It runs on when reset() drops the promise.                    *)
(***************************************************************************)
EXTENDS Naturals

CONSTANTS
    MaxRetries,     \* options.maxRetries
    MaxAttempts,    \* bound: attempts made
    MidwaySettings  \* may reset() be called while an attempt is under way?

ASSUME LazySizes == MaxRetries \in Nat /\ MaxAttempts \in Nat /\ MidwaySettings \subseteq BOOLEAN

VARIABLES
    attempt,   \* the state of each attempt made so far
    retries,   \* retries left to it
    promise,   \* _promise: the attempt that get() hands out, 0 for null
    ready,     \* _resolved
    midway     \* the setting of this behaviour

lazyVars == <<attempt, retries, promise, ready, midway>>

Attempts == 1 .. MaxAttempts
UnderWay == {"running", "pausing"}

LazyInit ==
    /\ attempt = [a \in Attempts |-> "none"]
    /\ retries = [a \in Attempts |-> MaxRetries]
    /\ promise = 0
    /\ ready = FALSE
    /\ midway \in MidwaySettings

(* get(): callers share the attempt that is stored, or the first starts one.*)
Get ==
    /\ promise = 0
    /\ \E a \in Attempts :
          /\ attempt[a] = "none" /\ \A b \in 1 .. a - 1 : attempt[b] # "none"
          /\ attempt' = [attempt EXCEPT ![a] = "running"]
          /\ promise' = a
    /\ UNCHANGED <<retries, ready, midway>>

FactorySucceeds(a) ==
    /\ attempt[a] = "running"
    /\ attempt' = [attempt EXCEPT ![a] = "resolved"]
    /\ ready' = TRUE
    /\ UNCHANGED <<retries, promise, midway>>

(* A failure pauses before a retry; the last one clears the promise.        *)
FactoryFails_PromiseStays(a) ==
    /\ attempt[a] = "running"
    /\ IF retries[a] > 0
       THEN /\ attempt' = [attempt EXCEPT ![a] = "pausing"]
            /\ retries' = [retries EXCEPT ![a] = @ - 1]
            /\ UNCHANGED <<promise, ready>>
       ELSE /\ attempt' = [attempt EXCEPT ![a] = "rejected"]
            /\ ready' = FALSE
            /\ UNCHANGED <<retries, promise>>
    /\ UNCHANGED midway
FactoryFails(a) ==
    /\ attempt[a] = "running"
    /\ IF retries[a] > 0
       THEN /\ attempt' = [attempt EXCEPT ![a] = "pausing"]
            /\ retries' = [retries EXCEPT ![a] = @ - 1]
            /\ UNCHANGED <<promise, ready>>
       ELSE /\ attempt' = [attempt EXCEPT ![a] = "rejected"]
            /\ promise' = 0 /\ ready' = FALSE
            /\ UNCHANGED retries
    /\ UNCHANGED midway

PauseEnds(a) ==
    /\ attempt[a] = "pausing"
    /\ attempt' = [attempt EXCEPT ![a] = "running"]
    /\ UNCHANGED <<retries, promise, ready, midway>>

ResetLazy ==
    /\ \A a \in Attempts : a = promise /\ attempt[a] \in UnderWay => midway
    /\ promise' = 0 /\ ready' = FALSE
    /\ UNCHANGED <<attempt, retries, midway>>

LazyNext ==
    \/ Get
    \/ \E a \in Attempts : FactorySucceeds(a) \/ FactoryFails(a) \/ PauseEnds(a)
    \/ ResetLazy

LazySpec == LazyInit /\ [][LazyNext]_lazyVars

-----------------------------------------------------------------------------
(* While nobody resets an attempt that is under way there is one at a time, *)
(* it is the one get() hands out, a rejected one is never handed out, and   *)
(* isReady() tells exactly whether the one handed out has resolved.         *)
OneAttemptAtATime ==
    ~midway =>
        /\ \A a \in Attempts : attempt[a] \in UnderWay => promise = a
        /\ promise # 0 => attempt[promise] # "rejected"
        /\ ready <=> \E a \in Attempts : promise = a /\ attempt[a] = "resolved"
=============================================================================
