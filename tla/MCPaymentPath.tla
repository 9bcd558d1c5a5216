---------------------------- MODULE MCPaymentPath ----------------------------
(* What a payment goes through: it is scheduled, amounts are allocated, the *)
(* submission runs behind the breaker, its requests wait for the limiter    *)
(* and the throttle, and a split that was not acknowledged is rolled back.  *)
(* But for the breaker and the submission these share no state in the code: *)
(* a behaviour is one of `part`, the others stay as they are.               *)
EXTENDS GuardedSubmission, RateLimiter, AdaptiveThrottle, PaymentAllocation,
        SplitAlgorithms, SplitRollback, ScheduledPayments, TLC

CONSTANTS p1, opA

OnePay == p1 :> opA

(* A request costs two units: the rates are one half and one and a half     *)
(* requests per window; the first setting has fewer counters than keys, and *)
(* clears them.                                                             *)
SlowLimiter == [max |-> 1, perKey |-> 1, tracked |-> 1, clears |-> TRUE]
FastLimiter == [max |-> 3, perKey |-> 1, tracked |-> 2, clears |-> FALSE]
MCSettings == {SlowLimiter, FastLimiter}

(* Where scheduled payments are stored: for one tab, in a storage that may  *)
(* refuse, and for two tabs.                                                *)
OwnStorage == [shared |-> FALSE, full |-> FALSE]
FullStorage == [shared |-> FALSE, full |-> TRUE]
SharedStorage == [shared |-> TRUE, full |-> FALSE]
AllStorages == {OwnStorage, FullStorage, SharedStorage}

VARIABLE part

PathParts == {"guarded", "limiter", "throttle", "allocation", "split", "rollback", "scheduled"}

PathInit ==
    /\ part \in PathParts
    /\ part # "limiter" => setting = FastLimiter
    /\ part # "allocation" =>
          remaining = [i \in Invoices |-> 0] /\ weights = [i \in Invoices |-> 0]
    /\ part # "split" =>
          asked = [of |-> "plan", amount |-> 0,
                   lines |-> [i \in Lines |-> [minimumAmount |-> 0, score |-> 0]]]
    /\ part # "scheduled" => storage = OwnStorage
    /\ GuardedInit /\ LimiterInit /\ ThrottleInit
    /\ AllocationInit /\ SplitInit /\ RollbackInit /\ ScheduleInit

(* Every part but p stays as it is.                                         *)
OthersStay(p) ==
    /\ p # "guarded" => UNCHANGED guardedVars
    /\ p # "limiter" => UNCHANGED limiterVars
    /\ p # "throttle" => UNCHANGED throttleVars
    /\ p # "allocation" => UNCHANGED allocationVars
    /\ p # "split" => UNCHANGED splitVars
    /\ p # "rollback" => UNCHANGED rollbackVars
    /\ p # "scheduled" => UNCHANGED scheduleVars

PathNext ==
    /\ UNCHANGED part
    /\ \/ part = "guarded" /\ GuardedNext /\ OthersStay("guarded")
       \/ part = "limiter" /\ LimiterNext /\ OthersStay("limiter")
       \/ part = "throttle" /\ ThrottleNext /\ OthersStay("throttle")
       \/ part = "allocation" /\ AllocationNext /\ OthersStay("allocation")
       \/ part = "split" /\ SplitNext /\ OthersStay("split")
       \/ part = "rollback" /\ RollbackNext /\ OthersStay("rollback")
       \/ part = "scheduled" /\ ScheduleNext /\ OthersStay("scheduled")

(* The fair steps of a part that is not under way are disabled, but for     *)
(* the limiter's clock.                                                     *)
PathSpec ==
    /\ PathInit
    /\ [][PathNext]_<<part, guardedVars, limiterVars, throttleVars,
                      allocationVars, splitVars, rollbackVars, scheduleVars>>
    /\ WF_limiterVars(part = "limiter" /\ Tick)
    /\ []<>(timer # 0)
    /\ ThrottleFairness

(* Whoever waits for the limiter or for the throttle gets through: a        *)
(* penalty, a cleared key or a full round of others delays nobody for ever. *)
WaitersGetThrough == EveryAcquireGranted /\ WaiterGetsToken
=============================================================================
