---------------------------- MODULE SplitRollback ----------------------------
(***************************************************************************)
(* src/splitRollbackCoordinator.ts, for one split id: the checkpoint of a  *)
(* split payment, the record that initiateRollback() takes of it (by       *)
(* snapshotSplitRollback of src/snapshot.ts), and attempts to execute the  *)
(* rollback within a timeout.  Attempts overlap: each call starts its      *)
(* execution, and each timeout deletes checkpoint and record whoever made  *)
(* them.                                                                   *)
(*                                                                         *)
(* The record holds the checkpoint's leg objects themselves, not copies:   *)
(* it is modelled by which begin() made the legs it refers to.             *)
(***************************************************************************)
EXTENDS Naturals

CONSTANTS
    Legs,          \* the recipients of the split
    Attempts,      \* calls of initiateRollbackWithTimeout()
    MaxBegins,     \* bound: calls of begin()
    RollbackKeysExpire  \* idempotency keys reach their TTL or are evicted

ASSUME RollbackBounds == MaxBegins \in Nat \ {0} /\ RollbackKeysExpire \in BOOLEAN

VARIABLES
    begun,           \* calls of begin() so far
    legs,            \* the legs each of them made
    checkpoint,      \* the begin() that made the current checkpoint, 0 if none
    rollbackRecord,  \* the begin() whose legs the record holds, 0 if none
    claimed,         \* the idempotency key is remembered
    attempt,         \* where each attempt stands
    announced        \* splitRollbackCompleted events since the record was last
                     \* deleted or its key was forgotten

rollbackVars == <<begun, legs, checkpoint, rollbackRecord, claimed, attempt, announced>>

LegStates == {"pending", "succeeded", "failed"}
Begins == 1 .. MaxBegins

RollbackTypeOK ==
    /\ begun \in 0 .. MaxBegins
    /\ legs \in [Begins -> [Legs -> LegStates]]
    /\ checkpoint \in 0 .. begun /\ rollbackRecord \in 0 .. begun
    /\ claimed \in BOOLEAN
    /\ attempt \in [Attempts -> {"idle", "unknown", "executing", "done", "failed", "timedOut"}]
    /\ announced \in Nat

RollbackInit ==
    /\ begun = 0 /\ checkpoint = 0 /\ rollbackRecord = 0
    /\ legs = [b \in Begins |-> [l \in Legs |-> "pending"]]
    /\ claimed = FALSE
    /\ attempt = [a \in Attempts |-> "idle"]
    /\ announced = 0

(* begin(): a new checkpoint with new legs; an old record stays.            *)
BeginSplit ==
    /\ begun < MaxBegins
    /\ begun' = begun + 1
    /\ checkpoint' = begun + 1
    /\ UNCHANGED <<legs, rollbackRecord, claimed, attempt, announced>>

(* markLegSuccess(), markLegFailed().                                       *)
SetLegState(l, state) ==
    /\ checkpoint # 0
    /\ state # "pending"
    /\ legs' = [legs EXCEPT ![checkpoint][l] = state]
    /\ UNCHANGED <<begun, checkpoint, rollbackRecord, claimed, attempt, announced>>

(* initiateRollback(), with a checkpoint: the record that is there, or one  *)
(* of the legs as they are.                                                 *)
Recorded_NoClaim ==
    IF rollbackRecord # 0 /\ claimed
    THEN UNCHANGED <<rollbackRecord, claimed, announced>>
    ELSE /\ rollbackRecord' = checkpoint
         /\ announced' = announced + 1
         /\ UNCHANGED claimed
Recorded ==
    IF rollbackRecord # 0 /\ claimed
    THEN UNCHANGED <<rollbackRecord, claimed, announced>>
    ELSE /\ rollbackRecord' = checkpoint
         /\ announced' = announced + 1
         /\ claimed' = TRUE

InitiateRollback ==
    /\ checkpoint # 0
    /\ announced < 2
    /\ Recorded
    /\ UNCHANGED <<begun, legs, checkpoint, attempt>>

(* initiateRollbackWithTimeout(): execute() is called each time.            *)
StartAttempt(a) ==
    /\ attempt[a] = "idle"
    /\ announced < 2
    /\ IF checkpoint = 0
       THEN /\ attempt' = [attempt EXCEPT ![a] = "unknown"]
            /\ UNCHANGED <<rollbackRecord, claimed, announced>>
       ELSE /\ attempt' = [attempt EXCEPT ![a] = "executing"]
            /\ Recorded
    /\ UNCHANGED <<begun, legs, checkpoint>>

(* execute() settles first.  A failure leaves the record.                   *)
ExecuteEnds(a, outcome) ==
    /\ attempt[a] = "executing"
    /\ attempt' = [attempt EXCEPT ![a] = outcome]
    /\ UNCHANGED <<begun, legs, checkpoint, rollbackRecord, claimed, announced>>

(* The timeout comes first: cleanupTimedOutRollback().  The key stays.      *)
AttemptTimesOut(a) ==
    /\ attempt[a] = "executing"
    /\ attempt' = [attempt EXCEPT ![a] = "timedOut"]
    /\ checkpoint' = 0 /\ rollbackRecord' = 0 /\ announced' = 0
    /\ UNCHANGED <<begun, legs, claimed>>

(* External: the idempotency manager forgets the key.                       *)
RollbackKeyForgotten ==
    /\ RollbackKeysExpire
    /\ claimed
    /\ claimed' = FALSE /\ announced' = 0
    /\ UNCHANGED <<begun, legs, checkpoint, rollbackRecord, attempt>>

RollbackNext ==
    \/ BeginSplit \/ InitiateRollback \/ RollbackKeyForgotten
    \/ \E l \in Legs, state \in LegStates : SetLegState(l, state)
    \/ \E a \in Attempts :
          StartAttempt(a) \/ AttemptTimesOut(a)
          \/ \E outcome \in {"done", "failed"} : ExecuteEnds(a, outcome)

RollbackSpec == RollbackInit /\ [][RollbackNext]_rollbackVars

-----------------------------------------------------------------------------
(* "Calling this more than once returns the originally stored record        *)
(* without re-emitting events": until the record is deleted by a timeout or *)
(* its key is forgotten, one completion is announced, however many attempts *)
(* overlap and whether or not the split was begun again; and a split that   *)
(* an attempt works on has its record unless another attempt timed out.     *)
RollbackAnnouncedOnce ==
    /\ announced <= 1
    /\ (\E a \in Attempts : attempt[a] = "executing") /\ rollbackRecord = 0 =>
          \E b \in Attempts : attempt[b] = "timedOut"
=============================================================================
