---------------------------- MODULE NonceManager ----------------------------
(***************************************************************************)
(* src/nonceManager.ts, for one account: accounts share nothing.           *)
(*                                                                         *)
(* A user takes a nonce, has it checked before sending, and then commits   *)
(* it or rolls it back.  Each method runs in one turn of the event loop;   *)
(* users, the expiry of the replay history and syncNonce(), which awaits   *)
(* the chain, interleave between them.                                     *)
(***************************************************************************)
EXTENDS Naturals, Sequences, SequencesExt

CONSTANTS
    NonceUsers,   \* transactions under construction at the same time
    NoNonce,      \* no nonce, or no answer of the chain
    ReplayWindow, \* options.replayWindowSize
    Strict,       \* options.strictOrdering
    MaxNonce      \* bound: nonces issued

ASSUME NonceSizes == ReplayWindow \in Nat \ {0} /\ MaxNonce \in Nat /\ Strict \in BOOLEAN
ASSUME NoNonceDistinct == NoNonce \notin Nat

VARIABLES
    current,    \* state.currentNonce
    inFlight,   \* state.inFlightNonces: an element is never in the list twice
    history,    \* committedNonces of the account, oldest first, without expired entries
    stage,      \* where each user stands
    nonceOf,    \* the nonce a user holds
    committed,  \* all nonces committed so far (history)
    chainNext,  \* external: the next nonce the chain expects
    synced      \* the chain's answer to a syncNonce() that has not taken effect

nonceVars == <<current, inFlight, history, stage, nonceOf, committed, chainNext, synced>>

Stages == {"idle", "held", "cleared", "refused"}

NonceTypeOK ==
    /\ current \in Nat /\ chainNext \in Nat
    /\ inFlight \in SUBSET Nat /\ committed \in SUBSET Nat
    /\ history \in Seq(Nat) /\ Len(history) <= ReplayWindow
    /\ stage \in [NonceUsers -> Stages]
    /\ nonceOf \in [NonceUsers -> Nat \cup {NoNonce}]
    /\ synced \in Nat \cup {NoNonce}

NonceInit ==
    /\ current = 0 /\ chainNext = 0
    /\ inFlight = {} /\ committed = {}
    /\ history = <<>>
    /\ stage = [u \in NonceUsers |-> "idle"]
    /\ nonceOf = [u \in NonceUsers |-> NoNonce]
    /\ synced = NoNonce

Holders == {u \in NonceUsers : stage[u] # "idle"}

-----------------------------------------------------------------------------
(* acquireNextNonce().                                                      *)
AcquireNext(u) ==
    /\ stage[u] = "idle" /\ synced = NoNonce
    /\ current < MaxNonce
    /\ stage' = [stage EXCEPT ![u] = "held"]
    /\ nonceOf' = [nonceOf EXCEPT ![u] = current]
    /\ inFlight' = inFlight \cup {current}
    /\ current' = current + 1
    /\ UNCHANGED <<history, committed, chainNext, synced>>

(* validate(): not committed within the window, issued and unsettled if it  *)
(* is below the counter, and no gap above it.                               *)
Valid(n) ==
    /\ \A i \in DOMAIN history : history[i] # n
    /\ n < current => n \in inFlight
    /\ Strict => n <= current

ValidateBeforeSend(u) ==
    /\ stage[u] = "held"
    /\ stage' = [stage EXCEPT ![u] = IF Valid(nonceOf[u]) THEN "cleared" ELSE "refused"]
    /\ UNCHANGED <<current, inFlight, history, nonceOf, committed, chainNext, synced>>

Settled(u) ==
    /\ stage' = [stage EXCEPT ![u] = "idle"]
    /\ nonceOf' = [nonceOf EXCEPT ![u] = NoNonce]

(* Map.set keeps the place of a key it already has; the bound drops the     *)
(* oldest.                                                                  *)
Remembered(n) ==
    LET added == IF \E i \in DOMAIN history : history[i] = n THEN history ELSE Append(history, n)
    IN  IF Len(added) > ReplayWindow THEN Tail(added) ELSE added

(* commitNonce(), after the transaction was applied.                        *)
CommitNonce_StaysInFlight(u) ==
    /\ stage[u] = "cleared"
    /\ Settled(u)
    /\ history' = Remembered(nonceOf[u])
    /\ committed' = committed \cup {nonceOf[u]}
    /\ chainNext' = IF chainNext > nonceOf[u] THEN chainNext ELSE nonceOf[u] + 1
    /\ UNCHANGED <<current, inFlight, synced>>
CommitNonce(u) ==
    /\ stage[u] = "cleared"
    /\ Settled(u)
    /\ inFlight' = inFlight \ {nonceOf[u]}
    /\ history' = Remembered(nonceOf[u])
    /\ committed' = committed \cup {nonceOf[u]}
    /\ chainNext' = IF chainNext > nonceOf[u] THEN chainNext ELSE nonceOf[u] + 1
    /\ UNCHANGED <<current, synced>>

(* rollbackNonce(), when the transaction is not sent.                       *)
RollbackNonce(u) ==
    /\ stage[u] # "idle"
    /\ Settled(u)
    /\ inFlight' = inFlight \ {nonceOf[u]}
    /\ current' = IF current = nonceOf[u] + 1 THEN nonceOf[u] ELSE current
    /\ UNCHANGED <<history, committed, chainNext, synced>>

(* An entry of the history outlives replayTtlMs.  validate() ignores such   *)
(* entries and the next commit removes them before it counts.               *)
HistoryExpires ==
    \E i \in DOMAIN history : history' = RemoveAt(history, i)
    /\ UNCHANGED <<current, inFlight, stage, nonceOf, committed, chainNext, synced>>

(* syncNonce() asks the chain and, with the answer, resets the account.     *)
(* Nothing in the code keeps users away meanwhile: that no nonce is held,   *)
(* and none is taken before the reset, is the discipline the application    *)
(* must bring (README, observations).                                       *)
SyncReadsChain ==
    /\ synced = NoNonce /\ Holders = {}
    /\ synced' = chainNext
    /\ UNCHANGED <<current, inFlight, history, stage, nonceOf, committed, chainNext>>

SyncResets ==
    /\ synced # NoNonce
    /\ current' = synced
    /\ inFlight' = {}
    /\ synced' = NoNonce
    /\ UNCHANGED <<history, stage, nonceOf, committed, chainNext>>

NonceNext ==
    \/ \E u \in NonceUsers :
          AcquireNext(u) \/ ValidateBeforeSend(u) \/ CommitNonce(u) \/ RollbackNonce(u)
    \/ HistoryExpires
    \/ SyncReadsChain \/ SyncResets

NonceSpec == NonceInit /\ [][NonceNext]_nonceVars

-----------------------------------------------------------------------------
(* Nobody holds a nonce that somebody else holds or that has been used.     *)
NonceHeldOnce ==
    /\ \A u, v \in Holders : nonceOf[u] = nonceOf[v] => u = v
    /\ \A u \in Holders : nonceOf[u] \notin committed

(* The check before sending lets every holder send, and never again a nonce *)
(* that was committed.                                                      *)
CheckIsExact ==
    /\ \A u \in Holders : Valid(nonceOf[u])
    /\ \A n \in committed : ~Valid(n)

(* Nonces are unique and the check is exact, in whatever order users commit *)
(* and roll back, also when the replay history has expired or was pruned    *)
(* and the counter was stepped back or synchronised.                        *)
NoncesAreExact == NonceHeldOnce /\ CheckIsExact

(* What makes both inductive: the counter is beyond everything committed    *)
(* or held, and the nonces in flight are the ones that are held.            *)
CounterBeyondUse ==
    /\ \A u \in Holders : nonceOf[u] \in Nat /\ nonceOf[u] < current
    /\ \A n \in committed : n < current /\ n < chainNext
    /\ inFlight = {nonceOf[u] : u \in Holders}
    /\ synced # NoNonce => Holders = {} /\ synced = chainNext
=============================================================================
