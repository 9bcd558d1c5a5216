-------------------------- MODULE ChannelAccounts --------------------------
(***************************************************************************)
(* src/submission/ChannelAccountManager.ts: a pool of channel accounts,    *)
(* one of which each transaction borrows for its sequence number.          *)
(*                                                                         *)
(* acquire() awaits the balances of all slots, then takes the first slot   *)
(* that is free and not low, or joins the queue of waiters; whoever gets a *)
(* slot awaits its account once more to learn the sequence number.  So     *)
(* `acq` says where an acquire() stands, and everything else may happen    *)
(* between two of its steps.                                               *)
(***************************************************************************)
EXTENDS Naturals, Sequences, SequencesExt

CONSTANTS
    Acquirers,    \* the calls of acquire()
    NumSlots,     \* accounts in the pool; slots are 1 .. NumSlots, in the order of _slots
    PoolSettings  \* settings to check, see PoolSettingRecords

Slots == 1 .. NumSlots

(* timeout: acquireTimeoutMs > 0.  topUps: balances change while the pool   *)
(* is in use (a spent account falls low, a refill brings it back).          *)
PoolSettingRecords == [timeout : BOOLEAN, topUps : BOOLEAN]

ASSUME PoolNotEmpty == NumSlots \in Nat \ {0}
ASSUME PoolSettingsKnown == PoolSettings \subseteq PoolSettingRecords

VARIABLES
    inUse,       \* slot.inUse
    lowBalance,  \* slot.lowBalance, as the last refresh found it
    waiters,     \* _waiters: the calls queued in _waitForSlot()
    acq,         \* where each call of acquire() stands
    unasked,     \* slots whose balance the call's refresh still awaits
    slotOf,      \* the slot assigned to the call, 0 before
    seqRead,     \* assignment.sequenceNumber, Unread when the lookup failed
    ledgerSeq,   \* external: sequence numbers of the accounts on the ledger
    funded,      \* external: accounts whose balance is above minBalanceXlm
    pool         \* the setting of this behaviour

channelVars == <<inUse, lowBalance, waiters, acq, unasked, slotOf, seqRead, ledgerSeq, funded, pool>>

Unread == 0   \* no account is at sequence number 0

AcquireStates ==
    {"new", "refreshing", "waiting", "assigned", "holding", "spent", "released", "exhausted"}

(* Calls that own their slot: from _assignSlot() to release().              *)
OwnerStates == {"assigned", "holding", "spent"}

(* A call waits in the queue at most once, and only while it is waiting.    *)
ChannelTypeOK ==
    /\ inUse \in SUBSET Slots /\ lowBalance \in SUBSET Slots /\ funded \in SUBSET Slots
    /\ waiters \in Seq(Acquirers)
    /\ acq \in [Acquirers -> AcquireStates]
    /\ unasked \in [Acquirers -> SUBSET Slots]
    /\ slotOf \in [Acquirers -> Slots \cup {0}]
    /\ seqRead \in [Acquirers -> Nat]
    /\ ledgerSeq \in [Slots -> Nat]
    /\ pool \in PoolSettings

ChannelInit ==
    /\ inUse = {} /\ lowBalance = {}
    /\ waiters = <<>>
    /\ acq = [c \in Acquirers |-> "new"]
    /\ unasked = [c \in Acquirers |-> {}]
    /\ slotOf = [c \in Acquirers |-> 0]
    /\ seqRead = [c \in Acquirers |-> Unread]
    /\ ledgerSeq = [s \in Slots |-> 1]
    /\ funded \in SUBSET Slots
    /\ funded # {}
    /\ pool \in PoolSettings

-----------------------------------------------------------------------------
(* _refreshBalances(): one lookup per slot, answered in any order; a failed *)
(* one keeps what is known.                                                 *)
Acquire(c) ==
    /\ acq[c] = "new"
    /\ acq' = [acq EXCEPT ![c] = "refreshing"]
    /\ unasked' = [unasked EXCEPT ![c] = Slots]
    /\ UNCHANGED <<inUse, lowBalance, waiters, slotOf, seqRead, ledgerSeq, funded, pool>>

BalanceRead(c, s) ==
    /\ acq[c] = "refreshing" /\ s \in unasked[c]
    /\ unasked' = [unasked EXCEPT ![c] = @ \ {s}]
    /\ lowBalance' \in {IF s \in funded THEN lowBalance \ {s} ELSE lowBalance \cup {s}, lowBalance}
    /\ UNCHANGED <<inUse, waiters, acq, slotOf, seqRead, ledgerSeq, funded, pool>>

(* _findAvailableSlot(): the first slot of the list that may be assigned.   *)
Available(used, low) == Slots \ (used \cup low)
FirstOf(slots) == CHOOSE s \in slots : \A t \in slots : s <= t

(* _assignSlot() up to its await.                                           *)
Assign_MarkedLater(c, s, used) ==
    /\ inUse' = used
    /\ slotOf' = [slotOf EXCEPT ![c] = s]
    /\ acq' = [acq EXCEPT ![c] = "assigned"]
Assign(c, s, used) ==
    /\ inUse' = used \cup {s}
    /\ slotOf' = [slotOf EXCEPT ![c] = s]
    /\ acq' = [acq EXCEPT ![c] = "assigned"]

(* The refresh is complete: take a slot or join the queue.                  *)
BalancesKnown(c) ==
    /\ acq[c] = "refreshing" /\ unasked[c] = {}
    /\ LET available == Available(inUse, lowBalance)
       IN  IF available # {}
           THEN Assign(c, FirstOf(available), inUse) /\ UNCHANGED waiters
           ELSE /\ waiters' = Append(waiters, c)
                /\ acq' = [acq EXCEPT ![c] = "waiting"]
                /\ UNCHANGED <<inUse, slotOf>>
    /\ UNCHANGED <<lowBalance, unasked, seqRead, ledgerSeq, funded, pool>>

(* loadAccount() of the assigned slot: its sequence number, or "0".         *)
ReadSequence(c) ==
    /\ acq[c] = "assigned"
    /\ acq' = [acq EXCEPT ![c] = "holding"]
    /\ \E n \in {ledgerSeq[slotOf[c]], Unread} : seqRead' = [seqRead EXCEPT ![c] = n]
    /\ UNCHANGED <<inUse, lowBalance, waiters, unasked, slotOf, ledgerSeq, funded, pool>>

(* _notifyWaiters(): the head of the queue takes the first available slot.  *)
NotifyWaiters_Nobody(c, used) ==
    /\ inUse' = used
    /\ acq' = [acq EXCEPT ![c] = "released"]
    /\ UNCHANGED <<waiters, slotOf>>
NotifyWaiters(c, used) ==
    LET available == Available(used, lowBalance)
        done == [acq EXCEPT ![c] = "released"]
    IN  IF waiters # <<>> /\ available # {}
        THEN /\ waiters' = Tail(waiters)
             /\ inUse' = used \cup {FirstOf(available)}
             /\ slotOf' = [slotOf EXCEPT ![Head(waiters)] = FirstOf(available)]
             /\ acq' = [done EXCEPT ![Head(waiters)] = "assigned"]
        ELSE /\ inUse' = used /\ acq' = done
             /\ UNCHANGED <<waiters, slotOf>>

(* release(), which does nothing when it is called again.                   *)
Release(c) ==
    \/ /\ acq[c] \in {"holding", "spent"}
       /\ NotifyWaiters(c, inUse \ {slotOf[c]})
       /\ UNCHANGED <<lowBalance, unasked, seqRead, ledgerSeq, funded, pool>>
    \/ acq[c] = "released" /\ UNCHANGED channelVars

(* The timer of _waitForSlot(): the call leaves the queue and is rejected.  *)
TimesOut(c) ==
    /\ pool.timeout /\ acq[c] = "waiting"
    /\ acq' = [acq EXCEPT ![c] = "exhausted"]
    /\ \E k \in DOMAIN waiters : waiters[k] = c /\ waiters' = RemoveAt(waiters, k)
    /\ UNCHANGED <<inUse, lowBalance, unasked, slotOf, seqRead, ledgerSeq, funded, pool>>

-----------------------------------------------------------------------------
(* Outside: the holder's transaction is applied and uses up the number it   *)
(* was given; balances fall and are topped up.                              *)
Spend(c) ==
    /\ acq[c] = "holding"
    /\ acq' = [acq EXCEPT ![c] = "spent"]
    /\ ledgerSeq' = [ledgerSeq EXCEPT ![slotOf[c]] = @ + 1]
    /\ UNCHANGED <<inUse, lowBalance, waiters, unasked, slotOf, seqRead, funded, pool>>

BalanceChanges(s) ==
    /\ pool.topUps
    /\ funded' = IF s \in funded THEN funded \ {s} ELSE funded \cup {s}
    /\ UNCHANGED <<inUse, lowBalance, waiters, acq, unasked, slotOf, seqRead, ledgerSeq, pool>>

(* What goes on by itself once a call has been made: answers, the timer,    *)
(* and the release that every holder owes.                                  *)
AcquireStep(c) ==
    \/ \E s \in Slots : BalanceRead(c, s)
    \/ BalancesKnown(c)
    \/ ReadSequence(c)
    \/ TimesOut(c)
    \/ acq[c] # "released" /\ Release(c)

ChannelNext ==
    \/ \E c \in Acquirers : Acquire(c) \/ AcquireStep(c) \/ Spend(c) \/ Release(c)
    \/ \E s \in Slots : BalanceChanges(s)

ChannelFairness == \A c \in Acquirers : WF_channelVars(AcquireStep(c))

ChannelSpec == ChannelInit /\ [][ChannelNext]_channelVars

-----------------------------------------------------------------------------
(* A slot is in use exactly while one call owns it.                         *)
OneHolder ==
    /\ inUse = {slotOf[c] : c \in {d \in Acquirers : acq[d] \in OwnerStates}}
    /\ \A c, d \in Acquirers :
          acq[c] \in OwnerStates /\ acq[d] \in OwnerStates /\ slotOf[c] = slotOf[d] => c = d

(* The sequence number a holder builds with is still its account's.         *)
SequenceIsCurrent ==
    \A c \in Acquirers :
        acq[c] = "holding" => seqRead[c] \in {Unread, ledgerSeq[slotOf[c]]}

(* What the pool is for: no two unsettled transactions are built with the   *)
(* same account, and nobody has used up a holder's sequence number since it *)
(* was read; also when release() is called twice, when several calls        *)
(* refresh the balances at once and when the queue hands a slot over.       *)
SlotHasOneHolder == OneHolder /\ SequenceIsCurrent

(* Each acquire() ends: with a slot, which is released, or at its timeout.  *)
(* Without a timeout it needs balances that stay.                           *)
AcquireEnds ==
    \A c \in Acquirers : acq[c] = "refreshing" ~> acq[c] \in {"released", "exhausted"}
=============================================================================
