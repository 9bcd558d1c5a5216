--------------------------- MODULE PersistentQueue ---------------------------
(***************************************************************************)
(* src/persistentQueue.ts: a queue in memory with a copy in IndexedDB.     *)
(*                                                                         *)
(* Writes to the store are transactions that complete in the order in      *)
(* which they are issued; `writes` are those under way.  process() takes   *)
(* turns on a chain of promises: a round copies the memory, and for each   *)
(* item awaits the caller's function and then the deletion.  A restart     *)
(* keeps what the store holds.                                             *)
(***************************************************************************)
EXTENDS Naturals, Sequences, FiniteSets, SequencesExt

CONSTANTS
    NumItems,    \* items; they are numbered in the order in which they are enqueued
    MaxRounds,   \* bound: calls of process()
    MaxCrashes   \* bound: restarts

ASSUME PersistentBounds == NumItems \in Nat /\ MaxRounds \in Nat /\ MaxCrashes \in Nat

PItems == 1 .. NumItems

VARIABLES
    memory,     \* memory: ids, in order of arrival
    store,      \* external: ids in IndexedDB
    writes,     \* transactions issued and not completed: <<"put", "delete" (by a round) or "remove", id>>
    round,      \* what the running round has left to do: the rest of its copy
    step,       \* where the round stands: "idle", "called", "deleting", "broken"
    queued,     \* calls of process() chained behind it
    pitem,      \* what the application knows of each item
    handled,    \* how often fn succeeded for an item
    left        \* bounds: rounds and crashes left

persistentVars == <<memory, store, writes, round, step, queued, pitem, handled, left>>

PersistentInit ==
    /\ memory = <<>> /\ store = {} /\ writes = <<>>
    /\ round = <<>> /\ step = "idle" /\ queued = 0
    /\ pitem = [i \in PItems |-> "new"]
    /\ handled = [i \in PItems |-> 0]
    /\ left = [rounds |-> MaxRounds, crashes |-> MaxCrashes]

-----------------------------------------------------------------------------
(* enqueue(): the promise resolves when the put completes.                  *)
EnqueuePersistent(i) ==
    /\ pitem[i] = "new" /\ \A k \in 1 .. i - 1 : pitem[k] # "new"
    /\ memory' = Append(memory, i)
    /\ writes' = Append(writes, <<"put", i>>)
    /\ pitem' = [pitem EXCEPT ![i] = "pending"]
    /\ UNCHANGED <<store, round, step, queued, handled, left>>

(* remove() without processing.  A round that has the item in its copy goes *)
(* on to process it.                                                        *)
RemoveItem(i) ==
    /\ pitem[i] \in {"pending", "accepted"}
    /\ memory' = RemoveFirst(memory, i)
    /\ writes' = Append(writes, <<"remove", i>>)
    /\ pitem' = [pitem EXCEPT ![i] = "removed"]
    /\ UNCHANGED <<store, round, step, queued, handled, left>>

(* The next link of the chain runs, or waits for its turn.                  *)
Begins(copy) ==
    /\ round' = copy
    /\ step' = IF copy = <<>> THEN "idle" ELSE "called"

ProcessQueue ==
    /\ left.rounds > 0
    /\ left' = [left EXCEPT !.rounds = @ - 1]
    /\ CASE step = "idle" -> Begins(memory) /\ UNCHANGED queued
         [] step = "broken" -> UNCHANGED <<round, step, queued>>
         [] OTHER -> queued' = queued + 1 /\ UNCHANGED <<round, step>>
    /\ UNCHANGED <<memory, store, writes, pitem, handled>>

(* fn resolves: forget the item in memory, then delete it from the store.   *)
FnSucceeds ==
    /\ step = "called"
    /\ handled' = [handled EXCEPT ![Head(round)] = @ + 1]
    /\ pitem' = [pitem EXCEPT ![Head(round)] = "processed"]
    /\ memory' = RemoveFirst(memory, Head(round))
    /\ writes' = Append(writes, <<"delete", Head(round)>>)
    /\ step' = "deleting"
    /\ UNCHANGED <<store, round, queued, left>>

(* fn rejects: the chain stays rejected, and so does every later process(). *)
FnFails_DropsItem ==
    /\ step = "called"
    /\ memory' = RemoveFirst(memory, Head(round))
    /\ step' = "broken" /\ round' = <<>> /\ queued' = 0
    /\ UNCHANGED <<store, writes, pitem, handled, left>>
FnFails ==
    /\ step = "called"
    /\ step' = "broken" /\ round' = <<>> /\ queued' = 0
    /\ UNCHANGED <<memory, store, writes, pitem, handled, left>>

(* The oldest transaction completes; whoever awaits it goes on: an          *)
(* enqueue() resolves, a round takes its next item, and a round that is     *)
(* finished lets the next one copy the memory.                              *)
RoundGoesOn ==
    IF Len(round) > 1
    THEN round' = Tail(round) /\ step' = "called" /\ UNCHANGED queued
    ELSE IF queued > 0
         THEN Begins(memory) /\ queued' = IF memory = <<>> THEN 0 ELSE queued - 1
         ELSE round' = <<>> /\ step' = "idle" /\ UNCHANGED queued

WriteCompletes ==
    /\ writes # <<>>
    /\ LET kind == Head(writes)[1]
           i == Head(writes)[2]
       IN  /\ writes' = Tail(writes)
           /\ store' = IF kind = "put" THEN store \cup {i} ELSE store \ {i}
           /\ pitem' = IF kind = "put" /\ pitem[i] = "pending"
                       THEN [pitem EXCEPT ![i] = "accepted"] ELSE pitem
           /\ IF kind = "delete" /\ step = "deleting" /\ i = Head(round)
              THEN RoundGoesOn
              ELSE UNCHANGED <<round, step, queued>>
    /\ UNCHANGED <<memory, handled, left>>

(* The items of a set, the oldest first.                                    *)
InOrder(items) ==
    {seq \in [1 .. Cardinality(items) -> items] :
       ToSet(seq) = items /\ \A j, k \in DOMAIN seq : j < k => seq[j] < seq[k]}

(* The process dies and starts again: hydrate() restores the items in the   *)
(* order of enqueuedAt.  Items that never reached the store are unknown.    *)
Restart ==
    /\ left.crashes > 0
    /\ left' = [left EXCEPT !.crashes = @ - 1]
    /\ memory' \in InOrder(store)
    /\ writes' = <<>>
    /\ round' = <<>> /\ step' = "idle" /\ queued' = 0
    /\ pitem' = [i \in PItems |-> IF i \in store THEN "accepted"
                                  ELSE IF pitem[i] = "pending" THEN "lost" ELSE pitem[i]]
    /\ UNCHANGED <<store, handled>>

PersistentNext ==
    \/ \E i \in PItems : EnqueuePersistent(i) \/ RemoveItem(i)
    \/ ProcessQueue
    \/ FnSucceeds \/ FnFails
    \/ WriteCompletes
    \/ Restart

PersistentSpec == PersistentInit /\ [][PersistentNext]_persistentVars

-----------------------------------------------------------------------------
(* An item whose enqueue() has resolved stays until processed or removed.   *)
AcceptedSurvives ==
    \A i \in PItems : pitem[i] = "accepted" =>
        i \in store /\ i \in ToSet(memory)

(* An item is processed once, and once more for each crash.                 *)
ProcessedOncePerLife ==
    \A i \in PItems : handled[i] <= 1 + (MaxCrashes - left.crashes)

(* Whenever the process dies, an item that was accepted stays in the store  *)
(* and in memory until it is processed or removed, and it is processed once *)
(* more only if a restart came between fn and the deletion: overlapping     *)
(* calls of process() never repeat one.                                     *)
ItemsPersist == AcceptedSurvives /\ ProcessedOncePerLife
=============================================================================
