---------------------------- MODULE OfflineQueue ----------------------------
(***************************************************************************)
(* Paying while the RPC endpoint is down: pay() in src/client.ts checks    *)
(* the endpoint's health first and, when it is down, puts the operation in *)
(* the offline queue (src/offlineQueue.ts), which is mirrored in local     *)
(* storage and executed by sync() when a health check succeeds.  The       *)
(* process may crash and restart from the storage.                         *)
(*                                                                         *)
(* All operations pay the same invoice; the contract accepts them while it *)
(* is open.                                                                *)
(***************************************************************************)
EXTENDS Naturals, Sequences, FiniteSets, SequencesExt

CONSTANTS
    Calls,           \* calls of pay(); an operation is named by its call
    MaxQueueSize,
    Settings         \* ways the queue is configured and used

(*   persist     persistToStorage                                           *)
(*   remoteWins  conflictStrategy is "remote-wins", the default             *)
(*   throwing    listeners of the queue's events may throw                  *)
SettingRecords == [persist : BOOLEAN, remoteWins : BOOLEAN, throwing : BOOLEAN]

ASSUME QueueBounded == MaxQueueSize \in Nat \ {0}
ASSUME SettingsKnown == Settings \subseteq SettingRecords

VARIABLES
    online,    \* the endpoint answers (external)
    status,    \* status of the invoice on the ledger (external)
    call,      \* where the caller of pay() stands
    queue,     \* the queue in memory
    stored,    \* its copy in local storage
    sync,      \* sync(): isDraining, the operations left, and what it awaits
    executed,  \* how often each operation was executed on the ledger
    became,    \* history: what became of an operation that was queued
    crashed,   \* history: the process has crashed
    setting    \* how the queue is configured; it does not change

world == <<online, status, setting, crashed>>
queueVars == <<queue, stored>>
offlineVars == <<online, status, call, queue, stored, sync, executed, became, crashed, setting>>

CallStates == {"idle", "checking", "submitting", "paid", "failed", "queued", "lost"}
Fates == {"none", "waiting", "executed", "failed", "conflict", "evicted", "cleared"}
Stopped == [draining |-> FALSE, todo |-> <<>>, awaits |-> "nothing"]

OfflineTypeOK ==
    /\ online \in BOOLEAN
    /\ status \in {"Pending", "Released"}
    /\ call \in [Calls -> CallStates]
    /\ queue \in Seq(Calls) /\ Len(queue) <= MaxQueueSize
    /\ stored \in Seq(Calls)
    /\ sync \in [draining : BOOLEAN, todo : Seq(Calls),
                 awaits : {"nothing", "invoice", "health", "submission"}]
    /\ executed \in [Calls -> Nat]
    /\ became \in [Calls -> Fates]
    /\ crashed \in BOOLEAN
    /\ setting \in Settings

OfflineInit ==
    /\ online \in BOOLEAN
    /\ status = "Pending"
    /\ call = [c \in Calls |-> "idle"]
    /\ queue = <<>> /\ stored = <<>>
    /\ sync = Stopped
    /\ executed = [c \in Calls |-> 0]
    /\ became = [c \in Calls |-> "none"]
    /\ crashed = FALSE
    /\ setting \in Settings

-----------------------------------------------------------------------------
(* The queue and its copy.                                                  *)

(* Every change of the queue is saved.                                      *)
Becomes(q) ==
    /\ queue' = q
    /\ stored' = IF setting.persist THEN q ELSE stored

(* enqueue(): a full queue drops its oldest operation.                      *)
EnqueueOffline_DropsNewest(c) ==
    /\ Becomes(IF Len(queue) >= MaxQueueSize THEN queue ELSE Append(queue, c))
    /\ became' = [became EXCEPT ![c] = "waiting"]

EnqueueOffline(c) ==
    IF Len(queue) >= MaxQueueSize
    THEN /\ Becomes(Append(Tail(queue), c))
         /\ became' = [became EXCEPT ![Head(queue)] = "evicted", ![c] = "waiting"]
    ELSE /\ Becomes(Append(queue, c))
         /\ became' = [became EXCEPT ![c] = "waiting"]

(* sync(), up to its first await: a second one returns at once; otherwise   *)
(* the queue is emptied before its operations are executed.                 *)
CanSync == ~sync.draining /\ queue # <<>>

StartSync_EmptiesLater ==
    /\ sync' = [draining |-> TRUE, todo |-> queue, awaits |-> "invoice"]
    /\ UNCHANGED queueVars

StartSync ==
    /\ sync' = [draining |-> TRUE, todo |-> queue, awaits |-> "invoice"]
    /\ Becomes(<<>>)

(* checkRPCHealth() succeeds: whoever asked, a drain is started.            *)
Drain == IF CanSync THEN StartSync ELSE UNCHANGED <<sync, queue, stored>>

-----------------------------------------------------------------------------
(* pay(), called by the application.                                        *)

(* The operation takes effect on the ledger.                                *)
Accepted == online /\ status = "Pending"
Executes(c) == executed' = [executed EXCEPT ![c] = @ + 1]

Pay(c) ==
    /\ call[c] = "idle"
    /\ call' = [call EXCEPT ![c] = "checking"]
    /\ UNCHANGED <<sync, executed, became>> /\ UNCHANGED world /\ UNCHANGED queueVars

PayFindsHealthy(c) ==
    /\ call[c] = "checking" /\ online
    /\ call' = [call EXCEPT ![c] = "submitting"]
    /\ Drain
    /\ UNCHANGED <<executed, became>> /\ UNCHANGED world

PayIsQueued(c) ==
    /\ call[c] = "checking" /\ ~online
    /\ call' = [call EXCEPT ![c] = "queued"]
    /\ EnqueueOffline(c)
    /\ UNCHANGED <<sync, executed>> /\ UNCHANGED world

(* The submission takes effect or fails; an error may hide that it did.     *)
PaySubmits(c) ==
    /\ call[c] = "submitting"
    /\ \/ /\ Accepted /\ Executes(c)
          /\ \E answer \in {"paid", "failed"} : call' = [call EXCEPT ![c] = answer]
       \/ /\ call' = [call EXCEPT ![c] = "failed"]
          /\ UNCHANGED executed
    /\ UNCHANGED <<sync, became>> /\ UNCHANGED world /\ UNCHANGED queueVars

(* The application checks the health, or calls syncOfflineQueue().          *)
AppSyncs ==
    /\ CanSync
    /\ StartSync
    /\ UNCHANGED <<call, executed, became>> /\ UNCHANGED world

ClearOfflineQueue ==
    /\ queue # <<>>
    /\ Becomes(<<>>)
    /\ became' = [c \in Calls |-> IF c \in ToSet(queue) THEN "cleared" ELSE became[c]]
    /\ UNCHANGED <<call, sync, executed>> /\ UNCHANGED world

-----------------------------------------------------------------------------
(* The loop of sync().                                                      *)

Current == Head(sync.todo)

(* On to the next operation; after the last one isDraining is reset.  A     *)
(* listener of the queue's events that throws ends sync() where it is, with *)
(* isDraining set.                                                          *)
SyncDies ==
    /\ setting.throwing
    /\ sync' = [draining |-> TRUE, todo |-> <<>>, awaits |-> "nothing"]

NextOperation ==
    IF Len(sync.todo) = 1
    THEN sync' = Stopped \/ SyncDies
    ELSE sync' = [draining |-> TRUE, todo |-> Tail(sync.todo), awaits |-> "invoice"]

(* The test for a conflict compares with the spelling "pending".            *)
IsConflict == status # "pending"

SyncReadsInvoice ==
    /\ sync.awaits = "invoice" /\ online
    /\ ~(IsConflict /\ setting.remoteWins)
    /\ sync' = [sync EXCEPT !.awaits = "health"]
    /\ UNCHANGED <<call, executed, became>> /\ UNCHANGED world /\ UNCHANGED queueVars

(* A listener that throws here is caught as if the fetch had failed: the    *)
(* operation is executed all the same.                                      *)
SyncFindsConflict ==
    /\ sync.awaits = "invoice" /\ online
    /\ IsConflict /\ setting.remoteWins
    /\ \/ /\ became' = [became EXCEPT ![Current] = "conflict"]
          /\ NextOperation
       \/ /\ setting.throwing
          /\ sync' = [sync EXCEPT !.awaits = "health"]
          /\ UNCHANGED became
    /\ UNCHANGED <<call, executed>> /\ UNCHANGED world /\ UNCHANGED queueVars

(* The remote fetch fails: proceed.                                         *)
SyncCannotRead ==
    /\ sync.awaits = "invoice"
    /\ sync' = [sync EXCEPT !.awaits = "health"]
    /\ UNCHANGED <<call, executed, became>> /\ UNCHANGED world /\ UNCHANGED queueVars

(* pay() called by sync() checks the health as well.                        *)
SyncFindsHealthy ==
    /\ sync.awaits = "health" /\ online
    /\ sync' = [sync EXCEPT !.awaits = "submission"]
    /\ UNCHANGED <<call, executed, became>> /\ UNCHANGED world /\ UNCHANGED queueVars

(* ... and queues the operation anew, which counts as synced.               *)
SyncQueuesAgain ==
    /\ sync.awaits = "health" /\ ~online
    /\ EnqueueOffline(Current)
    /\ NextOperation
    /\ UNCHANGED <<call, executed>> /\ UNCHANGED world

SyncExecutes ==
    /\ sync.awaits = "submission" /\ Accepted
    /\ Executes(Current)
    /\ became' = [became EXCEPT ![Current] = "executed"]
    /\ NextOperation
    /\ UNCHANGED call /\ UNCHANGED world /\ UNCHANGED queueVars

(* The error is reported and the operation is not queued again, whether it  *)
(* took effect or not.                                                      *)
SyncFails ==
    /\ sync.awaits = "submission"
    /\ (Accepted /\ Executes(Current)) \/ UNCHANGED executed
    /\ became' = [became EXCEPT ![Current] = "failed"]
    /\ NextOperation \/ SyncDies
    /\ UNCHANGED call /\ UNCHANGED world /\ UNCHANGED queueVars

SyncStep ==
    \/ SyncReadsInvoice \/ SyncFindsConflict \/ SyncCannotRead \/ SyncFindsHealthy
    \/ SyncQueuesAgain \/ SyncExecutes \/ SyncFails

-----------------------------------------------------------------------------
(* The process and the world.                                               *)

(* The process dies and starts again: calls that had no answer are lost,    *)
(* the new queue is loaded from the storage.                                *)
Crash ==
    /\ crashed' = TRUE
    /\ queue' = IF setting.persist THEN stored ELSE <<>>
    /\ sync' = Stopped
    /\ call' = [c \in Calls |-> IF call[c] \in {"checking", "submitting"} THEN "lost" ELSE call[c]]
    /\ UNCHANGED <<online, status, setting, stored, executed, became>>

EndpointChanges ==
    /\ online' = ~online
    /\ UNCHANGED <<status, setting, call, sync, executed, became, crashed>> /\ UNCHANGED queueVars

InvoiceCloses ==
    /\ status = "Pending"
    /\ status' = "Released"
    /\ UNCHANGED <<online, setting, call, sync, executed, became, crashed>> /\ UNCHANGED queueVars

OfflineNext ==
    \/ \E c \in Calls : Pay(c) \/ PayFindsHealthy(c) \/ PayIsQueued(c) \/ PaySubmits(c)
    \/ AppSyncs \/ ClearOfflineQueue
    \/ SyncStep
    \/ Crash \/ EndpointChanges \/ InvoiceCloses

OfflineSpec == OfflineInit /\ [][OfflineNext]_offlineVars

(* Awaited calls end.                                                       *)
OfflineFairSpec == OfflineSpec /\ WF_offlineVars(SyncStep)

-----------------------------------------------------------------------------
(* Properties.                                                              *)

(* No operation is executed twice, whatever health checks overlap the sync, *)
(* however often it is queued anew and wherever the process crashes.        *)
ExecutedAtMostOnce == \A c \in Calls : executed[c] <= 1

(* A call that was answered "queued" is in the queue or in the running      *)
(* sync, or something became of it: nothing is forgotten, but for a crash   *)
(* or a throwing listener during a sync; and the storage holds what the     *)
(* queue holds, so that a crash loses nothing that is waiting there.        *)
NothingForgotten ==
    /\ ~crashed /\ ~setting.throwing => \A c \in Calls :
          became[c] = "waiting" => c \in ToSet(queue) \/ c \in ToSet(sync.todo)
    /\ setting.persist => stored = queue

(* A sync always ends, so that later operations can be executed.            *)
SyncEnds == sync.draining /\ ~setting.throwing ~> ~sync.draining

(* An operation is given up for a conflict only if its invoice no longer    *)
(* takes payments.                                                          *)
ConflictMeansClosed ==
    (\E c \in Calls : became[c] = "conflict") => status # "Pending"
=============================================================================
