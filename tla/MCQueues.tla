------------------------------ MODULE MCQueues ------------------------------
(* The queues of operations that wait for their turn or for the connection, *)
(* checked in one run.  They share nothing in the code: a behaviour is one  *)
(* of `part`, and the other queues stay as they are.                        *)
EXTENDS PriorityQueue, TxQueue, PersistentQueue, OfflineQueue, OperationQueue

VARIABLE part

(* The ways the offline queue is configured.                                *)
Default == [persist |-> TRUE, remoteWins |-> TRUE, throwing |-> FALSE]
Executing == [persist |-> TRUE, remoteWins |-> FALSE, throwing |-> FALSE]
Volatile == [persist |-> FALSE, remoteWins |-> FALSE, throwing |-> FALSE]
BadListeners == [persist |-> TRUE, remoteWins |-> TRUE, throwing |-> TRUE]

AllSettings == {Default, Executing, Volatile, BadListeners}

Parts == {"priority", "tx", "persistent", "offline", "requests"}

QueuesInit ==
    /\ part \in Parts
    /\ Init /\ TxqInit /\ PersistentInit /\ OfflineInit /\ OpqInit
    /\ part # "tx" => ~clears
    /\ part # "offline" => online /\ setting = Default

(* Every part but p stays as it is.                                         *)
OthersStay(p) ==
    /\ p # "priority" => UNCHANGED vars
    /\ p # "tx" => UNCHANGED txqVars
    /\ p # "persistent" => UNCHANGED persistentVars
    /\ p # "offline" => UNCHANGED offlineVars
    /\ p # "requests" => UNCHANGED opqVars

QueuesNext ==
    /\ UNCHANGED part
    /\ \/ part = "priority" /\ Next /\ OthersStay("priority")
       \/ part = "tx" /\ TxqNext /\ OthersStay("tx")
       \/ part = "persistent" /\ PersistentNext /\ OthersStay("persistent")
       \/ part = "offline" /\ OfflineNext /\ OthersStay("offline")
       \/ part = "requests" /\ OpqNext /\ OthersStay("requests")

(* A queue that is not under way has no step to be fair to, so the          *)
(* assumptions about all of them can be made together.                      *)
QueuesFairness ==
    /\ WF_vars(\E result \in {"resolved", "rejected"} : JobEnds(result))
    /\ TxqFairness
    /\ WF_offlineVars(SyncStep)
    /\ OpqFairness

QueuesSpec ==
    /\ QueuesInit
    /\ [][QueuesNext]_<<part, vars, txqVars, persistentVars, offlineVars,
                        opqVars>>
    /\ QueuesFairness

(* Everything that a queue accepted comes to its end: jobs and operations   *)
(* are settled, also when clear() leaves two loops at work; drain() and     *)
(* shutdown() return; every sync ends; and requests that are buffered when  *)
(* the connection is back are executed.                                     *)
QueuesSettle ==
    /\ AcceptedIsSettled /\ OperationsSettle /\ SyncEnds
    /\ RequestsSettle
=============================================================================
