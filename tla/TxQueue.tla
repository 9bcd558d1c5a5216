------------------------------ MODULE TxQueue ------------------------------
(***************************************************************************)
(* src/queue.ts: operations of one account, executed one after another.    *)
(* An operation is awaited by a loop (_drain), which takes the next one in *)
(* the turn in which the last one ends; clear() takes the flag of the loop *)
(* away even while it awaits an operation, so that the next enqueue()      *)
(* starts another loop.                                                    *)
(***************************************************************************)
EXTENDS Naturals, Sequences, FiniteSets, SequencesExt

CONSTANTS
    Operations,       \* the operations handed to enqueue()
    TxPriorities,     \* priorities used; higher ones go first
    ClearsMidRun      \* settings: may clear() be called while an operation runs?

ASSUME TxQueueSettings == TxPriorities \subseteq Nat /\ ClearsMidRun \subseteq BOOLEAN

VARIABLES
    items,     \* items: [op, priority, seq], sorted
    nextSeq,   \* _seq
    failed,    \* failed
    draining,  \* _draining
    op,        \* what became of each operation
    clears     \* the setting of this behaviour

txqVars == <<items, nextSeq, failed, draining, op, clears>>

TxqInit ==
    /\ items = <<>>
    /\ nextSeq = 0
    /\ failed = FALSE /\ draining = FALSE
    /\ op = [o \in Operations |-> "new"]
    /\ clears \in ClearsMidRun

Running == {o \in Operations : op[o] = "running"}

-----------------------------------------------------------------------------
(* _insert(): the binary search finds the place after all that go first.    *)
GoesFirst(a, b) == a.priority > b.priority \/ (a.priority = b.priority /\ a.seq < b.seq)

InsertSorted(list, item) ==
    LET lo == Cardinality({i \in DOMAIN list : GoesFirst(list[i], item)})
    IN  InsertAt(list, lo + 1, item)

(* A loop at its condition: take the head, or stop.                         *)
LoopGoesOn(list, fate) ==
    IF list # <<>> /\ ~failed
    THEN /\ items' = Tail(list)
         /\ op' = [fate EXCEPT ![Head(list).op] = "running"]
         /\ draining' = TRUE
    ELSE /\ items' = list /\ op' = fate
         /\ draining' = FALSE

(* enqueue().                                                               *)
EnqueueTx(o, priority) ==
    /\ op[o] = "new"
    /\ IF failed
       THEN /\ op' = [op EXCEPT ![o] = "refused"]
            /\ UNCHANGED <<items, nextSeq, draining>>
       ELSE LET list == InsertSorted(items, [op |-> o, priority |-> priority, seq |-> nextSeq])
            IN  /\ nextSeq' = nextSeq + 1
                /\ IF draining
                   THEN /\ items' = list
                        /\ op' = [op EXCEPT ![o] = "waiting"]
                        /\ UNCHANGED draining
                   ELSE LoopGoesOn(list, [op EXCEPT ![o] = "waiting"])
    /\ UNCHANGED <<failed, clears>>

(* getAccount() and the operation succeed.                                  *)
OperationSucceeds_LoopEnds(o) ==
    /\ op[o] = "running"
    /\ op' = [op EXCEPT ![o] = "resolved"]
    /\ draining' = FALSE
    /\ UNCHANGED <<items, nextSeq, failed, clears>>
OperationSucceeds(o) ==
    /\ op[o] = "running"
    /\ LoopGoesOn(items, [op EXCEPT ![o] = "resolved"])
    /\ UNCHANGED <<nextSeq, failed, clears>>

(* One of them fails: the queue is failed and everything left is rejected.  *)
OperationFails(o) ==
    /\ op[o] = "running"
    /\ failed' = TRUE
    /\ items' = <<>>
    /\ draining' = FALSE
    /\ op' = [p \in Operations |-> IF p = o \/ op[p] = "waiting" THEN "rejected" ELSE op[p]]
    /\ UNCHANGED <<nextSeq, clears>>

ClearTxQueue ==
    /\ clears \/ Running = {}
    /\ items' = <<>>
    /\ failed' = FALSE /\ draining' = FALSE
    /\ op' = [p \in Operations |-> IF op[p] = "waiting" THEN "rejected" ELSE op[p]]
    /\ UNCHANGED <<nextSeq, clears>>

OperationEnds == \E o \in Operations : OperationSucceeds(o) \/ OperationFails(o)

TxqNext ==
    \/ \E o \in Operations, priority \in TxPriorities : EnqueueTx(o, priority)
    \/ OperationEnds
    \/ ClearTxQueue

(* Whatever runs ends: it is a submission.                                  *)
TxqFairness == \A o \in Operations : WF_txqVars(OperationSucceeds(o) \/ OperationFails(o))

TxqSpec == TxqInit /\ [][TxqNext]_txqVars

-----------------------------------------------------------------------------
(* Unless clear() interrupts a running operation, the operations of the     *)
(* account are executed one at a time, the loop's flag says whether one is, *)
(* and no operation waits without a loop that will come to it.              *)
OneOperationAtATime ==
    /\ ~clears => Cardinality(Running) <= 1 /\ draining = (Running # {})
    /\ items # <<>> => Running # {}

(* Everything accepted is resolved or rejected, also when clear() leaves    *)
(* two loops at work.                                                       *)
OperationsSettle ==
    \A o \in Operations : op[o] = "waiting" ~> op[o] \in {"resolved", "rejected"}
=============================================================================
