-------------------------- MODULE SubmissionQueue --------------------------
(***************************************************************************)
(* What the queue of src/priorityQueue.ts promises its callers: one job at *)
(* a time, the most urgent first and equally urgent ones in the order they *)
(* came, nothing accepted after shutdown, and drain() answered when        *)
(* nothing is left.                                                        *)
(***************************************************************************)
EXTENDS Naturals, FiniteSets

CONSTANTS Jobs, Drainers, NoJob

Priorities == 0 .. 2

VARIABLES
    waiting,   \* the entries waiting: job, priority, arrival number
    arrivals,  \* how many entries have been accepted
    running,   \* the job being executed, or NoJob
    closed,    \* shutdown() was called
    fate,      \* what has become of each job
    drain      \* what has become of each call of drain() or shutdown()

queueVars == <<waiting, arrivals, running, closed, fate, drain>>

Entries == [job : Jobs, priority : Priorities, seq : Nat]

(* e runs before f.                                                         *)
Precedes(e, f) ==
    \/ e.priority < f.priority
    \/ e.priority = f.priority /\ e.seq < f.seq

QInit ==
    /\ waiting = {}
    /\ arrivals = 0
    /\ running = NoJob
    /\ closed = FALSE
    /\ fate = [j \in Jobs |-> "new"]
    /\ drain = [d \in Drainers |-> "idle"]

Refuse(j) ==
    /\ fate[j] = "new" /\ closed
    /\ fate' = [fate EXCEPT ![j] = "refused"]
    /\ UNCHANGED <<waiting, arrivals, running, closed, drain>>

Accept(j, priority) ==
    /\ fate[j] = "new" /\ ~closed
    /\ arrivals' = arrivals + 1
    /\ IF running = NoJob
       THEN /\ running' = j
            /\ fate' = [fate EXCEPT ![j] = "running"]
            /\ UNCHANGED waiting
       ELSE /\ waiting' = waiting \cup {[job |-> j, priority |-> priority, seq |-> arrivals]}
            /\ fate' = [fate EXCEPT ![j] = "waiting"]
            /\ UNCHANGED running
    /\ UNCHANGED <<closed, drain>>

Settle(j, outcome) ==
    /\ running = j /\ j # NoJob
    /\ IF waiting = {}
       THEN /\ running' = NoJob
            /\ fate' = [fate EXCEPT ![j] = outcome]
            /\ drain' = [d \in Drainers |-> IF drain[d] = "waiting" THEN "done" ELSE drain[d]]
            /\ UNCHANGED waiting
       ELSE \E e \in waiting :
            /\ \A f \in waiting \ {e} : Precedes(e, f)
            /\ running' = e.job
            /\ waiting' = waiting \ {e}
            /\ fate' = [fate EXCEPT ![j] = outcome, ![e.job] = "running"]
            /\ UNCHANGED drain
    /\ UNCHANGED <<arrivals, closed>>

(* drain(), alone or as the end of shutdown().                              *)
AwaitDrain(d, closes) ==
    /\ drain[d] = "idle"
    /\ closed' = (closed \/ closes)
    /\ drain' = [drain EXCEPT ![d] = IF running = NoJob THEN "done" ELSE "waiting"]
    /\ UNCHANGED <<waiting, arrivals, running, fate>>

QNext ==
    \/ \E j \in Jobs : \/ Refuse(j)
                       \/ \E priority \in Priorities : Accept(j, priority)
                       \/ \E outcome \in {"resolved", "rejected"} : Settle(j, outcome)
    \/ \E d \in Drainers, closes \in BOOLEAN : AwaitDrain(d, closes)

QSpec == QInit /\ [][QNext]_queueVars
=============================================================================
