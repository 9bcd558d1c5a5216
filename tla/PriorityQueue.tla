--------------------------- MODULE PriorityQueue ---------------------------
(***************************************************************************)
(* src/priorityQueue.ts: the binary heap in an array, the drain loop that  *)
(* awaits one job at a time, drain() and shutdown().  The loop settles the *)
(* caller of a finished job and takes the next job in one turn of the      *)
(* event loop, and enqueue() starts an idle loop before it returns, so     *)
(* `running` is true exactly while a job is awaited.                       *)
(***************************************************************************)
EXTENDS Integers, Sequences, SequencesExt

CONSTANTS
    Jobs,      \* the jobs handed to enqueue()
    Drainers,  \* the calls of drain() and shutdown()
    NoJob,     \* no job is being executed
    Urgencies  \* priorities used: a subset of 0 (high), 1 (normal), 2 (low)

ASSUME UrgenciesAreValues == Urgencies \subseteq 0 .. 2
ASSUME NoJobIsNone == NoJob \notin Jobs

VARIABLES heap, seq, current, closed, fate, drain

vars == <<heap, seq, current, closed, fate, drain>>

Item == [job : Jobs, priority : 0 .. 2, seq : Nat]

(* Ranges, and arrival numbers that were all handed out before.             *)
TypeOK ==
    /\ heap \in Seq(Item)
    /\ \A i \in DOMAIN heap : heap[i].seq < seq
    /\ seq \in Nat
    /\ current \in Jobs \cup {NoJob}
    /\ closed \in BOOLEAN
    /\ fate \in [Jobs -> {"new", "waiting", "running", "resolved", "rejected", "refused"}]
    /\ drain \in [Drainers -> {"idle", "waiting", "done"}]

Init ==
    /\ heap = <<>>
    /\ seq = 0
    /\ current = NoJob
    /\ closed = FALSE
    /\ fate = [j \in Jobs |-> "new"]
    /\ drain = [d \in Drainers |-> "idle"]

-----------------------------------------------------------------------------
(* The heap.  TLA+ sequences start at 1, so the parent of i is i \div 2.    *)

Compare(a, b) == IF a.priority # b.priority THEN a.priority - b.priority ELSE a.seq - b.seq

Exchange(h, i, k) == [h EXCEPT ![i] = h[k], ![k] = h[i]]

(* What the loops of _insert() and _siftDown() keep: the array and the      *)
(* place of the item on its way.                                            *)
LoopStates == [heap : Seq(Item), at : Nat \ {0}]

(* One turn of the loop that moves the item up, and the loop, which takes   *)
(* no more turns than there are items on the way.                           *)
Up[s \in LoopStates] ==
    LET parent == s.at \div 2
    IN  IF s.at > 1 /\ Compare(s.heap[s.at], s.heap[parent]) < 0
        THEN [heap |-> Exchange(s.heap, s.at, parent), at |-> parent]
        ELSE s

SiftUp(h, i) ==
    LET turn[n \in 0 .. i] == IF n = 0 THEN [heap |-> h, at |-> i] ELSE Up[turn[n - 1]]
    IN  turn[i].heap

Insert(h, item) == SiftUp(Append(h, item), Len(h) + 1)

(* The smallest of i and its children.                                      *)
Smallest_LeftOnly(h, i) ==
    LET l == 2 * i IN IF l <= Len(h) /\ Compare(h[l], h[i]) < 0 THEN l ELSE i
Smallest(h, i) ==
    LET l == 2 * i
        r == 2 * i + 1
        m == IF l <= Len(h) /\ Compare(h[l], h[i]) < 0 THEN l ELSE i
    IN  IF r <= Len(h) /\ Compare(h[r], h[m]) < 0 THEN r ELSE m

(* The loop of _siftDown(): a turn exchanges the item with the smallest of  *)
(* its children, if that is smaller.                                        *)
Down[s \in LoopStates] ==
    LET m == Smallest(s.heap, s.at)
    IN  IF m = s.at THEN s ELSE [heap |-> Exchange(s.heap, s.at, m), at |-> m]

SiftDown(h, i) ==
    LET turn[n \in 0 .. Len(h)] == IF n = 0 THEN [heap |-> h, at |-> i] ELSE Down[turn[n - 1]]
    IN  turn[Len(h)].heap

(* What _extractMin leaves behind; the item it returns is h[1].             *)
WithoutMin(h) ==
    IF Len(h) = 1 THEN <<>>
    ELSE SiftDown([Front(h) EXCEPT ![1] = Last(h)], 1)

-----------------------------------------------------------------------------
(* enqueue().  An idle loop starts and takes the only item there is.        *)
Enqueue(j, priority) ==
    /\ fate[j] = "new"
    /\ IF closed
       THEN /\ fate' = [fate EXCEPT ![j] = "refused"]
            /\ UNCHANGED <<heap, seq, current>>
       ELSE /\ seq' = seq + 1
            /\ LET h == Insert(heap, [job |-> j, priority |-> priority, seq |-> seq])
               IN  IF current = NoJob
                   THEN /\ current' = h[1].job
                        /\ heap' = WithoutMin(h)
                        /\ fate' = [fate EXCEPT ![h[1].job] = "running"]
                   ELSE /\ heap' = h
                        /\ fate' = [fate EXCEPT ![j] = "waiting"]
                        /\ UNCHANGED current
    /\ UNCHANGED <<closed, drain>>

(* The awaited job resolves or rejects; the loop goes on or stops, and when *)
(* it stops it answers everyone who awaits the drain.                       *)
JobEnds_StopsOnError(outcome) ==
    /\ current # NoJob
    /\ fate' = [fate EXCEPT ![current] = outcome]
    /\ IF heap = <<>> \/ outcome = "rejected"
       THEN current' = NoJob /\ UNCHANGED heap
       ELSE current' = heap[1].job /\ heap' = WithoutMin(heap)
    /\ UNCHANGED <<seq, closed, drain>>

JobEnds(outcome) ==
    /\ current # NoJob
    /\ IF heap = <<>>
       THEN /\ current' = NoJob
            /\ fate' = [fate EXCEPT ![current] = outcome]
            /\ drain' = [d \in Drainers |-> IF drain[d] = "waiting" THEN "done" ELSE drain[d]]
            /\ UNCHANGED heap
       ELSE /\ current' = heap[1].job
            /\ heap' = WithoutMin(heap)
            /\ fate' = [fate EXCEPT ![current] = outcome, ![heap[1].job] = "running"]
            /\ UNCHANGED drain
    /\ UNCHANGED <<seq, closed>>

DrainCall(d) ==
    /\ drain[d] = "idle"
    /\ drain' = [drain EXCEPT ![d] = IF current = NoJob /\ heap = <<>> THEN "done" ELSE "waiting"]
    /\ UNCHANGED <<heap, seq, current, closed, fate>>

ShutdownCall(d) ==
    /\ drain[d] = "idle"
    /\ closed' = TRUE
    /\ drain' = [drain EXCEPT ![d] = IF current = NoJob /\ heap = <<>> THEN "done" ELSE "waiting"]
    /\ UNCHANGED <<heap, seq, current, fate>>

Next ==
    \/ \E j \in Jobs, priority \in Urgencies : Enqueue(j, priority)
    \/ \E outcome \in {"resolved", "rejected"} : JobEnds(outcome)
    \/ \E d \in Drainers : DrainCall(d) \/ ShutdownCall(d)

Spec == Init /\ [][Next]_vars

(* Every job ends: the submissions it runs have bounded polling loops.      *)
FairSpec == Spec /\ WF_vars(\E outcome \in {"resolved", "rejected"} : JobEnds(outcome))

-----------------------------------------------------------------------------
(* The array and the loop do what a queue that always picks the most urgent *)
(* and oldest entry does.                                                   *)
Abstract == INSTANCE SubmissionQueue WITH
              waiting <- ToSet(heap), arrivals <- seq, running <- current
ImplementsQueue == Abstract!QSpec

(* Everything accepted is settled, and drain() and shutdown() return.       *)
AcceptedIsSettled ==
    /\ \A j \in Jobs : fate[j] = "waiting" ~> fate[j] \in {"resolved", "rejected"}
    /\ \A d \in Drainers : drain[d] = "waiting" ~> drain[d] = "done"
=============================================================================
