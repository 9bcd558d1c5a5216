--------------------------- MODULE OperationQueue ---------------------------
(***************************************************************************)
(* src/operationQueue.ts: requests made while offline are kept until       *)
(* setOnline(true) starts a drain.  A drain goes on until nothing is left, *)
(* also when the connection is lost again meanwhile, so that the next      *)
(* return of the connection starts another one beside it.  Each drain      *)
(* awaits one request: the requests under way stand for the drains.        *)
(***************************************************************************)
EXTENDS Naturals, Sequences, SequencesExt

CONSTANTS
    Requests,          \* the operations handed to enqueue()
    RequestPriorities, \* priorities used; higher ones are drained first
    MaxChecks          \* bound: health checks under way at the same time

ASSUME OperationQueueSettings == RequestPriorities \subseteq Nat /\ MaxChecks \in Nat

VARIABLES
    buffer,     \* _queue: <<request, priority>>
    connected,  \* _online
    polling,    \* _timer: the interval is set
    checks,     \* health checks that have not answered
    request     \* what became of each request

opqVars == <<buffer, connected, polling, checks, request>>

OpqInit ==
    /\ buffer = <<>> /\ connected = TRUE
    /\ polling = FALSE /\ checks = 0
    /\ request = [r \in Requests |-> "new"]

Drained == {r \in Requests : request[r] = "drained"}

-----------------------------------------------------------------------------
(* The sort at the start of a drain, which keeps the order of equals.       *)
ByPriority(list) ==
    LET before(i, j) == \/ list[i][2] > list[j][2]
                        \/ list[i][2] = list[j][2] /\ i < j
        orders == {order \in Bijection(DOMAIN list, DOMAIN list) :
                     \A i, j \in DOMAIN list : i < j => before(order[i], order[j])}
    IN  {[i \in DOMAIN list |-> list[order[i]]] : order \in orders}

(* A drain at its condition: shift the next request and execute it, or end. *)
DrainGoesOn(list, requests) ==
    IF list = <<>>
    THEN buffer' = list /\ request' = requests
    ELSE buffer' = Tail(list) /\ request' = [requests EXCEPT ![Head(list)[1]] = "drained"]

EnqueueRequest(r, priority) ==
    /\ request[r] = "new"
    /\ IF connected
       THEN request' = [request EXCEPT ![r] = "direct"] /\ UNCHANGED buffer
       ELSE /\ request' = [request EXCEPT ![r] = "buffered"]
            /\ buffer' = Append(buffer, <<r, priority>>)
    /\ UNCHANGED <<connected, polling, checks>>

(* setOnline(), by the application or with the answer of a health check.    *)
SetOnline_OneDrain(value) ==
    /\ connected' = value
    /\ IF value /\ ~connected /\ Drained = {}
       THEN \E list \in ByPriority(buffer) : DrainGoesOn(list, request)
       ELSE UNCHANGED <<buffer, request>>
SetOnline(value) ==
    /\ connected' = value
    /\ IF value /\ ~connected
       THEN \E list \in ByPriority(buffer) : DrainGoesOn(list, request)
       ELSE UNCHANGED <<buffer, request>>

ApplicationSetsOnline ==
    /\ \E value \in BOOLEAN : SetOnline(value)
    /\ UNCHANGED <<polling, checks>>

StartOrStopPolling ==
    /\ polling' = ~polling
    /\ UNCHANGED <<buffer, connected, checks, request>>

(* _poll(): a check that is slower than the interval overlaps with the next *)
(* one, and stop() does not take back those that are under way.             *)
PollBegins ==
    /\ polling /\ checks < MaxChecks
    /\ checks' = checks + 1
    /\ UNCHANGED <<buffer, connected, polling, request>>

PollAnswers ==
    /\ checks > 0
    /\ checks' = checks - 1
    /\ \E reachable \in BOOLEAN : SetOnline(reachable)
    /\ UNCHANGED polling

(* The executor of a request settles; its drain takes the next one.         *)
RequestSettles(r, outcome) ==
    /\ \/ /\ request[r] = "drained"
          /\ DrainGoesOn(buffer, [request EXCEPT ![r] = outcome])
       \/ /\ request[r] = "direct"
          /\ request' = [request EXCEPT ![r] = outcome]
          /\ UNCHANGED buffer
    /\ UNCHANGED <<connected, polling, checks>>

RequestEnds(r) == \E outcome \in {"resolved", "rejected"} : RequestSettles(r, outcome)

OpqNext ==
    \/ \E r \in Requests, priority \in RequestPriorities : EnqueueRequest(r, priority)
    \/ ApplicationSetsOnline
    \/ StartOrStopPolling
    \/ PollBegins \/ PollAnswers
    \/ \E r \in Requests : RequestEnds(r)

(* Every execution ends: it is a call with a timeout of its own.            *)
OpqFairness == \A r \in Requests : WF_opqVars(RequestEnds(r))

OpqSpec == OpqInit /\ [][OpqNext]_opqVars /\ OpqFairness

-----------------------------------------------------------------------------
(* While the client is online, whatever is still buffered is ordered by     *)
(* priority and some drain is at work on it, although connections come and  *)
(* go during drains, polls answer late and drains overlap: requests that    *)
(* arrive behind the back of a running drain are neither overtaken by less  *)
(* urgent ones nor left behind.                                             *)
DrainedByPriority ==
    connected =>
        /\ buffer # <<>> => Drained # {}
        /\ \A i, j \in DOMAIN buffer : i < j => buffer[i][2] >= buffer[j][2]

(* What is buffered when the connection is back is executed, also when the  *)
(* connection goes away again at once.                                      *)
RequestsSettle ==
    \A r \in Requests :
        (request[r] = "buffered" /\ connected) ~> request[r] \in {"resolved", "rejected"}
=============================================================================
