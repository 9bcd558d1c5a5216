---------------------------- MODULE LoadBalancer ----------------------------
(***************************************************************************)
(* src/rpc/RpcLoadBalancer.ts: calls go to one of the healthy endpoints;   *)
(* an endpoint that fails too often is put into quarantine, and probed     *)
(* again and again once its quarantine is over.  Nothing keeps two rounds  *)
(* of probes apart: a probe that takes longer than the interval is joined  *)
(* by another, and may answer when the endpoint has been reinstated, or    *)
(* put into quarantine anew, since.                                        *)
(*                                                                         *)
(* Scores decide which healthy endpoint is taken, which is left open here. *)
(***************************************************************************)
EXTENDS Naturals, FiniteSets

CONSTANTS
    Endpoints,
    ErrorLimit,    \* CONSECUTIVE_ERROR_THRESHOLD
    MaxRpcs,       \* bound: calls under way at an endpoint
    MaxProbes      \* bound: probes under way at an endpoint

ASSUME EndpointsExist == Endpoints # {} /\ IsFiniteSet(Endpoints)
ASSUME BalancerBounds ==
    ErrorLimit \in Nat \ {0} /\ MaxRpcs \in Nat \ {0} /\ MaxProbes \in Nat \ {0}

VARIABLES
    endpoint,  \* each endpoint's record
    down       \* external: the endpoints that fail their health checks now

balancerVars == <<endpoint, down>>

(* quarantinedAt is "none", or counts as "recent" until the quarantine's    *)
(* duration has passed.                                                     *)
EndpointRecords ==
    [status : {"healthy", "quarantined"},
     quarantinedAt : {"none", "recent", "due"},
     recentErrors : 0 .. ErrorLimit,  \* recentErrorTimestamps, capped
     rpcs : 0 .. MaxRpcs,             \* calls that have not ended
     probes : 0 .. MaxProbes]         \* getHealth() calls that have not ended

BalancerTypeOK == endpoint \in [Endpoints -> EndpointRecords] /\ down \subseteq Endpoints

BalancerInit ==
    /\ endpoint = [e \in Endpoints |->
          [status |-> "healthy", quarantinedAt |-> "none", recentErrors |-> 0,
           rpcs |-> 0, probes |-> 0]]
    /\ down = {}

Healthy(e) == endpoint[e].status = "healthy"

(* selectEndpoint(): if none is healthy, a quarantined one.                 *)
SelectEndpoint(e) ==
    /\ Healthy(e) \/ \A f \in Endpoints : ~Healthy(f)
    /\ endpoint[e].rpcs < MaxRpcs
    /\ endpoint' = [endpoint EXCEPT ![e].rpcs = @ + 1]
    /\ UNCHANGED down

(* recordResult(), by endpoint: a call may end after its endpoint was       *)
(* demoted or reinstated.  Errors out of the window are dropped when the    *)
(* next one arrives.                                                        *)
RpcSucceeds(e) ==
    /\ endpoint[e].rpcs > 0
    /\ endpoint' = [endpoint EXCEPT ![e].rpcs = @ - 1, ![e].recentErrors = 0]
    /\ UNCHANGED down

Demoted(r) == [r EXCEPT !.status = "quarantined", !.quarantinedAt = "recent"]

RpcFails(e) ==
    /\ endpoint[e].rpcs > 0
    /\ \E n \in 1 .. endpoint[e].recentErrors + 1 :
         LET known == IF n > ErrorLimit THEN ErrorLimit ELSE n
             failed == [endpoint[e] EXCEPT !.rpcs = @ - 1, !.recentErrors = known]
         IN  endpoint' = [endpoint EXCEPT ![e] =
                 IF Healthy(e) /\ n >= ErrorLimit THEN Demoted(failed) ELSE failed]
    /\ UNCHANGED down

QuarantinePasses(e) ==
    /\ endpoint[e].quarantinedAt = "recent"
    /\ endpoint' = [endpoint EXCEPT ![e].quarantinedAt = "due"]
    /\ UNCHANGED down

(* runHealthChecks(), at every interval: a probe of each endpoint that is   *)
(* due, whether or not one is under way.                                    *)
Due(e) == endpoint[e].status = "quarantined" /\ endpoint[e].quarantinedAt = "due"

RunHealthChecks ==
    /\ \E e \in Endpoints : Due(e)
    /\ \A e \in Endpoints : Due(e) => endpoint[e].probes < MaxProbes
    /\ endpoint' = [e \in Endpoints |->
          IF Due(e) THEN [endpoint[e] EXCEPT !.probes = @ + 1] ELSE endpoint[e]]
    /\ UNCHANGED down

Reinstated(r) ==
    [r EXCEPT !.status = "healthy", !.quarantinedAt = "none", !.recentErrors = 0]

(* A probe ends, whatever has happened to the endpoint since it began.      *)
ProbeEnds(e) ==
    /\ endpoint[e].probes > 0
    /\ LET answered == [endpoint[e] EXCEPT !.probes = @ - 1]
       IN  endpoint' = [endpoint EXCEPT ![e] =
               IF e \notin down THEN Reinstated(answered)
               ELSE [answered EXCEPT !.quarantinedAt = "recent"]]
    /\ UNCHANGED down

(* External: endpoints fail and recover.                                    *)
OutageOf(e) ==
    /\ down' = IF e \in down THEN down \ {e} ELSE down \cup {e}
    /\ UNCHANGED endpoint

BalancerNext ==
    \E e \in Endpoints :
        \/ SelectEndpoint(e) \/ RpcSucceeds(e) \/ RpcFails(e)
        \/ QuarantinePasses(e) \/ ProbeEnds(e) \/ OutageOf(e)
        \/ RunHealthChecks

(* Time passes, the interval of start() goes on, and probes are answered.   *)
BalancerFairness ==
    /\ WF_balancerVars(RunHealthChecks)
    /\ \A e \in Endpoints : WF_balancerVars(QuarantinePasses(e)) /\ WF_balancerVars(ProbeEnds(e))

BalancerSpec == BalancerInit /\ [][BalancerNext]_balancerVars /\ BalancerFairness

-----------------------------------------------------------------------------
(* No endpoint in use has the errors that should have demoted it, however   *)
(* late results and probes arrive; and once endpoints pass their health     *)
(* checks for good, every endpoint in quarantine comes back into use.       *)
QuarantineEnds ==
    /\ [](\A e \in Endpoints : Healthy(e) => endpoint[e].recentErrors < ErrorLimit)
    /\ <>[](down = {}) => \A e \in Endpoints : ~Healthy(e) ~> Healthy(e)
=============================================================================
