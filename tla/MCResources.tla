---------------------------- MODULE MCResources ----------------------------
(* What transactions borrow on their way to the network: the breakers'      *)
(* leave, an endpoint, a channel account, a sequence number, a nonce, a     *)
(* connection, a lazily made client, a socket they share, and the shutdown   *)
(* that takes them away.                                                    *)
(* They share nothing in the code: a behaviour is one of `part`, the others *)
(* stay as they are.                                                        *)
EXTENDS CircuitBreaker, ErrorBreaker, LoadBalancer, ChannelAccounts,
        NonceManager, LazyInitializer, ConnectionPool, GracefulShutdown,
        SequenceNumbers, StateSocket

VARIABLE part

(* The pool's settings: steady balances without and with a timeout, and     *)
(* balances that change, where only a timeout lets everybody leave.         *)
SteadyPool == [timeout |-> FALSE, topUps |-> FALSE]
TimedPool == [timeout |-> TRUE, topUps |-> FALSE]
RestlessPool == [timeout |-> TRUE, topUps |-> TRUE]

AllPoolSettings == {SteadyPool, TimedPool, RestlessPool}

Parts == {"breaker", "errors", "balancer", "channel", "nonce", "lazy",
          "connection", "shutdown", "sequence", "socket"}

ResourcesInit ==
    /\ part \in Parts
    /\ Init /\ ErrorInit /\ BalancerInit /\ ChannelInit /\ NonceInit /\ LazyInit
    /\ ConnectionInit /\ ShutdownInit /\ SequenceInit /\ SocketInit
    /\ part # "channel" => pool = SteadyPool /\ funded = Slots
    /\ part # "lazy" => ~midway
    /\ part # "shutdown" => client = "tracking" /\ onTimeout = "force"
    /\ part # "sequence" => ~hasty

(* Every part but p stays as it is.                                         *)
OthersStay(p) ==
    /\ p # "breaker" => UNCHANGED breakerVars
    /\ p # "errors" => UNCHANGED errorVars
    /\ p # "balancer" => UNCHANGED balancerVars
    /\ p # "channel" => UNCHANGED channelVars
    /\ p # "nonce" => UNCHANGED nonceVars
    /\ p # "lazy" => UNCHANGED lazyVars
    /\ p # "connection" => UNCHANGED connectionVars
    /\ p # "shutdown" => UNCHANGED shutdownVars
    /\ p # "sequence" => UNCHANGED sequenceVars
    /\ p # "socket" => UNCHANGED socketVars

ResourcesNext ==
    /\ UNCHANGED part
    /\ \/ part = "breaker" /\ Next /\ OthersStay("breaker")
       \/ part = "errors" /\ ErrorNext /\ OthersStay("errors")
       \/ part = "balancer" /\ BalancerNext /\ OthersStay("balancer")
       \/ part = "channel" /\ ChannelNext /\ OthersStay("channel")
       \/ part = "nonce" /\ NonceNext /\ OthersStay("nonce")
       \/ part = "lazy" /\ LazyNext /\ OthersStay("lazy")
       \/ part = "connection" /\ ConnectionNext /\ OthersStay("connection")
       \/ part = "shutdown" /\ ShutdownNext /\ OthersStay("shutdown")
       \/ part = "sequence" /\ SequenceNext /\ OthersStay("sequence")
       \/ part = "socket" /\ SocketNext /\ OthersStay("socket")

(* The fair steps of a part that is not under way are disabled, so the      *)
(* assumptions about all of them can be made together.                      *)
ResourcesSpec ==
    /\ ResourcesInit
    /\ [][ResourcesNext]_<<part, breakerVars, errorVars, balancerVars, channelVars,
                           nonceVars, lazyVars, connectionVars, shutdownVars, sequenceVars, socketVars>>
    /\ Fairness
    /\ ErrorFairness
    /\ BalancerFairness
    /\ ChannelFairness
    /\ SocketFairness

(* No outage lasts because of the client: breakers that opened are decided  *)
(* and close again below their thresholds, although stragglers report into  *)
(* every state, and endpoints in quarantine come back once they are well.   *)
OutagesEnd == CircuitIsDecided /\ OpenBreakerRecovers /\ QuarantineEnds
=============================================================================
