--------------------------- MODULE ConnectionPool ---------------------------
(***************************************************************************)
(* src/connectionPool.ts.  Every method runs in one turn of the event      *)
(* loop; its users hold connections across many.  A connection has an      *)
(* identity of its own (its random id), so that one that was removed from  *)
(* the pool while it was held is not one that was created later.           *)
(***************************************************************************)
EXTENDS Naturals, Sequences, FiniteSets, SequencesExt

CONSTANTS
    PoolUsers,       \* holders of connections
    MinConnections, MaxConnections,
    MaxCreated       \* bound: connections created

ASSUME ConnectionBounds ==
    /\ MinConnections \in Nat /\ MaxConnections \in Nat \ {0} /\ MaxCreated \in Nat
    /\ MinConnections <= MaxConnections /\ MinConnections <= MaxCreated

VARIABLES
    connections,  \* the keys of connections, which a Map gives in the order of creation
    idleQueue,    \* idleQueue: a stack of ids
    activeSet,    \* activeSet
    unhealthy,    \* connections with isHealthy = false
    held,         \* the connection each user works with, 0 for none
    created,      \* connections created so far; they are numbered
    shared        \* an exhausted pool has handed out a connection a second time

connectionVars == <<connections, idleQueue, activeSet, unhealthy, held, created, shared>>

ConnectionInit ==
    /\ connections = 1 .. MinConnections
    /\ idleQueue = [i \in 1 .. MinConnections |-> i]
    /\ activeSet = {} /\ unhealthy = {}
    /\ held = [u \in PoolUsers |-> 0]
    /\ created = MinConnections
    /\ shared = FALSE

Taken(u, id, idle) ==
    /\ held' = [held EXCEPT ![u] = id]
    /\ idleQueue' = idle
    /\ activeSet' = activeSet \cup {id}

(* cleanupIdle(): connections idle for too long are closed, down to the     *)
(* minimum.  The stack is sorted by the time of the last use.               *)
Cleanups ==
    0 .. IF Cardinality(connections) > MinConnections
         THEN LET spare == Cardinality(connections) - MinConnections
              IN  IF Len(idleQueue) < spare THEN Len(idleQueue) ELSE spare
         ELSE 0

Oldest(ids) == CHOOSE id \in ids : \A other \in ids : id <= other

(* acquire(): the most recent idle connection, a new one, or, in a pool     *)
(* that is exhausted, the first connection of all.                          *)
AcquireConnection(u) ==
    /\ held[u] = 0
    /\ \E k \in Cleanups :
          LET closed == ToSet(SubSeq(idleQueue, 1, k))
              idle == SubSeq(idleQueue, k + 1, Len(idleQueue))
              open == connections \ closed
          IN  \/ /\ idle # <<>>
                 /\ Taken(u, Last(idle), Front(idle))
                 /\ connections' = open
                 /\ UNCHANGED <<created, shared>>
              \/ /\ idle = <<>> /\ Cardinality(open) < MaxConnections /\ created < MaxCreated
                 /\ Taken(u, created + 1, <<>>)
                 /\ connections' = open \cup {created + 1}
                 /\ created' = created + 1
                 /\ UNCHANGED shared
              \/ /\ idle = <<>> /\ Cardinality(open) >= MaxConnections
                 /\ Taken(u, Oldest(open), <<>>)
                 /\ connections' = open
                 /\ shared' = TRUE
                 /\ UNCHANGED created
    /\ UNCHANGED unhealthy

(* execute() rejects: the connection is marked.                             *)
ExecuteFails(u) ==
    /\ held[u] # 0
    /\ unhealthy' = unhealthy \cup {held[u]}
    /\ UNCHANGED <<connections, idleQueue, activeSet, held, created, shared>>

(* release(): ignored for a connection that is not active.                  *)
ReleaseConnection_KeepsBroken(u) ==
    /\ held[u] # 0
    /\ held' = [held EXCEPT ![u] = 0]
    /\ IF held[u] \in activeSet
       THEN /\ activeSet' = activeSet \ {held[u]}
            /\ idleQueue' = Append(idleQueue, held[u])
       ELSE UNCHANGED <<activeSet, idleQueue>>
    /\ UNCHANGED <<connections, unhealthy, created, shared>>
ReleaseConnection(u) ==
    /\ held[u] # 0
    /\ held' = [held EXCEPT ![u] = 0]
    /\ IF held[u] \in activeSet
       THEN /\ activeSet' = activeSet \ {held[u]}
            /\ IF held[u] \in unhealthy
               THEN /\ connections' = connections \ {held[u]}
                    /\ UNCHANGED idleQueue
               ELSE /\ idleQueue' = Append(idleQueue, held[u])
                    /\ UNCHANGED connections
       ELSE UNCHANGED <<connections, idleQueue, activeSet>>
    /\ UNCHANGED <<unhealthy, created, shared>>

(* The members of S in a sequence without repetition, in its order.         *)
LeftInOrder(seq, S) ==
    LET members == ToSet(seq) \cap S
    IN  {left \in [1 .. Cardinality(members) -> members] :
           \A i, j \in DOMAIN left, m, n \in DOMAIN seq :
               left[i] = seq[m] /\ left[j] = seq[n] => (i < j <=> m < n)}

(* checkHealth(): unhealthy connections leave the pool, also those that are *)
(* held, and the pool is filled up to its minimum.                          *)
CheckHealth ==
    LET healthy == connections \ unhealthy
        missing == IF MinConnections > Cardinality(healthy)
                   THEN MinConnections - Cardinality(healthy) ELSE 0
    IN  /\ created + missing <= MaxCreated
        /\ connections' = healthy \cup (created + 1 .. created + missing)
        /\ \E left \in LeftInOrder(idleQueue, healthy) :
              idleQueue' = left \o [i \in 1 .. missing |-> created + i]
        /\ activeSet' = activeSet \ unhealthy
        /\ created' = created + missing
        /\ UNCHANGED <<unhealthy, held, shared>>

DestroyPool ==
    /\ connections' = {} /\ idleQueue' = <<>> /\ activeSet' = {}
    /\ UNCHANGED <<unhealthy, held, created, shared>>

ConnectionNext ==
    \/ \E u \in PoolUsers : AcquireConnection(u) \/ ExecuteFails(u) \/ ReleaseConnection(u)
    \/ CheckHealth
    \/ DestroyPool

ConnectionSpec == ConnectionInit /\ [][ConnectionNext]_connectionVars

-----------------------------------------------------------------------------
(* The books agree whatever is shared, fails or is released late: what is   *)
(* idle or active is in the pool, nothing is both or idle twice, and the    *)
(* pool keeps its bound.  As long as the pool was never exhausted a         *)
(* connection has one holder, and no broken connection is idle.             *)
PoolBooksAgree ==
    /\ ToSet(idleQueue) \cup activeSet \subseteq connections
    /\ ToSet(idleQueue) \cap activeSet = {}
    /\ IsInjective(idleQueue)
    /\ Cardinality(connections) <= MaxConnections
    /\ ~shared =>
          /\ \A u, v \in PoolUsers : held[u] = held[v] /\ held[u] # 0 => u = v
          /\ activeSet = {held[u] : u \in PoolUsers} \cap connections
          /\ ToSet(idleQueue) \cap unhealthy = {}
=============================================================================
