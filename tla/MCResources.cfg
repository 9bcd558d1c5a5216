\* Each part alone.  Breaker: three overlapping calls, one probe, two successes to
\* close, reset() twice at any moment.  Legacy breaker: three calls.
\* Two endpoints with two calls and two probes each.  Channels: three callers for two accounts.
\* Nonces: three users, four nonces, a history of two.  Lazy: three attempts with a
\* retry.  Connections: three users, one to two connections.  Shutdown: three writes.
\* Sequence numbers: two callers, two fetched entries.  Socket: two
\* subscriptions, two connections.
SPECIFICATION ResourcesSpec
CONSTANTS
    ErrorThreshold = 2
    MaxOverlap = 3
    MaxErrors = 3
    Endpoints = {e1, e2}
    ErrorLimit = 2
    MaxRpcs = 2
    MaxProbes = 2
    Calls = {c1, c2, c3}
    FailureThreshold = 2
    SuccessThreshold = 2
    ProbeCount = 1
    MaxFailureCount = 3
    MaxResets = 2
    Acquirers = {q1, q2, q3}
    NumSlots = 2
    PoolSettings <- AllPoolSettings
    NonceUsers = {u1, u2, u3}
    NoNonce = NoNonce
    ReplayWindow = 2
    Strict = TRUE
    MaxNonce = 4
    MaxRetries = 1
    MaxAttempts = 3
    MidwaySettings = {TRUE, FALSE}
    PoolUsers = {p1, p2, p3}
    MinConnections = 1
    MaxConnections = 2
    MaxCreated = 5
    Writes = {w1, w2, w3}
    Clients = {"tracking", "sdk"}
    TimeoutActions = {"force", "error"}
    SeqCallers = {k1, k2}
    MaxEntriesMade = 2
    MaxSequence = 3
    HasteSettings = {TRUE, FALSE}
    Watchers = {x1, x2}
    SocketAttempts = 1
    MaxFilters = 2
    MaxOpens = 2
INVARIANTS
    ProbeLimit
    ClosedBelowThreshold
    SlotHasOneHolder
    
    
    PoolBooksAgree
    DrainedBeforeTeardown
    NumberGivenOnce
PROPERTIES
    OutagesEnd
    AcquireEnds
    SubscribersServed
CHECK_DEADLOCK FALSE
