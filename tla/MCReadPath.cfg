\* Each part alone.  Three optimistic mutations settled in any order by every kind of
\* application; two reads of two invoices through a cache of two entries; three
\* subscriptions over four ledgers, with failed polls and restarts; two tabs and
\* three invalidations of everything or of a method; one subscription of two loops over
\* three ledgers; five records, a buffer of three of
\* which a reconnection gives up to two again.
SPECIFICATION ReadPathSpec
CONSTANTS
    Mutations = {m1, m2, m3}
    Readers = {r1}
    Missing = Missing
    Usages <- AllUsages
    Invoices = {i1, i2}
    Reads = {g1, g2}
    MaxEntries = 2
    Dedupe = TRUE
    MaxVersion = 2
    MaxStarts = 3
    MaxLedger = 4
    MaxPollRetries = 1
    Tabs = {t1, t2}
    TabInvoices = {i1, i2}
    MaxRequests = 3
    ByInvoice = FALSE
    MaxLoops = 2
    MaxTip = 3
    MaxRestarts = 1
    PollRetries = 1
    MaxRecords = 5
    DedupeSize = 3
    Overlap = 2
    MaxOverrides = 1
    MaxRefusals = 1
    ReconnectLimits = {0, 1}
INVARIANTS
    
    
    
    EvictionOnItsWay
    
    
PROPERTIES
    RollbackKeepsLater
CHECK_DEADLOCK FALSE
