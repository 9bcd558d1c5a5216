\* One reconnect allowed, and a server that refuses every connection.
SPECIFICATION HorizonSpec
CONSTANTS
    MaxRecords = 1
    DedupeSize = 1
    Overlap = 1
    MaxOverrides = 0
    MaxRefusals = 4
    ReconnectLimits = {1}
INVARIANTS
    GivesUpInTime
CHECK_DEADLOCK FALSE
