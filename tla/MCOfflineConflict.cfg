\* The default configuration, nothing going wrong but the endpoint.
SPECIFICATION OfflineSpec
CONSTANTS
    Calls = {c1, c2}
    MaxQueueSize = 2
    Settings <- DefaultOnly
INVARIANTS
    ConflictMeansClosed
