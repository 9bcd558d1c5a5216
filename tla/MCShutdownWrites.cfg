\* The client of this SDK: two writes, either reaction to a timeout.
SPECIFICATION ShutdownSpec
CONSTANTS
    Writes = {w1, w2}
    Clients = {"sdk"}
    TimeoutActions = {"force", "error"}
PROPERTIES
    NoWriteAfterShutdown
CHECK_DEADLOCK FALSE
