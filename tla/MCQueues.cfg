\* Each queue alone: five jobs of two priorities (a heap of up to four items, three
\* levels deep); four operations; three items, three rounds and a crash; three
\* offline calls, a queue of two, and crashes at any moment; three requests of two
\* priorities, two polls at once.
SPECIFICATION QueuesSpec
CONSTANTS
    Jobs = {j1, j2, j3, j4, j5}
    Drainers = {d1}
    NoJob = NoJob
    Urgencies = {0, 1}
    Operations = {o1, o2, o3, o4}
    TxPriorities = {0, 1}
    ClearsMidRun = {TRUE, FALSE}
    NumItems = 3
    MaxRounds = 3
    MaxCrashes = 1
    Calls = {c1, c2, c3}
    MaxQueueSize = 2
    Settings <- AllSettings
    Requests = {r1, r2, r3}
    RequestPriorities = {1, 5}
    MaxChecks = 2
INVARIANTS
    OneOperationAtATime
    
    
    
    
PROPERTIES
    ImplementsQueue
    QueuesSettle
CHECK_DEADLOCK FALSE
