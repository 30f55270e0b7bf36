\* Conversations ending under turns and permission requests, with failing storage.
SPECIFICATION Spec
CONSTANTS
    MaxTurns = 8
    MaxTasks = 3
    MaxSessions = 3
    MaxMessages = 3
    MaxBatch = 1
    MaxRestarts = 0
    InitialLimit = 2
    BudgetAmount = 1
    Kinds <- SessionMenu
    StorageFaults = TRUE
INVARIANTS
    TasksServed
    NewSeparates
PROPERTIES
    StoppedNeverCompletes
\* The bounds run out: no message, restart or deadline is left to come.
CHECK_DEADLOCK FALSE
