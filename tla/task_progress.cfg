\* Liveness of turns, stops and tasks under the fairness of the worker loops.
SPECIFICATION FairSpec
CONSTANTS
    MaxTurns = 6
    MaxTasks = 3
    MaxSessions = 3
    MaxMessages = 3
    MaxBatch = 1
    MaxRestarts = 0
    InitialLimit = 2
    BudgetAmount = 1
    Kinds <- ProgressMenu
    StorageFaults = FALSE
PROPERTIES
    TurnsFinish
    HaltsFinish
    TasksProgress
\* The bounds run out: no message, restart or deadline is left to come.
CHECK_DEADLOCK FALSE
