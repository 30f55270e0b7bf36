\* Controls and inputs of one batch against a run, with a restart.
SPECIFICATION Spec
CONSTANTS
    MaxTurns = 9
    MaxTasks = 3
    MaxSessions = 3
    MaxMessages = 3
    MaxBatch = 2
    MaxRestarts = 1
    InitialLimit = 2
    BudgetAmount = 1
    Kinds <- ControlMenu
    StorageFaults = FALSE
INVARIANTS
    TypeOK
    OneOpenTask
    AnsweredNewestInput
    BudgetHonoured
PROPERTIES
    PausedStays
    PublishedIsCurrent
    RefinesLifecycle
\* The bounds run out: no message, restart or deadline is left to come.
CHECK_DEADLOCK FALSE
