\* A permission is revoked between its confirmation and the continuation.
SPECIFICATION Spec
CONSTANTS
    MaxTurns = 6
    MaxTasks = 3
    MaxSessions = 3
    MaxMessages = 3
    MaxBatch = 1
    MaxRestarts = 0
    InitialLimit = 2
    BudgetAmount = 1
    Kinds <- RevokeMenu
    StorageFaults = FALSE
INVARIANTS
    QueuedHasTurn
\* The bounds run out: no message, restart or deadline is left to come.
CHECK_DEADLOCK FALSE
