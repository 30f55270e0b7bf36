\* A request, two logins, a change of the selection and a restart, with failing commits.
SPECIFICATION FairSpec
CONSTANTS
    r1 = r1
    r2 = r2
    o1 = o1
    o2 = o2
    c1 = c1
    c2 = c2
    Requests = {r1}
    Logins = {o1, o2}
    Providers = {"pi", "other"}
    Accounts = {"old", "new"}
    Choosers = {c1}
    FirstProvider = "pi"
    FirstAccount = "old"
    MaxChoices = 1
    MaxRestarts = 1
    MaxAttempts = 2
    Faults = TRUE
INVARIANTS
    TypeOK
    DrainedBeforeCommit
    AccountKept
PROPERTIES
    EndIsFinal
    WaitersProceed
\* The bounds on attempts, logins and restarts end a behaviour.
CHECK_DEADLOCK FALSE
