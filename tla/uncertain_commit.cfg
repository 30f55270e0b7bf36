\* A commit that fails leaves its provider open to the requests that wait at the gate.
SPECIFICATION Spec
CONSTANTS
    r1 = r1
    r2 = r2
    o1 = o1
    o2 = o2
    c1 = c1
    c2 = c2
    Requests = {r1}
    Logins = {o1}
    Providers = {"pi", "other"}
    Accounts = {"old", "new"}
    Choosers = {c1}
    FirstProvider = "pi"
    FirstAccount = "old"
    MaxChoices = 1
    MaxRestarts = 1
    MaxAttempts = 2
    Faults = TRUE
INVARIANT UncertainIsolated
\* Bounds end the run.
CHECK_DEADLOCK FALSE
