\* Without late renewals or lost locks: only crashes and restarts.
SPECIFICATION FairSpec
CONSTANTS
    Turns = {q1}
    p1 = p1
    p2 = p2
    Procs <- OneProc
    Credentials <- SameCredentials
    MaxParts = 1
    MaxAttempts = 2
    MaxStarts = 2
    Faults = FALSE
PROPERTY RepliesResume
\* The service may be down for good, and a reply once sent is the end of it.
CHECK_DEADLOCK FALSE
