\* Two incarnations that may overlap, late renewals, lost locks and crashes.
SPECIFICATION FairSpec
CONSTANTS
    Turns = {q1}
    p1 = p1
    p2 = p2
    Procs <- TwoProcs
    Credentials <- OwnCredentials
    MaxParts = 2
    MaxAttempts = 2
    MaxStarts = 2
    Faults = TRUE
INVARIANTS
    TypeOK
    TurnTellsParts
    UploadMatches
PROPERTIES
    SettledNotResent
    InOrder
    RepliesEnd
\* The service may be down for good, and a reply once sent is the end of it.
CHECK_DEADLOCK FALSE
