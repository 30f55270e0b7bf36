\* Progress: two sessions of one user, two incarnations one after the other, one hand edit.
SPECIFICATION FairSpec
CONSTANTS
    u1 = u1
    s1 = s1
    s2 = s2
    p1 = p1
    p2 = p2
    Sessions = {s1, s2}
    Owners = {u1}
    OwnerOf <- OneOwner
    Procs = {p1, p2}
    MaxEdits = 1
    Faults = FALSE
PROPERTIES
    RecordsInOrder
    JobsEnd
\* Every incarnation may be gone.
CHECK_DEADLOCK FALSE
