\* Two sessions of one user, two incarnations that may overlap, one hand edit.
SPECIFICATION Spec
CONSTANTS
    u1 = u1
    s1 = s1
    s2 = s2
    p1 = p1
    p2 = p2
    Sessions = {s1, s2}
    Owners = {u1}
    OwnerOf <- OneOwner
    Procs = {p1, p2}
    MaxEdits = 1
    Faults = TRUE
SYMMETRY Symmetry
INVARIANTS
    TypeOK
    DetailMatches
    NothingForgotten
    MergedOnce
PROPERTIES
    OverviewOnlyGrows
    DetailFrozen
\* Every incarnation may be gone.
CHECK_DEADLOCK FALSE
