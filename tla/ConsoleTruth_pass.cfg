SPECIFICATION FairSpec
CONSTANTS
    a1 = a1
    a2 = a2
    a3 = a3
    c1 = c1
    c2 = c2
    Assertions = {a1, a2, a3}
    Commands = {c1, c2}
    Reads <- MCReads
    None = None
    Faults = {"replay", "timer_lag"}
    MaxPending = 1
INVARIANTS
    TypeOK
    OneSnapshot
    PassJustified
PROPERTY
    RunEnds
