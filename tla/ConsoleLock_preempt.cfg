SPECIFICATION FairSpec
CONSTANTS
    Nodes = {n1}
    Consoles = {c1, c2}
    Verifies = {v1, v2}
    MaxCommands = 2
    Preemption = TRUE
    None = None
INVARIANTS VerifyKeepsLock
PROPERTIES LocksReleased
CHECK_DEADLOCK FALSE
