SPECIFICATION Spec
CONSTANTS
    Nodes = {n1, n2}
    Consoles = {c1, c2}
    Verifies = {v1, v2}
    MaxCommands = 2
    Preemption = FALSE
    None = None
SYMMETRY Symmetry
INVARIANTS TypeOK LockInv SingleConnection
PROPERTIES ExclusiveAccess
CHECK_DEADLOCK FALSE
