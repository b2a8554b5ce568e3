SPECIFICATION Spec
CONSTANTS
    t1 = t1
    t2 = t2
    t3 = t3
    t4 = t4
    b1 = b1
    b2 = b2
    r1 = r1
    r2 = r2
    r3 = r3
    Tokens = {t1, t2, t3, t4}
    Browsers = {b1, b2}
    Requests = {r1, r2, r3}
    Faults = {"db", "abort"}
    None = None
SYMMETRY Symmetry
INVARIANTS
    TypeOK
    SweepEndsFamily
    SingleSession
    NoOrphan
    DeletedEnds
CHECK_DEADLOCK FALSE
