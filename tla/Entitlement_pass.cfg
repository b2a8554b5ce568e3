SPECIFICATION FairSpec
CONSTANTS
    s1 = s1
    l1 = l1
    None = None
    Logins = {l1}
    Month = 2
    MaxTime = 4

    Subs = {s1}
    Admin = TRUE
    Faults = {"reorder", "duplicate", "db"}
    MaxEvents = 3
INVARIANTS
    TypeOK
    PlanEnds
    Settled
PROPERTY
    PlanEndsWithPayment
