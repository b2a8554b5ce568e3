SPECIFICATION Spec
CONSTANTS
    Sessions = {s1, s2}
    Keys = {k1, k2}
    Accounts = {{k1}, {k2}}
    Requests = {r1, r2, r3}
    MaxSessions = 2
    IdleTimeout = 0
    SessionTTL = 1
    MaxStopAttempts = 2
    MaxTeardownAttempts = 2
    Faults = {"gns3", "lost_reply", "empty_body", "db", "crash"}
    NoSession = NoSession
    NoKey = NoKey
SYMMETRY Symmetry
INVARIANTS TypeOK LinkInv NoNilProject
PROPERTIES HonestReaper FailedIsFinal
