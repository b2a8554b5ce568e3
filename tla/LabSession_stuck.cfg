SPECIFICATION FairSpec
CONSTANTS
    Sessions = {s1}
    Keys = {k1}
    Accounts = {}
    Requests = {r1}
    MaxSessions = 1
    IdleTimeout = 0
    SessionTTL = 1
    MaxStopAttempts = 2
    MaxTeardownAttempts = 2
    Faults = {"crash"}
    NoSession = NoSession
    NoKey = NoKey
PROPERTIES EverySlotReclaimed
