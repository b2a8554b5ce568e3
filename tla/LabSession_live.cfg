SPECIFICATION FairSpec
CONSTANTS
    Sessions = {s1, s2}
    Keys = {k1}
    Accounts = {}
    Requests = {r1, r2, r3}
    MaxSessions = 2
    IdleTimeout = 0
    SessionTTL = 0
    MaxStopAttempts = 2
    MaxTeardownAttempts = 1
    Faults = {"gns3"}
    NoSession = NoSession
    NoKey = NoKey
PROPERTIES SlotsReclaimed ProvisioningResolves SweepTerminates
