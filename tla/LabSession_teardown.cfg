SPECIFICATION Spec
CONSTANTS
    Sessions = {s1}
    Keys = {k1}
    Accounts = {}
    Requests = {r1, r2}
    MaxSessions = 1
    IdleTimeout = 0
    SessionTTL = 1
    MaxStopAttempts = 2
    MaxTeardownAttempts = 2
    Faults = {}
    NoSession = NoSession
    NoKey = NoKey
SYMMETRY Symmetry
PROPERTIES OnlySuspendedIsTornDown
