SPECIFICATION Spec
CONSTANTS
    PartCount = 1
    Sessions = {s1, s2}
    NoSession = NoSession
    Calls = {c1, c2}
    NoCall = NoCall
    Workers = {w1, w2}
    MaxAttempts = 2
    Operator = {"retry", "reopen", "abort"}
    Faults = {"network", "lost", "source", "kill", "stop", "death", "db", "r2"}
    MaxFaults = 2
SYMMETRY Symmetry
INVARIANTS
    RowIsTrueOfR2
    OrphansHaveCause
    PhoneBelievesServer
CHECK_DEADLOCK FALSE
