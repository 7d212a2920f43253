SPECIFICATION Spec
CONSTANTS
    s1 = s1  s2 = s2
    i1 = i1
    Session = {s1, s2}
    SessionId = {i1}
    IdOf <- MCIdOf
    Bucket = 3
    TTL = 9
    Period = 3
    Latency = 3
    MaxTime = 15
SYMMETRY Sessions
INVARIANTS PresenceMatchesLog AttentiveListed
CHECK_DEADLOCK FALSE
