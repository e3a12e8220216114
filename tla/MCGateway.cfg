SPECIFICATION Spec
CONSTANTS
    a = a
    b = b
    s1 = s1
    s2 = s2
    s3 = s3
    s4 = s4
    x = x
    y = y
    NoId = NoId
    RATE_LIMIT_TOKENS = 1
    RATE_LIMIT_FILL_RATE = 1
    RATE_LIMIT_COST = 1
    Procs = {a}
    Sockets = {s1, s2, s4}
    PeerIds = {x, y}
    Home <- HomeOf
    Ids <- SecondId
    Elapsed = {0, 1}
    MAX_MESSAGES = 4
CHECK_DEADLOCK FALSE
INVARIANTS
    LiveRegistrationKept
    ClosedSocketHoldsFewer
    GaugeCoversConnections

