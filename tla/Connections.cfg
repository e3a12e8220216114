SPECIFICATION Spec
CONSTANTS
    RATE_LIMIT_TOKENS = 5
    RATE_LIMIT_FILL_RATE = 1
    RATE_LIMIT_COST = 2
    Peers = {p1}
    MAX_CLOCK = 5
    MAX_ADMITTED = 4
    CLOCK_MAY_STEP_BACK = FALSE
    ServerSockets = {s1, s2}
    WS_MAX_MISSED_PONGS = 2
INVARIANTS
    RateBound
    RefusedOnlyWhenExceeded
    TerminatedOnlyIfSilent
PROPERTIES
    SilentIsReaped
