SPECIFICATION HeartbeatSpec
CONSTANTS
    ServerSockets = {s1}
    WS_MAX_MISSED_PONGS = 2
INVARIANTS
    DisconnectedOnMissed
