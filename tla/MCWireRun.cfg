SPECIFICATION WireSpec
CONSTANTS
    INITIATOR_ID = client
    RESPONDER_ID = remote
    Conns <- BothIds
    Sockets = {w1, w2, w3, w4}
    Runs = {r1, r2}
    NetworkFails = TRUE
CHECK_DEADLOCK FALSE
INVARIANTS
    NoOrphanSocket
    ConnectedIsOpen
    NothingLeftOpen
PROPERTIES
    WaitingEnds
