SPECIFICATION WireSpec
CONSTANTS
    INITIATOR_ID = client
    RESPONDER_ID = remote
    Conns <- BothIds
    Sockets = {w1, w2}
    Runs = {r1}
    NetworkFails = FALSE
CHECK_DEADLOCK FALSE
PROPERTIES
    RunCompletes
