SPECIFICATION Spec
CONSTANTS
    Calls = {c1, c2, c3}
CHECK_DEADLOCK FALSE
INVARIANTS
    PendingIsExact
PROPERTIES
    KeepsPromise
    CallsSettle
