CONSTANTS
    Calls = {c1, c2, c3}
    MaxHits = 2
    MaxWindows = 1
    Handshakes = {h1}
    Actors = {a1}
    Fields = {f, g}
    Sessions = {s1}
    Lifetime = 1
    MaxTime = 2
    KeyIds = {k1, k2}
    KeyTexts = {p}
    RetentionDays = 1
    MaxDay = 3
    Durations = {4, 20480}
    MaxFailures = 1
SPECIFICATION Spec
SYMMETRY SymmetricCalls
CONSTRAINTS OneConcern StopAtShown
INVARIANTS RepliesMatchEffects LossNeedsOverlap TidyAfterPurge DeletionsReported SummaryFits
PROPERTIES ValidBeforeExpiry DirectoryIsSerial
CHECK_DEADLOCK FALSE
