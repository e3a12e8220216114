SPECIFICATION SpecPages
CONSTANTS
    Texts = {hello, empty}
    DefaultText = hello
    EmptyText = empty
    Nothing = Nothing
    Failed = Failed
    MAX_KEYS <- TwoSessionKeys
    MAX_JOBS = 2
    MAX_FAILURES = 1
    PrimeCount = 2
INVARIANTS
    EnvelopeOpens
PROPERTIES
    StepFourWraps
    BusyEnds
    OnlyLateResultsMislead
