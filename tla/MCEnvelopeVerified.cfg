SPECIFICATION SpecPages
CONSTANTS
    Texts = {hello, empty}
    DefaultText = hello
    EmptyText = empty
    Nothing = Nothing
    Failed = Failed
    MAX_KEYS <- FirstRun
    MAX_JOBS = 2
    MAX_FAILURES = 0
    PrimeCount = 2
INVARIANTS
    FailureIsNotVerified
