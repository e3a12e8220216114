SPECIFICATION Spec
CONSTANTS
    MaxVisits = 2
    Steps = {1, 2, 3, 5}
    MaxPages = 2
    Delays = 1
    MaxJobs = 1
    MaxStays = 2
    Cells = {1, 2}
    Bits = 5
    ProgressEvery = 8
    MaxRuns = 2
    Inputs <- Sample
    Width = 2
    Ciphertexts <- Texts
    AtRandom = 3
    MaxMounts = 2
INVARIANTS
    CellsAreBits
    EngineReleased
    OneClock
    NoStrangerOnStage
    StoredIsShown
    MatrixIsCiphertext
    CrackedIsTrue
    IsStandard
PROPERTIES
    AnimationsEnd
CHECK_DEADLOCK FALSE
