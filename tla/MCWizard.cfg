SPECIFICATION ShellSpec
CONSTANTS
    StepCount = 6
    Materials = {none, m1}
    NoMaterial = none
    Texts = {hello, other}
    DefaultText = hello
    NoState = NoState
    Speeds = {5, 30}
    StoredSpeeds = {0, 15, Unset}
    StoredThemes = {"entropy", "solarized", Unset}
    Unset = Unset
    TutorialLength = 2
    NoHint = NoHint
INVARIANTS
    NothingSkipped
    ChoicesSurvive
PROPERTIES
    ProgressKept
    ReturnRestores
CONSTRAINT
    AboutOne
