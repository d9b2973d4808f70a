\* Two Mobilizes under every kind of settings; in the invasive ones a change
\* manager is attached between the two.
CONSTANTS
    A = A
    B = B
    C = C
    X = X
    me = me
    them = them
    lvl = lvl
    other = other
    key = key
    None = None
    Unreadable = Unreadable
    Dirs <- MC_Dirs
    Declared <- MC_Declared
    CatalogNamespaces <- COwned
    Levels = {lvl, other}
    MaxLoads = 1
    MaxSuites = 2
    Settings <- MC_Settings
    RequiredVars = {key}
    Loaders = {"T"}
    Outcomes = {"Passed", "Failed"}
    MaxOps = 2
    MaxRuns = 2
    Names = {n1}
    Targets = {"repo", ""}
    ReAdd = TRUE
    Absent = Absent
SPECIFICATION Spec
INVARIANT ManifestListsOwnControls
INVARIANT SuiteHasItsImports
INVARIANT ExitReflectsControls
INVARIANT RestoredAfterEvaluate
INVARIANT SuiteHaltsOnCorruption
INVARIANT OutputsOfThisRun
PROPERTY JudgesItsPayload
CHECK_DEADLOCK FALSE
