\* Does an error of Evaluate reach the exit code?
CONSTANTS
    A = A
    B = B
    C = C
    X = X
    me = me
    them = them
    lvl = lvl
    other = other
    key = key
    None = None
    Unreadable = Unreadable
    Dirs <- MC_Dirs
    Declared <- WithoutSteps
    CatalogNamespaces <- COwned
    Levels = {lvl, other}
    MaxLoads = 1
    MaxSuites = 2
    Settings <- MC_Settings
    RequiredVars = {key}
    Loaders = {"T"}
    Outcomes = {"Passed", "Failed"}
    MaxOps = 2
    MaxRuns = 2
    Names = {n1}
    Targets = {"repo", ""}
    ReAdd = FALSE
    Absent = Absent
SPECIFICATION Spec
INVARIANT EvaluateErrorsReported
CHECK_DEADLOCK FALSE
