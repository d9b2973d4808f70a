\* Two changes, any sequence of operations.
CONSTANTS
    Names = {n1, n2}
    Targets = {"repo", ""}
    ReAdd = TRUE
    Absent = Absent
SPECIFICATION CMSpec
INVARIANT AlterationsTracked
PROPERTY RevertAllSettles
PROPERTY FailedChangeLeftAlone
PROPERTY ImplementsChangeSet
