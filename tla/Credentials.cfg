\* Two pvtr processes.
CONSTANTS
    Procs = {p, q}
    Issuers <- ThreeIssuers
    MetaIssuer <- NamedIssuer
    Lifetimes = {3}
    Rotates = TRUE
    MaxTokens = 2
    MaxTime = 3
    None = None
SYMMETRY AnyProcess
SPECIFICATION Spec
INVARIANT BearerFresh
INVARIANT ConsumedIsVisible
INVARIANT LogoutForgets
INVARIANT LoginServesPublish
CHECK_DEADLOCK FALSE
