\* Any set of six versions, scanned in any order, any number of times.
CONSTANTS
    Versions <- Strings
    SemVer <- MC_SemVer
    Lexical <- MC_Lexical
    None = None
SPECIFICATION Spec
INVARIANT LatestIsHighest
INVARIANT OrderedIsDeterministic
