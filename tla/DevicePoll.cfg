\* Codes that live up to half a minute, or the default.
CONSTANTS
    ExpiresIn = {0, 1, 4, 6}
    Intervals = {0, 1, 2}
    HttpTimeout = 2
    DefaultExpiry = 12
    MaxInterval = 6
    Horizon = 10
SPECIFICATION FairSpec
INVARIANT AtMostOneLatePoll
PROPERTY PollReturns
CHECK_DEADLOCK FALSE
