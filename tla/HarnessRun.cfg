\* A run with and without autoinstall, after at most one other command.
CONSTANTS
    p = p
    l = l
    x = x
    i1 = i1
    i2 = i2
    alice = alice
    a = a
    b = b
    c = c
    d = d
    e = e
    f = f
    None = None
    Plugins = {p, l, x}
    MaxVersion = 2
    Requests <- WithOthers
    Configs <- FromThoseTwo
    MaxConcurrent = 2
    Indexes = {i1, i2}
    ConfigOf <- MC_ConfigOf
    SignersOf <- MC_SignersOf
    Details <- AnsweredWithP
    HubDigest <- NoneRecorded
    Locals = {l}
    Builds = {b1}
    MaxCommands = 2
    Services = {a, b, c, d, e, f}
    Asks <- SharedPlugin
    RunConfigs <- Mixtures
    PluginCodes = {"TestPass", "TestFail", "BadUsage", "InternalError"}
    Benchmarked = {a}
    Foreign = {i1, i2}
    MaxOthers = 1
SPECIFICATION HarnessFairSpec
INVARIANT RunInstallsWhatItNeeds
INVARIANT MostSevereWins
INVARIANT NoPluginLeftBehind
INVARIANT RunsWhatWasAsked
INVARIANT ShowsItsOwnReport
PROPERTY RunEnds
CHECK_DEADLOCK FALSE
