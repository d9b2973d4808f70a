\* Three commands, four requests, two goroutines at a time.
CONSTANTS
    p = p
    q = q
    l = l
    i1 = i1
    j1 = j1
    i2 = i2
    iq = iq
    alice = alice
    bob = bob
    None = None
    Plugins = {p, q, l}
    MaxVersion = 2
    Requests <- WithLocal
    Configs <- LocalApart
    MaxConcurrent = 2
    Indexes = {i1, j1, i2, iq}
    ConfigOf <- MC_ConfigOf
    SignersOf <- MC_SignersOf
    Details <- AliceDeclared
    HubDigest <- PRecorded
    Locals = {l}
    Builds = {b1}
    MaxCommands = 3
SPECIFICATION FairSpec
INVARIANT EntryHasItsBinary
INVARIANT SignedForItsKey
INVARIANT InstallsWhatIsRequested
INVARIANT DeclaredSignerPinned
PROPERTY ImplementsManifestStore
PROPERTY PinKept
PROPERTY CommandReturns
CHECK_DEADLOCK FALSE
