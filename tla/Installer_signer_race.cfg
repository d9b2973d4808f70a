\* Two first installs of one plugin at once.
CONSTANTS
    p = p
    q = q
    l = l
    i1 = i1
    j1 = j1
    i2 = i2
    iq = iq
    alice = alice
    bob = bob
    None = None
    Plugins = {p, q}
    MaxVersion = 2
    Requests <- BothOfP
    Configs <- OneConfig
    MaxConcurrent = 2
    Indexes = {i1, j1, i2, iq}
    ConfigOf <- MC_ConfigOf
    SignersOf <- MC_SignersOf
    Details <- Undeclared
    HubDigest <- NoneRecorded
    Locals = {}
    Builds = {}
    MaxCommands = 1
SPECIFICATION Spec
INVARIANT OneSigner
CHECK_DEADLOCK FALSE
