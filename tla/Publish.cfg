\* Two owners of the namespace and a stranger, two publishes that get as far
\* as the network, every build and every mode.
CONSTANTS
    alice = alice
    bob = bob
    carol = carol
    Publishers = {alice, bob, carol}
    Owners = {alice, bob}
    Builds <- MC_Builds
    Info <- MC_Info
    Environment <- MC_Environment
    Modes = {"sync", "push", "override"}
    Versions = {"v1"}
    Items <- MC_Items
    Host = "darwin/amd64"
    MaxPublishes = 2
    None = None
SPECIFICATION Spec
INVARIANT RegistryClosed
INVARIANT OnlyPublishableLands
PROPERTY ImplementsReleases
PROPERTY PublishedIsListed
PROPERTY UnattendedPublishReturns
CHECK_DEADLOCK FALSE
