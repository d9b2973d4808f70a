\* Every list of up to four referrers, of which three are inspected.
CONSTANTS
    Identities = {alice, bob}
    maxSignatureReferrers = 3
    MaxReferrers = 4
    None = None
SPECIFICATION Spec
INVARIANT VerifiedIsSigned
INVARIANT SignatureFound
CHECK_DEADLOCK FALSE
