\* Can junk referrers make a signed index look unsigned?
CONSTANTS
    Identities = {alice, bob}
    maxSignatureReferrers = 3
    MaxReferrers = 4
    None = None
SPECIFICATION Spec
INVARIANT NotMasked
CHECK_DEADLOCK FALSE
