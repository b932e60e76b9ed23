SPECIFICATION Spec
CONSTANTS
    N = 2
    Fresh = {1}
    Identities = {0}
    NoIdentity = NoIdentity
    MaxCrashes = 2
    MaxFaults = 0
INVARIANT
    RecoverableKeepsCheckpoints
