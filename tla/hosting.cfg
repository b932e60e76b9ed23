SPECIFICATION FairSpec
CONSTANTS
    N = 2
    Fresh = {1}
    Identities = {0}
    NoIdentity = NoIdentity
    MaxCrashes = 1
    MaxFaults = 1
INVARIANTS
    WorkIsKept
    IdentitiesAreExclusive
    EndsAfterTeardown
    ForceEndsTheRun
    OpenRunsAreOwned
PROPERTIES
    CallsEnd
    StartupServes
