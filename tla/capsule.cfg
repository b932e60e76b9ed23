SPECIFICATION FairSpec
CONSTANTS
    Capacity = 1
    Casts <- FullQueues
    UsageMax = 1
    Batch = 2
INVARIANTS
    MetadataIsAccounted
    OutputHasNoGaps
    OwnsUntilCleanedUp
    ReleasedIsQuiet
PROPERTIES
    ExecutionsEnd
    ReleasesReturn
\* The execution is over in the end.
CHECK_DEADLOCK FALSE
