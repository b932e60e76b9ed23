SPECIFICATION Spec
CONSTANTS
    ExecutionIds = {1, 2}
    Instances = {"a", "b"}
    MaxTokens = 3
    MaxRecordedFailures = 2
    MaxSequence = 7
    MaxBatch = 2
    ClientEvents <- AllEvents
CHECK_DEADLOCK FALSE
INVARIANTS ExecutionLifecycle QuiescentEnd SeedIsHistory EvidenceIsReadable UsageAccounting FailureContextFrozen
PROPERTIES PrimaryIrrevocable
