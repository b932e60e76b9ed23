\* One execution; cleanup and storage may fail again and again, under the fairness of the async runtime.
SPECIFICATION FairSpec
CONSTANTS
  e1 = e1
  e2 = e2
  Executions <- Single
  PostmortemEnabled = TRUE
  MaxFaults = 3
  MaxCrashes = 2
INVARIANT InterruptedPostmortemIsAccounted
CHECK_DEADLOCK FALSE
PROPERTIES StopEnds CrashIsReconciled
