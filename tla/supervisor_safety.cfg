\* Two executions, one fault, one crash of the controller.
SPECIFICATION Spec
CONSTANTS
  e1 = e1
  e2 = e2
  Executions <- Pair
  PostmortemEnabled = TRUE
  MaxFaults = 1
  MaxCrashes = 2
SYMMETRY Symmetry
INVARIANT StoppedWorkIsNotRetried
PROPERTY ImplementsRunContract
CHECK_DEADLOCK FALSE
