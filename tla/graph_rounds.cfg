SPECIFICATION Spec
CONSTANTS
  Graphs <- RacedLoop
  Deliveries = {"deliver"}
  Decisions = {"judge"}
  Paths = {"a", "b"}
  Errors = {"crash"}
INVARIANT EveryRoundRunsAfresh
