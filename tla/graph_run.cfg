SPECIFICATION FairSpec
CONSTANTS
  Graphs <- SoundGraphs
  Deliveries = {"deliver"}
  Decisions = {"judge"}
  Paths = {"a", "b"}
  Errors = {"crash"}
INVARIANTS
  DeliveryIsExclusive
  EveryRoundRunsAfresh
  WithinStructuralBounds
  OnlyWinnersAreRead
PROPERTY GraphEnds
\* GraphEnds is stronger than the absence of deadlock.
CHECK_DEADLOCK FALSE
