SPECIFICATION Spec
CONSTANTS
  Graphs <- AbandonedMap
  Deliveries = {"deliver"}
  Decisions = {"judge"}
  Paths = {"a", "b"}
  Errors = {"crash"}
INVARIANT DeliveryIsExclusive
