CONSTANTS
  Batches <- CompoundLast
  Conditions = {"a", "b"}
SPECIFICATION Spec
INVARIANT GeneratedVerifies
CHECK_DEADLOCK FALSE
