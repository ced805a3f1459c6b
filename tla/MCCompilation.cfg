CONSTANTS
  Batches <- Programs
  Conditions = {"a", "b"}
SPECIFICATION Spec
INVARIANTS ValidatedIsGenerated GeneratedVerifies MeaningIsKept
CHECK_DEADLOCK FALSE
