\* Embedders that overwrite registrations on purpose and by accident.
SPECIFICATION Spec
CONSTANTS
  Names = {f}
  MaxPtrs = 1
  Ids = {c1, c2}
  RetTypes = {i32, f64}
  Overrides = {TRUE, FALSE}
  IntrinsicPtrs = {0, 1}
INVARIANTS ArgumentsMatch OwnerIsCalled
PROPERTY RefusalDisturbsNoOwner
