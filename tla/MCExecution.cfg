CONSTANTS
  Threads = {"t1", "t2"}
  NumEntries = 2
  Blocks = {1, 2}
  MaxCalls = 3
  MaxWork = 1
SPECIFICATION Spec
INVARIANTS StartsClean ErrorsAreOwn CopiesAreOwn NothingLost
PROPERTY CallsReturn
CHECK_DEADLOCK FALSE
