CONSTANTS
  Roots <- MCRoots
  Registries <- MCRegistries
  JitFaults = {"add"}
  Foreign <- MCForeign
  Tolerated = {}
  MaxSaved = 5
  MaxEntries = 2
SPECIFICATION Spec
INVARIANTS EntriesKeepOrder AllOrNone
PROPERTY ImplementsEntries
CHECK_DEADLOCK FALSE
