\* A heap of 28 bytes.  max_align_t is 4 here, so that alignment 8 is
\* over-aligned; chunks have 8 bytes at least, so that a request of 9 bytes
\* gets one of its own and one of 3 shares.
SPECIFICATION Spec
CONSTANTS
  MinChunkSize = 8
  Sizes = {0, 3, 9}
  Alignments = {1, 8}
  MaxAlign = 4
  HeapTop = 28
\* The program may stop after ~Arena().
CHECK_DEADLOCK FALSE
INVARIANTS
  TypeOK
  LiveIsBacked
  LiveIsDisjoint
  LiveIsAligned
  NoLeak
  FinalizersMatchObjects
PROPERTIES
  ImplementsPool
