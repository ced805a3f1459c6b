CONSTANTS
  Numbers = {1, 2}
  NaN = NaN
  Lowest = 1
  Highest = 2
  MaxLen = 3
  ByteBits = 2
  BatchBytes = 2
  LinearThreshold = 1
SPECIFICATION Spec
INVARIANTS WritesAreBounded GroupsAgree TwoWaysAgree CommutativeCommute
PROPERTY UnflaggedIsRight
