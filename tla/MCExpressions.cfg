CONSTANTS
  Unknown = Unknown
  PlusZero = PlusZero
  MinusZero = MinusZero
  NaN = NaN
  Values <- SmallNumbers
  Payloads = {PlusZero, One}
SPECIFICATION Spec
INVARIANTS
  LibraryIsConsistent
  CallsMatch
  NodesAgree
  ValueKept
