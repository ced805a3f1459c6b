CONSTANTS
  Unknown = Unknown
  PlusZero = PlusZero
  MinusZero = MinusZero
  NaN = NaN
  Values <- AllNumbers
  Payloads = {PlusZero}
SPECIFICATION Spec
INVARIANT CastKeepsValue
