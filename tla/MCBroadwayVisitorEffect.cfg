CONSTANTS
  chunk = chunk
  Null = Null
  Bottom = "bottom"
  Value = {chunk}
  Property <- Pair
  Parent <- PairParent
  PropertyName = "MemoryLeak"
  Calls <- FreeCalls
  Leftovers = {Null, chunk}
CHECK_DEADLOCK FALSE
SPECIFICATION Spec
PROPERTY EffectRecorded
