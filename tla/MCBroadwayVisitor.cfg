CONSTANTS
  chunk = chunk
  Null = Null
  Bottom = "bottom"
  Value = {chunk}
  Property <- Pair
  Parent <- PairParent
  PropertyName = "MemoryLeak"
  Calls <- AnyCalls
  Leftovers = {Null, chunk}
CHECK_DEADLOCK FALSE
SPECIFICATION Spec
INVARIANT ClimbEndsAtEntryPointer
PROPERTY EveryCallEnds
