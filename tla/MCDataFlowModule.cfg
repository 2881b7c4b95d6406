CONSTANTS
  b1 = b1
  b2 = b2
  b3 = b3
  chunk = chunk
  other = other
  None = None
  Bottom = "bottom"
  Transfer <- Assign
  Block = {b1, b2, b3}
  Value = {chunk, other}
  Property <- Pair
  Parent <- PairParent
  PropertyOrder <- PairOrder
  InitialName = "Unused"
  Forward = TRUE
  Code <- ShortCode
  Modules <- LoopsAndTwoFunctions
CHECK_DEADLOCK FALSE
SPECIFICATION Spec
INVARIANT TypeOK
INVARIANT LoopInvariant
INVARIANT EdgesRespected
INVARIANT NothingLost
INVARIANT ResultTellsChange
PROPERTY SecondInitializationIdle
PROPERTY ImplementsAnswers
PROPERTY EveryFunctionSolved
