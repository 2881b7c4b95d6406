CONSTANTS
  b1 = b1
  b2 = b2
  b3 = b3
  chunk = chunk
  other = other
  None = None
  Bottom = "bottom"
  Transfer <- Assign
  Block = {b1, b2}
  Value = {chunk}
  Property <- Fork
  Parent <- ForkParent
  PropertyOrder <- ForkOrder
  InitialName = "NotDeallocated"
  Forward = FALSE
  Code <- ForkCode
  Modules <- TwoBlocks
CHECK_DEADLOCK FALSE
SPECIFICATION Spec
INVARIANT SolvedAtReturn
INVARIANT ReportIsSafe
INVARIANT ReportIsExactInOrder
PROPERTY StepsAreAnswers
PROPERTY StatesShrink
