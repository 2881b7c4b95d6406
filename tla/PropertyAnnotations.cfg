CONSTANTS
  Name = {Error, Maybe, Yes, Bottom}
  Bottom = Bottom
  None = None
  Nested = Nested
  MaxValues = 4
CHECK_DEADLOCK FALSE
SPECIFICATION Spec
INVARIANT DeclaredTreeRead
INVARIANT AbortsOnlyIfUndeclared
PROPERTY InitializationEnds
