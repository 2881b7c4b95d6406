CONSTANTS
  Property <- MemoryLeak
  Parent <- MemoryLeakParent
  Bottom = "bottom"
  Value = {chunk1, chunk2}
  Block = {left, right}
SPECIFICATION Spec
INVARIANT TypeOK
INVARIANT UpwardClosed
INVARIANT SingleName
INVARIANT AddMatchesRecursion
INVARIANT RemoveMatchesLoop
INVARIANT MeetMatchesFlowSets
PROPERTY MeetIsCommonAncestor
PROPERTY RemovalFallsBack
