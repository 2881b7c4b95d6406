CONSTANTS
  b1 = b1
  b2 = b2
  b3 = b3
  f1 = f1
  f2 = f2
  f3 = f3
  p = p
  q = q
  main = main
  f = f
  NoDef = NoDef
  Null = Null
  Unset = Unset
  MemBlock = {p, q}
  Programs <- AllPrograms
CHECK_DEADLOCK FALSE
SPECIFICATION Spec
INVARIANTS
  SoundWhereOrdered
  ExactWhereOrdered
  DisorderOnlyByMerge
PROPERTY WorklistRunsEmpty
