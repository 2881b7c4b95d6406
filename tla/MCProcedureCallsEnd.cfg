CONSTANTS
  main = main
  f = f
  g = g
  lib = lib
  x = x
  m1 = m1
  f1 = f1
  g1 = g1
  Null = Null
  Procedure = {main, f, g, lib}
  MemBlock = {x}
  Programs <- SmallPrograms
CHECK_DEADLOCK FALSE
SPECIFICATION Spec
PROPERTY AnalysisEnds
