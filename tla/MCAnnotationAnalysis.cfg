CONSTANTS
  n1 = n1
  n2 = n2
  n3 = n3
  n4 = n4
  x = x
  y = y
  z = z
  Null = Null
  Top = "(top)"
  Bottom = "(bottom)"
  MemBlock = {x, y, z}
  Block = {n1, n2, n3, n4}
  MaxRevisits = 2
  Programs <- AllPrograms
CHECK_DEADLOCK FALSE
SPECIFICATION Spec
INVARIANTS
  FoundWithoutLoops
  NothingInvented
  TestsAnswered
  MeetIsGreatest
PROPERTY ValuesOnlyFall
