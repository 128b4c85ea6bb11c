SPECIFICATION FairSpec
CONSTANTS
  p1 = p1
  p2 = p2
  p3 = p3
  Rows = 2
  Cols = 3
  Procs <- One
  Mortal <- None
  Assignment = 3
  Safe = FALSE
  SemInit = 0
  Commands <- WithTest
  Residue <- Quiet
  MaxTest = 1
  MaxResets = 1
PROPERTIES ImplementsPuzzle MovesAsCommanded GivesUpRightly CommandsFinish
