SPECIFICATION FairSpec
CONSTANTS
  p1 = p1
  p2 = p2
  p3 = p3
  Rows = 2
  Cols = 2
  Procs <- One
  Mortal <- None
  Assignment = 3
  Safe = TRUE
  SemInit = 0
  Commands <- OnlyTest
  Residue <- Quiet
  MaxTest = 1
  MaxResets = 1
PROPERTIES CommandsFinish
\* The commands block: that is what the run shows.
CHECK_DEADLOCK FALSE
