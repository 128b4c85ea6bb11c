SPECIFICATION Spec
CONSTANTS
  x = x
  y = y
  Nul = Nul
  Letters = {x, y}
  Side = 2
  Inputs <- Grids
  MaxRows = 4
  MaxWidth = 3
  Versions = {"processes", "java", "threads", "gpu"}
  MaxWorkers = 3
  ThreadsPerBlock = 2
INVARIANTS TypeOK ReadsInside 
PROPERTIES NeverTwice Ends
\* main() ends.
CHECK_DEADLOCK FALSE
