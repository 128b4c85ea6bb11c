SPECIFICATION Spec
CONSTANTS
  x = x
  y = y
  Nul = Nul
  Letters = {x, y}
  Side = 2
  Inputs <- Grids
  MaxRows = 4
  MaxWidth = 3
  Versions = {"threads"}
  MaxWorkers = 2
  ThreadsPerBlock = 2
INVARIANTS TotalIsRight
\* main() ends.
CHECK_DEADLOCK FALSE
