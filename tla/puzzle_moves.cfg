SPECIFICATION Spec
CONSTANTS
  c1 = c1
  c2 = c2
  c3 = c3
  c4 = c4
  Rows = 2
  Cols = 3
  Clients <- One
  Mortal <- One
  Commands <- AllCommands
  QueueCap = 1
  MaxGen = 1
INVARIANTS TypeOK TilesConserved SnapshotComplete StaysSolvable
PROPERTIES ImplementsPuzzle MovesAsCommanded
\* The server may be stopped for good, and its clients then wait for ever.
CHECK_DEADLOCK FALSE
