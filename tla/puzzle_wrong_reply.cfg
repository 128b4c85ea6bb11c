SPECIFICATION Spec
CONSTANTS
  c1 = c1
  c2 = c2
  c3 = c3
  c4 = c4
  Rows = 2
  Cols = 2
  Clients <- Two
  Mortal <- None
  Commands <- FewCommands
  QueueCap = 1
  MaxGen = 1
PROPERTIES RepliesToAsker
\* The server may be stopped for good, and its clients then wait for ever.
CHECK_DEADLOCK FALSE
