SPECIFICATION FairSpec
CONSTANTS
  c1 = c1
  c2 = c2
  c3 = c3
  c4 = c4
  Rows = 1
  Cols = 2
  Clients <- Three
  Mortal <- Three
  Commands <- OtherCommand
  QueueCap = 1
  MaxGen = 2
INVARIANTS ReplyDebt JamNeedsKills
PROPERTIES NoStaleReplies ClientsFinish
\* The server may be stopped for good, and its clients then wait for ever.
CHECK_DEADLOCK FALSE
