SPECIFICATION Spec
CONSTANTS
  NumLetters = 2
  Half = 2
  Requests <- SomeRequests
  MaxConns = 3
  MaxWork = 7
INVARIANTS TypeOK LocksExclude NoEarlierConnection
PROPERTIES AtomicUpdates
\* Clients that quit, and commands that take locks in opposite orders, wait for ever.
CHECK_DEADLOCK FALSE
