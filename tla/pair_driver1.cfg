SPECIFICATION FairSpec
CONSTANTS
  homer = homer
  bart = bart
  NoName = NoName
  Threads <- Two
  Capacity = 1
  Staggered = TRUE
  Terminates = FALSE
  Spurious = FALSE
  MaxVisits = 3
INVARIANTS EntersPaired
PROPERTIES ImplementsRoom PartnerWakes
\* When every thread has made its calls, or waits in one, nothing happens.
CHECK_DEADLOCK FALSE
