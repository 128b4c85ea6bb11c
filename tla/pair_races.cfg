SPECIFICATION Spec
CONSTANTS
  homer = homer
  bart = bart
  NoName = NoName
  Threads <- Two
  Capacity = 2
  Staggered = FALSE
  Terminates = TRUE
  Spurious = TRUE
  MaxVisits = 2
INVARIANTS TypeOK LeftIsGone
SYMMETRY Symmetry
\* When every thread has made its calls, or waits in one, nothing happens.
CHECK_DEADLOCK FALSE
