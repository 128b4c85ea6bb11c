SPECIFICATION Spec
CONSTANTS
  p1 = p1
  p2 = p2
  p3 = p3
  Rows = 1
  Cols = 3
  Procs <- Two
  Mortal <- Two
  Assignment = 2
  Safe = FALSE
  SemInit = 0
  Commands <- NotUp
  Residue <- BlankBehind
  MaxTest = 0
  MaxResets = 2
INVARIANTS TypeOK WellFormed TilesStayOnBoard BlankRemains
SYMMETRY Symmetry
