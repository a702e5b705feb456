CONSTANTS
  c1 = c1
  c2 = c2
  NoImage = NoImage
  NoView = NoView
  Broken = Broken
  Torn = Torn
  Conns = {c1, c2}
  Pages = {1, 2}
  MaxFrame = 4
  NReader = 3
  KillInReset = FALSE
  Scenarios <- MCScenarios
SPECIFICATION MCSpec
SYMMETRY MCSymmetry
INVARIANTS TypeOK RestartIsSafe
PROPERTIES Refinement
CHECK_DEADLOCK FALSE
