CONSTANTS
  c1 = c1
  c2 = c2
  v1 = v1
  v2 = v2
  NoPage = NoPage
  Zero = Zero
  Torn = Torn
  NoView = NoView
  Conns = {c1, c2}
  MaxPage = 3
  Values = {v1, v2}
  MaxSlot = 6
  MaxInode = 3
  ShrinkModes = {"delete"}
  DoubleFault = FALSE
  Scenarios <- ShrinkScenarios
SPECIFICATION MCSpec
SYMMETRY MCSymmetry
PROPERTIES TruncationIsSafe
CHECK_DEADLOCK FALSE
