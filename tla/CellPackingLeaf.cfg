CONSTANTS
  NB = 3
  UsableSpace = 20
  LeafData = TRUE
  PageShapes <- LeafPages
  HotShapes <- LeafHot
  Inserts <- LeafNew
  Dividers = {6}
  Loads <- MCLoads
SPECIFICATION Spec
INVARIANTS TypeOK SizesMatchCuts NeverCorrupt PagesFit AllEdited CutsMatchReference
PROPERTIES ReadBeforeOverwrite Terminates
CHECK_DEADLOCK FALSE
