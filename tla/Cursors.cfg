CONSTANTS
  IntKey = TRUE
  UsableSize = 40
  Root = 2
  HdrOffset = 8
  Bulk = FALSE
  MaxPgno = 40
  TrunkCap = 20
  Payloads = {small, big}
  SmallBytes = 8
  BigBytes = 24
  LongBytes = 20
  LongChain = 2
  small = small
  big = big
  long = long
  Keys <- ThreeKeys
  Bytes <- MCBytes
  ChainLen <- MCChainLen
  Filler = big
  MaxWrites = 4
  Scanners = {s}
  Editors = {w}
  Careful = TRUE
  NoKey = NoKey
SPECIFICATION MCCSpec
INVARIANTS CursorTypeOK PositionHolds SeeksAgree
PROPERTIES ScanRefinement
