CONSTANTS
  IntKey = FALSE
  UsableSize = 62
  Root = 2
  HdrOffset = 8
  Bulk = FALSE
  MaxPgno = 40
  TrunkCap = 20
  Payloads = {small, big}
  SmallBytes = 4
  BigBytes = 6
  LongBytes = 20
  LongChain = 2
  small = small
  big = big
  long = long
  Keys <- EightKeys
  Bytes <- MCBytes
  ChainLen <- MCChainLen
  Filler = big
  MaxWrites = 1
  Scanners = {s}
  Editors = {w}
  Careful = TRUE
  NoKey = NoKey
SPECIFICATION MCCSpec
INVARIANTS CursorTypeOK PositionHolds SeeksAgree Searchable
PROPERTIES ScanRefinement
