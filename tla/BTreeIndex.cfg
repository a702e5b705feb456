CONSTANTS
  IntKey = FALSE
  UsableSize = 62
  Root = 2
  HdrOffset = 8
  Bulk = FALSE
  MaxPgno = 40
  TrunkCap = 20
  Payloads = {small, big}
  SmallBytes = 4
  BigBytes = 6
  LongBytes = 20
  LongChain = 2
  small = small
  big = big
  long = long
  Fill = 50
  FillWith = small
  Thin = 3
  MaxOps = 2
  Keys <- EvenKeysAndTwo
  Bytes <- MCBytes
  ChainLen <- MCChainLen
SPECIFICATION MCSpec
INVARIANTS PagesInBounds OverflowAsserts GatheringsValid
PROPERTIES Refinement
