CONSTANTS
  IntKey = TRUE
  UsableSize = 48
  Root = 1
  HdrOffset = 8
  Bulk = FALSE
  MaxPgno = 5
  TrunkCap = 1
  Payloads = {small, long}
  SmallBytes = 8
  BigBytes = 20
  LongBytes = 24
  LongChain = 2
  small = small
  big = big
  long = long
  Keys <- ThreeKeys
  Bytes <- MCBytes
  ChainLen <- MCChainLen
SPECIFICATION AnySpec
INVARIANTS TypeOK NeverCorrupt PagesInBounds PagesAccounted
PROPERTIES StatementsEnd
