CONSTANTS
  IntKey = FALSE
  UsableSize = 62
  Root = 2
  HdrOffset = 8
  Bulk = FALSE
  MaxPgno = 40
  TrunkCap = 20
  Payloads = {small, big}
  SmallBytes = 3
  BigBytes = 6
  LongBytes = 20
  LongChain = 2
  small = small
  big = big
  long = long
  Fill = 10
  FillWith = small
  Thin = 0
  MaxOps = 1
  Keys <- EvenKeysAndTwo
  Bytes <- MCBytes
  ChainLen <- MCChainLen
SPECIFICATION MCSpec
INVARIANTS ExactSizes
