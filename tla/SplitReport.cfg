CONSTANTS
  IntKey = TRUE
  UsableSize = 40
  Root = 2
  HdrOffset = 8
  Bulk = FALSE
  MaxPgno = 40
  TrunkCap = 20
  Payloads = {small, big}
  SmallBytes = 8
  BigBytes = 24
  LongBytes = 20
  LongChain = 2
  small = small
  big = big
  long = long
  Fill = 5
  FillWith = big
  Thin = 0
  MaxOps = 3
  Keys <- ElevenKeys
  Bytes <- MCBytes
  ChainLen <- MCChainLen
SPECIFICATION MCReportSpec
INVARIANTS Searchable OnceEach GrowthIsCounted
PROPERTIES Refinement
