CONSTANTS
  Headers <- MCHeaders
  Prev <- MCPrev
  Height <- MCHeight
  Work <- MCWork
  Ancestors <- MCAncestors
  BulkTip = "g"
  BulkHeight = 0
  BulkWork = 5
  NoHeader = NoHeader
  RecursionLimit = 2
  MaxAnnouncements = 3
  Txs = {t1}
  MinedIn <- MCMinedIn
  MaxRetries = 2
  MaxFaults = 1
SPECIFICATION FairSpec
CHECK_DEADLOCK FALSE
INVARIANTS
  OneActiveChain
  TipIsHeaviest
  StaleProofIsQueued
PROPERTIES
  TipMovesUp
  StaleProofSettles
  HeadersAreAdded
