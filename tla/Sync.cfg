CONSTANTS
  A = A
  B = B
  C = C
  proof = proof
  basket = basket
  tx = tx
  output = output
  req = req
  Stores <- ThreeStores
  Managed <- AandB
  Shared <- JustC
  Rows <- FourRows
  Table <- MCTable
  Needs <- MCNeeds
  Links <- MCLinks
  NoStore = NoStore
  NoChunk = NoChunk
  ChunkItems = 1
  MaxTime = 3
  MaxFaults = 1
SPECIFICATION FairSpec
CHECK_DEADLOCK FALSE
INVARIANTS
  ParentsFirst
  LinksKept
PROPERTIES
  NeverOlder
  NothingLeftBehind
  SyncEnds
