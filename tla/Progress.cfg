CONSTANTS
  Txs = {t1}
  Origins = {"own", "received", "doomed"}
  ChangeCoins = {a}
  CustomCoins = {}
  Callers = {c1}
  Monitor = Monitor
  NoTx = NoTx
  Nobody = Nobody
  ManagerLocks = TRUE
  Calls = {"internalizeAction"}
  Tasks = {"SendWaiting", "CheckForProofs", "FailAbandoned", "ReviewStatus"}
  PurgeParams = {}
  PostLimit = 1
  ProofLimit = 0
  GiveUpLimit = 0
  MaxAttempts = 1
  MaxFaults = 1
  PostProviders = {"ARC", "WoC"}
  Failures = {"unreachable", "lost"}
SPECIFICATION FairSpec
CHECK_DEADLOCK FALSE
PROPERTIES
  InFlightSettles
  TransactionSettles
