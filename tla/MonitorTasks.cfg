CONSTANTS
  Txs = {t1, t2}
  Origins = {"own"}
  ChangeCoins = {a}
  CustomCoins = {}
  Callers = {c1}
  Monitor = Monitor
  NoTx = NoTx
  Nobody = Nobody
  ManagerLocks = TRUE
  Calls = {}
  Tasks = {"SendWaiting", "CheckForProofs", "CheckNoSends", "FailAbandoned", "ReviewStatus", "Purge"}
  PurgeParams = {"completed", "failed", "spent"}
  PostLimit = 1
  ProofLimit = 0
  GiveUpLimit = 0
  MaxAttempts = 0
  MaxFaults = 0
  PostProviders = {"ARC", "Bitails", "WoC"}
  Failures = {"unreachable", "lost"}
SPECIFICATION Spec
CHECK_DEADLOCK FALSE
SYMMETRY Symmetry
INVARIANTS
  SpendableIsFree
  CompletedHasProof
  CompletedAgrees
PROPERTIES
  TerminalIsFinal
