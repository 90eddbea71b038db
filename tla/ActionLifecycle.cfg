CONSTANTS
  Txs = {t1, t2}
  Origins = {"own"}
  ChangeCoins = {a}
  CustomCoins = {}
  Callers = {c1}
  Monitor = Monitor
  NoTx = NoTx
  Nobody = Nobody
  ManagerLocks = TRUE
  Calls = {"noSendActions", "invalidChange"}
  Tasks = {"SendWaiting", "CheckForProofs", "FailAbandoned"}
  PurgeParams = {}
  PostLimit = 1
  ProofLimit = 0
  GiveUpLimit = 0
  MaxAttempts = 1
  MaxFaults = 0
  PostProviders = {"ARC", "WoC"}
  Failures = {"unreachable", "lost"}
SPECIFICATION Spec
CHECK_DEADLOCK FALSE
INVARIANTS
  FailedHoldsNothing
  FailedStaysOffNetwork
PROPERTIES
  InputsStayLocked
