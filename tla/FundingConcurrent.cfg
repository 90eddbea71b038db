CONSTANTS
  Txs = {t1, t2, t3}
  Origins = {"own"}
  ChangeCoins = {a, d}
  CustomCoins = {b}
  Callers = {c1, c2}
  Monitor = Monitor
  NoTx = NoTx
  Nobody = Nobody
  ManagerLocks = FALSE
  Calls = {}
  Tasks = {}
  PurgeParams = {}
  PostLimit = 1
  ProofLimit = 0
  GiveUpLimit = 0
  MaxAttempts = 0
  MaxFaults = 1
  PostProviders = {"ARC", "Bitails", "WoC"}
  Failures = {"unreachable", "lost"}
SPECIFICATION FundingSpec
CHECK_DEADLOCK FALSE
SYMMETRY Symmetry
INVARIANTS
  ChangeLockedWhileFunding
  PlansDisjoint
