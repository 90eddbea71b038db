CONSTANTS
  Callers = {c1, c2}
  Requests <- MixedRequests
  AdminOnly <- Reserved
  Manifest <- MCManifest
  Group = Group
  NoToken = NoToken
  Earlier <- OldTokens
  Lifetimes = {0}
  Limits = {1}
  CacheTTL = 0
  RecentCover = 0
  MonthLength = 2
  MaxTime = 2
  MaxGrants = 1
  MaxFaults = 1
  Calls <- MixedCalls
  NoCall = NoCall
  Delegated <- NoRequests
  Config <- AllOptions
  MaxActions = 1
SPECIFICATION FairSpec
CHECK_DEADLOCK FALSE
INVARIANTS
  NobodyForgotten
PROPERTIES
  PermissionIsFresh
  CallEnds
