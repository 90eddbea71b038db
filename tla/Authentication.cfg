CONSTANTS
  phone = phone
  laptop = laptop
  p1 = p1
  p2 = p2
  k1 = k1
  k2 = k2
  c1 = c1
  c2 = c2
  Devices = {phone, laptop}
  Calls = {c1, c2}
  Passwords = {p1, p2}
  PresentationKeys = {k1}
  NoKey = NoKey
  NoToken = NoToken
  NoProfile = NoProfile
  NoCall = NoCall
  NoSnapshot = NoSnapshot
  Serial = TRUE
  MaxRandom = 3
  MaxCalls = 5
  Failing <- Failures
  MaxFaults = 1
SPECIFICATION Spec
CHECK_DEADLOCK FALSE
SYMMETRY Symmetry
INVARIANTS
  ActiveIsUnderlying
  PasswordOpens
  RecoveryKeyIsSaved
