CONSTANTS
  Callers = {c1, c2, c3}
  Methods = {1, 4}
  MaxAdded = 1
  MaxFailures = 1
SPECIFICATION FairSpec
INVARIANTS
  OneUntilRejection
PROPERTIES
  CallIsServed
  AccessSpec
