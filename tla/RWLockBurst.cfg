CONSTANTS
  Clients = {c1, c2, c3, c4}
  MicrotaskBurst = 3
SPECIFICATION FairSpec
PROPERTIES
  LostOnlyWhileWaking
  WriterProgress
