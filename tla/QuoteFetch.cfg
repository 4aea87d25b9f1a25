SPECIFICATION FairSpec
CONSTANTS
  c1 = c1  c2 = c2  c3 = c3  d1 = d1  d2 = d2  s = s  u = u
  Calls = {c1, c2, c3}
  Symbols = {s, u}
  SymbolOf <- AllOfOne
  MaxEntries = 2
  Caching = TRUE
  Providers = 2
  RetryCount = 1
  MaxCloses = 0
  NoLock = NoLock
INVARIANTS Coalesced RejectedByAll
PROPERTIES CallsReturn
CHECK_DEADLOCK FALSE
