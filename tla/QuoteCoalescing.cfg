SPECIFICATION Spec
CONSTANTS
  c1 = c1  c2 = c2  c3 = c3  d1 = d1  d2 = d2  s = s  u = u
  Calls = {c1, c2, c3, d1, d2}
  Symbols = {s, u}
  SymbolOf <- ThreeAndTwo
  MaxEntries = 1
  Caching = TRUE
  Providers = 1
  RetryCount = 0
  MaxCloses = 0
  NoLock = NoLock
INVARIANTS Coalesced
CHECK_DEADLOCK FALSE
