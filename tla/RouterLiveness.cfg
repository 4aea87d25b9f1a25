SPECIFICATION FairSpec
CONSTANTS
  a = a  b = b  g1 = g1  g2 = g2  s1 = s1  l1 = l1  h1 = h1
  m1 = m1  m2 = m2  m3 = m3
  NoProvider = NoProvider  NoModel = NoModel  NoError = NoError
  Providers <- TwoProviders
  Rank <- PriorityAB
  Retry <- RetryA
  Discovery = {}
  Model <- Models3
  Default <- OneEach
  Catalog <- NoModels
  Calls = {s1}
  Kind <- OneStream
  Checks = {}
  Faults = {"timeout", "authentication"}
  Deadline = TRUE
  MaxOpens = 2
INVARIANT Accounting
PROPERTIES CallsReturn LifecycleReturns
CHECK_DEADLOCK FALSE
