SPECIFICATION Spec
CONSTANTS
  a = a  b = b  g1 = g1  g2 = g2  s1 = s1  l1 = l1  h1 = h1
  m1 = m1  m2 = m2  m3 = m3
  NoProvider = NoProvider  NoModel = NoModel  NoError = NoError
  Providers <- TwoProviders
  Rank <- PriorityAB
  Retry <- RetryA
  Discovery = {}
  Model <- Models3
  Default <- OneEach
  Catalog <- NoModels
  Calls = {g1, s1}
  Kind <- GenerateStream
  Checks = {}
  Faults = {"timeout", "authentication"}
  Deadline = TRUE
  MaxOpens = 1
INVARIANTS TypeOK Accounting RetriesBounded ExhaustiveFailover
PROPERTIES IsolationEndsByProbe
CHECK_DEADLOCK FALSE
