SPECIFICATION Spec
CONSTANTS
  a = a  b = b  g1 = g1  g2 = g2  s1 = s1  l1 = l1  h1 = h1
  m1 = m1  m2 = m2  m3 = m3
  NoProvider = NoProvider  NoModel = NoModel  NoError = NoError
  Providers <- TwoProviders
  Rank <- PriorityAB
  Retry <- RetryA
  Discovery = {a, b}
  Model <- Models3
  Default <- OneEach
  Catalog <- OneEach
  Calls = {}
  Kind <- NoCalls
  Checks = {h1}
  Faults = {"unavailable", "invalid_request"}
  Deadline = FALSE
  MaxOpens = 1
INVARIANT HealthyProviderIsEligible
CHECK_DEADLOCK FALSE
