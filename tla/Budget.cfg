SPECIFICATION Spec
CONSTANTS
  a = a  b = b  a1 = a1  a2 = a2  b1 = b1  r1 = r1  r2 = r2
  Providers = {a, b}
  Models = {a1, a2, b1}
  ProviderOf <- TwoAndOne
  Requests = {r1, r2}
  DailyLimit <- DailyAB
  MonthlyLimit <- MonthlyAB
  RequestLimit <- RequestAB
  Estimates = {0, 1}
  Costs = {0, 2}
  MaxCost = 2
  LastDay = 2
  MonthOf <- TwoDays
  NoLimit = NoLimit
  Never = Never
SYMMETRY SameRequests
INVARIANTS TypeOK OverspendBounded
PROPERTIES LedgerSpec
CHECK_DEADLOCK FALSE
