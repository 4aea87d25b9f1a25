SPECIFICATION ServiceSpec
CONSTANTS
  stock = stock  calc = calc  c1 = c1  c2 = c2
  ToolOrder <- TwoTools
  Registered <- ToolsOpen
  Probing = {stock}
  RequireProvider = TRUE
  RequireHealthy = TRUE
  Interrupts = 1
  Probes = 1
  NoName = NoName
  unknown = unknown
  Calls = {c1, c2}
  Tools <- ToolsOpen
  Names = {stock, calc, unknown, NoName}
  Requests <- Assignments
  Threaded = {calc}
  Workers = 1
INVARIANTS ServiceTypeOK ReadyIsServing NothingLeftOpen StoppedMeansReleased MetricsAccount CallsEndBeforeTools
PROPERTIES ClosedInReverse NoWorkAfterAnswer LifespanEnds EveryCallAnswered
CHECK_DEADLOCK FALSE
