SPECIFICATION Spec
CONSTANTS
  MaxCandidates = 2
  LongPromptTokens = 3000
  Catalogs <- ModelSets
  Tasks <- AnalysisTasks
  Model = "x"
  Priority <- TwoProviders
  SoftLimited = {}
  MaxOutput = 1000
  MaxInput = 8000
  HistoryLimit = 1
  MaxRequests = 2
  Statuses = {200, 302, 304, 400, 401, 404, 408, 418, 422, 429, 503}
  Counts <- TokenCounts
  MaxTokens = 1
  MaxPromptBytes = 1
  MaxLines = 2
  Prices = {0, 1, 2}
  MaxBytes = 1
  Fetches = {1, 2}
  Hosts = {"a", "b", "local", "other"}
  LocalHosts = {"local"}
  AllowedHosts = {"a", "b"}
  Zone <- Resolutions
  PublicAddresses = {1, 2, 3}
  MaxRedirects = 1
  MaxCharacters = 1
  Documents <- Pages
  Queries <- Statements
  Parameters = {"p"}
  Values = {"fine", "oversized", "huge", "infinite", "surrogate"}
  Forbidden = {"DROP", "REPLACE"}
  FunctionKeywords = {"REPLACE"}
  MaxRows = 2
  MaxTable = 3
  Columns = {"c"}
  Cells = {"blank", "boolean", "integer", "number", "infinite", "text", "huge", "long", "absent"}
  PreviewRows = 1
  MaxFileRows = 3
  Sessions = {1, 2}
  Providers = {"openai", "groq"}
  Candidates = 2
  MaxSaves = 2
  BuiltIn = {"cerebras", "openrouter"}
  Presets = {"groq"}
  Environments <- Files
INVARIANTS RequestsTypeOK  FreeBeforePaid PriorityOutweighs AnswersNormalized PinnedConnections QueryContained SummaryAccounts AcceptedBuilds EnvStaysUsable
CHECK_DEADLOCK FALSE
