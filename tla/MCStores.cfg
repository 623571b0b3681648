SPECIFICATION StoresSpec
CONSTANTS
  Prompts = {soul}
  NumCandidates = 2
  Reviewers = {r1}
  MinSamples = 2
  MaxSamples = 2
  MaxSeconds = 1
  MaxOperations = 5
  Sockets = {k1}
  OpenAtOnce = 1
  Texts = {hi}
  SeenLimit = 2
  SeenKept = 1
  MaxEvents = 3
  MaxTicks = 1
  Conversations = {s1}
  Keep = 1
  MaxFailures = 2
  MaxMessages = 4
  MaxClears = 1
  MaxCalls = 2
  Accounts = {u0, u1}
  Admin = u0
  UserNames = {ann}
  AdminName = admin
  Endpoints = {e1}
  Threads = {t1}
  LinesPerFile = 2
  MaxFiles = 1
  MaxLines = 5
  MaxRestarts = 1
  Writers = {w1, w2}
  Kinds = {"connections", "settings", "config"}
  MaxChanges = 3
  MaxKeys = 2
  Callpoints = {"sapiens_response"}
  Registry <- ThreeProviders
  OAuth = {"openai_codex"}
  WithAddress = {"openrouter"}
  MaxKeyChanges = 2
  MaxRounds = 2
  MaxParallel = 2
  MaxPieces = 1
  MaxTokens = 2
INVARIANTS StoresTypeOK DeploymentsResolve RejectedIsNotServed ShownInOrderOnce AccountsKept SettingsKept ModelCallsKept
PROPERTIES OverwrittenTextIsKept TailerDeliversLines
CHECK_DEADLOCK FALSE
