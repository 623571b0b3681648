SPECIFICATION ServicesSpec
CONSTANTS
  Keys = {a, b}
  ChatIds = {c1}
  Tabs = {t1, t2}
  MaxInstances = 3
  Signals = {g1, g2}
  Posts = 3
  WatchLimit = 1
  MaxCalls = 2
  Mentioned = {2}
  Noticed = {2}
  MaxLives = 2
  MaxClients = 2
  MaxLosses = 2
  MaxUpdates = 3
  Replies <- TwoReplies
  MaxChunk = 3
  MaxAttempts = 2
  MaxTimeouts = 2
  MaxMails = 3
  MaxUids = 2
  MaxFaults = 2
  MaxPosts = 2
  MaxRepeats = 1
  WindowSize = 1
  MaxFiles = 2
  MaxTexts = 2
  SendTries = 2
  Contents <- ShortTexts
  EnergyMax = 6
  TimeDecay = 1
  ActionCost = 1
  HungryBelow = 3
  RechargeAmount = 3
  RechargeCost = 1
  Wage = 1
  ConfidenceMax = 3
  FallbackCredits = 3
  MaxBalance = 2
  MaxPrompts = 2
  MaxPort = 6
  MaxFileRead = 3
  MaxFileWrite = 2
  MaxWrites = 3
  Peers = {p1}
  KeyHolders = {p1}
  Wordings = {w}
  MaxSends = 2
  MaxClock = 1
  MaxStarts = 2
  Rooms = {"r1", "r2"}
  DirectRooms = {"r1"}
  MaxTasks = 2
INVARIANTS ServicesTypeOK InstancesKept OrderlyEnd NothingSkipped SeenIsHeardOrWaits AgentsReached InboundOnce RepliesShown ConsoleKept FilesKept TypingKept
SYMMETRY Alike
CHECK_DEADLOCK FALSE
