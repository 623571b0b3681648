SPECIFICATION FeedSpec
CONSTANTS
  Sockets = {k1}
  OpenAtOnce = 1
  Texts = {hi, bye}
  SeenLimit = 4
  SeenKept = 2
  MaxEvents = 2
  MaxTicks = 1
INVARIANT SavedOnce
CHECK_DEADLOCK FALSE
