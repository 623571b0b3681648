SPECIFICATION Spec
CONSTANTS
  m1 = m1  m2 = m2  m3 = m3
  alice = alice  bob = bob
  feishu = feishu  telegram = telegram  cli = cli  dashboard = dashboard
  Dashboard = dashboard
  NoUser = NoUser
  NoChat = NoChat
  Users <- MCUsers
  Chats <- RequestChats
  Linked <- NothingLinked
  Msgs <- ThreeMsgs
  ChatOf <- CliChatOf
  UserOf <- CliUserOf
  Via <- CliVia
  Capacity = 2
  Multi = FALSE
  HasUserManager = TRUE
  EchoChats = {}
  MaxEchoes = 0
SYMMETRY Strangers
INVARIANTS AnswersStayWithUser NoStaleWaiters
CHECK_DEADLOCK FALSE
