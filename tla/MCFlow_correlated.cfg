SPECIFICATION Spec
CONSTANTS
  m1 = m1  m2 = m2  m3 = m3
  alice = alice  bob = bob
  feishu = feishu  telegram = telegram  cli = cli  dashboard = dashboard
  Dashboard = dashboard
  NoUser = NoUser
  NoChat = NoChat
  Users <- MCUsers
  Chats <- MCChats
  Linked <- MCLinked
  Msgs <- ThreeMsgs
  ChatOf <- UserChatOf
  UserOf <- UserUserOf
  Via <- UserVia
  Capacity = 3
  Multi = TRUE
  HasUserManager = TRUE
  EchoChats = {}
  MaxEchoes = 0
INVARIANT AnswersAreCorrelated
CHECK_DEADLOCK FALSE
