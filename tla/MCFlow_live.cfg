SPECIFICATION FairSpec
CONSTANTS
  m1 = m1  m2 = m2  m3 = m3
  alice = alice  bob = bob
  feishu = feishu  telegram = telegram  cli = cli  dashboard = dashboard
  Dashboard = dashboard
  NoUser = NoUser
  NoChat = NoChat
  Users <- MCUsers
  Chats <- MCChats
  Linked <- MCLinked
  Msgs <- TwoMsgs
  ChatOf <- TwinChatOf
  UserOf <- TwinUserOf
  Via <- TwinVia
  Capacity = 2
  Multi = TRUE
  HasUserManager = TRUE
  EchoChats = {}
  MaxEchoes = 0
PROPERTIES RepliesEndRequests QueuedReplyIsSent
CHECK_DEADLOCK FALSE
