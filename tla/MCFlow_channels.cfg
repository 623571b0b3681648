SPECIFICATION Spec
CONSTANTS
  m1 = m1  m2 = m2  m3 = m3
  alice = alice  bob = bob
  feishu = feishu  telegram = telegram  cli = cli  dashboard = dashboard
  Dashboard = dashboard
  NoUser = NoUser
  NoChat = NoChat
  Users <- MCUsers
  Chats <- MCChats
  Linked <- MCLinked
  Msgs <- ThreeMsgs
  ChatOf <- ChannelChatOf
  UserOf <- ChannelUserOf
  Via <- ChannelVia
  Capacity = 3
  Multi = TRUE
  HasUserManager = TRUE
  EchoChats = {telegram, feishu}
  MaxEchoes = 1
INVARIANTS TypeOK RepliesStayInScope NeverAnswersItself RepliesInOrder HistoryInOrder
CHECK_DEADLOCK FALSE
