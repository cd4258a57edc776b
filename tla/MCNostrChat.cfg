SPECIFICATION Spec
CONSTANTS
  Relays = {"r1"}
  Subscriptions = {"dm"}
  Dm = "dm"
  Events <- MCEvents
  Inbound <- MCInbound
  Opened <- MCOpened
  WrapFor <- MCWrapFor
  SelfCopy <- MCSelfCopy
  DmList = "list"
  Sends = {"s1"}
  Secure = {"r1"}
  Policy = "AuthenticateWhenChallenged"
  CommandDepth = 1
  NoteDepth = 2
  Threshold = 1
  DedupCapacity = 1
  MaxMessages = 1
INVARIANTS
  ReplayExact
  SubscriptionNotLost
  WindowExact
  AnnouncedIsSaved
PROPERTIES
  SendIsTrue
  AuthFence
  RequestsAnswered
