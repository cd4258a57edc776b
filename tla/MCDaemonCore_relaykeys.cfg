SPECIFICATION SafetySpec
CONSTANTS
  Clients = {c1}
  Operators = {c1}
  Panickers = {c1}
  Commands = {"read", "identity", "token", "chat", "hosted"}
  ChatQueue = 1
  EventQueue = 1
  RequestQueue = 1
  HostedConfigured = FALSE
  KeyInDirectory = TRUE
INVARIANT CompleteDropsRelayKeys
