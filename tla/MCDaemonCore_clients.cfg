SPECIFICATION Spec
CONSTANTS
  Clients = {c1, c2}
  Operators = {c1, c2}
  Panickers = {c1, c2}
  Commands = {"read", "identity", "token", "chat", "hosted"}
  ChatQueue = 1
  EventQueue = 1
  RequestQueue = 1
  HostedConfigured = FALSE
  KeyInDirectory = FALSE
PROPERTIES
  ShutdownCompletes
  KeepsLiveContract
