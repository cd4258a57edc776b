SPECIFICATION SafetySpec
CONSTANTS
  Clients = {c1, c2}
  Operators = {c1}
  Panickers = {c2}
  Commands = {"read", "identity", "token", "chat", "hosted"}
  ChatQueue = 1
  EventQueue = 1
  RequestQueue = 1
  HostedConfigured = TRUE
  KeyInDirectory = TRUE
INVARIANTS
  TypeOK
  NoUserOutlivesKeys
  CompleteMeansErased
  NoExitMidErase
  StoppingExcludesErase
PROPERTIES
  NothingRevived
  KeepsContract
CONSTRAINT WatcherFirst
