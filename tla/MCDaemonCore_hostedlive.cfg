SPECIFICATION Spec
CONSTANTS
  Clients = {c1, c2}
  Operators = {c1}
  Panickers = {c2}
  Commands = {"token", "hosted"}
  ChatQueue = 1
  EventQueue = 1
  RequestQueue = 1
  HostedConfigured = TRUE
  KeyInDirectory = FALSE
ACTION_CONSTRAINTS
  ConnectAfterWatcher
  CleanupSucceeds
  SteadySession
PROPERTIES
  EraseTerminates
  ShutdownCompletes
