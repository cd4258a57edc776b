SPECIFICATION Spec
CONSTANTS
  c1 = c1
  c2 = c2
  Calls <- MCCalls
  RequestDepth = 1
  EventDepth = 1
  MaxConnections = 2
  MaxPushes = 1
INVARIANTS
  TypeOK
  ReplyMatches
  AccountNotInvented
PROPERTIES
  StoppedIsQuiet
  CallsReturn
  StopEnds
