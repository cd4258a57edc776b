SPECIFICATION Spec
CONSTANTS
  MaxSerialized = 262144
  MaxContent = 65536
  MaxTags = 64
  MaxFuture = 1
  Envelope = 300
  Skew = 0
  Url <- MCUrl
  Authors = {"bob", "carol"}
  MaxDmRelays = 3
  MaxListRelays = 16
  MaxAge = 1
  Freshness = 1
  MaxRecords = 1
  MaxCacheBytes = 390
  TagBytes = 40
  IdBefore <- MCIdBefore
  MaxHeader = 3
  MaxDocument = 5
  Me = "me"
  Once = "once"
  Pool = {"w1", "w2"}
  Served <- MCServed
  Wraps <- MCWraps
  Blockable = {"bob"}
  Said <- MCSaid
  Bootstrap <- MCBootstrap
  Responses <- MCResponses
  Handle <- MCHandle
  DedupCapacity = 1
  DedupTtl = 2
  MaxSearch = 16
  MaxTime = 2
  MaxCalls <- MCMaxCalls
INVARIANTS
  FindsNewest
  DeliveredToInbox
  InboxAuthenticOnce
  ResolvedExactly
PROPERTIES
  CacheForward
CHECK_DEADLOCK FALSE
