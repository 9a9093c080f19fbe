SPECIFICATION FairSpec
CONSTANTS
  e1 = e1  e2 = e2  e3 = e3  h1 = h1  h2 = h2
  Requests <- ThreeRequests
  Writes <- ThreeRequests
  Malformed = {e3}
  BufferSize = 2
  RecvCap = 1
  MaxLosses = 2
  MaxEntries = 5
  StreamMax = 2
  ReadCount = 2
  ChanCap = 2
  MaxReadErrors = 2
  Handlers <- TwoHandlers
  MaxEvents = 2
  MaxRestarts = 1
  Engines = {"behavior_profile", "memory_summaries"}
  MaxVersion = 1
CHECK_DEADLOCK FALSE
INVARIANTS
  StreamsTypeOK
  RequestsInOrder
  SinksAreIndependent
  NoGapAfterFirst
  HandlersAreTold
  ViewTellsItsSources
PROPERTIES
  EventsReachKafka
  StreamsSettle
