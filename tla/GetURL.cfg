SPECIFICATION FairSpec
CONSTANTS
  page = page
  image = image
  link = link
  w1 = w1
  w2 = w2
  URL <- Urls
  Window <- Windows
  WindowOf <- Places3
  Image <- Images
  Background <- Prefetches
  Prefetch <- Prefetches
  Socket <- Sockets
  OnlyFromCache <- CacheLooks
  MaxProcessing = 2
  MaxOpen = 2
  MaxPerContext = 1
  MaxFaults = 2
CHECK_DEADLOCK FALSE
INVARIANTS
  TypeOK
  CountExact
  OnePlace
  HandlerKeepsEntry
  QueueServed
PROPERTIES
  EveryUrlEnds
