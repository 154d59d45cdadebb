SPECIFICATION FairSpec
CONSTANTS
  t1 = t1
  t2 = t2
  t3 = t3
  NoThread = NoThread
  Thread <- ThreeThreads
  Interrupters = {}
  MaxDepth = 2
  MaxNotify = 1
PROPERTIES
  BroadcastWakes
