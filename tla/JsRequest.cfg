SPECIFICATION Spec
CONSTANTS
  t1 = t1
  t2 = t2
  t3 = t3
  NoThread = NoThread
  Thread <- ThreeThreads
  MaxDepth = 2
  MaxLevel = 2
INVARIANTS
  CountsRequests
  CollectsAlone
PROPERTIES
  JoinedCollectionMarks
  CallsReturn
