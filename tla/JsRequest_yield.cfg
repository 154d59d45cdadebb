SPECIFICATION YieldSpec
CONSTANTS
  t1 = t1
  t2 = t2
  t3 = t3
  NoThread = NoThread
  Thread <- TwoThreads
  MaxDepth = 1
  MaxLevel = 1
INVARIANTS
  CollectsAlone
