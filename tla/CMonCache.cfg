SPECIFICATION Spec
CONSTANTS
  t1 = t1
  t2 = t2
  t3 = t3
  NoThread = NoThread
  Thread <- ThreeThreads
  Addr = {1, 3}
  InitLog = 1
  FREE_THRESHOLD = 2
  MaxEntries = 5
  MaxDepth = 2
SYMMETRY Symmetry
INVARIANTS
  TypeOK
  CountsUses
  SameMonitor
  FreeListSound
PROPERTIES
  CachedMonitorContract
