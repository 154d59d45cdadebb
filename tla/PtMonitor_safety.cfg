SPECIFICATION Spec
CONSTANTS
  t1 = t1
  t2 = t2
  t3 = t3
  NoThread = NoThread
  Thread <- ThreeThreads
  Interrupters <- OneInterrupter
  MaxDepth = 2
  MaxNotify = 2
SYMMETRY Symmetry
INVARIANTS
  MonitorConsistent
  NotifierHoldsCv
  CvReclaimed
PROPERTIES
  MonitorContract
