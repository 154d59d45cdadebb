\* Passing: three threads contend for one lock; a spuriously ended wait.
CONSTANTS
  a = a
  b = b
  c = c
  Thread <- MCThread
  NoThread = NoThread
  MaxSpurious = 1
SPECIFICATION Spec
INVARIANTS SleepersCounted WakeupOwed
PROPERTIES LockContract SomeoneGetsIt
\* Threads spin for ever once the busy mark has been left behind.
CHECK_DEADLOCK FALSE
