SPECIFICATION DestroySpec
CONSTANTS
  h = h
  p = p
  q = q
  a = a
  b = b
  o = o
  NoThread = NoThread
  NoEvent = NoEvent
  NoOwner = NoOwner
  Thread <- TwoThreads
  Handler = h
  Event <- TwoEvents
  OwnerOf <- Owners
  PipeCap = 2
  MaxTokens = 0
PROPERTIES
  SyncReturns
\* A poster whose wait has ended early may embrace the thread that has the
\* queue's monitor.
CHECK_DEADLOCK FALSE
