SPECIFICATION Spec
CONSTANTS
  h = h
  p = p
  q = q
  a = a
  b = b
  o = o
  NoThread = NoThread
  NoEvent = NoEvent
  NoOwner = NoOwner
  Thread <- ThreeThreads
  Handler = h
  Event <- TwoEvents
  OwnerOf <- Owners
  PipeCap = 4
  MaxTokens = 1
INVARIANTS
  TypeOK
  TokensMatch
  EventLifecycle
  SyncOutcome
  RevokedByHandler
PROPERTIES
  EveryEventDisposed
\* A poster whose wait has ended early may embrace the thread that has the
\* queue's monitor.
CHECK_DEADLOCK FALSE
