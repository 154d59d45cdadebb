\* Passing: two copies of one document, two readers, lack of memory.
CONSTANTS
  old = old
  new = new
  page = page
  r1 = r1
  r2 = r2
  None = None
  Copy <- Copies
  Key = {page}
  KeyOf <- Keyed
  MustCache = {new}
  Reader = {r1, r2}
  Limits = {0, 2}
  MaxSize <- Sizes
  MaxLocks = 1
  MaxFaults = 2
  MaxDepth = 2
SPECIFICATION FairSpec
INVARIANTS TypeOK InUseKept Reclaimed
PROPERTIES LimitRestored ReadersEnd
\* Nobody is obliged to load another document.
CHECK_DEADLOCK FALSE
