SPECIFICATION FairSpec
CONSTANTS
  root = root
  shell = shell
  frame = frame
  d1 = d1
  d2 = d2
  d3 = d3
  b1 = b1
  None = None
  Loader <- Loaders
  Root <- root
  Parent <- Chain
  Load <- Loads
  Background <- InBackground
  MaxFailed = 1
  MaxDepth = 2
CHECK_DEADLOCK FALSE
INVARIANTS
  TypeOK
  CountsMatch
  EndReported
PROPERTIES
  ToldWhenLoaded
  EveryDocumentEnds
