SPECIFICATION FairSpec
CONSTANTS
  None = None
  Nets = {n1, n2}
  Keys = {k1}
  Programs <- FailingPrograms
PROPERTIES
  EveryNetThrough
CHECK_DEADLOCK FALSE
