SPECIFICATION FairSpec
CONSTANTS
  None = None
  Nets = {n1, n2, n3}
  Keys = {k1}
  Programs <- AllPrograms
INVARIANTS
  PhasesApart
  OneSharedState
  RunsConfigured
PROPERTIES
  StartupCompletes
CHECK_DEADLOCK FALSE
