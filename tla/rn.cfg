SPECIFICATION FairSpec
CONSTANTS
  NoMsg = NoMsg
  N = 2
  M = 2
  MaxWrites = 2
  Kinds <- CoupledKinds
INVARIANTS
  CollectorAgrees
  ReadNeverFails
  CollectorWakeup
  DrainsBeforeEnd
  AllRouted
  OutputsAgree
  BoundedBypass
PROPERTIES
  EverybodyEnds
