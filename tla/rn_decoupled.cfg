SPECIFICATION Spec
CONSTANTS
  NoMsg = NoMsg
  N = 2
  M = 1
  MaxWrites = 2
  Kinds <- DecoupledKinds
INVARIANTS DrainsBeforeEnd
