SPECIFICATION Spec
CONSTANTS
  NoMsg = NoMsg
  Shapes <- TimedShapes
  MaxWrites = 3
  MaxReads = 3
  Prevent = {TRUE, FALSE}
  Filters = TRUE
INVARIANTS
  TypeOK
  StateAgreesWithFill
  NeverUnexpected
  NoLostWakeup
  OneOwner
  OrderedDelivery
  NoSilentLoss
  EndOfStreamIsTrue
  CopyIsLatest
PROPERTIES
  EndIsFinal
  ImplementsQueue
