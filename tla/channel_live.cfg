SPECIFICATION RFairSpec
CONSTANTS
  NoMsg = NoMsg
  Shapes <- UntimedShapes
  MaxWrites = 3
  MaxReads = 3
  Prevent = {FALSE}
  Filters = FALSE
INVARIANTS
  RingHoldsFifo
PROPERTIES
  EveryReadReturns
  EveryWriteReturns
  EveryMessageIsRead
  ImplementsFairQueue
