SPECIFICATION Spec
CONSTANTS
  NoMsg = NoMsg
  Shapes <- LossyShapes
  MaxWrites = 3
  MaxReads = 3
  Prevent = {FALSE}
  Filters = FALSE
INVARIANTS FifoOrder

