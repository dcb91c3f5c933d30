SPECIFICATION Spec
CONSTANTS
  NoMsg = NoMsg
  Shapes <- TimedShapes
  MaxWrites = 3
  MaxReads = 3
  Prevent = {FALSE}
  Filters = FALSE
INVARIANTS FailedWriteHasCause

