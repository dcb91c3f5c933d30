SPECIFICATION Spec
CONSTANTS
  NoMsg = NoMsg
  N = 1
  Timers <- Streams
  Copies = {FALSE}
INVARIANTS
  EndAfterLastMessage
