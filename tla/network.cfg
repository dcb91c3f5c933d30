SPECIFICATION FairSpec
CONSTANTS
  NoMsg = NoMsg
  Nets <- Node
  Channels = {c1, c2, c3, c4}
  c1 = c1
  c2 = c2
  c3 = c3
  c4 = c4
  Open = Open
  Networks <- SmallNetworks
INVARIANTS
  EndHasCause
  NothingLeftUnread
PROPERTIES
  EndSpreads
