SPECIFICATION Spec
CONSTANTS
  None = None
  NoDocument = NoDocument
  NotGiven = NotGiven
  Null = Null
  MaxMapItems = 2
  MaxNets = 2
  MaxRounds = 2
  Programs <- MCPrograms
  Nets <- MCNets
  NetFiles <- MCNetFiles
  Payloads <- MCPayloads
  SrcPrefixes <- MCPrefixes
  Garbage <- MCGarbage
INVARIANTS
  MappedByLastPayload
  ShapeKept
  SrcIterFresh
  ExplicitTypeWins
  NetsFollowFiles
CHECK_DEADLOCK FALSE
