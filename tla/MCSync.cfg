SPECIFICATION Spec
CONSTANTS
  g = g
  a1 = a1
  a2 = a2
  a3 = a3
  a4 = a4
  b2 = b2
  b3 = b3
  b4 = b4
  a5 = a5
  b5 = b5
  p1 = p1
  p2 = p2
  none = none
  Block <- MCBlock
  Genesis = g
  Default = none
  Parent <- MCParent
  Nodes <- MCNodes
  Peer <- MCPeer
  MaxRequest = 3
  MaxImporting = 3
  MaxAhead = 3
  MajorSync = 1
  MaxParallel = 2
  QueueBound = 2
  Setups <- MCSetups
INVARIANTS
  UnderWay
  IdleHasNothingToAsk
PROPERTIES
  SearchIsExact
  CatchesUp
CHECK_DEADLOCK FALSE
