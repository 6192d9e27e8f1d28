SPECIFICATION Spec
CONSTANTS
  Block <- MCBlock
  Genesis = "g"
  Default = "none"
  Parent <- MCParent
  Nodes <- MCNodes
  Setups <- MCSetups
  CanonicalizationDelay = 2
  FinalImports = FALSE
  FailingWrites = {"import"}
INVARIANTS
  StateIsReadable
  NothingIsKept
  RefCountsAreExact
  WindowSurvivesRestart
  ChainIsIndexed
CHECK_DEADLOCK FALSE
