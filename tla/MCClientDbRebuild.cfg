SPECIFICATION Spec
CONSTANTS
  Block <- MCBlock
  Genesis = "g"
  Default = "none"
  Parent <- MCParent
  Nodes <- MCNodes
  Setups <- MCFaultless
  CanonicalizationDelay = 2
  FinalImports = FALSE
  FailingWrites = {"import"}
INVARIANTS
  OverlayIsRebuilt
CHECK_DEADLOCK FALSE
