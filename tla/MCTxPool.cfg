SPECIFICATION Spec
CONSTANTS
  Tx <- MCTx
  Provides <- MCProvides
  Requires <- MCRequires
  Priority <- MCPriority
  Block <- MCBlock
  Genesis = "g"
  Default = "none"
  Parent <- MCParent
  Nodes <- MCNodes
  Body <- MCBody
  ReadyLimit = 2
  FutureLimit = 1
  RejectFuture = FALSE
  ExpectedSize = 1
  MaxFinalityWatchers = 1
  BatchSize = 2
  Watched = {"t1", "t2"}
  MaxPending = 1
  Budgets <- MCBudgets
CHECK_DEADLOCK FALSE
INVARIANTS
  QueuesAgree
  IteratorIsComplete
  ToldIsTrue
PROPERTIES
  LimitsAreEnforced
