SPECIFICATION Spec
CONSTANTS
  g = g
  a1 = a1
  a2 = a2
  a3 = a3
  a4 = a4
  b2 = b2
  b3 = b3
  f1 = f1
  f2 = f2
  f3 = f3
  f4 = f4
  h2 = h2
  none = none
  Block <- MCBlock
  Genesis = g
  Default = none
  Parent <- MCParent
  Nodes <- MCNodes
  Signal <- MCSignal
  Setups <- MCSetups
INVARIANTS
  SetsAgree
  SignalsArePending
  HandoverIsFollowed
  VoterIsTold
  NoEquivocation
PROPERTIES
  PrevoteOverBase
  SetIdNamesOneSet
CHECK_DEADLOCK FALSE
