\* The loop over six jobs, budgets EmptyDevice, and a bound of two.
SPECIFICATION Spec
CONSTANTS
  Bound = 2
  Ident <- MCIdent
  Peak <- MCPeak
  Budgets <- EmptyDevice
INVARIANTS
  StarvationBound
  OneBackgroundAtATime
  EachHasItsTurn
  PositionForetells
