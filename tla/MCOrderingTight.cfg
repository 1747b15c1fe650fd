\* The loop over six jobs, budgets LoadedDevice, and a bound of two.
SPECIFICATION Spec
CONSTANTS
  Bound = 2
  Ident <- MCIdent
  Peak <- MCPeak
  Budgets <- LoadedDevice
INVARIANTS
  StarvationBound
