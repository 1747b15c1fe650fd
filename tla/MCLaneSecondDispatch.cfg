\* A second dispatch of a job that is on the device, with two seats.
SPECIFICATION Spec
CONSTANTS
  d1 = d1
  d2 = d2
  d3 = d3
  d4 = d4
  d5 = d5
  a = a
  b = b
  c = c
  e = e
  Dispatch = {d1, d2, d3, d4, d5}
  Job = {a, b, c, e}
  JobOf <- SharedJob
  Limit = 2
  Peak <- MCPeak
  Budgets <- EmptyDevice
INVARIANTS
  NoStrandedWaiter
