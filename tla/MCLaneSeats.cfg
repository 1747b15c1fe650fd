\* A lane of two seats, with two calls for one job.
SPECIFICATION FairSpec
CONSTANTS
  d1 = d1
  d2 = d2
  d3 = d3
  d4 = d4
  d5 = d5
  a = a
  b = b
  c = c
  e = e
  Dispatch = {d1, d2, d3, d4, d5}
  Job = {a, b, c, e}
  JobOf <- SharedJob
  Limit = 2
  Peak <- MCPeak
  Budgets <- LoadedDevice
INVARIANTS
  TypeOK
  NeverOverOccupied
  SeatsAreHeld
  OneWakeUpPerRefusal
PROPERTIES
  EveryDispatchEnds
