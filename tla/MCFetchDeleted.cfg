\* Two callers, and deletions while they fetch.
SPECIFICATION Spec
CONSTANTS
  p1 = p1
  p2 = p2
  e1 = e1
  e2 = e2
  e3 = e3
  e4 = e4
  e5 = e5
  Fetch = {p1, p2}
  Entry = {e1, e2, e3, e4, e5}
  ModelOf <- MCModelOf
  Size <- MCSize
  Source <- MCSource
  Budget = 2
  f1 = f1
  f2 = f2
  f3 = f3
  f4 = f4
  f5 = f5
  f6 = f6
  File = {f1, f2, f3, f4, f5, f6}
  LiveDeletion = TRUE
SYMMETRY Symmetry
INVARIANTS
  WholeArtefacts
