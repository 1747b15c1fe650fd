\* Two connections over one file with two jobs.
SPECIFICATION Spec
CONSTANTS
  j1 = j1
  j2 = j2
  c1 = c1
  c2 = c2
  Job = {j1, j2}
  Connection = {c1, c2}
  Interruptible = {c1, c2}
  Listed = {"running"}
  Request <- MCRequest
  FileRow <- MCFileRow
SYMMETRY Symmetry
INVARIANTS
  TypeOK
  AnswersHold
  OneWinner
  DecisionsStand
PROPERTIES
  ImplementsLedger
  RecoveryIsWhole
  FinishedStaysFinished
