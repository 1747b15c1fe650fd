\* Two calls of run on one engine, cancelled and released at any moment.
SPECIFICATION FairSpec
CONSTANTS
  r1 = r1
  r2 = r2
  Run = {r1, r2}
  Scripts <- MCScripts
  Requests <- MCRequests
  Border = 1
  NoSteps = NoSteps
INVARIANTS
  TypeOK
  CancelledInTime
  FailsWhereScripted
  EstimateForetells
  UnmaskedPixelsStay
PROPERTIES
  ImplementsContract
  EveryRunEnds
