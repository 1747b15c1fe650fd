\* Loads of small configurations and of registries of up to three files, and the lines of a log.
SPECIFICATION Spec
CONSTANTS
  Declarations <- MCDeclarations
  Files <- MCFiles
  Environments <- MCEnvironments
  Commands <- MCCommands
  OwnFiles <- MCOwnFiles
  OwnEnvironments <- MCOwnEnvironments
  OwnCommands <- MCOwnCommands
  Typo = "typo"
  Foreign = "foreign"
  Directories <- MCDirectories
  Alphabet <- MCAlphabet
  Thresholds = {"debug", "info", "warning", "error", "verbose"}
  Calls <- MCCalls
  MaxRecords = 2
INVARIANTS
  DeclarationsTypeOK
  EveryMistakeNamed
  MostSpecificWins
  SecretsStayHidden
  WholeOrNotAtAll
  OnlyDeclaredReachesALine
  VerbosityOnlyAddsLines
\* A load ends.
CHECK_DEADLOCK FALSE
