---------------------------- MODULE Declarations ---------------------------
(* What an operator declares and what is read of it: a behaviour is one load of the   *)
(* configuration, one load of the registry or the lines of one log, and what the      *)
(* other two read stays where it starts.                                              *)
EXTENDS Configuration, LogLines, ModelRegistry

\* What may be written for the settings of the tree, beside the sources of any settings.
CONSTANTS OwnFiles, OwnEnvironments, OwnCommands

ASSUME OwnSourcesAssumption ==
  /\ \A f \in OwnFiles : \A name \in DOMAIN f.table : f.table[name] \in Written
  /\ \A table \in OwnEnvironments \cup OwnCommands :
       \A name \in DOMAIN table : table[name] \in Written

VARIABLE reader

LogIsClosed == threshold = "info" /\ LogStarts
NothingDeclared ==
  /\ declared = <<>> /\ file = [text |-> "none", table |-> <<>>]
  /\ environment = <<>> /\ overrides = <<>> /\ LoadStarts
NoFiles == directory = <<>> /\ RegistryStarts
OwnSettings ==
  /\ declared = SETTINGS /\ file \in OwnFiles
  /\ environment \in OwnEnvironments /\ overrides \in OwnCommands /\ LoadStarts

Init ==
  \/ reader = "configuration" /\ ConfigurationInit /\ NoFiles /\ LogIsClosed
  \/ reader = "configuration" /\ OwnSettings /\ NoFiles /\ LogIsClosed
  \/ reader = "registry" /\ RegistryInit /\ NothingDeclared /\ LogIsClosed
  \/ reader = "log" /\ LogInit /\ NothingDeclared /\ NoFiles

Next ==
  \/ /\ reader = "configuration" /\ ConfigurationNext
     /\ UNCHANGED <<reader, registryVars, logVars>>
  \/ /\ reader = "registry" /\ RegistryNext
     /\ UNCHANGED <<reader, configurationVars, logVars>>
  \/ /\ reader = "log" /\ LogNext
     /\ UNCHANGED <<reader, configurationVars, registryVars>>

Spec == Init /\ [][Next]_<<reader, configurationVars, registryVars, logVars>>

-----------------------------------------------------------------------------
\* What was parsed has the type of its kind, an entry is filed under its identifier with
\* sizes a budget can add up, and a log writes at a level that is one.
DeclarationsTypeOK == ConfigurationTypeOK /\ RegistryTypeOK /\ LogTypeOK
=============================================================================
