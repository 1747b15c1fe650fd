--------------------------- MODULE Configuration ---------------------------
(* The configuration loader (retusche.config): three sources are read, merged with  *)
(* the most specific one last, parsed against the declared kinds, and the whole is  *)
(* refused at once or served through accessors that check the kind at every read.   *)
(*                                                                                  *)
(* A written value is its TOML type and what it says; of its text only what a kind  *)
(* tells apart is kept: the two truth values, a whole number, a number of more      *)
(* digits than int() reads, and any other words.                                    *)
EXTENDS Functions, Integers, Sequences

CONSTANTS Declarations,  \* tuples of settings to load against
          Files,         \* configuration files
          Environments,  \* environments, keyed by the setting a variable is named for
          Commands,      \* overrides, which are text
          Typo,          \* a name, or a prefixed variable, no setting has
          Foreign        \* an environment variable without the prefix

VARIABLES declared, file, environment, overrides,
          stage,     \* what load does next, or how it ended
          turn,      \* the source being merged, then the setting being parsed
          tables,    \* what each source yielded, in the order they override
          raw, problems, parsed,
          answer,    \* what the last accessor gave its caller
          lines      \* effective_lines, once rendered

sources == <<declared, file, environment, overrides>>
configurationVars == <<sources, stage, turn, tables, raw, problems, parsed, answer, lines>>

Text(says) == [type |-> "str", says |-> says]
NoValue == [type |-> "None", says |-> "nothing"]
Refused == [type |-> "refused", says |-> "nothing"]
REDACTED == "<redacted>"

Setting(name, kind, default) == [name |-> name, kind |-> kind, default |-> default]

\* The settings this tree declares. A path has no default, and a budget has one that is
\* written as an operator would write it.
SETTINGS ==
  <<Setting("job_store_path", "PATH", NoValue),
    Setting("model_registry_path", "PATH", NoValue),
    Setting("model_store_path", "PATH", NoValue),
    Setting("model_disk_budget_bytes", "INTEGER", Text("number")),
    Setting("device_memory_budget_bytes", "INTEGER", Text("number")),
    Setting("log_level", "TEXT", Text("words"))>>

\* What TOML, a variable or an override can say.
Written == [type : {"str"}, says : {"true", "false", "number", "endless", "words"}]
           \cup [type : {"int"}, says : {"number"}]
           \cup [type : {"bool"}, says : {"true", "false"}]
           \cup [type : {"other"}, says : {"words"}]
Names(settings) == {settings[i].name : i \in DOMAIN settings}

Problem(what, name, source, shown) ==
  [what |-> what, name |-> name, source |-> source, shown |-> shown]

\* The kinds, each of which has its accessor.
Accessors == {"TEXT", "SECRET", "INTEGER", "BOOLEAN", "PATH"}

\* A setting is looked up by its name, which no two of them share.
SoundSettings(settings) ==
  /\ settings \in Seq([name : Names(settings), kind : Accessors,
                       default : Written \cup {NoValue}])
  /\ \A i, j \in DOMAIN settings : settings[i].name = settings[j].name => i = j

ASSUME DeclarationsAssumption == \A settings \in Declarations : SoundSettings(settings)
ASSUME SourcesAssumption ==
  /\ \A f \in Files : \A name \in DOMAIN f.table : f.table[name] \in Written
  /\ \A table \in Environments \cup Commands :
       \A name \in DOMAIN table : table[name] \in Written

NoAnswer == [name |-> Typo, asked |-> "str", value |-> NoValue]

-----------------------------------------------------------------------------
(* One value as its declared kind, or a refusal. *)

\* True and False are whole numbers to Python, so both parsers ask for bool first.
boolean(written) ==
  IF \/ written.type = "bool"
     \/ written.type = "str" /\ written.says \in {"true", "false"}
  THEN [written EXCEPT !.type = "bool"] ELSE Refused

is_whole_number(written) == written.says \in {"number", "endless"}

\* Mutant: only int is asked for, which True is.
integerOrTruth(written) ==
  IF \/ written.type \in {"int", "bool"}
     \/ written.type = "str" /\ is_whole_number(written)
  THEN [written EXCEPT !.type = "int"] ELSE Refused

integer(written) ==
  IF \/ written.type = "int"
     \/ written.type = "str" /\ is_whole_number(written)
  THEN [written EXCEPT !.type = "int"] ELSE Refused

\* Mutant: a secret stays the string it was written as.
coerceBare(setting, written) ==
  CASE setting.kind = "BOOLEAN" -> boolean(written)
    [] setting.kind = "INTEGER" -> integer(written)
    [] OTHER ->
         IF written.type # "str" THEN Refused
         ELSE [written EXCEPT !.type = IF setting.kind = "PATH" THEN "Path" ELSE "str"]

coerce(setting, written) ==
  CASE setting.kind = "BOOLEAN" -> boolean(written)
    [] setting.kind = "INTEGER" -> integer(written)
    [] OTHER ->
         IF written.type # "str" THEN Refused
         ELSE [written EXCEPT !.type = CASE setting.kind = "PATH" -> "Path"
                                         [] setting.kind = "SECRET" -> "Secret"
                                         [] setting.kind = "TEXT" -> "str"]

\* int() refuses more digits than its limit with a ValueError, which is not the
\* refusal load collects.
Overflows(setting, written) ==
  /\ setting.kind = "INTEGER"
  /\ written = Text("endless")

\* Mutant: the refusal quotes what was written whatever the kind.
refusedQuoting(setting, written) ==
  Problem("malformed", setting.name, "", written.says)

\* What was written is quoted unless the setting is a secret.
refused(setting, written) ==
  Problem("malformed", setting.name, "",
          IF setting.kind = "SECRET" THEN REDACTED ELSE written.says)

-----------------------------------------------------------------------------
(* load *)

LoadStarts ==
  /\ stage = "file" /\ turn = 1
  /\ tables = <<>> /\ raw = <<>> /\ problems = {} /\ parsed = <<>>
  /\ answer = NoAnswer /\ lines = {}

ConfigurationInit ==
  /\ declared \in Declarations /\ file \in Files
  /\ environment \in Environments /\ overrides \in Commands
  /\ LoadStarts

\* A file that is not there is an empty table, and one that is not TOML is a problem
\* and an empty table; a number in it that int() will not read ends the load.
from_file ==
  /\ stage = "file"
  /\ stage' = IF file.text = "endless" THEN "raised" ELSE "environment"
  /\ tables' = IF file.text = "endless" THEN tables
               ELSE <<IF file.text = "TOML" THEN file.table ELSE <<>> >>
  /\ problems' = IF file.text = "not TOML" THEN {Problem("unreadable", Typo, "file", "nothing")}
                 ELSE problems
  /\ UNCHANGED <<sources, turn, raw, parsed, answer, lines>>

\* A variable without the prefix is passed over; one with it that names no setting is
\* a problem and is not among what was found.
from_environment ==
  /\ stage = "environment"
  /\ stage' = "merging"
  /\ problems' = problems \cup
       {Problem("unknown", variable, "environment", "nothing") :
          variable \in DOMAIN environment \ (Names(declared) \cup {Foreign})}
  /\ tables' = <<tables[1], Restrict(environment, DOMAIN environment \cap Names(declared)),
                 overrides>>
  /\ UNCHANGED <<sources, turn, raw, parsed, answer, lines>>

\* Mutant: the first source to name a setting keeps it.
OverridingNothing(table) ==
  [name \in DOMAIN raw \cup (DOMAIN table \cap Names(declared)) |->
     IF name \in DOMAIN raw THEN raw[name] ELSE table[name]]

\* What a table says of a declared name replaces what an earlier one said.
Overriding(table) ==
  LET known == DOMAIN table \cap Names(declared)
  IN  [name \in DOMAIN raw \cup known |-> IF name \in known THEN table[name] ELSE raw[name]]

Merge ==
  /\ stage = "merging"
  /\ raw' = Overriding(tables[turn])
  /\ problems' = problems \cup
       {Problem("unknown", name, IF turn = 1 THEN "file" ELSE "overrides", "nothing") :
          name \in DOMAIN tables[turn] \ Names(declared)}
  /\ stage' = IF turn = Len(tables) THEN "parsing" ELSE stage
  /\ turn' = IF turn = Len(tables) THEN 1 ELSE turn + 1
  /\ UNCHANGED <<sources, tables, parsed, answer, lines>>

WrittenFor(setting) ==
  IF setting.name \in DOMAIN raw THEN raw[setting.name] ELSE setting.default

\* One setting is parsed, or adds its problem, and the next one is looked at whichever
\* it was.
Parse ==
  /\ stage = "parsing" /\ turn <= Len(declared)
  /\ LET setting == declared[turn]
         written == WrittenFor(setting)
         value == coerce(setting, written)
     IN  IF Overflows(setting, written)
         THEN stage' = "raised" /\ UNCHANGED <<turn, problems, parsed>>
         ELSE /\ turn' = turn + 1
              /\ stage' = stage
              /\ \/ /\ written = NoValue
                    /\ problems' = problems \cup {Problem("missing", setting.name, "", "nothing")}
                    /\ parsed' = parsed
                 \/ /\ written # NoValue /\ value = Refused
                    /\ problems' = problems \cup {refused(setting, written)}
                    /\ parsed' = parsed
                 \/ /\ written # NoValue /\ value # Refused
                    /\ parsed' = [name \in DOMAIN parsed \cup {setting.name} |->
                                   IF name = setting.name THEN value ELSE parsed[name]]
                    /\ problems' = problems
  /\ UNCHANGED <<sources, tables, raw, answer, lines>>

Outcome == IF problems = {} THEN "loaded" ELSE "refused"

Decide ==
  /\ stage = "parsing" /\ turn > Len(declared)
  /\ stage' = Outcome
  /\ UNCHANGED <<sources, turn, tables, raw, problems, parsed, answer, lines>>

-----------------------------------------------------------------------------
(* The accessors, each of which reads one kind. *)

\* What an accessor promises its caller.
Promised(kind) ==
  CASE kind = "TEXT" -> "str" [] kind = "SECRET" -> "Secret" [] kind = "INTEGER" -> "int"
    [] kind = "BOOLEAN" -> "bool" [] kind = "PATH" -> "Path"

\* The declaration under a name, which nothing is where no setting has it.
Declared(name) == {declared[i] : i \in {j \in DOMAIN declared : declared[j].name = name}}

checked(name, kind) ==
  IF \E setting \in Declared(name) : setting.kind = kind THEN parsed[name] ELSE Refused

Read(name, kind) ==
  /\ stage = "loaded"
  /\ answer' = [name |-> name, asked |-> Promised(kind), value |-> checked(name, kind)]
  /\ UNCHANGED <<sources, stage, turn, tables, raw, problems, parsed, lines>>

\* What repr and a format string make of a value.
Shown(value) == IF value.type = "Secret" THEN REDACTED ELSE value.says

effective_lines ==
  /\ stage = "loaded" /\ lines = {}
  /\ lines' = {[name |-> setting.name,
                shown |-> IF setting.kind = "SECRET" THEN REDACTED ELSE Shown(parsed[setting.name])] :
                 setting \in {declared[i] : i \in DOMAIN declared}}
  /\ UNCHANGED <<sources, stage, turn, tables, raw, problems, parsed, answer>>

ConfigurationNext ==
  \/ from_file \/ from_environment \/ Merge \/ Parse \/ Decide
  \/ \E name \in Names(declared) \cup {Typo}, kind \in Accessors : Read(name, kind)
  \/ effective_lines

ConfigurationSpec == ConfigurationInit /\ [][ConfigurationNext]_configurationVars

-----------------------------------------------------------------------------
(* Properties *)

\* Every variable keeps its type, and nothing that was refused is among the parsed.
ConfigurationTypeOK ==
  /\ stage \in {"file", "environment", "merging", "parsing", "loaded", "refused", "raised"}
  /\ turn \in 1 .. Len(declared) + 3
  /\ DOMAIN raw \subseteq Names(declared) /\ DOMAIN parsed \subseteq Names(declared)
  /\ \A name \in DOMAIN raw : raw[name] \in Written
  /\ \A setting \in {declared[i] : i \in DOMAIN declared} :
       setting.name \in DOMAIN parsed =>
         parsed[setting.name].type = Promised(setting.kind)

\* What a reader of the documents would say is in force for a setting: the override,
\* else the variable, else the file, else the default.
InForce(setting) ==
  CASE setting.name \in DOMAIN overrides -> overrides[setting.name]
    [] setting.name \notin DOMAIN overrides /\ setting.name \in DOMAIN environment ->
         environment[setting.name]
    [] OTHER -> IF file.text = "TOML" /\ setting.name \in DOMAIN file.table
                THEN file.table[setting.name] ELSE setting.default

\* What each kind accepts.
Accepts(kind, written) ==
  CASE kind = "BOOLEAN" -> written.says \in {"true", "false"}
    [] kind = "INTEGER" -> written.type # "bool" /\ written.says = "number"
    [] OTHER -> written.type = "str"

\* The mistakes the three sources hold between them: names nothing reads, settings nobody
\* wrote, and values in force that are not what their kind is.
Mistakes ==
  (IF file.text = "not TOML" THEN {<<"unreadable", "file", Typo>>} ELSE {})
  \cup {<<"unknown", "file", n>> :
          n \in IF file.text = "TOML" THEN DOMAIN file.table \ Names(declared) ELSE {}}
  \cup {<<"unknown", "environment", n>> : n \in DOMAIN environment \ (Names(declared) \cup {Foreign})}
  \cup {<<"unknown", "overrides", n>> : n \in DOMAIN overrides \ Names(declared)}
  \cup {<<IF InForce(s) = NoValue THEN "missing" ELSE "malformed", "", s.name>> :
          s \in {t \in {declared[i] : i \in DOMAIN declared} :
                   InForce(t) = NoValue \/ ~Accepts(t.kind, InForce(t))}}

\* A load that ends names every mistake in what is in force and no other, and it serves
\* a configuration only where there was none (load, loading.py).
EveryMistakeNamed ==
  stage \in {"loaded", "refused"} =>
    /\ {<<p.what, p.source, p.name>> : p \in problems} = Mistakes
    /\ stage = "loaded" <=> Mistakes = {}

\* Whatever an accessor gives out is what the most specific source said, as the type
\* the accessor promises, or the default where no source said anything.
MostSpecificWins ==
  stage = "loaded" =>
    /\ \A i \in DOMAIN declared : parsed[declared[i].name].says = InForce(declared[i]).says
    /\ answer.value.type \in {"None", "refused", answer.asked}

\* What is written for a secret reaches no refusal and no rendering, and no accessor
\* gives it out as a value that would print it.
SecretsStayHidden ==
  \A i \in DOMAIN declared : declared[i].kind = "SECRET" =>
    /\ \A p \in problems : p.name = declared[i].name => p.shown \in {"nothing", REDACTED}
    /\ \A line \in lines : line.name = declared[i].name => line.shown = REDACTED
    /\ answer.name = declared[i].name => Shown(answer.value) \in {"nothing", REDACTED}
=============================================================================
