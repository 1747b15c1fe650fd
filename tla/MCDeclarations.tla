--------------------------- MODULE MCDeclarations --------------------------
(* Small values of what an operator may declare and write, for TLC.                    *)
EXTENDS Declarations, TLC

\* A setting of every kind with each sort of default, beside a secret with none.
MCDeclarations ==
  {<<Setting("a", kind, default), Setting("b", "SECRET", NoValue)>> :
     kind \in Accessors, default \in {NoValue, Text("true"), Text("number")}}

Tables(values, other) ==
  {<<>>, other, "typo" :> Text("words")}
  \cup {"a" :> v : v \in values} \cup {("a" :> v) @@ other : v \in values}

InFile ==
  {Text(says) : says \in {"true", "number", "endless", "words"}}
  \cup {[type |-> "int", says |-> "number"], [type |-> "bool", says |-> "false"],
        [type |-> "other", says |-> "words"]}

MCFiles ==
  {[text |-> t, table |-> <<>>] : t \in {"none", "not TOML", "endless"}}
  \cup {[text |-> "TOML", table |-> t] :
          t \in Tables(InFile, "b" :> Text("words"))
                \cup Tables(InFile, "b" :> [type |-> "int", says |-> "number"])}

MCEnvironments ==
  Tables({Text("number"), Text("words")}, "b" :> Text("words") @@ "foreign" :> Text("words"))

MCCommands == Tables({Text("true")}, "b" :> Text("number"))

MCAlphabet == <<"lama", "sd">>

Source(path, query) == [form |-> "url", path |-> path, query |-> query]

Good(name) ==
  [extra |-> FALSE, identifier |-> name, digest |-> "sha256", engine |-> "erase_engine",
   source |-> Source(<<"file">>, <<>>),
   size_bytes |-> [type |-> "int", is |-> 2], device_memory_bytes |-> [type |-> "int", is |-> 1],
   operations |-> [form |-> "list", names |-> {"erase", "extend"}],
   licence |-> [form |-> "table", extra |-> FALSE, identifier |-> "MIT", url |-> "url"],
   access |-> [form |-> "table", extra |-> FALSE, gated |-> "false", obtain |-> "blank"]]

Counts == {[type |-> t, is |-> n] : t \in {"int", "bool"}, n \in {0, 1}}
          \cup {[type |-> "int", is |-> -1], [type |-> "absent", is |-> 0]}

\* Every way one field departs from a sound file, and the sources that name a revision
\* in a path, in a query, in both, or only where the path ends.
Departures(good) ==
  {[good EXCEPT !.identifier = v] : v \in Lacking}
  \cup {[good EXCEPT !.engine = v] : v \in Lacking}
  \cup {[good EXCEPT !.digest = v] : v \in Lacking \cup {"misspelt"}}
  \cup {[good EXCEPT !.licence.identifier = v] : v \in Lacking \cup {"placeholder"}}
  \cup {[good EXCEPT !.licence.url = v] : v \in Lacking}
  \cup {[good EXCEPT !.licence.form = v] : v \in {"absent", "other type"}}
  \cup {[good EXCEPT !.access.form = v] : v \in {"absent", "other type"}}
  \cup {[good EXCEPT !.access.extra = TRUE], [good EXCEPT !.licence.extra = TRUE],
        [good EXCEPT !.extra = TRUE]}
  \cup {[good EXCEPT !.access.gated = g, !.access.obtain = o] :
          g \in {"absent", "other type", "true", "false"},
          o \in {"absent", "other type", "blank", "sentence"}}
  \cup {[good EXCEPT !.size_bytes = v] : v \in Counts}
  \cup {[good EXCEPT !.device_memory_bytes = v] : v \in Counts}
  \cup {[good EXCEPT !.operations = [form |-> f, names |-> n]] :
          f \in {"absent", "other type", "list"}, n \in {{}, {"erase"}, {"erase", "inpaint"}}}
  \cup {[good EXCEPT !.source = [form |-> f, path |-> <<>>, query |-> <<>>]] :
          f \in Lacking \cup {"malformed"}}
  \cup {[good EXCEPT !.source.form = "malformed", !.identifier = "blank"]}
  \cup {[good EXCEPT !.source = Source(p, q)] :
          p \in {<<"file">>, <<"resolve", "commit", "file">>, <<"tree", "main", "file">>,
                 <<"raw", "short">>, <<"blob", "commit", "tree", "main">>,
                 <<"file", "resolve">>, <<"resolve", "tree", "commit">>},
          q \in {<<>>, << <<"ref", "main">> >>, << <<"rev", "commit">> >>,
                 << <<"ref", "blank">>, <<"revision", "commit">> >>,
                 << <<"download", "main">>, <<"revision", "short">> >>}}

Holding(read) == [text |-> "TOML", fields |-> read]
Unreadable == {[text |-> t, fields |-> Good("sd")] : t \in {"not TOML"} \cup Escaping}

\* A departing file before, between and after others, two that depart, and none.
MCDirectories ==
  LET odd == {Holding(departing) : departing \in Departures(Good("sd"))} \cup Unreadable
      even == {Holding(Good(name)) : name \in {"lama", "sd"}}
  IN  {<<>>} \cup {<<f, g>> : f \in odd, g \in even} \cup {<<g, f>> : f \in odd, g \in even}
      \cup {<<f, g>> : f, g \in even} \cup {<<f, g>> : f \in odd, g \in Unreadable}
      \cup {<<g, f, h>> : f \in odd, g, h \in even}

\* Every way to give one declared field a value, beside a field that is sound.
Readings ==
  {[type |-> "str", says |-> says] : says \in {"token", "empty", "prose"}}
  \cup {[type |-> "int", says |-> says] : says \in {"count", "negative"}}
  \cup {[type |-> "bool", says |-> "true"], [type |-> "other", says |-> "token"]}

MCCalls ==
  LET token == [type |-> "str", says |-> "token"]
      count == [type |-> "int", says |-> "count"]
      Call(event, asked, fields) == [event |-> event, level |-> asked, fields |-> fields]
  IN  {Call("token", asked, "job_id" :> token @@ "queue_depth" :> count) : asked \in Level}
      \cup {Call("token", "info", <<>>)}
      \cup {Call("token", "debug", name :> v @@ "engine_id" :> token) :
               name \in {"job_state", "terminal_reason", "model_id", "device_memory_estimate_bytes"},
               v \in Readings \ {token, count}}
      \cup {Call(event, "error", "prompt" :> v @@ "queue_position" :> w) :
               event \in {"token", "sentence"}, v \in {token}, w \in Readings}
      \cup {Call("sentence", "warning", <<>>)}

\* The settings of the tree, each path written or not, and one of the others written
\* where a later source may override it.
MCOwnFiles ==
  LET paths == {"job_store_path", "model_registry_path", "model_store_path"}
      others == {"model_disk_budget_bytes", "device_memory_budget_bytes", "log_level", "typo"}
  IN  {[text |-> "TOML", table |-> [p \in given |-> Text("words")] @@ other] :
         given \in {paths, paths \ {"model_store_path"}, {}},
         other \in {<<>>} \cup {name :> v : name \in others, v \in InFile}}

MCOwnEnvironments ==
  {<<>>, "log_level" :> Text("words"), "model_store_path" :> Text("words")}
MCOwnCommands == {<<>>, "model_disk_budget_bytes" :> Text("number")}
=============================================================================
