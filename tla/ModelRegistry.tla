--------------------------- MODULE ModelRegistry ---------------------------
(* The model registry (retusche.models.registry): one file per model is read in the *)
(* order of the directory, each field of it is checked, and the first refusal       *)
(* refuses every entry there is.                                                    *)
(*                                                                                  *)
(* A field of a file is what the checks tell apart: that it is absent, of another   *)
(* type, blank, or which of the readings that matter it has. A source is the        *)
(* segments of its path and the pairs of its query. Both patterns of the code end   *)
(* in $, which a final newline may follow: a digest or a commit hash with one is    *)
(* the same reading here as one without.                                            *)
EXTENDS FiniteSets, FiniteSetsExt, Integers, Sequences

CONSTANTS Directories,  \* directories to load: the files, in the order of their names
          Alphabet      \* identifiers, in their order

VARIABLES directory,
          current,   \* the file being read
          entries,   \* the entries so far, by identifier
          registry,  \* what load_registry returned
          verdict    \* how it ended, and at which file

registryVars == <<directory, current, entries, registry, verdict>>

Operations == {"erase", "fill", "extend"}
Markers == {"blob", "raw", "resolve", "tree"}
QueryKeys == {"ref", "rev", "revision"}
Unpinned == "None"

Lacking == {"absent", "other type", "blank"}

\* What the fields of a file can read as. No revision is the word for none.
IsReading(fields) ==
  /\ {fields.extra, fields.licence.extra, fields.access.extra} \subseteq BOOLEAN
  /\ fields.identifier \in {Alphabet[k] : k \in DOMAIN Alphabet} \cup Lacking
  /\ fields.source.path \in Seq(STRING) /\ fields.source.query \in Seq(STRING \X STRING)
  /\ \A i \in DOMAIN fields.source.path : fields.source.path[i] # Unpinned
  /\ \A i \in DOMAIN fields.source.query : fields.source.query[i][2] # Unpinned
  /\ fields.size_bytes.is \in Int /\ fields.device_memory_bytes.is \in Int
  /\ fields.access.gated \in {"absent", "other type", "true", "false"}
  /\ fields.access.obtain \in Lacking \cup {"sentence"}

ASSUME AlphabetAssumption ==
  /\ Alphabet \in Seq(STRING)
  /\ \A k, l \in DOMAIN Alphabet : Alphabet[k] = Alphabet[l] => k = l
ASSUME DirectoriesAssumption ==
  \A files \in Directories :
    /\ files \in Seq({files[i] : i \in DOMAIN files})
    /\ \A i \in DOMAIN files : IsReading(files[i].fields)

Reading == [how |-> "reading", saying |-> "nothing", at |-> 0]

-----------------------------------------------------------------------------
(* One file as an entry, or the first thing wrong with it. *)

\* Mutant: the path is read as far as its last marker.
pinned_revisionLast(source) ==
  LET marked == {i \in 1 .. Len(source.path) - 1 : source.path[i] \in Markers}
  IN  IF marked # {} THEN source.path[Max(marked) + 1] ELSE Unpinned

\* The word after the first marker of the path, else the first query value under a key
\* that names a revision; a query pair whose value is blank is not parsed at all.
pinned_revision(source) ==
  LET marked == {i \in 1 .. Len(source.path) - 1 : source.path[i] \in Markers}
      named == {i \in DOMAIN source.query : /\ source.query[i][1] \in QueryKeys
                                            /\ source.query[i][2] # "blank"}
  IN  IF marked # {} THEN source.path[Min(marked) + 1]
      ELSE IF named # {} THEN source.query[Min(named)][2] ELSE Unpinned

NoText(value) == value \in Lacking

NotPositive(value) == value.type # "int" \/ value.is <= 0

mapping_refused(table) == table.form # "table"

licence_identifier_refused(identifier) == NoText(identifier) \/ identifier = "placeholder"

\* A source that urlsplit or parse_qsl cannot take apart is not taken either.
source_refused(source) ==
  \/ NoText(source.form) \/ source.form = "malformed"
  \/ pinned_revision(source) \notin {Unpinned, "commit"}

digest_refused(digest) == NoText(digest) \/ digest = "misspelt"

operations_refused(operations) == operations.form # "list" \/ operations.names = {}
operation_refused(operations) == ~(operations.names \subseteq Operations)

\* A gated entry that does not say how to get in, and an open one that does, are both
\* refused once the two fields are of their types.
access_refused(access) ==
  \/ access.gated \notin {"true", "false"}
  \/ access.obtain \in {"absent", "other type"}
  \/ access.gated = "true" /\ access.obtain = "blank"
  \/ access.gated = "false" /\ access.obtain = "sentence"

\* The checks of entry_from_mapping, in the order its calls make them: what each refuses,
\* and whether it does.
checks(fields) ==
  << <<"entry keys", fields.extra>>,
     <<"licence", mapping_refused(fields.licence)>>,
     <<"licence keys", fields.licence.extra>>,
     <<"licence identifier", licence_identifier_refused(fields.licence.identifier)>>,
     <<"licence url", NoText(fields.licence.url)>>,
     <<"access", mapping_refused(fields.access)>>,
     <<"access keys", fields.access.extra>>,
     <<"identifier", NoText(fields.identifier)>>,
     <<"source", source_refused(fields.source)>>,
     <<"digest", digest_refused(fields.digest)>>,
     <<"size_bytes", NotPositive(fields.size_bytes)>>,
     <<"device_memory_bytes", NotPositive(fields.device_memory_bytes)>>,
     <<"engine", NoText(fields.engine)>>,
     <<"operations", operations_refused(fields.operations)>>,
     <<"operation", operation_refused(fields.operations)>>,
     <<"gate", access_refused(fields.access)>> >>

Failing(fields) == {i \in DOMAIN checks(fields) : checks(fields)[i][2]}

\* The check that ends the reading of the file, and whether it does so as a ValueError of
\* the parser it calls instead of a refusal.
First(fields) == checks(fields)[Min(Failing(fields))][1]
Malformed(fields) == fields.source.form = "malformed" /\ First(fields) = "source"

Entry(fields) ==
  [identifier |-> fields.identifier, revision |-> pinned_revision(fields.source),
   digest |-> fields.digest, size_bytes |-> fields.size_bytes.is,
   device_memory_bytes |-> fields.device_memory_bytes.is, engine |-> fields.engine,
   operations |-> fields.operations.names, licence |-> fields.licence.identifier,
   gated |-> fields.access.gated = "true"]

-----------------------------------------------------------------------------
(* load_registry *)

RegistryStarts ==
  /\ current = 1 /\ entries = <<>> /\ registry = <<>>
  /\ verdict = Reading

RegistryInit == directory \in Directories /\ RegistryStarts

Ends(how, saying) ==
  /\ verdict' = [how |-> how, saying |-> saying, at |-> current]
  /\ UNCHANGED <<directory, current, entries, registry>>

InHand == verdict = Reading /\ current <= Len(directory)

\* What is no TOML error leaves load_registry as it is: a file that cannot be opened or is
\* not UTF-8, a number with more digits than int() reads, and a source that is no URL.
Escaping == {"out of reach", "not UTF-8", "endless"}

RaiseUnread ==
  /\ InHand /\ directory[current].text \in Escaping
  /\ Ends("raised", directory[current].text)

RaiseMalformed ==
  /\ InHand /\ directory[current].text = "TOML"
  /\ LET fields == directory[current].fields IN Failing(fields) # {} /\ Malformed(fields)
  /\ Ends("raised", "source")

RefuseUnreadable ==
  /\ InHand /\ directory[current].text = "not TOML"
  /\ Ends("refused", "unreadable")

RefuseEntry ==
  /\ InHand /\ directory[current].text = "TOML"
  /\ LET fields == directory[current].fields
     IN  /\ Failing(fields) # {} /\ ~Malformed(fields)
         /\ Ends("refused", First(fields))

RefuseDuplicate ==
  /\ InHand /\ directory[current].text = "TOML"
  /\ LET fields == directory[current].fields
     IN  /\ Failing(fields) = {}
         /\ fields.identifier \in DOMAIN entries
  /\ Ends("refused", "duplicate")

TakeEntry ==
  /\ InHand /\ directory[current].text = "TOML"
  /\ LET fields == directory[current].fields
     IN  /\ Failing(fields) = {}
         /\ fields.identifier \notin DOMAIN entries
         /\ entries' = [name \in DOMAIN entries \cup {fields.identifier} |->
                          IF name = fields.identifier THEN Entry(fields) ELSE entries[name]]
  /\ current' = current + 1
  /\ UNCHANGED <<directory, registry, verdict>>

\* sorted by identifier: the one with i - 1 others before it comes i-th.
Precedes(name, other) ==
  \E k, l \in DOMAIN Alphabet : k < l /\ Alphabet[k] = name /\ Alphabet[l] = other

sorted(names) ==
  [i \in 1 .. Cardinality(names) |->
     CHOOSE name \in names :
       Cardinality({other \in names : Precedes(other, name)}) = i - 1]

\* The entries are returned by identifier, whatever order their files were in.
Return ==
  /\ verdict = Reading /\ current > Len(directory)
  /\ LET names == sorted(DOMAIN entries)
     IN  registry' = [i \in DOMAIN names |-> entries[names[i]]]
  /\ verdict' = [how |-> "returned", saying |-> "nothing", at |-> current]
  /\ UNCHANGED <<directory, current, entries>>

RegistryNext ==
  \/ RaiseUnread \/ RaiseMalformed \/ RefuseUnreadable \/ RefuseEntry \/ RefuseDuplicate
  \/ TakeEntry \/ Return

RegistrySpec == RegistryInit /\ [][RegistryNext]_registryVars

-----------------------------------------------------------------------------
(* Properties *)

\* An entry is filed under its own identifier, is of a size a budget can add up, and
\* names operations an engine can be asked for.
RegistryTypeOK ==
  /\ current \in 1 .. Len(directory) + 1
  /\ verdict.how \in {"reading", "refused", "raised", "returned"}
  /\ \A name \in DOMAIN entries :
       /\ entries[name].identifier = name
       /\ entries[name].size_bytes > 0 /\ entries[name].device_memory_bytes > 0
       /\ entries[name].operations # {} /\ entries[name].operations \subseteq Operations

\* A branch, a tag or an abbreviated hash stands where this source names its revision.
Movable(source) ==
  LET path == source.path
      InPath(i) == path[i] \in Markers /\ i < Len(path)
      Queried(i) == source.query[i][1] \in QueryKeys /\ source.query[i][2] # "blank"
  IN  \/ \E i \in DOMAIN path : /\ InPath(i) /\ \A j \in 1 .. i - 1 : ~InPath(j)
                                /\ path[i + 1] # "commit"
      \/ /\ \A i \in DOMAIN path : ~InPath(i)
         /\ \E i \in DOMAIN source.query :
              /\ Queried(i) /\ \A j \in 1 .. i - 1 : ~Queried(j)
              /\ source.query[i][2] # "commit"

\* What the registry promises of a file it loads: no key nothing reads, every field
\* filled in, a licence somebody looked up, one artefact, and a gate with a way in.
Complete(fields) ==
  /\ ~fields.extra /\ fields.licence.form = "table" /\ ~fields.licence.extra
  /\ fields.access.form = "table" /\ ~fields.access.extra
  /\ {fields.identifier, fields.source.form, fields.digest, fields.engine, fields.licence.identifier,
      fields.licence.url} \cap Lacking = {}
  /\ fields.licence.identifier # "placeholder" /\ fields.digest # "misspelt"
  /\ fields.source.form # "malformed" /\ ~Movable(fields.source)
  /\ \A count \in {fields.size_bytes, fields.device_memory_bytes} : count.type = "int" /\ count.is > 0
  /\ fields.operations.form = "list" /\ fields.operations.names \in (SUBSET Operations) \ {{}}
  /\ <<fields.access.gated, fields.access.obtain>> \in {<<"true", "sentence">>, <<"false", "blank">>}

Sound(read) == read.text = "TOML" /\ Complete(read.fields)

\* A file that keeps its directory from loading: it is not sound itself, or a sound one
\* before it has its identifier.
AtFault(i) ==
  \/ ~Sound(directory[i])
  \/ \E j \in 1 .. i - 1 : directory[j].text = "TOML"
                           /\ directory[j].fields.identifier = directory[i].fields.identifier

\* A registry is given whole or not at all. It is returned where no file is at fault,
\* with one entry per file in ascending order of identifier; otherwise the first file
\* at fault is the one the load stops at (load_registry, registry.py:260).
WholeOrNotAtAll ==
  /\ verdict.how = "returned" =>
       /\ \A i \in DOMAIN directory : ~AtFault(i)
       /\ Len(registry) = Len(directory)
       /\ {registry[i].identifier : i \in DOMAIN registry}
            = {directory[i].fields.identifier : i \in DOMAIN directory}
       /\ \A i, j \in DOMAIN registry :
            i < j => \E k, l \in DOMAIN Alphabet :
                       k < l /\ Alphabet[k] = registry[i].identifier
                             /\ Alphabet[l] = registry[j].identifier
  /\ verdict.how \in {"refused", "raised"} =>
       /\ registry = <<>>
       /\ AtFault(verdict.at) /\ \A i \in 1 .. verdict.at - 1 : ~AtFault(i)
=============================================================================
