------------------------- MODULE DeclarationsProofs ------------------------
(* Proofs about what an operator declares and what is read of it: the configuration,  *)
(* for any declared settings and any sources; the log, for any calls, any threshold  *)
(* and any number of records; the model registry, for any directories and any        *)
(* alphabet of identifiers.                                                          *)
(*                                                                                   *)
(* The three have one shape. A lemma says what the checks of one value, one call or  *)
(* one file let through; the invariant says of every point of the loop what has been *)
(* let through so far; the properties are read off it where the loop ends. The last  *)
(* section puts the three beside each other, as Declarations does.                   *)
EXTENDS Declarations, CountingLemmas, FiniteSetTheorems, TLAPS

-----------------------------------------------------------------------------
(* The configuration: how far a load has come *)

Source(k) ==
  CASE k = 1 -> IF file.text = "TOML" THEN file.table ELSE <<>>
    [] k = 2 -> Restrict(environment, DOMAIN environment \cap Names(declared))
    [] k = 3 -> overrides

\* The sources merged so far.
Merged == CASE stage \in {"file", "environment"} -> 0
            [] stage = "merging" -> turn - 1
            [] OTHER -> 3

\* The settings looked at so far.
Looked == IF stage \in {"parsing", "loaded", "refused"} THEN turn - 1 ELSE 0

Unreadable == IF file.text = "not TOML" THEN {Problem("unreadable", Typo, "file", "nothing")}
              ELSE {}

UnknownVariables ==
  {Problem("unknown", variable, "environment", "nothing") :
     variable \in DOMAIN environment \ (Names(declared) \cup {Foreign})}

UnknownIn(k) ==
  {Problem("unknown", name, IF k = 1 THEN "file" ELSE "overrides", "nothing") :
     name \in DOMAIN Source(k) \ Names(declared)}

Unknowns(m) == UNION {UnknownIn(k) : k \in 1 .. m}

WrittenAt(i) == WrittenFor(declared[i])
Unfit(i) == WrittenAt(i) = NoValue \/ coerce(declared[i], WrittenAt(i)) = Refused
Complaint(i) == IF WrittenAt(i) = NoValue
                THEN Problem("missing", declared[i].name, "", "nothing")
                ELSE refused(declared[i], WrittenAt(i))

-----------------------------------------------------------------------------
(* The invariant *)

StageInv ==
  /\ SoundSettings(declared)
  /\ \A table \in {file.table, environment, overrides} :
       \A name \in DOMAIN table : table[name] \in Written
  /\ stage \in {"file", "environment", "merging", "parsing", "loaded", "refused", "raised"}
  /\ turn \in Nat \ {0}
  /\ stage \in {"file", "environment"} => turn = 1
  /\ stage = "merging" => turn <= 3
  /\ turn <= Len(declared) + 3
  /\ stage = "parsing" => turn <= Len(declared) + 1
  /\ stage \in {"loaded", "refused"} => turn = Len(declared) + 1

TablesInv ==
  /\ stage = "file" => tables = <<>>
  /\ stage = "environment" => tables = <<Source(1)>>
  /\ stage \in {"merging", "parsing", "loaded", "refused"} =>
       tables = <<Source(1), Source(2), Source(3)>>

RawInv ==
  /\ DOMAIN raw \subseteq Names(declared)
  /\ \A name \in DOMAIN raw : raw[name] \in Written
  /\ stage # "raised" =>
       \A name \in Names(declared) :
         /\ name \in DOMAIN raw <=> \E k \in 1 .. Merged : name \in DOMAIN Source(k)
         /\ \A k \in 1 .. Merged :
              name \in DOMAIN Source(k) /\ (\A l \in k + 1 .. Merged : name \notin DOMAIN Source(l))
                => raw[name] = Source(k)[name]

ProblemsInv ==
  stage # "raised" =>
    problems = (IF stage = "file" THEN {} ELSE Unreadable)
               \cup (IF stage \in {"file", "environment"} THEN {} ELSE UnknownVariables)
               \cup Unknowns(Merged)
               \cup {Complaint(i) : i \in {j \in 1 .. Looked : Unfit(j)}}

ParsedInv ==
  /\ DOMAIN parsed \subseteq Names(declared)
  /\ \A i \in DOMAIN declared :
       declared[i].name \in DOMAIN parsed =>
         parsed[declared[i].name].type = Promised(declared[i].kind)
  /\ \A i \in 1 .. Looked :
       /\ ~Overflows(declared[i], WrittenAt(i))
       /\ ~Unfit(i) => /\ declared[i].name \in DOMAIN parsed
                       /\ parsed[declared[i].name] = coerce(declared[i], WrittenAt(i))

OutcomeInv ==
  /\ stage = "loaded" => problems = {}
  /\ stage = "refused" => problems # {}

\* What a secret may show, in a refusal, in a rendering and in an answer.
SecretsInv ==
  /\ \A p \in problems :
       p.shown = "nothing" \/ \E i \in DOMAIN declared :
         p.name = declared[i].name /\ (declared[i].kind = "SECRET" => p.shown = REDACTED)
  /\ \A line \in lines : \E i \in DOMAIN declared :
       line.name = declared[i].name /\ (declared[i].kind = "SECRET" => line.shown = REDACTED)
  /\ \/ answer.value \in {NoValue, Refused}
     \/ \E i \in DOMAIN declared :
          /\ answer.name = declared[i].name
          /\ answer.asked = Promised(declared[i].kind)
          /\ answer.value.type = Promised(declared[i].kind)

LoadInv == StageInv /\ TablesInv /\ RawInv /\ ProblemsInv /\ ParsedInv /\ OutcomeInv

-----------------------------------------------------------------------------
(* What is written, and what the kinds make of it *)

LEMMA SettingsHaveKinds ==
  ASSUME StageInv
  PROVE  /\ declared \in Seq([name : Names(declared), kind : Accessors, default : Written \cup {NoValue}])
         /\ DOMAIN declared = 1 .. Len(declared) /\ Len(declared) \in Nat
         /\ \A i \in DOMAIN declared :
              declared[i] \in [name : Names(declared), kind : Accessors, default : Written \cup {NoValue}]
         /\ \A i, j \in DOMAIN declared : declared[i].name = declared[j].name => i = j
  <1> DEFINE S == [name : Names(declared), kind : Accessors, default : Written \cup {NoValue}]
  <1>1. /\ declared \in Seq(S)
        /\ \A i, j \in DOMAIN declared : declared[i].name = declared[j].name => i = j
    BY DEF SoundSettings, StageInv
  <1> HIDE DEF S
  <1>2. DOMAIN declared = 1 .. Len(declared) /\ Len(declared) \in Nat
        /\ \A i \in DOMAIN declared : declared[i] \in S
    BY <1>1
  <1> QED BY <1>1, <1>2 DEF S

\* The settings this tree declares are among those the theorems are about.
LEMMA OwnSettingsAreSound == SoundSettings(SETTINGS)
  <1> DEFINE S == [name : Names(SETTINGS), kind : Accessors,
                   default : Written \cup {NoValue}]
  <1>1. \A name \in Names(SETTINGS) : /\ Setting(name, "PATH", NoValue) \in S
                                      /\ Setting(name, "INTEGER", Text("number")) \in S
                                      /\ Setting(name, "TEXT", Text("words")) \in S
    BY DEF Setting, Accessors, Written, Text
  <1>2. \A name, kind, default : Setting(name, kind, default).name = name
    BY DEF Setting
  <1>3. DOMAIN SETTINGS = 1 .. 6
    BY DEF SETTINGS
  <1>4. \A i, j \in 1 .. 6 : SETTINGS[i].name = SETTINGS[j].name => i = j
    BY <1>2 DEF SETTINGS
  <1>5. \A i \in 1 .. 6 : SETTINGS[i].name \in Names(SETTINGS)
    BY <1>3 DEF Names
  <1> HIDE DEF S
  <1>6. SETTINGS \in Seq(S)
    <2>1. /\ SETTINGS[1] \in S /\ SETTINGS[2] \in S /\ SETTINGS[3] \in S
          /\ SETTINGS[4] \in S /\ SETTINGS[5] \in S /\ SETTINGS[6] \in S
      BY <1>1, <1>2, <1>5 DEF SETTINGS
    <2>2. ASSUME NEW a \in S, NEW b \in S, NEW c \in S, NEW d \in S, NEW e \in S, NEW f \in S,
                 SETTINGS = <<a, b, c, d, e, f>>
          PROVE  SETTINGS \in Seq(S)
      BY <2>2
    <2>3. SETTINGS = <<SETTINGS[1], SETTINGS[2], SETTINGS[3],
                       SETTINGS[4], SETTINGS[5], SETTINGS[6]>>
      BY DEF SETTINGS
    <2> QED BY <2>1, <2>2, <2>3
  <1> QED BY <1>3, <1>4, <1>6 DEF SoundSettings, S

\* A value written passes its kind exactly where a reader of the documents would accept
\* it, and what comes out says what was written, as the type the accessor promises.
LEMMA CoerceAccepts ==
  ASSUME NEW setting \in [name : Names(declared), kind : Accessors, default : Written \cup {NoValue}],
         NEW given \in Written, ~Overflows(setting, given)
  PROVE  /\ given # NoValue
         /\ coerce(setting, given) # Refused <=> Accepts(setting.kind, given)
         /\ coerce(setting, given) # Refused =>
              /\ coerce(setting, given).type = Promised(setting.kind)
              /\ coerce(setting, given).says = given.says
  <1>1. CASE setting.kind = "BOOLEAN"
    BY <1>1 DEF coerce, boolean, Written, Refused, Accepts, Promised, NoValue
  <1>2. CASE setting.kind = "INTEGER"
    BY <1>2 DEF coerce, integer, is_whole_number, Written, Refused, Accepts, Promised,
                Overflows, Text, NoValue
  <1>3. CASE setting.kind \in {"TEXT", "SECRET", "PATH"}
    BY <1>3 DEF coerce, Written, Refused, Accepts, Promised, NoValue
  <1> QED BY <1>1, <1>2, <1>3 DEF Accessors

LEMMA SourcesAreWritten ==
  ASSUME StageInv, NEW k \in 1 .. 3, NEW name \in DOMAIN Source(k)
  PROVE  Source(k)[name] \in Written
  <1>1. CASE k = 1
    BY <1>1 DEF Source, StageInv
  <1>2. CASE k = 2
    BY <1>2 DEF Source, StageInv, Restrict
  <1>3. CASE k = 3
    BY <1>3 DEF Source, StageInv
  <1> QED BY <1>1, <1>2, <1>3
-----------------------------------------------------------------------------
(* Each step of a load *)

LEMMA AnyLoadStarts ==
  ASSUME SoundSettings(declared), LoadStarts,
         \A table \in {file.table, environment, overrides} :
           \A name \in DOMAIN table : table[name] \in Written
  PROVE  LoadInv
  <1>1. StageInv
    <2>1. Len(declared) \in Nat
      BY DEF SoundSettings
    <2> QED BY <2>1 DEF StageInv, LoadStarts
  <1>2. DOMAIN raw = {} /\ DOMAIN parsed = {}
    BY DEF LoadStarts
  <1> QED BY <1>1, <1>2
             DEF LoadInv, TablesInv, RawInv, ProblemsInv, Unknowns, ParsedInv, OutcomeInv,
             LoadStarts, Merged, Looked

LEMMA InitGivesLoadInv ==
  ASSUME ConfigurationInit
  PROVE  LoadInv
  BY AnyLoadStarts, DeclarationsAssumption, SourcesAssumption DEF ConfigurationInit

LEMMA SourceCases ==
  /\ Source(1) = IF file.text = "TOML" THEN file.table ELSE <<>>
  /\ Source(2) = Restrict(environment, DOMAIN environment \cap Names(declared))
  /\ Source(3) = overrides
  BY DEF Source

LEMMA SourcesStay ==
  ASSUME UNCHANGED sources
  PROVE  /\ declared' = declared /\ file' = file /\ environment' = environment
         /\ overrides' = overrides
         /\ Unreadable' = Unreadable /\ UnknownVariables' = UnknownVariables
         /\ \A k : Source(k)' = Source(k) /\ UnknownIn(k)' = UnknownIn(k)
  BY DEF sources, Source, UnknownIn, Unreadable, UnknownVariables

LEMMA FromFileKeepsLoadInv ==
  ASSUME LoadInv, from_file
  PROVE  LoadInv'
  <1>1. Len(declared) \in Nat
    BY SettingsHaveKinds DEF LoadInv
  <1>2. /\ stage = "file" /\ turn = 1 /\ turn' = 1 /\ stage' \in {"raised", "environment"}
        /\ raw' = raw /\ parsed' = parsed /\ UNCHANGED sources
    BY DEF from_file, LoadInv, StageInv
  <1>3. Merged = 0 /\ Looked = 0 /\ Looked' = 0 /\ (stage' # "raised" => Merged' = 0)
    BY <1>2 DEF Merged, Looked
  <1>4. StageInv'
    BY <1>1, <1>2, SourcesStay DEF LoadInv, StageInv
  <1>5. TablesInv'
    BY <1>2, SourcesStay, SourceCases DEF TablesInv, from_file
  <1>6. RawInv'
    BY <1>2, <1>3, SourcesStay DEF LoadInv, RawInv
  <1>7. ProblemsInv'
    <2>1. problems = {}
      BY <1>2, <1>3 DEF LoadInv, ProblemsInv, Unknowns
    <2>2. ASSUME stage' # "raised" PROVE problems' = Unreadable'
      BY <1>2, <2>1, SourcesStay DEF from_file, Unreadable
    <2> QED BY <1>2, <1>3, <2>2 DEF ProblemsInv, Unknowns
  <1>8. ParsedInv' /\ OutcomeInv'
    BY <1>2, <1>3, SourcesStay DEF LoadInv, ParsedInv, OutcomeInv
  <1> QED BY <1>4, <1>5, <1>6, <1>7, <1>8 DEF LoadInv

LEMMA FromEnvironmentKeepsLoadInv ==
  ASSUME LoadInv, from_environment
  PROVE  LoadInv'
  <1>1. Len(declared) \in Nat
    BY SettingsHaveKinds DEF LoadInv
  <1>2. /\ stage = "environment" /\ turn = 1 /\ turn' = 1 /\ stage' = "merging"
        /\ raw' = raw /\ parsed' = parsed /\ UNCHANGED sources
    BY DEF from_environment, LoadInv, StageInv
  <1>3. Merged = 0 /\ Looked = 0 /\ Looked' = 0 /\ Merged' = 0
    BY <1>2 DEF Merged, Looked
  <1>4. StageInv'
    BY <1>1, <1>2, SourcesStay DEF LoadInv, StageInv
  <1>5. TablesInv'
    <2>1. tables = <<Source(1)>> /\ tables' = <<tables[1], Source(2), Source(3)>>
      BY <1>2, SourceCases DEF LoadInv, TablesInv, from_environment
    <2>2. tables' = <<Source(1), Source(2), Source(3)>>
      BY <2>1
    <2> QED BY <1>2, <2>2, SourcesStay DEF TablesInv
  <1>6. RawInv'
    BY <1>2, <1>3, SourcesStay DEF LoadInv, RawInv
  <1>7. ProblemsInv'
    <2>1. problems = Unreadable
      <3>1. problems = Unreadable \cup {} \cup UNION {UnknownIn(k) : k \in 1 .. 0}
                       \cup {Complaint(i) : i \in {j \in 1 .. 0 : Unfit(j)}}
        BY <1>2, <1>3 DEF LoadInv, ProblemsInv, Unknowns
      <3> QED BY <3>1
    <2>2. problems' = Unreadable' \cup UnknownVariables'
      BY <1>2, <2>1, SourcesStay DEF from_environment, UnknownVariables
    <2> QED BY <1>2, <1>3, <2>2 DEF ProblemsInv, Unknowns
  <1>8. ParsedInv' /\ OutcomeInv'
    BY <1>2, <1>3, SourcesStay DEF LoadInv, ParsedInv, OutcomeInv
  <1> QED BY <1>4, <1>5, <1>6, <1>7, <1>8 DEF LoadInv

LEMMA MergeKeepsLoadInv ==
  ASSUME LoadInv, Merge
  PROVE  LoadInv'
  <1>1. Len(declared) \in Nat
    BY SettingsHaveKinds DEF LoadInv
  <1>2. /\ stage = "merging" /\ turn \in 1 .. 3 /\ tables = <<Source(1), Source(2), Source(3)>>
        /\ parsed' = parsed /\ tables' = tables /\ UNCHANGED sources
    BY DEF Merge, LoadInv, StageInv, TablesInv
  <1>3. /\ Len(tables) = 3 /\ tables[turn] = Source(turn)
        /\ stage' = IF turn = 3 THEN "parsing" ELSE stage
        /\ turn' = IF turn = 3 THEN 1 ELSE turn + 1
    BY <1>2 DEF Merge
  <1>4. Merged = turn - 1 /\ Looked = 0 /\ Looked' = 0 /\ Merged' = turn
    BY <1>2, <1>3 DEF Merged, Looked
  <1>5. StageInv'
    BY <1>1, <1>2, <1>3, SourcesStay DEF LoadInv, StageInv
  <1>6. TablesInv'
    BY <1>2, <1>3, SourcesStay DEF TablesInv
  <1>7. RawInv'
    <2> DEFINE N == Names(declared)
               T == Source(turn)
    <2>0. raw' = Overriding(T)
      BY <1>3 DEF Merge
    <2>1. /\ DOMAIN raw' = (DOMAIN T \cap N) \cup DOMAIN raw
          /\ \A name \in DOMAIN raw' :
               raw'[name] = IF name \in DOMAIN T \cap N THEN T[name] ELSE raw[name]
      BY <2>0 DEF Overriding, N
    <2>2. DOMAIN raw \subseteq N /\ \A name \in DOMAIN raw : raw[name] \in Written
      BY DEF LoadInv, RawInv
    <2>3. \A name \in DOMAIN T : T[name] \in Written
      BY <1>2, SourcesAreWritten DEF LoadInv
    <2>4. \A name \in N :
            /\ name \in DOMAIN raw <=> \E k \in 1 .. turn - 1 : name \in DOMAIN Source(k)
            /\ \A k \in 1 .. turn - 1 :
                 name \in DOMAIN Source(k)
                   /\ (\A l \in k + 1 .. turn - 1 : name \notin DOMAIN Source(l))
                   => raw[name] = Source(k)[name]
      BY <1>2, <1>4 DEF LoadInv, RawInv
    <2> HIDE DEF N
    <2>5. ASSUME NEW name \in N
          PROVE  /\ name \in DOMAIN raw' <=> \E k \in 1 .. turn : name \in DOMAIN Source(k)
                 /\ \A k \in 1 .. turn :
                      name \in DOMAIN Source(k)
                        /\ (\A l \in k + 1 .. turn : name \notin DOMAIN Source(l))
                        => raw'[name] = Source(k)[name]
      <3>1. \A k \in 1 .. turn : k = turn \/ k \in 1 .. turn - 1
        BY <1>2
      <3>2. \A k \in 1 .. turn - 1 : k \in 1 .. turn /\ turn \in k + 1 .. turn
        BY <1>2
      <3>3. \A k \in 1 .. turn - 1 : k + 1 .. turn - 1 \subseteq k + 1 .. turn
        BY <1>2
      <3>4. name \in DOMAIN raw' <=> \E k \in 1 .. turn : name \in DOMAIN Source(k)
        BY <1>2, <2>1, <2>4, <3>1, <3>2
      <3>5. ASSUME NEW k \in 1 .. turn, name \in DOMAIN Source(k),
                   \A l \in k + 1 .. turn : name \notin DOMAIN Source(l)
            PROVE  raw'[name] = Source(k)[name]
        <4>1. CASE k = turn
          BY <2>1, <2>5, <3>5, <4>1
        <4>2. CASE k \in 1 .. turn - 1
          <5>1. name \notin DOMAIN T /\ name \in DOMAIN raw
            BY <2>4, <2>5, <3>2, <3>5, <4>2
          <5>2. raw[name] = Source(k)[name]
            BY <2>4, <2>5, <3>3, <3>5, <4>2
          <5> QED BY <2>1, <5>1, <5>2
        <4> QED BY <3>1, <4>1, <4>2
      <3> QED BY <3>4, <3>5
    <2>6. N' = N /\ \A k : Source(k)' = Source(k)
      BY <1>2, SourcesStay DEF N
    <2> QED BY <1>4, <2>1, <2>2, <2>3, <2>5, <2>6 DEF RawInv, N
  <1>8. ProblemsInv'
    <2>1. problems = Unreadable \cup UnknownVariables \cup Unknowns(turn - 1)
      BY <1>2, <1>4 DEF LoadInv, ProblemsInv
    <2>2. UnknownIn(turn) =
            {Problem("unknown", name, IF turn = 1 THEN "file" ELSE "overrides", "nothing") :
               name \in DOMAIN tables[turn] \ Names(declared)}
      BY <1>3 DEF UnknownIn
    <2>3. problems' = problems \cup UnknownIn(turn)
      BY <2>2 DEF Merge
    <2>4. 1 .. turn = (1 .. turn - 1) \cup {turn}
      BY <1>2
    <2>5. Unknowns(turn) = Unknowns(turn - 1) \cup UnknownIn(turn)
      <3>1. \A m, p : p \in Unknowns(m) <=> \E k \in 1 .. m : p \in UnknownIn(k)
        BY DEF Unknowns
      <3> QED BY <2>4, <3>1
    <2>6. \A k : UnknownIn(k)' = UnknownIn(k)
      BY <1>2, SourcesStay
    <2>7. problems' = Unreadable' \cup UnknownVariables' \cup UNION {UnknownIn(k)' : k \in 1 .. turn}
      <3>1. problems' = Unreadable \cup UnknownVariables \cup Unknowns(turn)
        BY <2>1, <2>3, <2>5
      <3> QED BY <1>2, <2>6, <3>1, SourcesStay DEF Unknowns
    <2> QED BY <1>2, <1>3, <1>4, <2>7 DEF ProblemsInv, Unknowns
  <1>9. ParsedInv' /\ OutcomeInv'
    BY <1>2, <1>3, <1>4, SourcesStay DEF LoadInv, ParsedInv, OutcomeInv
  <1> QED BY <1>5, <1>6, <1>7, <1>8, <1>9 DEF LoadInv

LEMMA WrittenAtIsWritten ==
  ASSUME LoadInv, NEW i \in DOMAIN declared
  PROVE  WrittenAt(i) \in Written \cup {NoValue}
  <1>1. declared[i].default \in Written \cup {NoValue}
    BY SettingsHaveKinds DEF LoadInv
  <1>2. \A name \in DOMAIN raw : raw[name] \in Written
    BY DEF LoadInv, RawInv
  <1> QED BY <1>1, <1>2 DEF WrittenAt, WrittenFor

\* A step that leaves the sources and what was merged alone.
LEMMA WhatIsMergedStays ==
  ASSUME UNCHANGED <<sources, raw>>
  PROVE  /\ \A i : /\ WrittenAt(i)' = WrittenAt(i) /\ Unfit(i)' = Unfit(i)
                   /\ Complaint(i)' = Complaint(i)
         /\ \A k : UnknownIn(k)' = UnknownIn(k)
  <1>1. \A i : WrittenAt(i)' = WrittenAt(i)
    BY DEF sources, WrittenAt, WrittenFor
  <1>2. declared' = declared
    BY DEF sources
  <1>3. \A i : Unfit(i)' = Unfit(i)
    BY <1>1, <1>2 DEF Unfit
  <1>4. \A i : Complaint(i)' = Complaint(i)
    BY <1>1, <1>2 DEF Complaint
  <1> QED BY <1>1, <1>3, <1>4, SourcesStay

LEMMA ParseKeepsLoadInv ==
  ASSUME LoadInv, Parse
  PROVE  LoadInv'
  <1> DEFINE setting == declared[turn]
             given == WrittenAt(turn)
             value == coerce(setting, given)
  <1>1. /\ stage = "parsing" /\ turn \in DOMAIN declared /\ turn \in 1 .. Len(declared)
        /\ Len(declared) \in Nat /\ DOMAIN declared = 1 .. Len(declared)
        /\ raw' = raw /\ tables' = tables /\ UNCHANGED sources
    <2>1. /\ DOMAIN declared = 1 .. Len(declared) /\ Len(declared) \in Nat
          /\ turn \in Nat \ {0}
      BY SettingsHaveKinds DEF LoadInv, StageInv
    <2>2. /\ stage = "parsing" /\ turn <= Len(declared)
          /\ raw' = raw /\ tables' = tables /\ UNCHANGED sources
      BY DEF Parse
    <2>3. turn \in 1 .. Len(declared)
      BY <2>1, <2>2
    <2> QED BY <2>1, <2>2, <2>3
  <1>2. IF Overflows(setting, given)
          THEN stage' = "raised" /\ UNCHANGED <<turn, problems, parsed>>
          ELSE /\ turn' = turn + 1 /\ stage' = "parsing"
               /\ IF Unfit(turn)
                    THEN problems' = problems \cup {Complaint(turn)} /\ parsed' = parsed
                    ELSE /\ problems' = problems
                         /\ parsed' = [name \in DOMAIN parsed \cup {setting.name} |->
                                         IF name = setting.name THEN value ELSE parsed[name]]
    BY <1>1 DEF Parse, WrittenAt, Unfit, Complaint
  <1>3. Merged = 3 /\ Looked = turn - 1
    BY <1>1 DEF Merged, Looked
  <1>4. setting \in [name : Names(declared), kind : Accessors, default : Written \cup {NoValue}]
    BY <1>1, SettingsHaveKinds DEF LoadInv
  <1>5. given \in Written \cup {NoValue}
    BY <1>1, WrittenAtIsWritten
  <1> HIDE DEF setting, given, value
  <1>6. CASE Overflows(setting, given)
    <2>1. stage' = "raised" /\ turn' = turn /\ parsed' = parsed /\ problems' = problems /\ Looked' = 0
      BY <1>2, <1>6 DEF Looked
    <2>2. StageInv'
      BY <1>1, <2>1, SourcesStay DEF LoadInv, StageInv
    <2>3. RawInv'
      BY <1>1, <2>1, SourcesStay DEF LoadInv, RawInv
    <2>4. ParsedInv'
      BY <1>1, <2>1, SourcesStay DEF LoadInv, ParsedInv
    <2> QED BY <2>1, <2>2, <2>3, <2>4 DEF LoadInv, TablesInv, ProblemsInv, OutcomeInv
  <1>7. CASE ~Overflows(setting, given)
    <2>1. stage' = "parsing" /\ turn' = turn + 1 /\ Merged' = 3 /\ Looked' = turn
      BY <1>1, <1>2, <1>7 DEF Merged, Looked
    <2>2. StageInv'
      BY <1>1, <2>1, SourcesStay DEF LoadInv, StageInv
    <2>3. TablesInv'
      BY <1>1, <2>1, SourcesStay DEF LoadInv, TablesInv
    <2>4. RawInv'
      BY <1>1, <1>3, <2>1, SourcesStay DEF LoadInv, RawInv
    <2>5. 1 .. turn = (1 .. turn - 1) \cup {turn}
      BY <1>1
    <2>6. ProblemsInv'
      <3> DEFINE Heard(n) == {Complaint(i) : i \in {j \in 1 .. n : Unfit(j)}}
      <3>1. problems = Unreadable \cup UnknownVariables \cup Unknowns(3) \cup Heard(turn - 1)
        BY <1>1, <1>3 DEF LoadInv, ProblemsInv
      <3>2. \A n, p : p \in Heard(n) <=> \E i \in 1 .. n : Unfit(i) /\ p = Complaint(i)
        OBVIOUS
      <3> HIDE DEF Heard
      <3>3. Heard(turn) = Heard(turn - 1) \cup (IF Unfit(turn) THEN {Complaint(turn)} ELSE {})
        BY <2>5, <3>2
      <3>4. problems' = problems \cup (IF Unfit(turn) THEN {Complaint(turn)} ELSE {})
        BY <1>2, <1>7
      <3>5. problems' = Unreadable \cup UnknownVariables \cup Unknowns(3) \cup Heard(turn)
        BY <3>1, <3>3, <3>4
      <3>6. Unreadable' = Unreadable /\ UnknownVariables' = UnknownVariables
        BY <1>1, SourcesStay
      <3>7. UNION {UnknownIn(k)' : k \in 1 .. 3} = Unknowns(3)
        BY <1>1, WhatIsMergedStays DEF Unknowns
      <3>8. {Complaint(i)' : i \in {j \in 1 .. turn : Unfit(j)'}} = Heard(turn)
        BY <1>1, WhatIsMergedStays DEF Heard
      <3> QED BY <2>1, <3>5, <3>6, <3>7, <3>8 DEF ProblemsInv, Unknowns
    <2>7. ParsedInv'
      <3>1. /\ DOMAIN parsed \subseteq Names(declared)
            /\ \A i \in DOMAIN declared :
                 declared[i].name \in DOMAIN parsed =>
                   parsed[declared[i].name].type = Promised(declared[i].kind)
            /\ \A i \in 1 .. turn - 1 :
                 /\ ~Overflows(declared[i], WrittenAt(i))
                 /\ ~Unfit(i) => /\ declared[i].name \in DOMAIN parsed
                                 /\ parsed[declared[i].name] = coerce(declared[i], WrittenAt(i))
        BY <1>3 DEF LoadInv, ParsedInv
      <3>2. setting.name \in Names(declared)
        BY <1>1 DEF Names, setting
      <3>3. \A i \in DOMAIN declared : declared[i].name = setting.name => i = turn
        BY <1>1, SettingsHaveKinds DEF LoadInv, setting
      <3>4. CASE Unfit(turn)
        BY <1>1, <1>2, <1>7, <2>1, <2>5, <3>1, <3>4, SourcesStay, WhatIsMergedStays
           DEF ParsedInv, setting, given
      <3>5. CASE ~Unfit(turn)
        <4>1. value.type = Promised(setting.kind)
          BY <1>4, <1>5, <1>7, <3>5, CoerceAccepts DEF Unfit, value, setting, given
        <4>2. /\ DOMAIN parsed' = DOMAIN parsed \cup {setting.name}
              /\ \A name \in DOMAIN parsed' :
                   parsed'[name] = IF name = setting.name THEN value ELSE parsed[name]
          BY <1>2, <1>7, <3>5
        <4>3. \A i \in DOMAIN declared :
                declared[i].name \in DOMAIN parsed' =>
                  parsed'[declared[i].name].type = Promised(declared[i].kind)
          BY <3>1, <3>3, <4>1, <4>2 DEF setting
        <4>4. \A i \in 1 .. turn :
                 /\ ~Overflows(declared[i], WrittenAt(i))
                 /\ ~Unfit(i) => /\ declared[i].name \in DOMAIN parsed'
                                 /\ parsed'[declared[i].name] = coerce(declared[i], WrittenAt(i))
          <5>1. \A i \in 1 .. turn - 1 : i \in DOMAIN declared /\ i # turn
            BY <1>1
          <5> QED BY <1>7, <2>5, <3>1, <3>3, <4>2, <5>1 DEF setting, given, value
        <4> QED BY <1>1, <2>1, <3>1, <3>2, <4>2, <4>3, <4>4, SourcesStay, WhatIsMergedStays
                DEF ParsedInv
      <3> QED BY <3>4, <3>5
    <2>8. OutcomeInv'
      BY <2>1 DEF OutcomeInv
    <2> QED BY <2>2, <2>3, <2>4, <2>6, <2>7, <2>8 DEF LoadInv
  <1> QED BY <1>6, <1>7

\* The steps that change nothing of the load but where it stands.
LEMMA DecideKeepsLoadInv ==
  ASSUME LoadInv, Decide
  PROVE  LoadInv'
  <1>1. /\ stage = "parsing" /\ stage' \in {"loaded", "refused"}
        /\ turn = Len(declared) + 1 /\ turn' = turn
        /\ (stage' = "loaded" <=> problems = {})
        /\ tables' = tables /\ raw' = raw /\ problems' = problems /\ parsed' = parsed
        /\ UNCHANGED sources
    <2>1. Len(declared) \in Nat
      BY SettingsHaveKinds DEF LoadInv
    <2> QED BY <2>1 DEF Decide, Outcome, LoadInv, StageInv
  <1>2. Merged' = Merged /\ Looked' = Looked
    BY <1>1 DEF Merged, Looked
  <1>3. StageInv' /\ TablesInv' /\ OutcomeInv'
    BY <1>1, SourcesStay DEF LoadInv, StageInv, TablesInv, OutcomeInv
  <1>4. RawInv'
    BY <1>1, <1>2, SourcesStay DEF LoadInv, RawInv
  <1>5. ProblemsInv'
    BY <1>1, <1>2, SourcesStay, WhatIsMergedStays DEF LoadInv, ProblemsInv, Unknowns
  <1>6. ParsedInv'
    BY <1>1, <1>2, SourcesStay, WhatIsMergedStays DEF LoadInv, ParsedInv
  <1> QED BY <1>3, <1>4, <1>5, <1>6 DEF LoadInv

LEMMA TheRestKeepsLoadInv ==
  ASSUME LoadInv, UNCHANGED <<sources, stage, turn, tables, raw, problems, parsed>>
  PROVE  LoadInv'
  <1>1. Merged' = Merged /\ Looked' = Looked
    BY DEF Merged, Looked
  <1>2. StageInv' /\ TablesInv' /\ OutcomeInv'
    BY SourcesStay DEF LoadInv, StageInv, TablesInv, OutcomeInv
  <1>3. RawInv'
    BY <1>1, SourcesStay DEF LoadInv, RawInv
  <1>4. ProblemsInv'
    BY <1>1, SourcesStay, WhatIsMergedStays DEF LoadInv, ProblemsInv, Unknowns
  <1>5. ParsedInv'
    BY <1>1, SourcesStay, WhatIsMergedStays DEF LoadInv, ParsedInv
  <1> QED BY <1>2, <1>3, <1>4, <1>5 DEF LoadInv

LEMMA NextKeepsLoadInv ==
  ASSUME LoadInv, [ConfigurationNext]_configurationVars
  PROVE  LoadInv'
  <1>1. CASE \E name \in Names(declared) \cup {Typo}, kind \in Accessors : Read(name, kind)
    BY <1>1, TheRestKeepsLoadInv DEF Read
  <1>2. CASE effective_lines
    BY <1>2, TheRestKeepsLoadInv DEF effective_lines
  <1>3. CASE UNCHANGED configurationVars
    BY <1>3, TheRestKeepsLoadInv DEF configurationVars
  <1> QED BY <1>1, <1>2, <1>3, FromFileKeepsLoadInv, FromEnvironmentKeepsLoadInv,
             MergeKeepsLoadInv, ParseKeepsLoadInv, DecideKeepsLoadInv DEF ConfigurationNext

LEMMA LoadInvHolds == ConfigurationSpec => []LoadInv
  BY InitGivesLoadInv, NextKeepsLoadInv, PTL DEF ConfigurationSpec

-----------------------------------------------------------------------------
(* What a finished load says *)

\* Where the sources are merged, what was written for a setting is what is in force.
LEMMA MergedIsInForce ==
  ASSUME LoadInv, stage \in {"parsing", "loaded", "refused"}, NEW i \in DOMAIN declared
  PROVE  WrittenAt(i) = InForce(declared[i])
  <1> DEFINE n == declared[i].name
  <1>1. n \in Names(declared)
    BY DEF Names
  <1>2. /\ n \in DOMAIN raw <=> \E k \in 1 .. 3 : n \in DOMAIN Source(k)
        /\ \A k \in 1 .. 3 :
             n \in DOMAIN Source(k) /\ (\A l \in k + 1 .. 3 : n \notin DOMAIN Source(l))
               => raw[n] = Source(k)[n]
    <2>1. Merged = 3
      BY DEF Merged
    <2> QED BY <1>1, <2>1 DEF LoadInv, RawInv
  <1>3. WrittenAt(i) = IF n \in DOMAIN raw THEN raw[n] ELSE declared[i].default
    BY DEF WrittenAt, WrittenFor
  <1>4. /\ n \in DOMAIN Source(1) <=> file.text = "TOML" /\ n \in DOMAIN file.table
        /\ n \in DOMAIN Source(1) => Source(1)[n] = file.table[n]
    BY SourceCases
  <1>5. /\ n \in DOMAIN Source(2) <=> n \in DOMAIN environment
        /\ n \in DOMAIN Source(2) => Source(2)[n] = environment[n]
    BY <1>1, SourceCases DEF Restrict
  <1>6. /\ n \in DOMAIN Source(3) <=> n \in DOMAIN overrides
        /\ n \in DOMAIN Source(3) => Source(3)[n] = overrides[n]
    BY SourceCases
  <1>7. InForce(declared[i]) =
          IF n \in DOMAIN overrides THEN overrides[n]
          ELSE IF n \in DOMAIN environment THEN environment[n]
          ELSE IF file.text = "TOML" /\ n \in DOMAIN file.table THEN file.table[n]
          ELSE declared[i].default
    BY DEF InForce
  <1> HIDE DEF n
  <1>8. CASE n \in DOMAIN Source(3)
    BY <1>2, <1>3, <1>6, <1>7, <1>8
  <1>9. CASE n \notin DOMAIN Source(3) /\ n \in DOMAIN Source(2)
    BY <1>2, <1>3, <1>5, <1>6, <1>7, <1>9
  <1>10. CASE n \notin DOMAIN Source(3) /\ n \notin DOMAIN Source(2) /\ n \in DOMAIN Source(1)
    BY <1>2, <1>3, <1>4, <1>5, <1>6, <1>7, <1>10
  <1>11. CASE \A k \in 1 .. 3 : n \notin DOMAIN Source(k)
    BY <1>2, <1>3, <1>4, <1>5, <1>6, <1>7, <1>11
  <1> QED BY <1>8, <1>9, <1>10, <1>11

\* A setting is complained of exactly where nothing was written for it, or something its
\* kind does not accept.
LEMMA UnfitIsAMistake ==
  ASSUME LoadInv, stage \in {"loaded", "refused"}, NEW i \in DOMAIN declared
  PROVE  /\ Unfit(i) <=> \/ InForce(declared[i]) = NoValue
                         \/ ~Accepts(declared[i].kind, InForce(declared[i]))
         /\ ~Unfit(i) => /\ declared[i].name \in DOMAIN parsed
                         /\ parsed[declared[i].name].says = InForce(declared[i]).says
  <1>1. WrittenAt(i) = InForce(declared[i]) /\ WrittenAt(i) \in Written \cup {NoValue}
    BY MergedIsInForce, WrittenAtIsWritten
  <1>2. declared[i] \in [name : Names(declared), kind : Accessors, default : Written \cup {NoValue}]
    BY SettingsHaveKinds DEF LoadInv
  <1>3. /\ ~Overflows(declared[i], WrittenAt(i))
        /\ ~Unfit(i) => /\ declared[i].name \in DOMAIN parsed
                        /\ parsed[declared[i].name] = coerce(declared[i], WrittenAt(i))
    <2>1. i \in 1 .. Looked
      <3>1. i \in 1 .. Len(declared) /\ Len(declared) \in Nat /\ turn = Len(declared) + 1
        BY SettingsHaveKinds DEF LoadInv, StageInv
      <3> QED BY <3>1 DEF Looked
    <2> QED BY <2>1 DEF LoadInv, ParsedInv
  <1>4. NoValue \notin Written
    BY DEF NoValue, Written
  <1> QED BY <1>1, <1>2, <1>3, <1>4, CoerceAccepts DEF Unfit

LEMMA LoadedNamesMistakes ==
  ASSUME LoadInv
  PROVE  EveryMistakeNamed
  <1> SUFFICES ASSUME stage \in {"loaded", "refused"}
               PROVE  /\ {<<p.what, p.source, p.name>> : p \in problems} = Mistakes
                      /\ stage = "loaded" <=> Mistakes = {}
    BY DEF EveryMistakeNamed
  <1> DEFINE Told(p) == <<p.what, p.source, p.name>>
  <1>1. /\ DOMAIN declared = 1 .. Len(declared) /\ turn = Len(declared) + 1
        /\ Len(declared) \in Nat /\ Looked = Len(declared) /\ Merged = 3
    <2>1. /\ DOMAIN declared = 1 .. Len(declared) /\ Len(declared) \in Nat
          /\ turn = Len(declared) + 1
      BY SettingsHaveKinds DEF LoadInv, StageInv
    <2> QED BY <2>1 DEF Looked, Merged
  <1>2. problems = Unreadable \cup UnknownVariables \cup Unknowns(3)
                   \cup {Complaint(i) : i \in {j \in DOMAIN declared : Unfit(j)}}
    BY <1>1 DEF LoadInv, ProblemsInv
  <1>3. DOMAIN Source(2) \ Names(declared) = {}
    BY SourceCases DEF Restrict
  <1>4. /\ \A i \in DOMAIN declared : WrittenAt(i) = InForce(declared[i])
        /\ \A i \in DOMAIN declared :
             Unfit(i) <=> \/ InForce(declared[i]) = NoValue
                          \/ ~Accepts(declared[i].kind, InForce(declared[i]))
    BY MergedIsInForce, UnfitIsAMistake
  <1>5. \A i \in DOMAIN declared :
          Told(Complaint(i)) =
            <<IF InForce(declared[i]) = NoValue THEN "missing" ELSE "malformed",
              "", declared[i].name>>
    BY <1>4 DEF Complaint, Problem, refused
  <1>6. ASSUME NEW p \in problems PROVE Told(p) \in Mistakes
    <2>1. CASE p \in Unreadable
      <3>1. file.text = "not TOML" /\ p = Problem("unreadable", Typo, "file", "nothing")
        BY <2>1 DEF Unreadable
      <3>2. Told(p) = <<"unreadable", "file", Typo>>
        BY <3>1 DEF Problem
      <3> QED BY <3>1, <3>2 DEF Mistakes
    <2>2. CASE p \in UnknownVariables
      <3>1. PICK n \in DOMAIN environment \ (Names(declared) \cup {Foreign}) :
              p = Problem("unknown", n, "environment", "nothing")
        BY <2>2 DEF UnknownVariables
      <3>2. Told(p) = <<"unknown", "environment", n>>
        BY <3>1 DEF Problem
      <3> QED BY <3>2 DEF Mistakes
    <2>3. CASE p \in UnknownIn(1)
      <3>1. PICK n \in DOMAIN Source(1) \ Names(declared) :
              p = Problem("unknown", n, "file", "nothing")
        BY <2>3 DEF UnknownIn
      <3>2. Told(p) = <<"unknown", "file", n>>
        BY <3>1 DEF Problem
      <3>3. file.text = "TOML" /\ n \in DOMAIN file.table \ Names(declared)
        BY SourceCases
      <3> QED BY <3>2, <3>3 DEF Mistakes
    <2>4. CASE p \in UnknownIn(3)
      <3>1. PICK n \in DOMAIN overrides \ Names(declared) :
              p = Problem("unknown", n, "overrides", "nothing")
        BY <2>4, SourceCases DEF UnknownIn
      <3>2. Told(p) = <<"unknown", "overrides", n>>
        BY <3>1 DEF Problem
      <3> QED BY <3>2 DEF Mistakes
    <2>5. ASSUME NEW i \in DOMAIN declared, Unfit(i), p = Complaint(i)
          PROVE  Told(p) \in Mistakes
      BY <1>4, <1>5, <2>5 DEF Mistakes
    <2>6. UnknownIn(2) = {}
      BY <1>3 DEF UnknownIn
    <2>7. \A k \in 1 .. 3 : k = 1 \/ k = 2 \/ k = 3
      OBVIOUS
    <2>8. p \in Unknowns(3) => p \in UnknownIn(1) \/ p \in UnknownIn(3)
      BY <2>6, <2>7 DEF Unknowns
    <2> QED BY <1>2, <2>1, <2>2, <2>3, <2>4, <2>5, <2>8
  <1>7. ASSUME NEW m \in Mistakes PROVE \E p \in problems : m = Told(p)
    <2>1. /\ Unreadable \subseteq problems /\ UnknownVariables \subseteq problems
          /\ UnknownIn(1) \subseteq problems /\ UnknownIn(3) \subseteq problems
          /\ \A i \in DOMAIN declared : Unfit(i) => Complaint(i) \in problems
      <3>1. UnknownIn(1) \subseteq Unknowns(3) /\ UnknownIn(3) \subseteq Unknowns(3)
        BY DEF Unknowns
      <3> QED BY <1>2, <3>1
    <2>2. CASE file.text = "not TOML" /\ m = <<"unreadable", "file", Typo>>
      <3>1. Problem("unreadable", Typo, "file", "nothing") \in problems
        BY <2>1, <2>2 DEF Unreadable
      <3> QED BY <2>2, <3>1 DEF Problem
    <2>3. ASSUME file.text = "TOML", NEW n \in DOMAIN file.table \ Names(declared),
                 m = <<"unknown", "file", n>>
          PROVE  \E p \in problems : m = Told(p)
      <3>1. Problem("unknown", n, "file", "nothing") \in problems
        BY <2>1, <2>3, SourceCases DEF UnknownIn
      <3> QED BY <2>3, <3>1 DEF Problem
    <2>4. ASSUME NEW n \in DOMAIN environment \ (Names(declared) \cup {Foreign}),
                 m = <<"unknown", "environment", n>>
          PROVE  \E p \in problems : m = Told(p)
      <3>1. Problem("unknown", n, "environment", "nothing") \in problems
        BY <2>1, <2>4 DEF UnknownVariables
      <3> QED BY <2>4, <3>1 DEF Problem
    <2>5. ASSUME NEW n \in DOMAIN overrides \ Names(declared),
                 m = <<"unknown", "overrides", n>>
          PROVE  \E p \in problems : m = Told(p)
      <3>1. Problem("unknown", n, "overrides", "nothing") \in problems
        BY <2>1, <2>5, SourceCases DEF UnknownIn
      <3> QED BY <2>5, <3>1 DEF Problem
    <2>6. ASSUME NEW i \in DOMAIN declared,
                 \/ InForce(declared[i]) = NoValue
                 \/ ~Accepts(declared[i].kind, InForce(declared[i])),
                 m = <<IF InForce(declared[i]) = NoValue THEN "missing" ELSE "malformed",
                       "", declared[i].name>>
          PROVE  \E p \in problems : m = Told(p)
      BY <1>4, <1>5, <2>1, <2>6
    <2> QED BY <2>2, <2>3, <2>4, <2>5, <2>6 DEF Mistakes
  <1>8. {Told(p) : p \in problems} = Mistakes
    BY <1>6, <1>7
  <1>9. stage = "loaded" <=> problems = {}
    BY DEF LoadInv, OutcomeInv
  <1> QED BY <1>8, <1>9

\* A load that ends names every mistake there is in the three sources and no other, and
\* serves a configuration only where there was none, for any settings and any sources.
THEOREM MistakesAreAlwaysNamed == ConfigurationSpec => []EveryMistakeNamed
  BY LoadedNamesMistakes, LoadInvHolds, PTL

\* A load that is served was served whole: every declared setting is parsed.
LEMMA LoadedIsParsed ==
  ASSUME LoadInv, stage = "loaded", NEW i \in DOMAIN declared
  PROVE  /\ declared[i].name \in DOMAIN parsed
         /\ parsed[declared[i].name].says = InForce(declared[i]).says
  <1>1. problems = {}
    BY DEF LoadInv, OutcomeInv
  <1>2. Merged = 3 /\ Looked = Len(declared) /\ i \in 1 .. Len(declared)
    <2>1. /\ DOMAIN declared = 1 .. Len(declared) /\ Len(declared) \in Nat
          /\ turn = Len(declared) + 1
      BY SettingsHaveKinds DEF LoadInv, StageInv
    <2> QED BY <2>1 DEF Looked, Merged
  <1>3. {Complaint(k) : k \in {j \in 1 .. Len(declared) : Unfit(j)}} \subseteq problems
    BY <1>2 DEF LoadInv, ProblemsInv
  <1>4. ~Unfit(i)
    BY <1>1, <1>2, <1>3
  <1> QED BY <1>4, UnfitIsAMistake

-----------------------------------------------------------------------------
(* What a secret shows, and what an accessor gives *)

LEMMA InitGivesSecretsInv ==
  ASSUME ConfigurationInit
  PROVE  SecretsInv
  BY DEF ConfigurationInit, LoadStarts, SecretsInv, NoAnswer

LEMMA NextKeepsSecretsInv ==
  ASSUME LoadInv, SecretsInv, [ConfigurationNext]_configurationVars
  PROVE  SecretsInv'
  <1> DEFINE Hidden(p) == \/ p.shown = "nothing"
                          \/ \E i \in DOMAIN declared : /\ p.name = declared[i].name
                                /\ (declared[i].kind = "SECRET" => p.shown = REDACTED)
             Redacted(line) == \E i \in DOMAIN declared :
               line.name = declared[i].name /\ (declared[i].kind = "SECRET" => line.shown = REDACTED)
             Kept == \/ answer.value \in {NoValue, Refused}
                     \/ \E i \in DOMAIN declared :
                          /\ answer.name = declared[i].name
                          /\ answer.asked = Promised(declared[i].kind)
                          /\ answer.value.type = Promised(declared[i].kind)
  <1>1. /\ \A p \in problems : Hidden(p)
        /\ \A line \in lines : Redacted(line)
        /\ Kept
    BY DEF SecretsInv
  <1>2. declared' = declared
    BY DEF ConfigurationNext, configurationVars, sources, from_file, from_environment,
           Merge, Parse, Decide, Read, effective_lines
  <1>3. ASSUME \A p \in problems' : Hidden(p), UNCHANGED <<answer, lines>>
        PROVE  SecretsInv'
    BY <1>1, <1>2, <1>3 DEF SecretsInv
  <1>4. \A p : p.shown = "nothing" => Hidden(p)
    OBVIOUS
  <1>5. \A i \in DOMAIN declared : \A w : Hidden(refused(declared[i], w))
    BY DEF refused, Problem
  <1> HIDE DEF Hidden, Redacted, Kept
  <1>6. \A what, name, source : Hidden(Problem(what, name, source, "nothing"))
    BY <1>4 DEF Problem
  <1>7. CASE from_file
    BY <1>1, <1>3, <1>7, <1>6 DEF from_file
  <1>8. CASE from_environment
    BY <1>1, <1>3, <1>8, <1>6 DEF from_environment
  <1>9. CASE Merge
    BY <1>1, <1>3, <1>9, <1>6 DEF Merge
  <1>10. CASE Parse
    <2>1. turn \in DOMAIN declared
      <3>1. /\ DOMAIN declared = 1 .. Len(declared) /\ Len(declared) \in Nat
            /\ turn \in Nat \ {0}
        BY SettingsHaveKinds DEF LoadInv, StageInv
      <3>2. turn <= Len(declared)
        BY <1>10 DEF Parse
      <3> QED BY <3>1, <3>2
    <2>2. problems' \subseteq problems \cup
            {Problem("missing", declared[turn].name, "", "nothing"),
             refused(declared[turn], WrittenFor(declared[turn]))}
      BY <1>10 DEF Parse
    <2> QED BY <1>1, <1>3, <1>10, <1>5, <1>6, <2>1, <2>2 DEF Parse
  <1>11. CASE Decide
    BY <1>1, <1>3, <1>11 DEF Decide
  <1>12. ASSUME NEW name \in Names(declared) \cup {Typo}, NEW kind \in Accessors,
               Read(name, kind)
        PROVE  SecretsInv'
    <2>1. /\ answer' = [name |-> name, asked |-> Promised(kind), value |-> checked(name, kind)]
          /\ problems' = problems /\ lines' = lines /\ stage = "loaded"
      BY <1>12 DEF Read
    <2>2. CASE ~ \E setting \in Declared(name) : setting.kind = kind
      BY <1>1, <1>2, <2>1, <2>2 DEF SecretsInv, checked, Hidden, Redacted, Kept
    <2>3. ASSUME NEW i \in DOMAIN declared, declared[i].name = name, declared[i].kind = kind
          PROVE  SecretsInv'
      <3>1. checked(name, kind) = parsed[name]
        BY <2>3 DEF checked, Declared
      <3>2. name \in DOMAIN parsed
        BY <2>1, <2>3, LoadedIsParsed
      <3>3. parsed[name].type = Promised(kind)
        BY <2>3, <3>2 DEF LoadInv, ParsedInv
      <3> QED BY <1>1, <1>2, <2>1, <2>3, <3>1, <3>3 DEF SecretsInv, Hidden, Redacted
    <2> QED BY <2>2, <2>3 DEF Declared
  <1>13. CASE effective_lines
    <2>1. \A line \in lines' : Redacted(line)
      BY <1>13 DEF effective_lines, Redacted
    <2> QED BY <1>1, <1>2, <1>13, <2>1
               DEF SecretsInv, effective_lines, Hidden, Redacted, Kept
  <1>14. CASE UNCHANGED configurationVars
    BY <1>1, <1>3, <1>14 DEF configurationVars
  <1> QED BY <1>7, <1>8, <1>9, <1>10, <1>11, <1>12, <1>13, <1>14 DEF ConfigurationNext

LEMMA SecretsInvHolds == ConfigurationSpec => []SecretsInv
  BY LoadInvHolds, InitGivesSecretsInv, NextKeepsSecretsInv, PTL DEF ConfigurationSpec

LEMMA SecretsAreHidden ==
  ASSUME LoadInv, SecretsInv
  PROVE  SecretsStayHidden
  <1>1. \A i, j \in DOMAIN declared : declared[i].name = declared[j].name => i = j
    BY SettingsHaveKinds DEF LoadInv
  <1>2. ASSUME NEW i \in DOMAIN declared, declared[i].kind = "SECRET",
               answer.name = declared[i].name
        PROVE  Shown(answer.value) \in {"nothing", REDACTED}
    <2>1. CASE answer.value \in {NoValue, Refused}
      BY <2>1 DEF Shown, NoValue, Refused
    <2>2. ASSUME NEW j \in DOMAIN declared, answer.name = declared[j].name,
                 answer.value.type = Promised(declared[j].kind)
          PROVE  Shown(answer.value) \in {"nothing", REDACTED}
      BY <1>1, <1>2, <2>2 DEF Shown, Promised
    <2> QED BY <2>1, <2>2 DEF SecretsInv
  <1> QED BY <1>1, <1>2 DEF SecretsStayHidden, SecretsInv

\* Whatever is written for a secret, in whichever source and of whatever shape, reaches
\* no refusal, no rendering and no answer that would print it.
THEOREM SecretsAreNeverShown == ConfigurationSpec => []SecretsStayHidden
  BY SecretsAreHidden, LoadInvHolds, SecretsInvHolds, PTL

LEMMA AnswersAreInForce ==
  ASSUME LoadInv, SecretsInv
  PROVE  MostSpecificWins
  <1>1. answer.value.type \in {"None", "refused", answer.asked}
    BY DEF SecretsInv, NoValue, Refused
  <1> QED BY <1>1, LoadedIsParsed DEF MostSpecificWins

\* What an accessor of a served configuration gives out is what the most specific source
\* said of the setting, as the type the accessor promises.
THEOREM TheMostSpecificWins == ConfigurationSpec => []MostSpecificWins
  BY AnswersAreInForce, LoadInvHolds, SecretsInvHolds, PTL

LEMMA LoadIsTyped ==
  ASSUME LoadInv
  PROVE  ConfigurationTypeOK
  <1>1. Len(declared) \in Nat
    BY SettingsHaveKinds DEF LoadInv
  <1>2. turn \in 1 .. Len(declared) + 3
    BY <1>1 DEF LoadInv, StageInv
  <1> QED BY <1>2 DEF LoadInv, StageInv, RawInv, ParsedInv, ConfigurationTypeOK

\* Every variable of a load keeps its type, and what is parsed has its kind's type.
THEOREM ConfigurationTypeCorrect == ConfigurationSpec => []ConfigurationTypeOK
  BY LoadIsTyped, LoadInvHolds, PTL

-----------------------------------------------------------------------------
(* The log: one call *)

\* The checks of one field refuse exactly what may not stand under its name, and name
\* that field.
LEMMA FieldChecks ==
  ASSUME NEW name, name \notin {"event", "level"}, NEW value \in Value
  PROVE  /\ field_problems(name, value) = {} <=> MayStand(name, value)
         /\ \A p \in field_problems(name, value) : p[1] = name
  <1>1. MayStand(name, value) <=>
          /\ name \in DOMAIN FIELDS
          /\ value.type = IF FIELDS[name] \in {"size", "duration"} THEN "int" ELSE "str"
          /\ value.says \in {"token", "count"}
    BY DEF MayStand
  <1>2. \A words : /\ {<<name, words>>} # {}
                   /\ \A p \in {<<name, words>>} : p[1] = name
    OBVIOUS
  <1>3. CASE name \notin DOMAIN FIELDS
    <2>1. field_problems(name, value) = {<<name, "not declared">>}
      BY <1>3 DEF field_problems
    <2> QED BY <1>1, <1>2, <1>3, <2>1
  <1>4. CASE name \in DOMAIN FIELDS /\ takes_text(name)
    <2>1. /\ FIELDS[name] \notin {"size", "duration"}
          /\ field_problems(name, value) = text_problems(name, value)
      BY <1>4 DEF takes_text, TEXT_CATEGORIES, field_problems
    <2>2. CASE value.type = "str" /\ value.says = "token"
      BY <1>1, <1>4, <2>1, <2>2 DEF text_problems
    <2>3. CASE ~(value.type = "str" /\ value.says = "token")
      <3>1. \E words : text_problems(name, value) = {<<name, words>>}
        BY <2>3 DEF text_problems, Value
      <3>2. ~(value.type = "str" /\ value.says \in {"token", "count"})
        BY <2>3 DEF Value
      <3> QED BY <1>1, <1>2, <1>4, <2>1, <3>1, <3>2
    <2> QED BY <2>2, <2>3
  <1>5. CASE name \in DOMAIN FIELDS /\ ~takes_text(name)
    <2>1. FIELDS[name] = "size" /\ field_problems(name, value) = number_problems(name, value)
      BY <1>5 DEF takes_text, TEXT_CATEGORIES, field_problems, FIELDS
    <2>2. CASE value.type = "int" /\ value.says = "count"
      BY <1>1, <1>5, <2>1, <2>2 DEF number_problems
    <2>3. CASE ~(value.type = "int" /\ value.says = "count")
      <3>1. \E words : number_problems(name, value) = {<<name, words>>}
        BY <2>3 DEF number_problems, Value
      <3>2. ~(value.type = "int" /\ value.says \in {"token", "count"})
        BY <2>3 DEF Value
      <3> QED BY <1>1, <1>2, <1>5, <2>1, <3>1, <3>2
    <2> QED BY <2>2, <2>3
  <1> QED BY <1>3, <1>4, <1>5

\* A call is refused under exactly the names that may not stand in its line.
LEMMA CallChecks ==
  ASSUME NEW call \in Calls
  PROVE  {p[1] : p \in ProblemsOf(call)}
           = {n \in DOMAIN render(call) : ~MayStand(n, render(call)[n])}
  <1> DEFINE line == render(call)
             FromField(p) == \E n \in DOMAIN call.fields : p \in field_problems(n, call.fields[n])
  <1>1. /\ call.event \in {"token", "sentence"} /\ call.level \in Level
        /\ "event" \notin DOMAIN call.fields /\ "level" \notin DOMAIN call.fields
        /\ \A n \in DOMAIN call.fields : call.fields[n] \in Value /\ n \notin {"event", "level"}
    BY CallsAssumption
  <1>2. /\ DOMAIN line = DOMAIN call.fields \cup {"event", "level"}
        /\ \A n \in DOMAIN call.fields : line[n] = call.fields[n]
        /\ line["event"].says = call.event /\ line["level"].says = call.level
    BY <1>1 DEF render
  <1>3. MayStand("level", line["level"])
    BY <1>1, <1>2 DEF MayStand
  <1>4. MayStand("event", line["event"]) <=> event_problems(call.event) = {}
    BY <1>1, <1>2 DEF MayStand, event_problems, EVENT_SHAPE
  <1>5. \A p \in event_problems(call.event) : p[1] = "event"
    <2>1. \A a, b : <<a, b>>[1] = a
      OBVIOUS
    <2>2. <<"event", "not a token">>[1] = "event"
      BY <2>1
    <2> QED BY <2>2 DEF event_problems
  <1>6. \A n \in DOMAIN call.fields :
          /\ field_problems(n, call.fields[n]) = {} <=> MayStand(n, line[n])
          /\ \A p \in field_problems(n, call.fields[n]) : p[1] = n
    BY <1>1, <1>2, FieldChecks
  <1>7. \A p : p \in ProblemsOf(call) <=> p \in event_problems(call.event) \/ FromField(p)
    BY DEF ProblemsOf
  <1> HIDE DEF line
  <1>8. ASSUME NEW p \in ProblemsOf(call)
        PROVE  p[1] \in DOMAIN line /\ ~MayStand(p[1], line[p[1]])
    <2>1. CASE p \in event_problems(call.event)
      BY <1>2, <1>4, <1>5, <2>1
    <2>2. CASE FromField(p)
      BY <1>2, <1>6, <2>2
    <2> QED BY <1>7, <1>8, <2>1, <2>2
  <1>9. ASSUME NEW n \in DOMAIN line, ~MayStand(n, line[n])
        PROVE  \E p \in ProblemsOf(call) : n = p[1]
    <2>1. CASE n = "event"
      BY <1>4, <1>5, <1>7, <1>9, <2>1
    <2>2. CASE n \in DOMAIN call.fields
      BY <1>6, <1>7, <1>9, <2>2
    <2> QED BY <1>2, <1>3, <1>9, <2>1, <2>2
  <1> QED BY <1>8, <1>9 DEF line

-----------------------------------------------------------------------------
(* The invariant *)

LinesInv ==
  /\ level \in Level \cup {NoLog, "refused"}
  /\ built \in Seq(Calls) /\ Len(built) <= MaxRecords
  /\ \A i \in DOMAIN built : ProblemsOf(built[i]) = {}
  /\ \/ refusal = NoRefusal
     \/ /\ refusal.call \in Calls /\ refusal.problems = ProblemsOf(refusal.call)
        /\ refusal.problems # {}
  /\ offered \in 0 .. Len(built) /\ lost \subseteq 1 .. offered
  /\ level \notin Level => offered = 0
  /\ \A i \in DOMAIN written : \E j \in DOMAIN built : written[i] = render(built[j])

LEMMA InitGivesLinesInv ==
  ASSUME LogInit
  PROVE  LinesInv
  BY MaxRecordsAssumption DEF LogInit, LogStarts, LinesInv

LEMMA NextKeepsLinesInv ==
  ASSUME LinesInv, [LogNext]_logVars
  PROVE  LinesInv'
  <1> USE DEF LinesInv
  <1>1. DOMAIN built = 1 .. Len(built) /\ Len(built) \in Nat
    OBVIOUS
  <1>2. CASE level_from_name
    <2>1. /\ offered = 0 /\ level' \in Level \cup {"refused"}
          /\ UNCHANGED <<built, refusal, offered, written, lost>>
      <3>1. NoLog \notin Level
        BY DEF NoLog, Level, SEVERITY
      <3> QED BY <1>2, <3>1 DEF level_from_name
    <2> QED BY <2>1
  <1>3. ASSUME NEW call \in Calls, record(call)
        PROVE  LinesInv'
    <2>1. CASE ProblemsOf(call) # {}
      BY <1>3, <2>1 DEF record
    <2>2. CASE ProblemsOf(call) = {}
      <3>1. /\ built' = Append(built, call) /\ Len(built') = Len(built) + 1
            /\ Len(built) < MaxRecords /\ built' \in Seq(Calls)
            /\ DOMAIN built' = DOMAIN built \cup {Len(built) + 1}
            /\ \A i \in DOMAIN built : built'[i] = built[i]
            /\ built'[Len(built) + 1] = call
        BY <1>1, <1>3, <2>2 DEF record
      <3>2. UNCHANGED <<threshold, level, refusal, offered, written, lost>>
        BY <1>3, <2>2 DEF record
      <3>3. offered' \in 0 .. Len(built') /\ Len(built') <= MaxRecords
        BY <1>1, <3>1, <3>2, MaxRecordsAssumption
      <3> QED BY <2>2, <3>1, <3>2, <3>3
    <2> QED BY <2>1, <2>2
  <1>4. CASE emit
    <2>1. /\ level \in Level /\ offered' = offered + 1 /\ offered + 1 \in DOMAIN built
          /\ UNCHANGED <<threshold, level, built, refusal>>
      BY <1>1, <1>4 DEF emit
    <2>2. lost' \subseteq 1 .. offered'
      <3>1. lost \subseteq 1 .. offered /\ offered \in Nat
        BY <1>1
      <3>2. lost' = lost \/ lost' = lost \cup {offered + 1}
        BY <1>4 DEF emit
      <3>3. 1 .. offered + 1 = (1 .. offered) \cup {offered + 1}
        BY <3>1
      <3> QED BY <2>1, <3>1, <3>2, <3>3
    <2>3. \A i \in DOMAIN written' : \E j \in DOMAIN built : written'[i] = render(built[j])
      BY <1>4, <2>1 DEF emit
    <2> QED BY <1>1, <2>1, <2>2, <2>3
  <1>5. CASE UNCHANGED logVars
    BY <1>5 DEF logVars
  <1> QED BY <1>2, <1>3, <1>4, <1>5 DEF LogNext

LEMMA LinesInvHolds == LogSpec => []LinesInv
  BY InitGivesLinesInv, NextKeepsLinesInv, PTL DEF LogSpec

LEMMA LinesAreDeclared ==
  ASSUME LinesInv
  PROVE  OnlyDeclaredReachesALine
  <1>1. ASSUME NEW i \in DOMAIN written, NEW name \in DOMAIN written[i]
        PROVE  MayStand(name, written[i][name])
    <2>1. PICK j \in DOMAIN built : written[i] = render(built[j])
      BY DEF LinesInv
    <2>2. built[j] \in Calls /\ ProblemsOf(built[j]) = {}
      BY DEF LinesInv
    <2> QED BY <1>1, <2>1, <2>2, CallChecks
  <1>2. ASSUME refusal # NoRefusal
        PROVE  {p[1] : p \in refusal.problems}
                 = {n \in DOMAIN render(refusal.call) : ~MayStand(n, render(refusal.call)[n])}
    BY <1>2, CallChecks DEF LinesInv
  <1> QED BY <1>1, <1>2 DEF OnlyDeclaredReachesALine

\* Whatever is passed to record, and whatever the log's threshold, each name in a line is
\* declared and has a value of its category, and a refusal gives exactly the names that
\* were wrong.
THEOREM LinesHoldWhatIsDeclared == LogSpec => []OnlyDeclaredReachesALine
  BY LinesAreDeclared, LinesInvHolds, PTL

-----------------------------------------------------------------------------
(* Which lines are written *)

Due == {i \in 1 .. offered : NoLessThan(built[i].level, level)}
Kept == Due \ lost

\* The verbosity property, and what it needs to be inductive: the lines are a sequence,
\* and there are none before there is a level.
VerbosityInv ==
  /\ written \in Seq({render(call) : call \in Calls})
  /\ level \notin Level => written = <<>> /\ lost = {}
  /\ level \in Level =>
       /\ lost \subseteq Due
       /\ Len(written) = Cardinality(Kept)
       /\ \A i \in Kept : written[PlaceUpTo(Kept, i)] = render(built[i])

LEMMA LevelsCompare ==
  ASSUME NEW asked \in Level, level \in Level
  PROVE  NoLessThan(asked, level) <=> ~Below(asked)
  <1>1. Level = {"debug", "info", "warning", "error"}
    BY DEF Level, SEVERITY
  <1>2. /\ DOMAIN Rising = 1 .. 4
        /\ Rising[1] = "debug" /\ Rising[2] = "info" /\ Rising[3] = "warning"
        /\ Rising[4] = "error"
    BY DEF Rising
  <1>3. \A l \in Level : \E i \in 1 .. 4 : Rising[i] = l /\ SEVERITY[l] = 10 * i
    BY <1>1, <1>2 DEF SEVERITY
  <1>4. \A i, j \in 1 .. 4 : Rising[i] = Rising[j] => i = j
    BY <1>2
  <1>5. PICK a \in 1 .. 4 : Rising[a] = asked /\ SEVERITY[asked] = 10 * a
    BY <1>3
  <1>6. PICK b \in 1 .. 4 : Rising[b] = level /\ SEVERITY[level] = 10 * b
    BY <1>3
  <1>7. NoLessThan(asked, level) <=> b <= a
    BY <1>2, <1>4, <1>5, <1>6 DEF NoLessThan
  <1>8. Below(asked) <=> 10 * a < 10 * b
    BY <1>5, <1>6 DEF Below
  <1> QED BY <1>7, <1>8

LEMMA EmitKeepsVerbosityInv ==
  ASSUME LinesInv, VerbosityInv, emit
  PROVE  VerbosityInv'
  <1> DEFINE entry == built[offered + 1]
  <1>1. /\ level \in Level /\ level' = level /\ built' = built /\ offered' = offered + 1
        /\ offered \in Nat /\ offered + 1 \in DOMAIN built
        /\ entry \in Calls /\ entry.level \in Level
    <2>1. offered \in 0 .. Len(built) /\ offered < Len(built) /\ Len(built) \in Nat
          /\ DOMAIN built = 1 .. Len(built)
      BY DEF LinesInv, emit
    <2>2. offered + 1 \in DOMAIN built
      BY <2>1
    <2>3. entry \in Calls
      BY <2>2 DEF LinesInv
    <2> QED BY <2>1, <2>2, <2>3, CallsAssumption DEF emit
  <1>2. /\ lost \subseteq Due /\ Len(written) = Cardinality(Kept)
        /\ \A i \in Kept : written[PlaceUpTo(Kept, i)] = render(built[i])
        /\ written \in Seq({render(call) : call \in Calls})
    BY <1>1 DEF VerbosityInv
  <1>3. Due' = IF Below(entry.level) THEN Due ELSE Due \cup {offered + 1}
    <2>1. NoLessThan(entry.level, level) <=> ~Below(entry.level)
      BY <1>1, LevelsCompare
    <2>2. 1 .. offered' = (1 .. offered) \cup {offered + 1}
      BY <1>1
    <2>3. Due' = {i \in 1 .. offered' : NoLessThan(built[i].level, level)}
      BY <1>1 DEF Due, NoLessThan
    <2> QED BY <2>1, <2>2, <2>3 DEF Due
  <1>4. Kept \in SUBSET (1 .. offered) /\ lost \subseteq 1 .. offered /\ offered + 1 \notin Due
        /\ offered + 1 \notin lost
    BY <1>1, <1>2 DEF Kept, Due
  <1>5. \A line : Append(written, line)[Len(written) + 1] = line
    BY <1>2
  <1> HIDE DEF entry
  <1>6. CASE Kept' = Kept /\ UNCHANGED written /\ lost' \subseteq Due'
    <2>1. \A i \in Kept : written[PlaceUpTo(Kept, i)] = render(built[i])
      BY <1>2
    <2> QED BY <1>1, <1>2, <1>6, <2>1 DEF VerbosityInv, PlaceUpTo
  <1>7. CASE ~Below(entry.level) /\ written' = Append(written, render(entry)) /\ lost' = lost
    <2>1. Kept' = Kept \cup {offered + 1}
      BY <1>3, <1>4, <1>7 DEF Kept
    <2>2. /\ Len(written') = Len(written) + 1
          /\ written' \in Seq({render(call) : call \in Calls})
          /\ \A k \in 1 .. Len(written) : written'[k] = written[k]
          /\ written'[Len(written) + 1] = render(entry)
      BY <1>1, <1>2, <1>7
    <2>3. \A i \in Kept \cup {offered + 1} :
            written'[PlaceUpTo(Kept \cup {offered + 1}, i)] = render(built[i])
      BY <1>1, <1>2, <1>4, <2>2, PlacesStay DEF entry
    <2>4. Len(written') = Cardinality(Kept \cup {offered + 1})
      BY <1>1, <1>2, <1>4, <2>2, PlacesStay
    <2>5. lost' \subseteq Due'
      BY <1>2, <1>3, <1>7
    <2> QED BY <1>1, <2>1, <2>2, <2>3, <2>4, <2>5 DEF VerbosityInv, PlaceUpTo
  <1>8. CASE Below(entry.level) /\ written' = written /\ lost' = lost
    <2>1. Kept' = Kept /\ lost' \subseteq Due'
      BY <1>2, <1>3, <1>8 DEF Kept
    <2> QED BY <1>6, <1>8, <2>1
  <1>9. CASE ~Below(entry.level) /\ written' = written /\ lost' = lost \cup {offered + 1}
    <2>1. Kept' = Kept /\ lost' \subseteq Due'
      BY <1>2, <1>3, <1>4, <1>9 DEF Kept
    <2> QED BY <1>6, <1>9, <2>1
  <1> QED BY <1>7, <1>8, <1>9 DEF emit, entry

LEMMA RecordKeepsVerbosityInv ==
  ASSUME LinesInv, VerbosityInv, NEW call \in Calls, record(call)
  PROVE  VerbosityInv'
  <1>1. /\ level' = level /\ offered' = offered /\ written' = written /\ lost' = lost
        /\ \A i \in 1 .. offered : built'[i] = built[i]
    <2>1. built' = built \/ built' = Append(built, call)
      BY DEF record
    <2>2. built \in Seq(Calls) /\ offered \in 0 .. Len(built)
      BY DEF LinesInv
    <2>3. \A i \in 1 .. offered : built'[i] = built[i]
      BY <2>1, <2>2
    <2> QED BY <2>3 DEF record
  <1>2. Due' = Due /\ Kept' = Kept
    BY <1>1 DEF Due, Kept, NoLessThan
  <1>3. Kept \subseteq 1 .. offered
    BY DEF Kept, Due
  <1> QED BY <1>1, <1>2, <1>3 DEF VerbosityInv, PlaceUpTo

LEMMA ThresholdKeepsVerbosityInv ==
  ASSUME LinesInv, VerbosityInv, level_from_name
  PROVE  VerbosityInv'
  <1>1. level = NoLog /\ level \notin Level /\ UNCHANGED <<built, offered, written, lost>>
    BY DEF level_from_name, NoLog, Level, SEVERITY
  <1>2. offered = 0 /\ written = <<>> /\ lost = {}
    BY <1>1 DEF LinesInv, VerbosityInv
  <1>3. Due' = {} /\ Kept' = {}
    BY <1>1, <1>2 DEF Due, Kept
  <1> QED BY <1>1, <1>2, <1>3, FS_EmptySet DEF VerbosityInv

LEMMA LogStartsWithoutLines == LogStarts => LinesInv /\ VerbosityInv
  <1>1. NoLog \notin Level
    BY DEF NoLog, Level, SEVERITY
  <1> QED BY <1>1, MaxRecordsAssumption DEF LogStarts, LinesInv, VerbosityInv

LEMMA NextKeepsVerbosityInv ==
  ASSUME LinesInv, VerbosityInv, [LogNext]_logVars
  PROVE  VerbosityInv'
  <1>1. CASE UNCHANGED logVars
    BY <1>1 DEF logVars, VerbosityInv, Due, Kept, PlaceUpTo, NoLessThan
  <1> QED BY <1>1, EmitKeepsVerbosityInv, RecordKeepsVerbosityInv,
             ThresholdKeepsVerbosityInv DEF LogNext

LEMMA LinesFollowTheThreshold == VerbosityInv => VerbosityOnlyAddsLines
  BY DEF VerbosityInv, VerbosityOnlyAddsLines, Due, Kept, PlaceUpTo

\* Whatever is built and when, the lines written and the records lost to the sink are
\* the records that reach the threshold, each once and in the order they were built.
THEOREM TheThresholdAloneDecides == LogSpec => []VerbosityOnlyAddsLines
  <1>1. LogInit => VerbosityInv
    BY LogStartsWithoutLines DEF LogInit
  <1>2. LinesInv /\ VerbosityInv /\ [LogNext]_logVars => VerbosityInv'
    BY NextKeepsVerbosityInv
  <1> QED BY <1>1, <1>2, LinesFollowTheThreshold, LinesInvHolds, PTL DEF LogSpec

LEMMA LogIsTyped == LinesInv => LogTypeOK
  BY DEF LinesInv, LogTypeOK

\* The log gets no further than the records built, and one without a level gets none.
THEOREM LogTypeCorrect == LogSpec => []LogTypeOK
  BY LogIsTyped, LinesInvHolds, PTL

-----------------------------------------------------------------------------
(* The registry: one file *)

\* The least of a set of places is the one place in it with none before it.
LEMMA FirstPlace ==
  ASSUME NEW n \in Nat, NEW I \in SUBSET (1 .. n), I # {}
  PROVE  /\ Min(I) \in I
         /\ \A i \in I : (\A j \in 1 .. i - 1 : j \notin I) <=> i = Min(I)
  <1>1. Min(I) \in I /\ \A i \in I : Min(I) <= i
    BY LeastIndex
  <1>2. \A i \in I : i \in 1 .. n
    OBVIOUS
  <1>3. ASSUME NEW i \in I, \A j \in 1 .. i - 1 : j \notin I PROVE i = Min(I)
    <2>1. Min(I) \in 1 .. n /\ i \in 1 .. n /\ Min(I) <= i
      BY <1>1, <1>2
    <2>2. Min(I) \notin 1 .. i - 1
      BY <1>1, <1>3
    <2> QED BY <2>1, <2>2
  <1>4. ASSUME NEW j \in 1 .. Min(I) - 1 PROVE j \notin I
    <2>1. Min(I) \in 1 .. n
      BY <1>1, <1>2
    <2> QED BY <1>1, <2>1
  <1> QED BY <1>1, <1>3, <1>4

\* A source is refused exactly where a revision that can move stands in it.
LEMMA MovableIsRefused ==
  ASSUME NEW source, source.path \in Seq(STRING), source.query \in Seq(STRING \X STRING),
         \A i \in DOMAIN source.path : source.path[i] # Unpinned,
         \A i \in DOMAIN source.query : source.query[i][2] # Unpinned
  PROVE  pinned_revision(source) \notin {Unpinned, "commit"} <=> Movable(source)
  <1> DEFINE path == source.path
             query == source.query
             marked == {i \in 1 .. Len(source.path) - 1 : source.path[i] \in Markers}
             named == {i \in DOMAIN source.query : /\ source.query[i][1] \in QueryKeys
                                                   /\ source.query[i][2] # "blank"}
             InPath(i) == path[i] \in Markers /\ i < Len(path)
             Queried(i) == query[i][1] \in QueryKeys /\ query[i][2] # "blank"
  <1>1. /\ Len(path) \in Nat /\ DOMAIN path = 1 .. Len(path)
        /\ Len(query) \in Nat /\ DOMAIN query = 1 .. Len(query)
    OBVIOUS
  <1>2. \A i \in DOMAIN path : InPath(i) <=> i \in marked
    BY <1>1
  <1>3. \A i \in DOMAIN query : Queried(i) <=> i \in named
    OBVIOUS
  <1>4. marked \in SUBSET (1 .. Len(path)) /\ named \in SUBSET (1 .. Len(query))
    BY <1>1
  <1>5. Movable(source) <=>
          \/ \E i \in DOMAIN path : /\ InPath(i) /\ \A j \in 1 .. i - 1 : ~InPath(j)
                                    /\ path[i + 1] # "commit"
          \/ /\ \A i \in DOMAIN path : ~InPath(i)
             /\ \E i \in DOMAIN query : /\ Queried(i) /\ \A j \in 1 .. i - 1 : ~Queried(j)
                                        /\ query[i][2] # "commit"
    BY DEF Movable
  <1>6. pinned_revision(source) =
          IF marked # {} THEN path[Min(marked) + 1]
          ELSE IF named # {} THEN query[Min(named)][2] ELSE Unpinned
    BY DEF pinned_revision
  <1>7. marked \in SUBSET (DOMAIN path) /\ \A i \in marked : i + 1 \in DOMAIN path
    BY <1>1
  <1>8. /\ \A i \in DOMAIN path : \A j \in 1 .. i - 1 : j \in DOMAIN path
        /\ \A i \in DOMAIN query : \A j \in 1 .. i - 1 : j \in DOMAIN query
    BY <1>1
  <1>9. \A i \in DOMAIN path : path[i] # Unpinned
    OBVIOUS
  <1>10. \A i \in DOMAIN query : query[i][2] # Unpinned
    OBVIOUS
  <1>11. named \in SUBSET (DOMAIN query)
    OBVIOUS
  <1> HIDE DEF path, query, marked, named, InPath, Queried
  <1>12. CASE marked # {}
    <2>1. /\ Min(marked) \in marked
          /\ \A i \in marked : (\A j \in 1 .. i - 1 : j \notin marked) <=> i = Min(marked)
      BY <1>1, <1>4, <1>12, FirstPlace
    <2>2. \A i \in DOMAIN path :
            (InPath(i) /\ \A j \in 1 .. i - 1 : ~InPath(j)) <=> i = Min(marked)
      <3> SUFFICES ASSUME NEW i \in DOMAIN path
                   PROVE  (InPath(i) /\ \A j \in 1 .. i - 1 : ~InPath(j)) <=> i = Min(marked)
        OBVIOUS
      <3>1. \A j \in 1 .. i - 1 : InPath(j) <=> j \in marked
        BY <1>2, <1>8
      <3> QED BY <1>2, <2>1, <3>1
    <2>3. Movable(source) <=> path[Min(marked) + 1] # "commit"
      <3>1. ~\A i \in DOMAIN path : ~InPath(i)
        BY <1>2, <1>7, <2>1
      <3>2. Min(marked) \in DOMAIN path
        BY <1>7, <2>1
      <3> QED BY <1>5, <2>2, <3>1, <3>2
    <2>4. pinned_revision(source) = path[Min(marked) + 1]
      BY <1>6, <1>12
    <2>5. path[Min(marked) + 1] # Unpinned
      BY <1>7, <1>9, <2>1
    <2> QED BY <2>3, <2>4, <2>5
  <1>13. CASE marked = {} /\ named # {}
    <2>1. /\ Min(named) \in named
          /\ \A i \in named : (\A j \in 1 .. i - 1 : j \notin named) <=> i = Min(named)
      BY <1>1, <1>4, <1>13, FirstPlace
    <2>2. \A i \in DOMAIN query :
            (Queried(i) /\ \A j \in 1 .. i - 1 : ~Queried(j)) <=> i = Min(named)
      <3> SUFFICES ASSUME NEW i \in DOMAIN query
                   PROVE  (Queried(i) /\ \A j \in 1 .. i - 1 : ~Queried(j)) <=> i = Min(named)
        OBVIOUS
      <3>1. \A j \in 1 .. i - 1 : Queried(j) <=> j \in named
        BY <1>3, <1>8
      <3> QED BY <1>3, <2>1, <3>1
    <2>3. \A i \in DOMAIN path : ~InPath(i)
      BY <1>2, <1>13
    <2>4. Min(named) \in DOMAIN query
      BY <1>11, <2>1
    <2>5. Movable(source) <=> query[Min(named)][2] # "commit"
      BY <1>5, <2>2, <2>3, <2>4
    <2>6. pinned_revision(source) = query[Min(named)][2]
      BY <1>6, <1>13
    <2> QED BY <1>10, <2>4, <2>5, <2>6
  <1>14. CASE marked = {} /\ named = {}
    <2>1. pinned_revision(source) = Unpinned
      BY <1>6, <1>14
    <2>2. (\A i \in DOMAIN path : ~InPath(i)) /\ (\A i \in DOMAIN query : ~Queried(i))
      BY <1>2, <1>3, <1>14
    <2> QED BY <1>5, <2>1, <2>2
  <1> QED BY <1>12, <1>13, <1>14

\* No check of a file refuses it exactly where the file is complete.
LEMMA ChecksAskForAll ==
  ASSUME NEW fields, IsReading(fields)
  PROVE  Failing(fields) = {} <=> Complete(fields)
  <1>1. DOMAIN checks(fields) = 1 .. 16
    BY DEF checks
  <1>2. Failing(fields) = {} <=> \A i \in 1 .. 16 : ~checks(fields)[i][2]
    BY <1>1 DEF Failing
  <1>3. \A i \in 1 .. 16 : \/ i = 1 \/ i = 2 \/ i = 3 \/ i = 4 \/ i = 5 \/ i = 6 \/ i = 7 \/ i = 8 \/ i = 9
             \/ i = 10 \/ i = 11 \/ i = 12 \/ i = 13 \/ i = 14 \/ i = 15 \/ i = 16
    OBVIOUS
  <1>4. Failing(fields) = {} <=>
          /\ ~checks(fields)[1][2] /\ ~checks(fields)[2][2] /\ ~checks(fields)[3][2]
          /\ ~checks(fields)[4][2] /\ ~checks(fields)[5][2] /\ ~checks(fields)[6][2]
          /\ ~checks(fields)[7][2] /\ ~checks(fields)[8][2] /\ ~checks(fields)[9][2]
          /\ ~checks(fields)[10][2] /\ ~checks(fields)[11][2] /\ ~checks(fields)[12][2]
          /\ ~checks(fields)[13][2] /\ ~checks(fields)[14][2] /\ ~checks(fields)[15][2]
          /\ ~checks(fields)[16][2]
    BY <1>2, <1>3
  <1>5. /\ checks(fields)[1][2] = fields.extra
        /\ checks(fields)[2][2] = mapping_refused(fields.licence)
        /\ checks(fields)[3][2] = fields.licence.extra
        /\ checks(fields)[4][2] = licence_identifier_refused(fields.licence.identifier)
        /\ checks(fields)[5][2] = NoText(fields.licence.url)
        /\ checks(fields)[6][2] = mapping_refused(fields.access)
        /\ checks(fields)[7][2] = fields.access.extra
        /\ checks(fields)[8][2] = NoText(fields.identifier)
        /\ checks(fields)[9][2] = source_refused(fields.source)
        /\ checks(fields)[10][2] = digest_refused(fields.digest)
        /\ checks(fields)[11][2] = NotPositive(fields.size_bytes)
        /\ checks(fields)[12][2] = NotPositive(fields.device_memory_bytes)
        /\ checks(fields)[13][2] = NoText(fields.engine)
        /\ checks(fields)[14][2] = operations_refused(fields.operations)
        /\ checks(fields)[15][2] = operation_refused(fields.operations)
        /\ checks(fields)[16][2] = access_refused(fields.access)
    BY ZenonT(60) DEF checks
  <1>6. /\ ~licence_identifier_refused(fields.licence.identifier)
          <=> fields.licence.identifier \notin Lacking /\ fields.licence.identifier # "placeholder"
        /\ ~digest_refused(fields.digest)
          <=> fields.digest \notin Lacking /\ fields.digest # "misspelt"
        /\ ~NoText(fields.identifier) <=> fields.identifier \notin Lacking
        /\ ~NoText(fields.licence.url) <=> fields.licence.url \notin Lacking
        /\ ~NoText(fields.engine) <=> fields.engine \notin Lacking
    BY DEF licence_identifier_refused, digest_refused, NoText
  <1>7. /\ ~mapping_refused(fields.licence) <=> fields.licence.form = "table"
        /\ ~mapping_refused(fields.access) <=> fields.access.form = "table"
    BY DEF mapping_refused
  <1>8. ~source_refused(fields.source)
          <=> /\ fields.source.form \notin Lacking /\ fields.source.form # "malformed"
              /\ ~Movable(fields.source)
    BY MovableIsRefused DEF source_refused, NoText, IsReading
  <1>9. \A count \in {fields.size_bytes, fields.device_memory_bytes} :
           ~NotPositive(count) <=> count.type = "int" /\ count.is > 0
    <2>1. fields.size_bytes.is \in Int /\ fields.device_memory_bytes.is \in Int
      BY DEF IsReading
    <2>2. \A count : count.is \in Int =>
            (~NotPositive(count) <=> count.type = "int" /\ count.is > 0)
      BY DEF NotPositive
    <2> QED BY <2>1, <2>2
  <1>10. ~operations_refused(fields.operations) /\ ~operation_refused(fields.operations)
           <=> fields.operations.form = "list"
               /\ fields.operations.names \in (SUBSET Operations) \ {{}}
    BY DEF operations_refused, operation_refused
  <1>11. ~access_refused(fields.access)
           <=> <<fields.access.gated, fields.access.obtain>>
                 \in {<<"true", "sentence">>, <<"false", "blank">>}
    <2>1. /\ fields.access.gated \in {"absent", "other type", "true", "false"}
          /\ fields.access.obtain \in {"absent", "other type", "blank", "sentence"}
      BY DEF IsReading, Lacking
    <2> QED BY <2>1 DEF access_refused
  <1>12. {fields.identifier, fields.source.form, fields.digest, fields.engine,
          fields.licence.identifier, fields.licence.url} \cap Lacking = {}
           <=> /\ fields.identifier \notin Lacking /\ fields.source.form \notin Lacking
               /\ fields.digest \notin Lacking /\ fields.engine \notin Lacking
               /\ fields.licence.identifier \notin Lacking /\ fields.licence.url \notin Lacking
    OBVIOUS
  <1>13. (\A count \in {fields.size_bytes, fields.device_memory_bytes} :
             count.type = "int" /\ count.is > 0)
           <=> ~NotPositive(fields.size_bytes) /\ ~NotPositive(fields.device_memory_bytes)
    BY <1>9
  <1> QED BY <1>4, <1>5, <1>6, <1>7, <1>8, <1>10, <1>11, <1>12, <1>13 DEF Complete

\* The names of the registry, which come from the alphabet, are listed in its order.
LEMMA NamesAreSorted ==
  ASSUME NEW names, IsFiniteSet(names), names \subseteq {Alphabet[k] : k \in DOMAIN Alphabet}
  PROVE  /\ Cardinality(names) \in Nat /\ DOMAIN sorted(names) = 1 .. Cardinality(names)
         /\ \A i \in 1 .. Cardinality(names) : sorted(names)[i] \in names
         /\ \A name \in names : \E i \in 1 .. Cardinality(names) : sorted(names)[i] = name
         /\ \A i, j \in 1 .. Cardinality(names) :
              i < j => Precedes(sorted(names)[i], sorted(names)[j])
  <1> DEFINE R == {p \in names \X names : Precedes(p[1], p[2])}
  <1>1. \A x, y \in names : <<x, y>> \in R <=> Precedes(x, y)
    OBVIOUS
  <1>2. \A x \in names : Place(names, R, x) = Cardinality({other \in names : Precedes(other, x)})
    <2> SUFFICES ASSUME NEW x \in names
                 PROVE  Under(names, R, x) = {other \in names : Precedes(other, x)}
      BY DEF Place
    <2> HIDE DEF R
    <2> QED BY <1>1 DEF Under
  <1> HIDE DEF R
  <1>3. sorted(names) = Sorted(names, R)
    <2>1. \A i : (CHOOSE x \in names : Place(names, R, x) = i - 1)
                   = CHOOSE x \in names :
                       Cardinality({other \in names : Precedes(other, x)}) = i - 1
      BY <1>2
    <2> QED BY <2>1 DEF sorted, Sorted
  <1>4. \A x \in names : \E k \in DOMAIN Alphabet : x = Alphabet[k]
    OBVIOUS
  <1>5. DOMAIN Alphabet = 1 .. Len(Alphabet) /\ Len(Alphabet) \in Nat
    BY AlphabetAssumption
  <1>6. \A x \in names : <<x, x>> \notin R
    <2> SUFFICES ASSUME NEW x \in names, Precedes(x, x) PROVE FALSE
      BY <1>1
    <2>1. PICK k \in DOMAIN Alphabet, l \in DOMAIN Alphabet :
            k < l /\ Alphabet[k] = x /\ Alphabet[l] = x
      BY DEF Precedes
    <2>2. k = l
      BY <2>1, AlphabetAssumption
    <2> QED BY <1>5, <2>1, <2>2
  <1>7. \A x, y, z \in names : <<x, y>> \in R /\ <<y, z>> \in R => <<x, z>> \in R
    <2> SUFFICES ASSUME NEW x \in names, NEW y \in names, NEW z \in names,
                        Precedes(x, y), Precedes(y, z)
                 PROVE  Precedes(x, z)
      BY <1>1
    <2>1. PICK k \in DOMAIN Alphabet, l \in DOMAIN Alphabet :
            k < l /\ Alphabet[k] = x /\ Alphabet[l] = y
      BY DEF Precedes
    <2>2. PICK m \in DOMAIN Alphabet, n \in DOMAIN Alphabet :
            m < n /\ Alphabet[m] = y /\ Alphabet[n] = z
      BY DEF Precedes
    <2>3. l = m
      BY <2>1, <2>2, AlphabetAssumption
    <2>4. k < n
      BY <1>5, <2>1, <2>2, <2>3
    <2> QED BY <2>1, <2>2, <2>4 DEF Precedes
  <1>8. \A x, y \in names : x # y => <<x, y>> \in R \/ <<y, x>> \in R
    <2> SUFFICES ASSUME NEW x \in names, NEW y \in names, x # y
                 PROVE  Precedes(x, y) \/ Precedes(y, x)
      BY <1>1
    <2>1. PICK k \in DOMAIN Alphabet, l \in DOMAIN Alphabet : x = Alphabet[k] /\ y = Alphabet[l]
      BY <1>4
    <2>2. k < l \/ l < k
      BY <1>5, <2>1
    <2> QED BY <2>1, <2>2 DEF Precedes
  <1>9. /\ Cardinality(names) \in Nat /\ DOMAIN Sorted(names, R) = 1 .. Cardinality(names)
        /\ \A i \in 1 .. Cardinality(names) : Sorted(names, R)[i] \in names
        /\ \A x \in names : \E i \in 1 .. Cardinality(names) : Sorted(names, R)[i] = x
        /\ \A i, j \in 1 .. Cardinality(names) :
             i < j => <<Sorted(names, R)[i], Sorted(names, R)[j]>> \in R
    BY <1>6, <1>7, <1>8, SortedLists
  <1> QED BY <1>1, <1>3, <1>9

-----------------------------------------------------------------------------
(* Loading *)

Name(i) == directory[i].fields.identifier
NamesBefore(n) == {Name(i) : i \in 1 .. n - 1}

FilesInv ==
  /\ directory \in Seq({directory[i] : i \in DOMAIN directory})
  /\ \A i \in DOMAIN directory : IsReading(directory[i].fields)
  /\ current \in 1 .. Len(directory) + 1
  /\ \A i \in 1 .. current - 1 : ~AtFault(i)

\* One entry per file read, under its own identifier.
EntriesInv ==
  /\ DOMAIN entries = NamesBefore(current)
  /\ IsFiniteSet(DOMAIN entries) /\ Cardinality(DOMAIN entries) = current - 1
  /\ \A i \in 1 .. current - 1 : entries[Name(i)] = Entry(directory[i].fields)

\* Every file is a sound one and the registry has its entries, or the file in hand is
\* the first at fault and there is none.
AnswerInv ==
  \/ verdict = Reading /\ registry = <<>>
  \/ /\ verdict.how \in {"refused", "raised"} /\ verdict.at = current
     /\ current <= Len(directory) /\ AtFault(current) /\ registry = <<>>
  \/ /\ verdict.how = "returned" /\ current = Len(directory) + 1
     /\ LET names == sorted(DOMAIN entries)
        IN  registry = [i \in DOMAIN names |-> entries[names[i]]]

RegistryInv == FilesInv /\ EntriesInv /\ AnswerInv

LEMMA DirectoryReads ==
  ASSUME FilesInv
  PROVE  /\ Len(directory) \in Nat /\ DOMAIN directory = 1 .. Len(directory)
         /\ \A i \in 1 .. Len(directory) : IsReading(directory[i].fields)
         /\ current \in Nat
  <1>1. /\ directory \in Seq({directory[i] : i \in DOMAIN directory})
        /\ \A i \in DOMAIN directory : IsReading(directory[i].fields)
    BY DEF FilesInv
  <1>2. Len(directory) \in Nat /\ DOMAIN directory = 1 .. Len(directory)
    BY <1>1
  <1> QED BY <1>1, <1>2 DEF FilesInv

\* The file in hand is at fault where it is no TOML, where a check refuses it, or where
\* an entry has its identifier, and only there.
LEMMA FaultInHand ==
  ASSUME RegistryInv, current <= Len(directory)
  PROVE  AtFault(current) <=>
           \/ directory[current].text # "TOML"
           \/ Failing(directory[current].fields) # {}
           \/ Name(current) \in DOMAIN entries
  <1>1. current \in 1 .. Len(directory) /\ IsReading(directory[current].fields)
    BY DirectoryReads DEF RegistryInv, FilesInv
  <1>2. Sound(directory[current])
          <=> directory[current].text = "TOML" /\ Failing(directory[current].fields) = {}
    BY <1>1, ChecksAskForAll DEF Sound
  <1>3. Name(current) \in DOMAIN entries
          <=> \E j \in 1 .. current - 1 : Name(j) = Name(current)
    BY DEF RegistryInv, EntriesInv, NamesBefore
  <1>4. \A j \in 1 .. current - 1 : directory[j].text = "TOML"
    BY DEF RegistryInv, FilesInv, AtFault, Sound
  <1> QED BY <1>2, <1>3, <1>4 DEF AtFault, Name

LEMMA AnyRegistryStarts ==
  ASSUME RegistryStarts, directory \in Seq({directory[i] : i \in DOMAIN directory}),
         \A i \in DOMAIN directory : IsReading(directory[i].fields)
  PROVE  RegistryInv
  <1>1. current = 1 /\ entries = <<>> /\ registry = <<>> /\ verdict = Reading
    BY DEF RegistryStarts
  <1>2. Len(directory) \in Nat
    OBVIOUS
  <1>3. 1 .. current - 1 = {} /\ current \in 1 .. Len(directory) + 1
    BY <1>1, <1>2
  <1>4. DOMAIN entries = {} /\ NamesBefore(current) = {}
    BY <1>1, <1>3 DEF NamesBefore
  <1>5. IsFiniteSet(DOMAIN entries) /\ Cardinality(DOMAIN entries) = current - 1
    BY <1>1, <1>4, FS_EmptySet
  <1> QED BY <1>1, <1>3, <1>4, <1>5 DEF RegistryInv, FilesInv, EntriesInv, AnswerInv

LEMMA InitGivesRegistryInv == RegistryInit => RegistryInv
  BY AnyRegistryStarts, DirectoriesAssumption DEF RegistryInit

LEMMA NextKeepsRegistryInv ==
  ASSUME RegistryInv, [RegistryNext]_registryVars
  PROVE  RegistryInv'
  <1>1. /\ Len(directory) \in Nat /\ DOMAIN directory = 1 .. Len(directory)
        /\ \A i \in 1 .. Len(directory) : IsReading(directory[i].fields)
        /\ current \in 1 .. Len(directory) + 1
    BY DirectoryReads DEF RegistryInv, FilesInv
  <1>2. ASSUME directory' = directory
        PROVE  /\ \A i : AtFault(i)' <=> AtFault(i)
               /\ \A i : Name(i)' = Name(i)
    BY <1>2 DEF AtFault, Name
  <1>3. ASSUME directory' = directory, current' = current, entries' = entries
        PROVE  FilesInv' /\ EntriesInv'
    <2>1. NamesBefore(current)' = NamesBefore(current)
      BY <1>3 DEF NamesBefore, Name
    <2>2. EntriesInv'
      BY <1>2, <1>3, <2>1 DEF RegistryInv, EntriesInv
    <2> QED BY <1>2, <1>3, <2>2 DEF RegistryInv, FilesInv
  <1>4. ASSUME NEW how \in {"refused", "raised"}, NEW saying, Ends(how, saying), InHand,
               AtFault(current)
        PROVE  RegistryInv'
    <2>1. FilesInv' /\ EntriesInv'
      BY <1>3, <1>4 DEF Ends
    <2>2. registry = <<>>
      BY <1>4 DEF RegistryInv, AnswerInv, InHand, Reading
    <2>3. /\ verdict'.how = how /\ verdict'.at = current' /\ current' <= Len(directory')
          /\ AtFault(current') /\ registry' = <<>> /\ directory' = directory
      BY <1>4, <2>2 DEF Ends, InHand
    <2>4. AtFault(current)'
      BY <1>2, <1>4, <2>3 DEF Ends, AtFault
    <2> QED BY <1>4, <2>1, <2>3, <2>4 DEF RegistryInv, AnswerInv
  <1>5. CASE RaiseUnread
    <2>1. InHand /\ directory[current].text # "TOML" /\ \E saying : Ends("raised", saying)
      BY <1>5 DEF RaiseUnread, Escaping
    <2> QED BY <1>4, <2>1, FaultInHand DEF InHand
  <1>12. CASE RaiseMalformed
    <2>1. /\ InHand /\ Failing(directory[current].fields) # {}
          /\ \E saying : Ends("raised", saying)
      BY <1>12 DEF RaiseMalformed
    <2> QED BY <1>4, <2>1, FaultInHand DEF InHand
  <1>6. CASE RefuseUnreadable
    <2>1. InHand /\ directory[current].text # "TOML" /\ Ends("refused", "unreadable")
      BY <1>6 DEF RefuseUnreadable
    <2> QED BY <1>4, <2>1, FaultInHand DEF InHand
  <1>7. CASE RefuseEntry
    <2>1. InHand /\ Failing(directory[current].fields) # {}
      BY <1>7 DEF RefuseEntry
    <2>2. \E saying : Ends("refused", saying)
      BY <1>7 DEF RefuseEntry
    <2> QED BY <1>4, <2>1, <2>2, FaultInHand DEF InHand
  <1>8. CASE RefuseDuplicate
    <2>1. InHand /\ Name(current) \in DOMAIN entries /\ Ends("refused", "duplicate")
      BY <1>8 DEF RefuseDuplicate, Name
    <2> QED BY <1>4, <2>1, FaultInHand DEF InHand
  <1>9. CASE TakeEntry
    <2> DEFINE fields == directory[current].fields
    <2>1. /\ InHand /\ directory[current].text = "TOML" /\ Failing(fields) = {}
          /\ Name(current) \notin DOMAIN entries
          /\ entries' = [name \in DOMAIN entries \cup {Name(current)} |->
                           IF name = Name(current) THEN Entry(fields) ELSE entries[name]]
          /\ current' = current + 1 /\ directory' = directory
          /\ registry' = registry /\ verdict' = verdict
      BY <1>9 DEF TakeEntry, Name
    <2> HIDE DEF fields
    <2>2. current \in 1 .. Len(directory) /\ verdict = Reading
      BY <1>1, <2>1 DEF InHand
    <2>3. ~AtFault(current)
      BY <2>1, <2>2, FaultInHand DEF fields
    <2>4. 1 .. current' - 1 = (1 .. current - 1) \cup {current}
      BY <2>1, <2>2
    <2>5. FilesInv'
      <3>1. \A i \in 1 .. current' - 1 : ~AtFault(i)'
        BY <1>2, <2>1, <2>3, <2>4 DEF RegistryInv, FilesInv
      <3>2. directory' = directory /\ current' \in 1 .. Len(directory') + 1
        BY <1>1, <2>1, <2>2
      <3> QED BY <3>1, <3>2 DEF RegistryInv, FilesInv
    <2>6. DOMAIN entries = {Name(i) : i \in 1 .. current - 1}
      BY DEF RegistryInv, EntriesInv, NamesBefore
    <2>7. DOMAIN entries' = DOMAIN entries \cup {Name(current)}
      BY <2>1
    <2>8. NamesBefore(current)' = {Name(i) : i \in 1 .. current' - 1}
      BY <1>2, <2>1 DEF NamesBefore
    <2>9. DOMAIN entries' = NamesBefore(current)'
      <3>1. {Name(i) : i \in 1 .. current' - 1}
              = {Name(i) : i \in 1 .. current - 1} \cup {Name(current)}
        BY <2>4
      <3> QED BY <2>6, <2>7, <2>8, <3>1
    <2>10. IsFiniteSet(DOMAIN entries)' /\ Cardinality(DOMAIN entries)' = current' - 1
      <3>1. IsFiniteSet(DOMAIN entries) /\ Cardinality(DOMAIN entries) = current - 1
        BY DEF RegistryInv, EntriesInv
      <3>2. /\ IsFiniteSet(DOMAIN entries \cup {Name(current)})
            /\ Cardinality(DOMAIN entries \cup {Name(current)}) = Cardinality(DOMAIN entries) + 1
        BY <2>1, <3>1, FS_AddElement
      <3> QED BY <2>1, <2>2, <2>7, <3>1, <3>2
    <2>11. \A i \in 1 .. current' - 1 : entries'[Name(i)] = Entry(directory[i].fields)
      <3> SUFFICES ASSUME NEW i \in 1 .. current' - 1
                   PROVE  entries'[Name(i)] = Entry(directory[i].fields)
        OBVIOUS
      <3>1. CASE i = current
        BY <2>1, <3>1 DEF fields
      <3>2. CASE i \in 1 .. current - 1
        <4>1. Name(i) \in DOMAIN entries /\ Name(i) # Name(current)
          BY <2>1, <2>6, <3>2
        <4>2. entries[Name(i)] = Entry(directory[i].fields)
          BY <3>2 DEF RegistryInv, EntriesInv
        <4> QED BY <2>1, <4>1, <4>2
      <3> QED BY <2>4, <3>1, <3>2
    <2>12. EntriesInv'
      <3>1. \A i \in 1 .. current' - 1 : entries'[Name(i)'] = Entry(directory'[i].fields)
        BY <1>2, <2>1, <2>11
      <3> QED BY <2>9, <2>10, <3>1 DEF EntriesInv, Entry
    <2>13. AnswerInv'
      <3>1. registry = <<>>
        BY <2>2 DEF RegistryInv, AnswerInv, Reading
      <3> QED BY <2>1, <2>2, <3>1 DEF AnswerInv, Reading
    <2> QED BY <2>5, <2>12, <2>13 DEF RegistryInv
  <1>10. CASE Return
    <2>1. /\ current > Len(directory)
          /\ verdict' = [how |-> "returned", saying |-> "nothing", at |-> current]
          /\ directory' = directory /\ current' = current /\ entries' = entries
          /\ LET names == sorted(DOMAIN entries)
             IN  registry' = [i \in DOMAIN names |-> entries[names[i]]]
      BY <1>10 DEF Return
    <2>2. current = Len(directory) + 1
      BY <1>1, <2>1
    <2>3. AnswerInv'
      <3>1. verdict'.how = "returned" /\ current' = Len(directory') + 1
        BY <2>1, <2>2
      <3>2. LET names == sorted(DOMAIN entries')
            IN  registry' = [i \in DOMAIN names |-> entries'[names[i]]]
        BY <2>1
      <3> QED BY <3>1, <3>2 DEF AnswerInv
    <2> QED BY <1>3, <2>1, <2>3 DEF RegistryInv
  <1>11. CASE UNCHANGED registryVars
    <2>1. /\ directory' = directory /\ current' = current /\ entries' = entries
          /\ registry' = registry /\ verdict' = verdict
      BY <1>11 DEF registryVars
    <2>2. AnswerInv'
      BY <1>2, <2>1 DEF RegistryInv, AnswerInv
    <2> QED BY <1>3, <2>1, <2>2 DEF RegistryInv
  <1> QED BY <1>5, <1>6, <1>7, <1>8, <1>9, <1>10, <1>11, <1>12 DEF RegistryNext

LEMMA RegistryInvHolds == RegistrySpec => []RegistryInv
  <1>1. RegistryInit => RegistryInv
    BY InitGivesRegistryInv
  <1>2. RegistryInv /\ [RegistryNext]_registryVars => RegistryInv'
    BY NextKeepsRegistryInv
  <1> QED BY <1>1, <1>2, PTL DEF RegistrySpec

\* Every entry is the one of a sound file.
LEMMA EntriesAreSound ==
  ASSUME RegistryInv
  PROVE  \A name \in DOMAIN entries :
           \E i \in 1 .. current - 1 : /\ name = Name(i) /\ Complete(directory[i].fields)
                                       /\ IsReading(directory[i].fields)
                                       /\ entries[name] = Entry(directory[i].fields)
  <1> SUFFICES ASSUME NEW name \in DOMAIN entries
               PROVE  \E i \in 1 .. current - 1 :
                        /\ name = Name(i) /\ Complete(directory[i].fields)
                        /\ IsReading(directory[i].fields)
                        /\ entries[name] = Entry(directory[i].fields)
    OBVIOUS
  <1>1. PICK i \in 1 .. current - 1 : name = Name(i)
    BY DEF RegistryInv, EntriesInv, NamesBefore
  <1>2. ~AtFault(i) /\ entries[name] = Entry(directory[i].fields)
    BY <1>1 DEF RegistryInv, FilesInv, EntriesInv
  <1>3. Complete(directory[i].fields)
    BY <1>2 DEF AtFault, Sound
  <1>4. i \in 1 .. Len(directory)
    BY DirectoryReads DEF RegistryInv, FilesInv
  <1> QED BY <1>1, <1>2, <1>3, <1>4, DirectoryReads DEF RegistryInv

\* An entry is filed under its own identifier, has sizes that can be added up, and names
\* operations there are.
LEMMA EntriesAreTyped ==
  ASSUME RegistryInv, NEW name \in DOMAIN entries
  PROVE  /\ entries[name].identifier = name
         /\ name \in {Alphabet[k] : k \in DOMAIN Alphabet}
         /\ entries[name].size_bytes > 0 /\ entries[name].device_memory_bytes > 0
         /\ entries[name].operations # {} /\ entries[name].operations \subseteq Operations
  <1>1. PICK i \in 1 .. current - 1 : /\ name = Name(i) /\ Complete(directory[i].fields)
                                      /\ IsReading(directory[i].fields)
                                      /\ entries[name] = Entry(directory[i].fields)
    BY EntriesAreSound
  <1>2. name \in {Alphabet[k] : k \in DOMAIN Alphabet}
    <2>1. name \in {Alphabet[k] : k \in DOMAIN Alphabet} \cup Lacking
      BY <1>1 DEF IsReading, Name
    <2>2. name \notin Lacking
      BY <1>1 DEF Complete, Name
    <2> QED BY <2>1, <2>2
  <1>3. \A count \in {directory[i].fields.size_bytes, directory[i].fields.device_memory_bytes} :
          count.is > 0
    BY <1>1 DEF Complete
  <1>4. directory[i].fields.operations.names \in (SUBSET Operations) \ {{}}
    BY <1>1 DEF Complete
  <1>5. /\ entries[name].identifier = Name(i)
        /\ entries[name].size_bytes = directory[i].fields.size_bytes.is
        /\ entries[name].device_memory_bytes = directory[i].fields.device_memory_bytes.is
        /\ entries[name].operations = directory[i].fields.operations.names
    BY <1>1 DEF Entry, Name
  <1> QED BY <1>1, <1>2, <1>3, <1>4, <1>5

\* Where the registry is returned it has one entry for each file, in ascending order.
LEMMA ReturnedWhole ==
  ASSUME RegistryInv, verdict.how = "returned"
  PROVE  /\ \A i \in DOMAIN directory : ~AtFault(i)
         /\ Len(registry) = Len(directory)
         /\ {registry[i].identifier : i \in DOMAIN registry}
              = {directory[i].fields.identifier : i \in DOMAIN directory}
         /\ \A i, j \in DOMAIN registry :
              i < j => Precedes(registry[i].identifier, registry[j].identifier)
  <1> DEFINE names == sorted(DOMAIN entries)
             n == Cardinality(DOMAIN entries)
  <1>1. /\ current = Len(directory) + 1
        /\ registry = [i \in DOMAIN names |-> entries[names[i]]]
    BY DEF RegistryInv, AnswerInv, Reading
  <1>2. DOMAIN directory = 1 .. current - 1 /\ Len(directory) = n /\ n \in Nat
    BY <1>1, DirectoryReads DEF RegistryInv, EntriesInv
  <1>3. \A i \in DOMAIN directory : ~AtFault(i)
    BY <1>2 DEF RegistryInv, FilesInv
  <1>4. /\ DOMAIN names = 1 .. n
        /\ \A i \in 1 .. n : names[i] \in DOMAIN entries
        /\ \A name \in DOMAIN entries : \E i \in 1 .. n : names[i] = name
        /\ \A i, j \in 1 .. n : i < j => Precedes(names[i], names[j])
    <2>1. IsFiniteSet(DOMAIN entries)
      BY DEF RegistryInv, EntriesInv
    <2>2. DOMAIN entries \subseteq {Alphabet[k] : k \in DOMAIN Alphabet}
      BY EntriesAreTyped
    <2> QED BY <2>1, <2>2, NamesAreSorted
  <1> HIDE DEF names, n
  <1>5. DOMAIN registry = 1 .. n /\ \A i \in 1 .. n : registry[i] = entries[names[i]]
    BY <1>1, <1>4
  <1>6. \A i \in 1 .. n : registry[i].identifier = names[i]
    BY <1>4, <1>5, EntriesAreTyped
  <1>7. Len(registry) = n
    <2>1. registry \in Seq({entries[names[i]] : i \in 1 .. n})
      BY <1>1, <1>2, <1>4
    <2> QED BY <1>2, <1>5, <2>1
  <1>8. {registry[i].identifier : i \in DOMAIN registry} = DOMAIN entries
    <2>1. {registry[i].identifier : i \in DOMAIN registry} = {names[i] : i \in 1 .. n}
      BY <1>5, <1>6
    <2>2. {names[i] : i \in 1 .. n} = DOMAIN entries
      BY <1>4
    <2> QED BY <2>1, <2>2
  <1>9. DOMAIN entries = {directory[i].fields.identifier : i \in DOMAIN directory}
    BY <1>2 DEF RegistryInv, EntriesInv, NamesBefore, Name
  <1>10. \A i, j \in DOMAIN registry :
           i < j => Precedes(registry[i].identifier, registry[j].identifier)
    BY <1>4, <1>5, <1>6
  <1>11. Len(registry) = Len(directory)
    BY <1>2, <1>7
  <1>12. {registry[i].identifier : i \in DOMAIN registry}
           = {directory[i].fields.identifier : i \in DOMAIN directory}
    BY <1>8, <1>9
  <1> QED BY <1>3, <1>10, <1>11, <1>12

LEMMA AnswersAreWhole ==
  ASSUME RegistryInv
  PROVE  WholeOrNotAtAll
  <1>1. CASE verdict.how = "returned"
    <2>1. /\ \A i \in DOMAIN directory : ~AtFault(i)
          /\ Len(registry) = Len(directory)
          /\ {registry[i].identifier : i \in DOMAIN registry}
               = {directory[i].fields.identifier : i \in DOMAIN directory}
          /\ \A i, j \in DOMAIN registry :
               i < j => Precedes(registry[i].identifier, registry[j].identifier)
      BY <1>1, ReturnedWhole
    <2> QED BY <1>1, <2>1 DEF WholeOrNotAtAll, Precedes
  <1>2. CASE verdict.how \in {"refused", "raised"}
    <2>1. verdict.at = current /\ AtFault(current) /\ registry = <<>>
      BY <1>2 DEF RegistryInv, AnswerInv, Reading
    <2>2. \A i \in 1 .. current - 1 : ~AtFault(i)
      BY DEF RegistryInv, FilesInv
    <2> QED BY <1>2, <2>1, <2>2 DEF WholeOrNotAtAll
  <1>3. CASE verdict.how \notin {"returned", "refused", "raised"}
    BY <1>3 DEF WholeOrNotAtAll
  <1> QED BY <1>1, <1>2, <1>3

\* load_registry answers with the entries of all its files, ordered, or with none of
\* them and the first file at fault (load_registry, registry.py:260).
THEOREM TheRegistryIsWholeOrNothing == RegistrySpec => []WholeOrNotAtAll
  BY AnswersAreWhole, RegistryInvHolds, PTL

LEMMA RegistryIsTyped ==
  ASSUME RegistryInv
  PROVE  RegistryTypeOK
  <1>1. verdict.how \in {"reading", "refused", "raised", "returned"}
    BY DEF RegistryInv, AnswerInv, Reading
  <1> QED BY <1>1, EntriesAreTyped DEF RegistryTypeOK, RegistryInv, FilesInv

\* What the registry holds is always of its type (load_registry, registry.py:260).
THEOREM RegistryTypeCorrect == RegistrySpec => []RegistryTypeOK
  BY RegistryIsTyped, RegistryInvHolds, PTL

-----------------------------------------------------------------------------
(* The three side by side: one of them runs, and what the others read stays where it  *)
(* starts.                                                                            *)

ReadersInv == LoadInv /\ SecretsInv /\ LinesInv /\ VerbosityInv /\ RegistryInv

LEMMA NothingDeclaredStarts ==
  ASSUME NothingDeclared
  PROVE  LoadInv /\ SecretsInv
  <1>1. SoundSettings(<<>>)
    BY DEF SoundSettings
  <1>2. \A table \in {file.table, environment, overrides} : DOMAIN table = {}
    BY DEF NothingDeclared
  <1> QED BY <1>1, <1>2, AnyLoadStarts
             DEF NothingDeclared, LoadStarts, SecretsInv, NoAnswer

LEMMA InitGivesReadersInv ==
  ASSUME Init
  PROVE  ReadersInv
  <1>1. LoadInv /\ SecretsInv
    <2>1. CASE ConfigurationInit
      BY <2>1, InitGivesLoadInv, InitGivesSecretsInv
    <2>2. CASE OwnSettings
      BY <2>2, OwnSettingsAreSound, OwnSourcesAssumption, AnyLoadStarts
         DEF OwnSettings, LoadStarts, SecretsInv, NoAnswer
    <2> QED BY <2>1, <2>2, NothingDeclaredStarts DEF Init
  <1>2. LinesInv /\ VerbosityInv
    BY LogStartsWithoutLines DEF Init, LogInit, LogIsClosed
  <1>3. RegistryInv
    <2>1. CASE NoFiles
      BY <2>1, AnyRegistryStarts DEF NoFiles
    <2> QED BY <2>1, InitGivesRegistryInv DEF Init
  <1> QED BY <1>1, <1>2, <1>3 DEF ReadersInv

LEMMA NextKeepsReadersInv ==
  ASSUME ReadersInv, [Next]_<<reader, configurationVars, registryVars, logVars>>
  PROVE  ReadersInv'
  <1>1. /\ [ConfigurationNext]_configurationVars /\ [RegistryNext]_registryVars
        /\ [LogNext]_logVars
    BY DEF Next
  <1> QED BY <1>1, NextKeepsLoadInv, NextKeepsSecretsInv, NextKeepsLinesInv,
             NextKeepsVerbosityInv, NextKeepsRegistryInv DEF ReadersInv

LEMMA ReadersInvHolds == Spec => []ReadersInv
  BY InitGivesReadersInv, NextKeepsReadersInv, PTL DEF Spec

\* Beside the other two, each reader keeps its variables to their types, for this tree's
\* own settings as for any others (load, loading.py; load_registry; Log).
THEOREM ReadersAreTyped == Spec => []DeclarationsTypeOK
  <1>1. ReadersInv => DeclarationsTypeOK
    BY LoadIsTyped, LogIsTyped, RegistryIsTyped DEF ReadersInv, DeclarationsTypeOK
  <1> QED BY <1>1, ReadersInvHolds, PTL

\* What is proved of each reader alone holds of it beside the other two, and of this
\* tree's own settings, which the configuration alone may not have been given.
THEOREM EachReaderAsIfAlone ==
  Spec => [](/\ EveryMistakeNamed /\ MostSpecificWins /\ SecretsStayHidden
             /\ WholeOrNotAtAll /\ OnlyDeclaredReachesALine /\ VerbosityOnlyAddsLines)
  <1>1. ReadersInv => /\ EveryMistakeNamed /\ MostSpecificWins /\ SecretsStayHidden
                      /\ WholeOrNotAtAll /\ OnlyDeclaredReachesALine /\ VerbosityOnlyAddsLines
    BY LoadedNamesMistakes, AnswersAreInForce, SecretsAreHidden, AnswersAreWhole,
       LinesAreDeclared, LinesFollowTheThreshold DEF ReadersInv
  <1> QED BY <1>1, ReadersInvHolds, PTL
=============================================================================
