------------------------------ MODULE LogLines ------------------------------
(* What a log line may hold (retusche.logging): a call that builds a record is      *)
(* checked against the declared fields and refused with everything that is wrong    *)
(* with it; a log compares the level of a record with its threshold and hands the   *)
(* line to its sink.                                                                *)
(*                                                                                  *)
(* A value is its Python type and what the checks tell apart in it: a token, an     *)
(* empty text, or text with a blank or an unprintable character in it, which is     *)
(* prose; a number that is negative or not. No check asks whether the token given   *)
(* for a state is one that its enumeration declares. An event name is a token of    *)
(* the shape the module asks for or a sentence.                                     *)
EXTENDS FiniteSets, Naturals, Sequences

CONSTANTS Thresholds,  \* what an operator writes as log_level
          Calls,       \* calls of record: an event, a level and the fields
          MaxRecords   \* bound on the records built

VARIABLES threshold,   \* the text the log's level is read from
          level,       \* the level the log was built with
          built,       \* the records record returned
          refusal,     \* the last call record refused, and what it named
          offered,     \* how many records the log was given
          written,     \* the lines its sink took
          lost         \* the records whose line the sink raised on

logVars == <<threshold, level, built, refusal, offered, written, lost>>

SEVERITY == [debug |-> 10, info |-> 20, warning |-> 30, error |-> 40]
Level == DOMAIN SEVERITY

\* The categories whose values are text; those of duration and size are numbers.
TEXT_CATEGORIES == {"identifier", "state", "model", "error-reason"}

\* The declared fields, each with its category.
FIELDS ==
  [job_id |-> "identifier", job_state |-> "state", previous_job_state |-> "state",
   terminal_reason |-> "error-reason", priority |-> "state", queue_position |-> "size",
   queue_depth |-> "size", engine_id |-> "identifier", operation |-> "state",
   model_id |-> "model", image_width_pixels |-> "size", image_height_pixels |-> "size",
   device_memory_estimate_bytes |-> "size", device_memory_budget_bytes |-> "size"]

\* What a field may be given: text, a number, a truth value or another object.
Value == [type : {"str"}, says : {"token", "empty", "prose"}]
         \cup [type : {"int"}, says : {"count", "negative"}]
         \cup [type : {"bool"}, says : {"true"}] \cup [type : {"other"}, says : {"token"}]

\* The event and the level are arguments of their own, so no field has their names.
ASSUME CallsAssumption ==
  \A call \in Calls :
    /\ call.event \in {"token", "sentence"} /\ call.level \in Level
    /\ DOMAIN call.fields \cap {"event", "level"} = {}
    /\ \A name \in DOMAIN call.fields : call.fields[name] \in Value
ASSUME MaxRecordsAssumption == MaxRecords \in Nat

NoLog == "no log"
NoRefusal == [call |-> <<>>, problems |-> {}]

-----------------------------------------------------------------------------
(* One call of record: what is wrong with it. *)

takes_text(name) == FIELDS[name] \in TEXT_CATEGORIES

text_problems(name, value) ==
  CASE value.type # "str" -> {<<name, "takes text">>}
    [] value.type = "str" /\ value.says = "empty" -> {<<name, "empty">>}
    [] value.type = "str" /\ value.says = "prose" -> {<<name, "prose">>}
    [] OTHER -> {}

\* Mutant: only int is asked for, which True is.
number_problemsTruth(name, value) ==
  CASE value.type \notin {"int", "bool"} -> {<<name, "takes a whole number">>}
    [] value.type = "int" /\ value.says = "negative" -> {<<name, "negative">>}
    [] OTHER -> {}

\* True is an int to Python, so bool is asked for first.
number_problems(name, value) ==
  CASE value.type # "int" -> {<<name, "takes a whole number">>}
    [] value.type = "int" /\ value.says = "negative" -> {<<name, "negative">>}
    [] OTHER -> {}

field_problems(name, value) ==
  IF name \notin DOMAIN FIELDS THEN {<<name, "not declared">>}
  ELSE IF takes_text(name) THEN text_problems(name, value)
  ELSE number_problems(name, value)

\* Two or more dotted words in lower case; anything else is a sentence here.
EVENT_SHAPE == {"token"}

event_problems(event) == IF event \in EVENT_SHAPE THEN {} ELSE {<<"event", "not a token">>}

ProblemsOf(call) ==
  event_problems(call.event)
  \cup UNION {field_problems(name, call.fields[name]) : name \in DOMAIN call.fields}

\* The line: the fields under their names, the event and the level beside them.
render(entry) ==
  [name \in DOMAIN entry.fields \cup {"event", "level"} |->
     IF name \in DOMAIN entry.fields THEN entry.fields[name]
     ELSE [type |-> "str", says |-> IF name = "event" THEN entry.event ELSE entry.level]]

-----------------------------------------------------------------------------
(* The operations *)

LogStarts ==
  /\ level = NoLog /\ built = <<>> /\ refusal = NoRefusal
  /\ offered = 0 /\ written = <<>> /\ lost = {}

LogInit == threshold \in Thresholds /\ LogStarts

\* The threshold is read, or refused where it is no level, and then there is no log.
level_from_name ==
  /\ level = NoLog
  /\ level' = IF threshold \in Level THEN threshold ELSE "refused"
  /\ UNCHANGED <<threshold, built, refusal, offered, written, lost>>

\* A record, or a refusal naming everything wrong with the call.
record(call) ==
  /\ Len(built) < MaxRecords
  /\ \/ /\ ProblemsOf(call) = {}
        /\ built' = Append(built, call)
        /\ refusal' = refusal
     \/ /\ ProblemsOf(call) # {}
        /\ refusal' = [call |-> call, problems |-> ProblemsOf(call)]
        /\ built' = built
  /\ UNCHANGED <<threshold, level, offered, written, lost>>

\* Mutant: two levels are compared as the text they are, so error is below info.
BelowAsText(asked) ==
  <<asked, level>> \in {<<"debug", l>> : l \in Level \ {"debug"}}
                       \cup {<<"error", "info">>, <<"error", "warning">>, <<"info", "warning">>}

Below(asked) == SEVERITY[asked] < SEVERITY[level]

\* The next record is given to the log: passed over below its threshold, else rendered
\* and handed to the sink, which may raise.
emit ==
  /\ level \in Level /\ offered < Len(built)
  /\ offered' = offered + 1
  /\ LET entry == built[offered + 1]
     IN  \/ Below(entry.level) /\ UNCHANGED <<written, lost>>
         \/ /\ ~Below(entry.level)
            /\ written' = Append(written, render(entry))
            /\ lost' = lost
         \/ /\ ~Below(entry.level)
            /\ lost' = lost \cup {offered + 1}
            /\ written' = written
  /\ UNCHANGED <<threshold, level, built, refusal>>

LogNext == level_from_name \/ emit \/ \E call \in Calls : record(call)

LogSpec == LogInit /\ [][LogNext]_logVars

-----------------------------------------------------------------------------
(* Properties *)

\* A refusal names something, the log gets no further than the records built, and one
\* whose threshold was refused is given nothing.
LogTypeOK ==
  /\ level \in Level \cup {NoLog, "refused"}
  /\ Len(built) <= MaxRecords
  /\ refusal # NoRefusal => refusal.problems # {}
  /\ offered \in 0 .. Len(built) /\ lost \subseteq 1 .. offered
  /\ level \notin Level => offered = 0

\* What the checks let stand under a name in a line: text without blanks where the field's
\* category is text, a number from zero where it is one, or the two words every line has.
MayStand(name, value) ==
  CASE name = "event" -> value.says = "token"
    [] name = "level" -> value.says \in Level
    [] OTHER -> /\ name \in DOMAIN FIELDS
                /\ value.type = IF FIELDS[name] \in {"size", "duration"} THEN "int" ELSE "str"
                /\ value.says \in {"token", "count"}

\* The threshold decides which lines are written and never what a line may carry
\* (settings.py:219): whatever the level of the log, each name in a line is declared and
\* has text without blanks or a number from zero, as its category takes the one or the
\* other (records.py:214-249), and a call that is refused had, under every name the refusal
\* gives and no other, something that may not stand there. That a state is one of its
\* enumeration (fields.py:81-83) is not said here: the code does not see to it.
OnlyDeclaredReachesALine ==
  /\ \A i \in DOMAIN written : \A name \in DOMAIN written[i] : MayStand(name, written[i][name])
  /\ refusal # NoRefusal =>
       LET line == render(refusal.call)
       IN  {p[1] : p \in refusal.problems} = {n \in DOMAIN line : ~MayStand(n, line[n])}

\* The levels by the attention they ask for, least first.
Rising == <<"debug", "info", "warning", "error">>
NoLessThan(asked, least) ==
  \E i, j \in DOMAIN Rising : Rising[i] = asked /\ Rising[j] = least /\ j <= i

\* The lines written and the records lost to the sink are together the records given to
\* the log that ask for no less attention than its threshold, in the order they were
\* built: a lower threshold multiplies the lines, and drops and reorders none
\* (Log.emit, records.py:191).
VerbosityOnlyAddsLines ==
  level \in Level =>
    LET due == {i \in 1 .. offered : NoLessThan(built[i].level, level)}
        kept == due \ lost
    IN  /\ lost \subseteq due
        /\ Len(written) = Cardinality(kept)
        /\ \A i \in kept : written[Cardinality({j \in kept : j <= i})] = render(built[i])
=============================================================================
