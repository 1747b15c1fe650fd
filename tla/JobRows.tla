------------------------------ MODULE JobRows ------------------------------
(***************************************************************************)
(* The rows of the jobs table of src/src/retusche/queue/store.py and how   *)
(* one is read back.  The file is a file: a row may come from another      *)
(* version of the program or from an editor.                               *)
(***************************************************************************)
EXTENDS JobStates

\* A stored value that no member of the enumeration has.
Undeclared == "undeclared"

Row == [state  : JobState \cup {Undeclared},
        reason : TerminalReason \cup {NoReason, Undeclared}]

\* No row by that identifier.
NoRow == [state |-> "no row", reason |-> NoReason]

NewRow == [state |-> "accepted", reason |-> NoReason]

InterruptedRow == [state |-> "interrupted", reason |-> "interrupted-by-shutdown"]

\* What reading a row back answers: "ok", or the error it is refused with.
record(row) ==
  CASE row = NoRow -> "UnknownJobError"
    [] row # NoRow /\ \/ row.state = Undeclared
                      \/ row.reason = Undeclared
                      \/ reason_problem(row.state, row.reason)
       -> "CorruptJobStoreError"
    [] OTHER -> "ok"

\* The jobs a table of rows holds in this state.
InState(table, state) == {j \in DOMAIN table : table[j].state = state}
=============================================================================
