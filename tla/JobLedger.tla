----------------------------- MODULE JobLedger -----------------------------
(***************************************************************************)
(* What the job store promises its callers, with connections, locks,       *)
(* transactions and crashes taken away: a table of rows that changes only  *)
(* by recording a new job, by one legal move of one job, or by settling    *)
(* every running job at once after a restart.                              *)
(***************************************************************************)
EXTENDS JobRows

CONSTANTS Job,       \* job identifiers
          FileRow    \* the rows a store file may hold when it is opened

VARIABLE rows        \* the file: a row, or NoRow, for each identifier

-----------------------------------------------------------------------------
Init == rows \in [Job -> FileRow \cup {NoRow}]

Accept(j) == /\ rows[j] = NoRow
             /\ rows' = [rows EXCEPT ![j] = NewRow]

Move(j, target, reason) ==
  /\ record(rows[j]) = "ok"
  /\ check_transition(rows[j].state, target, reason) = "ok"
  /\ rows' = [rows EXCEPT ![j] = [state |-> target, reason |-> reason]]

\* All of the running jobs or none: one unreadable row keeps the others running.
Settle ==
  /\ \A j \in InState(rows, "running") : record(rows[j]) = "ok"
  /\ rows' = [j \in Job |-> IF j \in InState(rows, "running") THEN InterruptedRow
                                                   ELSE rows[j]]

Next == \/ \E j \in Job : Accept(j)
        \/ \E j \in Job, target \in JobState,
              reason \in TerminalReason \cup {NoReason} : Move(j, target, reason)
        \/ Settle

Spec == Init /\ [][Next]_rows
=============================================================================
