----------------------------- MODULE JobStates -----------------------------
(***************************************************************************)
(* The job state machine of src/src/retusche/queue/states.py: the states,  *)
(* the reasons a finished job carries, and the one table of moves.  States *)
(* and reasons are the enumeration's own string values.                    *)
(***************************************************************************)
EXTENDS Naturals

JobState == {"accepted", "queued", "running",
             "succeeded", "failed", "cancelled", "interrupted"}

TerminalReason == {"completed", "cancelled-by-caller",
                   "refused-unsupported", "refused-over-budget",
                   "out-of-device-memory", "engine-failure",
                   "interrupted-by-shutdown"}

\* Python's None, where a reason is expected.
NoReason == "none"

\* The reasons each terminal state may carry; a state is terminal by being here.
REASONS ==
  [s \in {"succeeded", "failed", "cancelled", "interrupted"} |->
     CASE s = "succeeded"   -> {"completed"}
       [] s = "failed"      -> {"refused-unsupported", "refused-over-budget",
                                "out-of-device-memory", "engine-failure"}
       [] s = "cancelled"   -> {"cancelled-by-caller"}
       [] s = "interrupted" -> {"interrupted-by-shutdown"}]

TERMINAL_STATES == DOMAIN REASONS

LEGAL_TRANSITIONS ==
  [s \in JobState |->
     CASE s = "accepted" -> {"queued", "cancelled", "failed"}
       [] s = "queued"   -> {"running", "cancelled", "failed"}
       [] s = "running"  -> {"succeeded", "failed", "cancelled", "interrupted"}
       [] OTHER          -> {}]

\* Whether a job in this state must not carry this reason.
reason_problem(state, reason) ==
  IF state \in TERMINAL_STATES THEN reason \notin REASONS[state]
                               ELSE reason # NoReason

\* The refusal a move meets, or "ok".  The table is asked before the reason.
check_transition(current, target, reason) ==
  CASE target \notin LEGAL_TRANSITIONS[current] -> "IllegalTransitionError"
    [] target \in LEGAL_TRANSITIONS[current]
         /\ reason_problem(target, reason)      -> "TerminalReasonError"
    [] OTHER                                    -> "ok"

\* How far along its life a state is.  Not in the code: it states that the
\* table has no cycle, and properties use it to say "at this state or beyond".
Progress(state) == CASE state = "accepted"         -> 0
                     [] state = "queued"           -> 1
                     [] state = "running"          -> 2
                     [] state \in TERMINAL_STATES  -> 3
=============================================================================
