----------------------------- MODULE MCJobStore ----------------------------
(* A small instance of the job store for TLC. *)
EXTENDS JobStore, TLC

CONSTANTS j1, j2, c1, c2

\* The moves of a job that goes well, and one whose reason does not fit the state
\* it lands in.
MCRequest ==
  {[target |-> "queued",    reason |-> NoReason],
   [target |-> "running",   reason |-> NoReason],
   [target |-> "succeeded", reason |-> "completed"],
   [target |-> "succeeded", reason |-> NoReason]}

\* A running job the last process left behind, and a row edited by hand.
MCFileRow ==
  {[state |-> "running", reason |-> NoReason],
   [state |-> "running", reason |-> "completed"]}

Symmetry == Permutations({j1, j2}) \cup Permutations({c1, c2})
=============================================================================
