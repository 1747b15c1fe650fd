--------------------------- MODULE EngineContract --------------------------
(***************************************************************************)
(* What src/src/retusche_contracts/engine.py promises of Engine.run: steps *)
(* are completed one at a time up to a total that is fixed for the run, a  *)
(* set token is observed after at most one more step, and a run ends with  *)
(* an image or with one failure of a closed set, unless the caller's own   *)
(* progress callback raises.                                               *)
(***************************************************************************)
EXTENDS Naturals

CONSTANTS Run   \* calls of run

VARIABLES total,      \* the declared step count
          completed,  \* steps completed by each run
          cancelled,  \* whether each run's token is set
          overrun,    \* steps completed since it was set
          outcome     \* how each run ended, or "none"

vars == <<total, completed, cancelled, overrun, outcome>>

EngineError == {"UnsupportedRequest", "OutOfDeviceMemory", "ModelNotAvailable",
                "Cancelled", "EngineFailure"}

Init == /\ total \in Nat \ {0}
        /\ completed = [r \in Run |-> 0]
        /\ cancelled = [r \in Run |-> FALSE]
        /\ overrun = [r \in Run |-> 0]
        /\ outcome = [r \in Run |-> "none"]

\* A token that is set stays set.
Cancel(r) == /\ outcome[r] = "none"
             /\ cancelled' = [cancelled EXCEPT ![r] = TRUE]
             /\ UNCHANGED <<total, completed, overrun, outcome>>

\* The callback is the caller's: what it raises passes through run, outside the closed set.
Progress(r) == /\ outcome[r] = "none"
               /\ completed[r] < total
               /\ overrun[r] = 0
               /\ completed' = [completed EXCEPT ![r] = @ + 1]
               /\ overrun' = [overrun EXCEPT ![r] = IF cancelled[r] THEN 1 ELSE 0]
               /\ outcome' \in {outcome, [outcome EXCEPT ![r] = "ProgressError"]}
               /\ UNCHANGED <<total, cancelled>>

Return(r) == /\ outcome[r] = "none"
             /\ completed[r] = total
             /\ outcome' = [outcome EXCEPT ![r] = "image"]
             /\ UNCHANGED <<total, completed, cancelled, overrun>>

Raise(r) == /\ outcome[r] = "none"
            /\ \E error \in EngineError :
                 /\ error = "Cancelled" => cancelled[r]
                 /\ outcome' = [outcome EXCEPT ![r] = error]
            /\ UNCHANGED <<total, completed, cancelled, overrun>>

Next == \E r \in Run : Cancel(r) \/ Progress(r) \/ Return(r) \/ Raise(r)

Spec == Init /\ [][Next]_vars
=============================================================================
