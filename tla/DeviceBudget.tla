---------------------------- MODULE DeviceBudget ---------------------------
(***************************************************************************)
(* The device memory comparison of src/src/retusche/queue/budget.py.       *)
(***************************************************************************)
EXTENDS Integers

\* The budgets that can be built: __post_init__ refuses every other.
DeviceMemoryBudget(bytes) ==
  {b \in [total_bytes : bytes, resident_bytes : bytes] :
     /\ b.total_bytes > 0
     /\ b.resident_bytes >= 0
     /\ b.resident_bytes <= b.total_bytes}

free_bytes(budget) == budget.total_bytes - budget.resident_bytes

\* The answer, or the error that ends the job: an equal figure fits.
fits(peak_bytes, budget) ==
  CASE peak_bytes > budget.total_bytes -> "OverBudgetError"
    [] /\ peak_bytes <= budget.total_bytes
       /\ peak_bytes > free_bytes(budget) -> "when-room-is-freed"
    [] OTHER -> "now"
=============================================================================
