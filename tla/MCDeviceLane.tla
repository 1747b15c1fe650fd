---------------------------- MODULE MCDeviceLane ---------------------------
(* Small instances of the device lane for TLC: five calls of serve. *)
EXTENDS DeviceLane, TLC

CONSTANTS d1, d2, d3, d4, d5, a, b, c, e

\* Two calls for one job beside three jobs of their own.
SharedJob == d1 :> a @@ d2 :> a @@ d3 :> b @@ d4 :> c @@ d5 :> e

\* b needs the whole budget, and e is more than the budget can ever hold.
MCPeak == a :> 1 @@ b :> 2 @@ c :> 1 @@ e :> 3

\* With nothing resident, and with weights that take half of the budget.
EmptyDevice == {[total_bytes |-> 2, resident_bytes |-> 0]}
LoadedDevice == {[total_bytes |-> 2, resident_bytes |-> r] : r \in {0, 1}}
=============================================================================
