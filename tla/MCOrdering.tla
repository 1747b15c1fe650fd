----------------------------- MODULE MCOrdering ----------------------------
(* A small instance of the ordering loop for TLC. *)
EXTENDS Ordering

\* Identifiers that do not follow the order of arrival, so ties are decided by
\* them and not by it.
MCIdent == <<4, 1, 6, 2, 5, 3>>

\* Job 1 needs everything; every other job fits beside the loaded weights.
MCPeak == [j \in 1 .. 6 |-> IF j = 1 THEN 2 ELSE 1]

EmptyDevice == {[total_bytes |-> 2, resident_bytes |-> 0]}
LoadedDevice == {[total_bytes |-> 2, resident_bytes |-> r] : r \in {0, 1}}
=============================================================================
