------------------------------ MODULE MCLinks ------------------------------
(* Links on small instances. *)
EXTENDS Links

CONSTANTS d1, d2, i1, i2

\* A server that always has its id, and one that shares it or not.
MCIdsOf == [s \in Servers |-> IF s = d1 THEN {i1} ELSE {i1, i2}]
=============================================================================
