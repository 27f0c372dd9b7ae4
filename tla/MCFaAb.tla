-------------------------------- MODULE MCFaAb --------------------------------
(* One project with two PRs, one whose store may fail, two stores.           *)
EXTENDS FaAb

CONSTANTS p1, p2, s1, s2

MCSamplesOf == [p \in Project |-> IF p = p1 THEN {s1, s2} ELSE {s1}]
===============================================================================
