----------------------------- MODULE MCAbBranches -----------------------------
(* A small instance of AbBranches: a project with two samples, one that is   *)
(* listed in PROJECTS without a directory under $BC, two repeats.            *)
EXTENDS AbBranches

CONSTANTS p1, p2, s1, s2

MCSamplesOf == [p \in Project |-> IF p = p1 THEN {s1, s2} ELSE {}]
===============================================================================
