----------------------------- MODULE MCAbSummarize -----------------------------
(* Two projects in the order of PROJECTS, with two samples and with one;     *)
(* three times for the first, so that those of two samples can overlap.      *)
EXTENDS AbSummarize

CONSTANTS p1, p2, s1, s2

MCSamplesOf == [p \in Project |-> IF p = p1 THEN {s1, s2} ELSE {s1}]
MCIncMs == [p \in Project |-> IF p = p1 THEN {1, 2, 3} ELSE {1, 3}]
MCOrder == {<<p1, p2>>}
================================================================================
