------------------------------ MODULE MCRunBench ------------------------------
(* A small instance of RunBench: f calls g, and h stands alone. Sample s1    *)
(* changes g; sample s2 is built on top of it and changes h too. p1 has both *)
(* samples, p2 only its old.bc, p3 not even that.                            *)
EXTENDS RunBench

CONSTANTS p1, p2, p3, s1, s2, f, g, h, v0, v1, v2

MCCalls == {<<f, g>>}
MCSamplesOf == [p \in Project |-> CASE p = p1 -> {s1, s2} [] OTHER -> {}]
MCOldModule == [x \in Func |-> v0]
MCModuleOf == [s \in Sample |->
    [x \in Func |-> IF x = g THEN v1 ELSE IF x = h /\ s = s2 THEN v2 ELSE v0]]

\* A trace from the callee to its caller, and one inside a function that the
\* second sample changes.
Deref == [name |-> "npd", steps |-> <<g, f>>]
Local == [name |-> "npd", steps |-> <<h>>]
MCOldReport == {<<Deref, Local>>}
MCReport == {<<>>, <<Deref>>, <<Local>>, <<Deref, Local>>}
===============================================================================
