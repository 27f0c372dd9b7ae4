---------------------------- MODULE MCBugRegression ----------------------------
(* Three cases, as in suite.json: one that expects the same sink twice, one  *)
(* that expects a single sink and whose project is not named like its        *)
(* directory, one without its bitcode.                                       *)
EXTENDS BugRegression

CONSTANTS k1, k2

MCDirOf == <<"libyaml", "memcached-slab-mover", "fn_cares_qcache">>
MCProjectOf == <<"libyaml", "memcached_slab_mover", "fn_cares_qcache">>
MCExpected == <<<<k1, k1>>, <<k2>>, <<k2>>>>

\* Traces that end at k1, at k2 (with a step that has no line behind it), and
\* one at k2 that the analyzer itself marked invalid.
AtK1 == [valid |-> TRUE, steps |-> <<k2, k1>>]
AtK2 == [valid |-> TRUE, steps |-> <<k1, k2, NoLine>>]
Invalid == [valid |-> FALSE, steps |-> <<k2>>]
MCReport == {<<AtK1>>, <<AtK1, AtK2, AtK1>>, <<Invalid>>}
MCOldReport == {<<AtK1, AtK1, AtK2>>}
================================================================================
