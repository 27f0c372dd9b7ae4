------------------------------ MODULE FermatCheck ------------------------------
(***************************************************************************)
(* The analyzer the harness drives, fermat-check, as far as the scripts    *)
(* depend on it. It is not part of the repository: the definitions follow  *)
(* how scripts/run_bench.sh calls it and what                              *)
(* docs/fermat-check-incremental-persist.md says of its persist mode.      *)
(*                                                                         *)
(* A bitcode module gives every function a body; a store gives every       *)
(* function the body its saved SEG was built from, or NoSeg.               *)
(***************************************************************************)
CONSTANTS
    Func,    \* functions of a program
    Calls,   \* Calls is a set of pairs <<caller, callee>>
    NoSeg    \* no SEG is stored

EmptyStore == [f \in Func |-> NoSeg]

\* Functions whose body fingerprint does not match the store.
Dirty(store, module) == {f \in Func : store[f] # module[f]}

CallersOf(F) == {f \in Func : \E g \in F : <<f, g>> \in Calls}

\* What the incremental mode rebuilds and checks: one hop of callers.
WorkSet(store, module) ==
    Dirty(store, module) \cup CallersOf(Dirty(store, module))

\* The rebuilt SEGs go back to the directory they were loaded from.
WriteBack(store, module) ==
    [f \in Func |-> IF f \in WorkSet(store, module) THEN module[f] ELSE store[f]]
================================================================================
