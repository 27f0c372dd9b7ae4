------------------------------- MODULE GateTable -------------------------------
(***************************************************************************)
(* The gates scripts/check_*.py as records, and the C fixtures they run    *)
(* the analyzer on. A fixture is the functions in which a trace of the     *)
(* gate's checker can end and the calls between functions of the file:     *)
(* a trace that ends in a function can pass through those it calls and     *)
(* those that call it.                                                     *)
(*                                                                         *)
(* A gate has, for each of its analyzer runs, the functions its report has *)
(* to name (need), those it must not name (absent) and the fixture; and    *)
(*   steps  which steps of a trace count, "any" or "first"                 *)
(*   part   a name is looked for inside the step's name, not compared      *)
(*   timed  the analyzer runs under a timeout                              *)
(*   given  the gate reads a report it is given and starts no analyzer     *)
(*   cut    llvm-extract makes the bitcode of each run                     *)
(***************************************************************************)
EXTENDS Naturals

-------------------------------------------------------------------------------
(* bc/*/*.c *)

LlArg == [ends |-> {"maybe", "maybe_local", "ok", "leak"}, calls |-> {}]

LocalField ==
    [ends |-> {"leak_field", "leak_file", "leak_calloc", "leak_nested", "leak_slot",
               "saved_field", "saved_file", "freed_field", "closed_file", "make_field",
               "copy_out", "pass_by_value", "handoff_field"},
     calls |-> {}]

NullSources ==
    [ends |-> {"getenv_unchecked", "getenv_checked", "strrchr_unchecked",
               "strrchr_checked", "strpbrk_unchecked", "memmem_unchecked",
               "bsearch_unchecked", "strchr_baseline"},
     calls |-> {}]

UafFields ==
    [ends |-> {"f_field", "m2_arg0_gep", "f_plain", "f_field_deref", "m1_arg0_plain",
               "m3_malloc_gep", "u1_malloc", "u2_field"},
     calls |-> {}]

\* The use is in use_after; a report can also end in the wrapper that frees.
UafWrapper == [ends |-> {"use_after", "copy_freed", "free_rr"},
               calls |-> {<<"use_after", "free_rr">>}]

FdlLoop ==
    [ends |-> {"not_a_leak", "real_leak_on_break", "leak_after_unrelated_call",
               "saved_by_callback", "real_leak_on_normal_exit"},
     calls |-> {}]

\* What llvm-extract --func=f leaves of darknet: f and declarations.
Extracted(f) == [ends |-> {f}, calls |-> {}]

\* Names of the fixtures (ll_arg.c, uaf_field_use.c) that occur inside another
\* name of the same fixture.
NamePairs == {<<"maybe", "maybe_local">>, <<"f_field", "f_field_deref">>}

-------------------------------------------------------------------------------
(* scripts/check_*.py *)

\* One run of the analyzer under a timeout, any step of a trace counts.
OneRun(need, absent, fixture) ==
    [need |-> <<need>>, absent |-> <<absent>>, fixture |-> <<fixture>>,
     steps |-> "any", part |-> FALSE, timed |-> TRUE, given |-> FALSE, cut |-> FALSE]

LlArgTypeFilter == OneRun({"maybe", "maybe_local"}, {"ok"}, LlArg)

LocalFieldLeak ==
    LET quiet == {"saved_field", "saved_file", "freed_field", "closed_file",
                  "handoff_field", "make_field", "pass_by_value", "copy_out"}
    IN  [OneRun({}, {}, LocalField) EXCEPT
           !.need = <<{"leak_field", "leak_calloc", "leak_nested"},
                      {"leak_file", "leak_slot"}>>,
           !.absent = <<quiet, quiet>>,
           !.fixture = <<LocalField, LocalField>>]

LocalFieldSuite ==
    LET quiet == <<"make_activation_layer", "copy_image", "read_tree">>
    IN  [OneRun({}, {}, LocalField) EXCEPT
           !.need = [i \in 1..3 |-> {}],
           !.absent = [i \in 1..3 |-> {quiet[i]}],
           !.fixture = [i \in 1..3 |-> Extracted(quiet[i])],
           !.cut = TRUE]

\* A gate that only knows the function the unfixed analyzer reports.
NpdBaselineOnly == OneRun({"strchr_baseline"}, {}, NullSources)

NpdNullSources ==
    OneRun({"getenv_unchecked", "strrchr_unchecked", "strpbrk_unchecked",
            "memmem_unchecked", "bsearch_unchecked", "strchr_baseline"},
           {"getenv_checked", "strrchr_checked"}, NullSources)

UafFieldUse ==
    OneRun({"f_field", "m2_arg0_gep", "f_plain", "f_field_deref", "m1_arg0_plain",
            "m3_malloc_gep", "u1_malloc", "u2_field"}, {}, UafFields)

UafWrapperMemcpy ==
    [OneRun({"copy_freed", "use_after"}, {}, UafWrapper) EXCEPT
        !.part = TRUE, !.timed = FALSE]

FdlLoopBreak ==
    [OneRun({"real_leak_on_break", "real_leak_on_normal_exit",
             "leak_after_unrelated_call"},
            {"not_a_leak", "saved_by_callback"}, FdlLoop) EXCEPT
        !.steps = "first", !.given = TRUE]

Table == [ll_arg_type_filter |-> LlArgTypeFilter,
          local_field_leak |-> LocalFieldLeak,
          local_field_suite |-> LocalFieldSuite,
          npd_libmeta_null_sources |-> NpdNullSources,
          uaf_field_use |-> UafFieldUse,
          uaf_wrapper_memcpy |-> UafWrapperMemcpy,
          fdl_loop_break |-> FdlLoopBreak]
================================================================================
