---------------------------- MODULE MeasurementLog ----------------------------
(***************************************************************************)
(* What a resumable measurement harness promises about its result file:    *)
(* the file only ever grows, one row at a time; a combination that already *)
(* has a row is never measured again; and a row that depends on a setup    *)
(* row (an incremental run on a stored baseline) comes after it.           *)
(* docs/ab-branch-comparison.md:80-91 describes this file.                 *)
(***************************************************************************)
EXTENDS Naturals, Sequences

CONSTANTS
    Key,      \* the combinations a row can be about
    SetupOf   \* SetupOf[k]: the row k depends on, in Key; k itself when none

VARIABLE log  \* the rows of the file, in order

Rows == {log[i] : i \in 1..Len(log)}

Init == log = <<>>

\* One combination is measured and its row is appended.
Record(k) ==
    /\ k \notin Rows
    /\ SetupOf[k] \in Rows \cup {k}
    /\ log' = Append(log, k)

Next == \E k \in Key : Record(k)

Spec == Init /\ [][Next]_log
===============================================================================
