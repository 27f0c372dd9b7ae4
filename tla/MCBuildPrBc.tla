------------------------------ MODULE MCBuildPrBc ------------------------------
(* A small instance of BuildPrBc: n1 is in both tables and leaves a stray    *)
(* object behind, n2 is in none; PRS names both, or n2 twice. The baseline   *)
(* moves once, and there is one kill.                                        *)
EXTENDS BuildPrBc
CONSTANTS n1, n2
MCPrs == {[n \in Pr |-> 1], [n \in Pr |-> IF n = n2 THEN 2 ELSE 0]}
===============================================================================
