------------------------------- MODULE MCDeploy -------------------------------
(* Builds for model checking Deploy. *)
EXTENDS Deploy

CONSTANTS p1, p2, p3

\* The released build; a branch that skipped a version; one with a file added late.
Builds == [p \in Processes |-> CASE p = p1 -> {1, 2} [] p = p2 -> {1, 2, 4} [] OTHER -> {1, 2, 3, 4}]
CoreTables == {1, 2}
=============================================================================
