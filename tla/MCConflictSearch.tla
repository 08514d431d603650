--------------------------- MODULE MCConflictSearch ---------------------------
(***************************************************************************)
(* TLC instance of --run-native-conflict: every automaton over three       *)
(* summaries and two symbols, every bisimulation as projection, budgets of *)
(* none, too few and enough.                                               *)
(***************************************************************************)
EXTENDS ConflictSearch

MCBudgets == {0, 1, 3}

=============================================================================
