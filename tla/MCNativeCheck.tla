---------------------------- MODULE MCNativeCheck ----------------------------
(***************************************************************************)
(* TLC instance of --run-native: every automaton over three summaries and  *)
(* two symbols, under a budget of none, too few and enough states.         *)
(***************************************************************************)
EXTENDS NativeCheck

MCBudgets == {0, 2, 3}

=============================================================================
