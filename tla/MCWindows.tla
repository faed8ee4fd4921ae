------------------------------ MODULE MCWindows ------------------------------
(* Symmetry for the run of WindowTurns.  The keyboards are told apart: the  *)
(* second one gives Tab for Shift+Tab.                                      *)
EXTENDS WindowTurns, TLC

Symmetry == Permutations(Views)
=============================================================================
