---------------------------- MODULE MCPointerInput ----------------------------
(* Model values and symmetry for the runs of PointerInput.                  *)
EXTENDS PointerInput, TLC

ViewSymmetry == Permutations(Views)
=============================================================================
