----------------------------- MODULE MCSurfaces -----------------------------
(* Surfaces with interchangeable toplevels, subsurfaces and popups.        *)
EXTENDS Surfaces, TLC

SurfaceSymmetry ==
    Permutations(Toplevels) \cup Permutations(Subsurfaces) \cup Permutations(Popups)
=============================================================================
