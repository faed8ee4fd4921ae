----------------------------- MODULE MCPagePool -----------------------------
(* Model of PagePool: texture names are interchangeable. *)
EXTENDS PagePool, TLC

TextureSymmetry == Permutations(Textures)
=============================================================================
