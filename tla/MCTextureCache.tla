--------------------------- MODULE MCTextureCache ---------------------------
(* TextureCache with interchangeable addresses, images and sizes.          *)
EXTENDS TextureCache, TLC

CacheSymmetry ==
    Permutations(Addresses) \cup Permutations(Images) \cup Permutations(Sizes)
=============================================================================
