--------------------------- MODULE MC_SimpleCache ---------------------------
(* Small instances of SimpleCache; the callers are interchangeable.        *)
EXTENDS SimpleCache, TLC

Symmetry == Permutations(Tasks)
=============================================================================
