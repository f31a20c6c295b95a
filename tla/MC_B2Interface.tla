--------------------------- MODULE MC_B2Interface ---------------------------
(* Small instances of B2Interface; the tasks are interchangeable.          *)
EXTENDS B2Interface, TLC

TwoAndOne == {[name |-> 1, id |-> 1], [name |-> 1, id |-> 2], [name |-> 2, id |-> 3]}

Symmetry == Permutations(Tasks)
=============================================================================
