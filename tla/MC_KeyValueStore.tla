-------------------------- MODULE MC_KeyValueStore --------------------------
(* Small instances of KeyValueStore.  Keys and threads are interchangeable *)
(* in the runs that check no liveness.                                     *)
EXTENDS KeyValueStore, TLC

Symmetry == Permutations(Threads) \cup Permutations(Keys) \cup Permutations(Values)
=============================================================================
