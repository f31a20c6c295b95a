------------------------- MODULE MC_CachedFunctions -------------------------
(***************************************************************************)
(* Small instances of the two decorators that keep results for a time,     *)
(* ArgsCache in this process and AerospikeCache in records that others     *)
(* write too.  They share no state: a behaviour is one of one of them,     *)
(* while the other stays where it begins.                                  *)
(*                                                                         *)
(* Of ArgsCache, two coroutines are enough for a refresh in place, a third *)
(* one lets a stale entry be served behind it.                             *)
(***************************************************************************)
EXTENDS ArgsCache, AerospikeCache, TLC

VARIABLE part

FunctionsInit ==
  /\ part \in {"args_cache", "aerospike_cache"}
  /\ Init /\ AerospikeInit

FunctionsNext ==
  /\ UNCHANGED part
  /\ \/ part = "args_cache" /\ Next /\ UNCHANGED aerospikeVars
     \/ part = "aerospike_cache" /\ AerospikeNext /\ UNCHANGED vars

Symmetry == Permutations(Tasks) \cup Permutations(Keys) \cup Permutations(Callers)

FunctionsSpec == FunctionsInit /\ [][FunctionsNext]_<<part, vars, aerospikeVars>>
=============================================================================
