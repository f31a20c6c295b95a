----------------------------- MODULE MC_Callers -----------------------------
(***************************************************************************)
(* Small instances of the two components whose callers queue for something *)
(* that they share, the lock of a SimpleCache or the connection of the     *)
(* SqlInterface, and must all come to an end.  They share no state: a      *)
(* behaviour is one of one of them, while the other stays where it begins. *)
(***************************************************************************)
EXTENDS SqlInterface, SimpleCache

VARIABLE part

CallersInit ==
  /\ part \in {"sql", "simple_cache"}
  /\ Init /\ SimpleInit

CallersNext ==
  /\ UNCHANGED part
  /\ \/ part = "sql" /\ Next /\ UNCHANGED simpleVars
     \/ part = "simple_cache" /\ SimpleNext /\ UNCHANGED vars

(* the fairness of FairSpec and SimpleFairSpec *)
CallersFairness ==
  /\ \A t \in Threads : WF_vars(part = "sql" /\ (Query(t) \/ InTransaction(t)))
  /\ \A t \in Tasks : SF_simpleVars(part = "simple_cache" /\ Running(t) /\ Step(t))

CallersSpec ==
  CallersInit /\ [][CallersNext]_<<part, vars, simpleVars>> /\ CallersFairness
=============================================================================
