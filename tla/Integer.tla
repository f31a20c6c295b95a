------------------------------- MODULE Integer -------------------------------
(***************************************************************************)
(* Integer (kh_common/caching/integer.py): a number in aerospike and each  *)
(* process's local copy of it.  A process waits for the client, so that    *)
(* between two of its steps only other processes run; time passes there.   *)
(* Times are ages, so that the clock needs no bound.                       *)
(***************************************************************************)
EXTENDS Integers

CONSTANTS
  Processes,
  IntegerTTL,  \* local_TTL
  MaxTrip,     \* the longest call of the aerospike client
  MaxInteger   \* bound on the number, for model checking only

ASSUME IntegerAssumption == IntegerTTL \in Nat /\ MaxTrip \in Nat /\ MaxInteger \in Nat

VARIABLES
  number,   \* the record, or Missing
  local,    \* _cache: per process its entry and the age of that, or NoEntry
  process,  \* what each process is doing, and for how long it has waited
  held      \* history: how long ago the record held a number, up to LongAgo

integerVars == <<number, local, process, held>>

Missing == -1
NoEntry == [value |-> Missing, age |-> 0]
Returned == [pc |-> "idle", value |-> Missing, age |-> 0]
LongAgo == IntegerTTL + MaxTrip + 1

IntegerInit ==
  /\ number = Missing
  /\ local = [p \in Processes |-> NoEntry]
  /\ process = [p \in Processes |-> Returned]
  /\ held = [n \in 0 .. MaxInteger |-> LongAgo]

Goes(p, pc, value) == process' = [process EXCEPT ![p] = [pc |-> pc, value |-> value, age |-> 0]]

Write(n) == number' = n /\ held' = [held EXCEPT ![n] = 0]

(* set: the client's put, which may raise, applied or not *)
SetNumber(p) ==
  /\ process[p].pc = "idle"
  /\ \E n \in 0 .. MaxInteger : \/ Write(n) /\ Goes(p, "setting", n)
                                \/ Write(n) /\ UNCHANGED process
  /\ UNCHANGED local

(* mutant: get looks up without the sweep *)
Swept_Not(entry) == entry

(* __clear_cache__ with the one key *)
Swept(entry) == IF entry.age > IntegerTTL THEN NoEntry ELSE entry

(* get and get_async: the local entry, or the record, or RecordNotFound *)
GetNumber(p) ==
  LET entry == Swept(local[p]) IN
  /\ process[p].pc = "idle"
  /\ local' = [local EXCEPT ![p] = entry]
  /\ CASE entry.value # Missing -> Goes(p, "answered", entry.value)
       [] entry.value = Missing /\ number # Missing -> Goes(p, "getting", number)
       [] OTHER -> UNCHANGED process
  /\ UNCHANGED <<number, held>>

(* the reply is there: the entry is stored, and a get returns *)
StoreLocal(p) ==
  /\ process[p].pc \in {"getting", "setting"}
  /\ local' = [local EXCEPT ![p] = [value |-> process[p].value, age |-> 0]]
  /\ IF process[p].pc = "getting" THEN Goes(p, "answered", process[p].value)
     ELSE process' = [process EXCEPT ![p] = Returned]
  /\ UNCHANGED <<number, held>>

(* increment never touches the local entry; with its retries it may apply twice *)
Increment(p) ==
  /\ process[p].pc = "idle"
  /\ \E times \in 1 .. 2 :
       LET n == (IF number = Missing THEN 0 ELSE number) + times
       IN  n <= MaxInteger /\ Write(n)
  /\ UNCHANGED <<local, process>>

EndGet(p) ==
  /\ process[p].pc = "answered"
  /\ process' = [process EXCEPT ![p] = Returned]
  /\ UNCHANGED <<number, local, held>>

(* the record's TTL is over *)
NumberExpires == number' = Missing /\ UNCHANGED <<local, process, held>>

Older(age, most) == IF age < most THEN age + 1 ELSE age

TimePasses ==
  /\ \A p \in Processes : \/ process[p].pc = "idle"
                          \/ process[p].pc \in {"getting", "setting"} /\ process[p].age < MaxTrip
  /\ local' = [p \in Processes |->
       IF local[p] = NoEntry THEN NoEntry ELSE [local[p] EXCEPT !.age = Older(@, IntegerTTL + 1)]]
  /\ process' = [p \in Processes |->
       IF process[p].pc = "idle" THEN Returned ELSE [process[p] EXCEPT !.age = @ + 1]]
  /\ held' = [n \in 0 .. MaxInteger |-> IF n = number THEN 0 ELSE Older(held[n], LongAgo)]
  /\ UNCHANGED number

IntegerNext ==
  \/ NumberExpires \/ TimePasses
  \/ \E p \in Processes : SetNumber(p) \/ GetNumber(p) \/ StoreLocal(p) \/ Increment(p) \/ EndGet(p)

IntegerSpec == IntegerInit /\ [][IntegerNext]_integerVars
-----------------------------------------------------------------------------
(* GetIsRecent: get returns a number that the record held at most          *)
(* IntegerTTL + MaxTrip ago, whoever wrote it since and however often an   *)
(* increment was applied (integer.py:28-74); the process's own increment   *)
(* may be missing from it for as long.                                     *)
GetIsRecent ==
  \A p \in Processes : process[p].pc = "answered" => held[process[p].value] < LongAgo
=============================================================================
