--------------------------- MODULE AerospikeCache ---------------------------
(***************************************************************************)
(* AerospikeCache (kh_common/caching) for one key: the wrapped function    *)
(* runs only if its KeyValueStore has no result of the return type, and    *)
(* the result is stored unless the cache is read-only.  The store is taken *)
(* by its promise, ReadsBounded of module KeyValueStore: what a get gives  *)
(* stood in the records at most LocalTTL + 2 * StoreCall before.  (A get   *)
(* that KeyValueStore calls late may be older; it takes a second key to be *)
(* so.)  Times are ages, so that the clock needs no bound.                 *)
(***************************************************************************)
EXTENDS Integers, FiniteSets

CONSTANTS
  Callers,    \* coroutines or threads that call the function
  TTLs,       \* the TTLs the function may be decorated with, in whole seconds
  ServerTTL,  \* how long aerospike keeps a record that is put with TTL 0
  LocalTTL,   \* local_TTL of the store
  StoreCall,  \* the longest operation of the store, once it has its lock
  MaxFetch,   \* the longest call: computation and put
  MaxEarlier  \* bound on the records the history has, for model checking only

ASSUME AerospikeAssumption ==
  /\ TTLs \subseteq Nat /\ ServerTTL \in Nat
  /\ LocalTTL \in Nat /\ StoreCall \in Nat /\ MaxFetch \in Nat /\ MaxEarlier \in Nat

VARIABLES
  decoration,  \* of the function: its TTL and not read_only; NotDecorated before
  stored,      \* the record: its type, the age of the data, the time it has left
  earlier,     \* history: records that stood at most StoreLag ago, MaxEarlier of them
  caller       \* its place in the wrapper and the data in hand: type, age, source

aerospikeVars == <<decoration, stored, earlier, caller>>

NotDecorated == [ttl |-> 0, writable |-> "unset"]
NoRecord == [type |-> "none", age |-> 0, left |-> 0]
StoreLag == LocalTTL + 2 * StoreCall

AerospikeInit ==
  /\ decoration = NotDecorated /\ stored = NoRecord /\ earlier = {}
  /\ caller = [c \in Callers |-> [pc |-> "idle", age |-> 0, type |-> "none", from |-> "none"]]

DecorateCached ==
  /\ decoration = NotDecorated /\ decoration' \in [ttl : TTLs, writable : {"yes", "no"}]
  /\ UNCHANGED <<stored, earlier, caller>>

(* a TTL under a second is none *)
Lifetime == IF decoration.ttl = 0 THEN ServerTTL ELSE decoration.ttl

(* mutant: put does not pass the TTL on *)
Left_Default == ServerTTL

(* of a record that is put now *)
Left == Lifetime

(* the standing record, if any, as an earlier one *)
Leaves(record) ==
  IF record.type = "none" THEN {} ELSE {[type |-> record.type, age |-> record.age, ago |-> 0]}

Remember(records) ==
  \E some \in SUBSET records : Cardinality(some) <= MaxEarlier /\ earlier' = some

Replace(record) == stored' = record /\ Remember(earlier \cup Leaves(stored))

(* there was no record at some moment of a get that ends now, or may have been *)
MayMiss == stored.type = "none" \/ stored.left = 0 \/ stored.left >= Left - StoreCall

(* type(data) == return_type *)
Matches(type) == type = "right"

Place(c, pc, age, type, from) ==
  caller' = [caller EXCEPT ![c] = [pc |-> pc, age |-> age, type |-> type, from |-> from]]

AnswersWith(c, type, age, from) == Place(c, "answered", age, type, from)

Computing(c) == Place(c, "computing", 0, "none", "none")

Raises(c) == Place(c, "raised", 0, "none", "none")

(* decorator.kvs.get(key): anything but RecordNotFound is the caller's *)
Get(c) ==
  /\ decoration # NotDecorated /\ caller[c].pc = "idle"
  /\ \/ \E record \in earlier \cup Leaves(stored) :
          IF Matches(record.type) THEN AnswersWith(c, record.type, record.age, "store") ELSE Computing(c)
     \/ MayMiss /\ Computing(c)
     \/ Raises(c)
  /\ UNCHANGED <<decoration, stored, earlier>>

(* The function returns, a value of its declared type or not, or raises. *)
RunFunction(c) ==
  /\ caller[c].pc = "computing"
  /\ \/ \E type \in {"right", "wrong"} :
          IF decoration.writable = "yes"
          THEN caller' = [caller EXCEPT ![c].pc = "putting", ![c].type = type]
          ELSE AnswersWith(c, type, caller[c].age, "function")
     \/ Raises(c)
  /\ UNCHANGED <<decoration, stored, earlier>>

(* A put that fails, applied or not, costs the caller its result. *)
Put(c) ==
  /\ caller[c].pc = "putting"
  /\ LET own == caller[c]
         record == [type |-> own.type, age |-> own.age, left |-> Left]
     IN  \/ Replace(record) /\ (AnswersWith(c, own.type, own.age, "function") \/ Raises(c))
         \/ Raises(c) /\ UNCHANGED <<stored, earlier>>
  /\ UNCHANGED decoration

Returns(c) ==
  /\ caller[c].pc \in {"answered", "raised"}
  /\ Place(c, "idle", 0, "none", "none")
  /\ UNCHANGED <<decoration, stored, earlier>>

(* Another program with the same decoration puts the record, or it is removed. *)
OtherWrites ==
  /\ decoration # NotDecorated
  /\ \E record \in {NoRecord} \cup [type : {"right", "wrong"}, age : 0 .. MaxFetch, left : {Left}] :
       Replace(record)
  /\ UNCHANGED <<decoration, caller>>

(* an earlier record a tick later *)
Aged(record) == [record EXCEPT !.age = @ + 1, !.ago = @ + 1]

ClockTicks ==
  LET ended == IF stored.left = 0 THEN Leaves(stored) ELSE {} IN
  /\ \A c \in Callers : \/ caller[c].pc = "idle"
                        \/ caller[c].pc \in {"computing", "putting"} /\ caller[c].age < MaxFetch
  /\ caller' = [c \in Callers |->
       IF caller[c].pc = "idle" THEN caller[c] ELSE [caller[c] EXCEPT !.age = @ + 1]]
  /\ stored' = IF stored.left = 0 THEN NoRecord ELSE [stored EXCEPT !.age = @ + 1, !.left = @ - 1]
  /\ Remember({Aged(record) : record \in {record \in earlier \cup ended : record.ago < StoreLag}})
  /\ UNCHANGED decoration

AerospikeNext ==
  \/ DecorateCached \/ OtherWrites \/ ClockTicks
  \/ \E c \in Callers : Get(c) \/ RunFunction(c) \/ Put(c) \/ Returns(c)

AerospikeSpec == AerospikeInit /\ [][AerospikeNext]_aerospikeVars
-----------------------------------------------------------------------------
(* AnswerBounded: an answer that was not computed for its caller is of the *)
(* return type and at most the records' lifetime, the store's lag and a    *)
(* fetch old, whoever wrote the record and in whatever order the puts      *)
(* arrived; a computed one is at most MaxFetch old (caching/__init__.py:   *)
(* 211-279, key_value_store.py:39-61).  The records' lifetime is the TTL   *)
(* of the decorator, or the server's own where that is 0.                  *)
AnswerBounded ==
  \A c \in Callers : caller[c].pc = "answered" =>
    IF caller[c].from = "store"
    THEN caller[c].type = "right" /\ caller[c].age <= Lifetime + StoreLag + MaxFetch
    ELSE caller[c].age <= MaxFetch
=============================================================================
