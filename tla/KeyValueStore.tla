--------------------------- MODULE KeyValueStore ----------------------------
(***************************************************************************)
(* kh_common/caching/key_value_store.py: an aerospike set with a local     *)
(* OrderedDict in front of it.  Every operation may run in a thread of its *)
(* own (the _async variants always do), and all threads work on the one    *)
(* local cache.  Each access to the cache is a step; the threads are       *)
(* interleaved between them.                                               *)
(*                                                                         *)
(* get_async holds _get_lock and get_many_async holds _get_many_lock while *)
(* their thread runs; nothing else takes a lock.                           *)
(***************************************************************************)
EXTENDS Integers, FiniteSets, Sequences, OrderedCache

CONSTANTS
  Threads, Keys, Values,
  Nothing,      \* no record, no key, no value
  Ops,          \* the operations the threads call
  Environment,  \* what else happens to the records: "write", "expire"
  InDoubt,      \* may a write that raises have reached the records?
  TTL,          \* local_TTL, in ticks
  MaxCall,      \* longest time an operation runs, once it has its lock
  MaxTime       \* bound on the clock, for model checking only

ASSUME KeyValueStoreAssumption ==
  /\ Nothing \notin Keys \cup Values
  /\ Ops \subseteq {"get", "get_async", "get_many", "get_many_async",
                    "put", "remove", "exists", "truncate"}
  /\ Environment \subseteq {"write", "expire"}
  /\ InDoubt \in BOOLEAN
  /\ TTL \in Nat /\ MaxCall \in Nat /\ MaxTime \in Nat

VARIABLES
  now,
  remote,   \* remote[k]: the value of k's record
  cache,    \* self._cache
  thread,   \* what each thread is doing
  reply,    \* how each thread's last operation ended
  apart     \* history: why a key's local entry may differ from its record

vars == <<now, remote, cache, thread, reply, apart>>

Singles == {"get", "get_async"}
Locked == {"get_async", "get_many_async"}
Outcomes == {"none", "ok", "KeyError", "RecordNotFound", "RemoteError"}
Labels == {"idle", "wait", "peek", "judge", "drop", "lookup", "hit", "fetch", "fill",
           "fetch_many", "stamp", "gather", "write", "keep", "check", "unset",
           "erase", "probe", "empty"}

(* late is history: a sweep may stop in front of this fact though it is     *)
(* stale, because another entry was written again in its place or moved    *)
Fact(k, val, asOf) == [key |-> k, val |-> val, asOf |-> asOf, late |-> FALSE]
Facts == [key : Keys, val : Values, asOf : 0 .. MaxTime, late : BOOLEAN]

(* since the local entry was made the record changed behind this process's *)
(* back (or in a write of its own that raised), or truncate took it away   *)
Reasons == {"none", "changed", "emptied"}

(* misled is history: the fresh entry the sweep stopped at had been dropped *)
(* and stored again at the back since next() gave its key                   *)
Idle == [op |-> "none", pc |-> "idle", keys |-> {}, val |-> Nothing, clock |-> 0,
         head |-> Nothing, misled |-> FALSE, todo |-> {}, local |-> {}, got |-> {}, exp |-> 0]

NoReply == [outcome |-> "none", at |-> 0, facts |-> {}]

Init ==
  /\ now = 0
  /\ remote \in [Keys -> Values \cup {Nothing}]
  /\ cache = << >>
  /\ thread = [t \in Threads |-> Idle]
  /\ reply = [t \in Threads |-> NoReply]
  /\ apart = [k \in Keys |-> "none"]
-----------------------------------------------------------------------------
At(t, pc) == thread[t].pc = pc

TheKey(t) == CHOOSE k \in thread[t].keys : TRUE

(* the operation of t is over: it returned the facts, or raised outcome *)
End(t, outcome, facts) ==
  /\ thread' = [thread EXCEPT ![t] = Idle]
  /\ reply' = [reply EXCEPT ![t] = [outcome |-> outcome, at |-> now, facts |-> facts]]

Goto(t, pc) ==
  /\ thread' = [thread EXCEPT ![t].pc = pc]
  /\ UNCHANGED reply

(* cache[key] = (exp, data): a key that is held keeps its place, and holds *)
(* up the sweep in front of what was stored after it                       *)
Assigned(fact, exp) ==
  LET stored == StoreEntry(cache, CacheEntry(fact.key, exp, fact))
      HeldUp(j) == \E i \in DOMAIN cache : i < j /\ cache[i].key = fact.key
  IN  [j \in DOMAIN stored |-> [stored[j] EXCEPT !.data.late = @ \/ HeldUp(j)]]

(* self._cache[k] = (exp, data): what is known of the record of k *)
StoreFact(fact, exp) ==
  /\ cache' = Assigned(fact, exp)
  /\ apart' = IF remote[fact.key] = fact.val THEN [apart EXCEPT ![fact.key] = "none"] ELSE apart

Forget(k) ==
  /\ cache' = DropKey(cache, k)
  /\ apart' = [apart EXCEPT ![k] = "none"]

Begin(t, op, keys, val) ==
  thread' = [thread EXCEPT ![t] = [Idle EXCEPT
    !.op = op, !.keys = keys, !.val = val, !.clock = now,
    !.pc = CASE op \in Locked -> "wait"
             [] op \in {"get", "get_many"} -> "peek"
             [] op = "put" -> "write"
             [] op = "remove" -> "check"
             [] op = "exists" -> "probe"
             [] op = "truncate" -> "empty"]]

Start(t) ==
  /\ At(t, "idle")
  /\ \E op \in Ops :
       \/ op \in {"get", "get_async", "remove", "exists"}
            /\ \E k \in Keys : Begin(t, op, {k}, Nothing)
       \/ op \in {"get_many", "get_many_async"}
            /\ \E ks \in (SUBSET Keys) \ {{}} : Begin(t, op, ks, Nothing)
       \/ op = "put" /\ \E k \in Keys, v \in Values : Begin(t, op, {k}, v)
       \/ op = "truncate" /\ Begin(t, op, {}, Nothing)
  /\ reply' = [reply EXCEPT ![t] = NoReply]
  /\ UNCHANGED <<now, remote, cache, apart>>

(* mutant: the lock excludes nobody *)
Holds_Never(t, op) == FALSE

(* async with self._get_lock / self._get_many_lock, held until the end *)
Holds(t, op) == thread[t].op = op /\ ~ At(t, "wait")

Acquire(t) ==
  /\ At(t, "wait")
  /\ \A u \in Threads : ~ Holds(u, thread[t].op)
  /\ thread' = [thread EXCEPT ![t].pc = "peek", ![t].clock = now]
  /\ UNCHANGED <<now, remote, cache, reply, apart>>
-----------------------------------------------------------------------------
(* __clear_cache__(self._cache, time), one access to the dictionary a step *)

(* next(cache.__iter__()) *)
Peek(t) ==
  /\ At(t, "peek")
  /\ IF cache = << >>
     THEN thread' = [thread EXCEPT ![t].pc = "lookup"]
     ELSE thread' = [thread EXCEPT ![t].pc = "judge", ![t].head = cache[1].key]
  /\ UNCHANGED <<now, remote, cache, reply, apart>>

(* mutant: the sweep stops at the first entry, stale or not *)
Judge_NoSweep(t) ==
  /\ At(t, "judge")
  /\ Goto(t, "lookup")
  /\ UNCHANGED <<now, remote, cache, apart>>

(* if cache[cache_key][0] >= now : break *)
Judge(t) ==
  /\ At(t, "judge")
  /\ LET head == thread[t].head
     IN  \/ head \notin HeldKeys(cache) /\ End(t, "KeyError", {})
         \/ /\ head \in HeldKeys(cache)
            /\ IF Stale(EntryOf(cache, head), thread[t].clock) THEN Goto(t, "drop")
               ELSE /\ thread' = [thread EXCEPT ![t].pc = "lookup",
                                                 ![t].misled = cache[1].key # head]
                    /\ UNCHANGED reply
  /\ UNCHANGED <<now, remote, cache, apart>>

(* mutant: the stale entry is not deleted *)
Drop_Not(t) ==
  /\ At(t, "drop")
  /\ Goto(t, "peek")
  /\ UNCHANGED <<now, remote, cache, apart>>

(* del cache[cache_key] *)
Drop(t) ==
  /\ At(t, "drop")
  /\ LET head == thread[t].head
     IN  \/ head \notin HeldKeys(cache) /\ End(t, "KeyError", {})
            /\ UNCHANGED <<cache, apart>>
         \/ head \in HeldKeys(cache) /\ Forget(head) /\ Goto(t, "peek")
  /\ UNCHANGED <<now, remote>>
-----------------------------------------------------------------------------
(* _get *)

Lookup(t) ==
  /\ At(t, "lookup")
  /\ thread[t].op \in Singles
  /\ Goto(t, IF TheKey(t) \in HeldKeys(cache) THEN "hit" ELSE "fetch")
  /\ UNCHANGED <<now, remote, cache, apart>>

(* copy(self._cache[key][1]) *)
Taken(t, k) == [EntryOf(cache, k).data EXCEPT !.late = @ \/ thread[t].misled]

Hit(t) ==
  /\ At(t, "hit")
  /\ IF TheKey(t) \in HeldKeys(cache)
     THEN End(t, "ok", {Taken(t, TheKey(t))})
     ELSE End(t, "KeyError", {})
  /\ UNCHANGED <<now, remote, cache, apart>>

Fetch(t) ==
  /\ At(t, "fetch")
  /\ \/ End(t, "RemoteError", {})
     \/ remote[TheKey(t)] = Nothing /\ End(t, "RecordNotFound", {})
     \/ /\ remote[TheKey(t)] # Nothing
        /\ thread' = [thread EXCEPT ![t].pc = "fill",
                        ![t].got = {Fact(TheKey(t), remote[TheKey(t)], now)}]
        /\ UNCHANGED reply
  /\ UNCHANGED <<now, remote, cache, apart>>

Fill(t) ==
  /\ At(t, "fill")
  /\ \A fact \in thread[t].got : StoreFact(fact, now + TTL)
  /\ End(t, "ok", thread[t].got)
  /\ UNCHANGED <<now, remote>>
-----------------------------------------------------------------------------
(* _get_many *)

(* remote_keys = keys - self._cache.keys() *)
Split(t) ==
  /\ At(t, "lookup")
  /\ thread[t].op \notin Singles
  /\ LET missing == thread[t].keys \ HeldKeys(cache)
     IN  thread' = [thread EXCEPT
           ![t].todo = missing, ![t].local = thread[t].keys \ missing,
           ![t].pc = IF missing = {} THEN "gather" ELSE "fetch_many"]
  /\ UNCHANGED <<now, remote, cache, reply, apart>>

FetchMany(t) ==
  /\ At(t, "fetch_many")
  /\ \/ End(t, "RemoteError", {})
     \/ LET found == {k \in thread[t].todo : remote[k] # Nothing}
        IN  /\ thread' = [thread EXCEPT ![t].pc = "stamp", ![t].todo = found,
                            ![t].got = {Fact(k, remote[k], now) : k \in found}]
            /\ UNCHANGED reply
  /\ UNCHANGED <<now, remote, cache, apart>>

(* exp = time() + self._local_TTL *)
Stamp(t) ==
  /\ At(t, "stamp")
  /\ thread' = [thread EXCEPT ![t].pc = "gather", ![t].exp = now + TTL]
  /\ UNCHANGED <<now, remote, cache, reply, apart>>

FillOne(t) ==
  /\ At(t, "gather")
  /\ \E fact \in thread[t].got :
       /\ fact.key \in thread[t].todo
       /\ StoreFact(fact, thread[t].exp)
       /\ thread' = [thread EXCEPT ![t].todo = @ \ {fact.key}]
  /\ UNCHANGED <<now, remote, reply>>

(* key: copy(self._cache[key][1]) for key in keys - remote_keys *)
CollectOne(t) ==
  /\ At(t, "gather") /\ thread[t].todo = {}
  /\ \E k \in thread[t].local :
       \/ k \notin HeldKeys(cache) /\ End(t, "KeyError", {})
       \/ /\ k \in HeldKeys(cache)
          /\ thread' = [thread EXCEPT ![t].local = @ \ {k},
                                      ![t].got = @ \cup {Taken(t, k)}]
          /\ UNCHANGED reply
  /\ UNCHANGED <<now, remote, cache, apart>>

ReturnMany(t) ==
  /\ At(t, "gather") /\ thread[t].todo = {} /\ thread[t].local = {}
  /\ End(t, "ok", thread[t].got)
  /\ UNCHANGED <<now, remote, cache, apart>>
-----------------------------------------------------------------------------
(* put, remove, exists, truncate *)

(* the client raises, and the write may have been applied all the same *)
RaiseInDoubt(t, k, val) ==
  /\ End(t, "RemoteError", {})
  /\ \/ UNCHANGED <<remote, apart>>
     \/ /\ InDoubt
        /\ remote' = [remote EXCEPT ![k] = val]
        /\ apart' = [apart EXCEPT ![k] = "changed"]

Write(t) ==
  /\ At(t, "write")
  /\ \/ RaiseInDoubt(t, TheKey(t), thread[t].val)
     \/ /\ remote' = [remote EXCEPT ![TheKey(t)] = thread[t].val]
        /\ thread' = [thread EXCEPT ![t].pc = "keep",
                        ![t].got = {Fact(TheKey(t), thread[t].val, now)}]
        /\ UNCHANGED <<reply, apart>>
  /\ UNCHANGED <<now, cache>>

Keep(t) ==
  /\ At(t, "keep")
  /\ \A fact \in thread[t].got : StoreFact(fact, now + TTL)
  /\ End(t, "ok", {})
  /\ UNCHANGED <<now, remote>>

(* mutant: the local entry is not dropped *)
Check_KeepsLocal(t) ==
  /\ At(t, "check")
  /\ Goto(t, "erase")
  /\ UNCHANGED <<now, remote, cache, apart>>

(* if key in self._cache *)
Check(t) ==
  /\ At(t, "check")
  /\ Goto(t, IF TheKey(t) \in HeldKeys(cache) THEN "unset" ELSE "erase")
  /\ UNCHANGED <<now, remote, cache, apart>>

(* del self._cache[key] *)
Unset(t) ==
  /\ At(t, "unset")
  /\ \/ TheKey(t) \notin HeldKeys(cache) /\ End(t, "KeyError", {})
        /\ UNCHANGED <<cache, apart>>
     \/ TheKey(t) \in HeldKeys(cache) /\ Forget(TheKey(t)) /\ Goto(t, "erase")
  /\ UNCHANGED <<now, remote>>

Erase(t) ==
  /\ At(t, "erase")
  /\ \/ RaiseInDoubt(t, TheKey(t), Nothing)
     \/ remote[TheKey(t)] = Nothing /\ End(t, "RecordNotFound", {})
        /\ UNCHANGED <<remote, apart>>
     \/ /\ remote[TheKey(t)] # Nothing
        /\ remote' = [remote EXCEPT ![TheKey(t)] = Nothing]
        /\ End(t, "ok", {})
        /\ UNCHANGED apart
  /\ UNCHANGED <<now, cache>>

Probe(t) ==
  /\ At(t, "probe")
  /\ \/ End(t, "RemoteError", {})
     \/ End(t, "ok", {Fact(k, remote[k], now) : k \in {TheKey(t)} \cap {j \in Keys : remote[j] # Nothing}})
  /\ UNCHANGED <<now, remote, cache, apart>>

(* the records go, the local cache stays *)
Truncate(t) ==
  /\ At(t, "empty")
  /\ remote' = [k \in Keys |-> Nothing]
  /\ apart' = [k \in Keys |-> IF k \in HeldKeys(cache) THEN "emptied" ELSE apart[k]]
  /\ End(t, "ok", {})
  /\ UNCHANGED <<now, cache>>
-----------------------------------------------------------------------------
(* Another process writes a record, or a record reaches the end of its TTL. *)
ForeignWrite(k, v) ==
  /\ "write" \in Environment
  /\ remote[k] # v
  /\ remote' = [remote EXCEPT ![k] = v]
  /\ apart' = [apart EXCEPT ![k] = "changed"]
  /\ UNCHANGED <<now, cache, thread, reply>>

Expire(k) ==
  /\ "expire" \in Environment
  /\ remote[k] # Nothing
  /\ remote' = [remote EXCEPT ![k] = Nothing]
  /\ apart' = [apart EXCEPT ![k] = "changed"]
  /\ UNCHANGED <<now, cache, thread, reply>>

Tick ==
  /\ now < MaxTime
  /\ \A t \in Threads : At(t, "idle") \/ At(t, "wait") \/ now < thread[t].clock + MaxCall
  /\ now' = now + 1
  /\ UNCHANGED <<remote, cache, thread, reply, apart>>

Read(t) ==
  \/ Peek(t) \/ Judge(t) \/ Drop(t)
  \/ Lookup(t) \/ Hit(t) \/ Fetch(t) \/ Fill(t)
  \/ Split(t) \/ FetchMany(t) \/ Stamp(t) \/ FillOne(t) \/ CollectOne(t) \/ ReturnMany(t)

Update(t) ==
  \/ Write(t) \/ Keep(t)
  \/ Check(t) \/ Unset(t) \/ Erase(t)
  \/ Probe(t) \/ Truncate(t)

Next ==
  \/ Tick
  \/ \E k \in Keys : Expire(k) \/ \E v \in Values : ForeignWrite(k, v)
  \/ \E t \in Threads : Start(t) \/ Acquire(t) \/ Read(t) \/ Update(t)

Spec == Init /\ [][Next]_vars

(* A thread that can take a step is run eventually; asyncio locks are      *)
(* granted in the order they were asked for.                               *)
FairSpec ==
  /\ Spec
  /\ \A t \in Threads : WF_vars(Read(t) \/ Update(t)) /\ SF_vars(Acquire(t))
-----------------------------------------------------------------------------
(* Every variable has the shape the code gives it. *)
TypeOK ==
  /\ now \in 0 .. MaxTime
  /\ remote \in [Keys -> Values \cup {Nothing}]
  /\ DistinctKeys(cache)
  /\ \A i \in DOMAIN cache : /\ cache[i].data \in Facts
                             /\ cache[i].key = cache[i].data.key
  /\ \A t \in Threads : /\ thread[t].pc \in Labels
                        /\ thread[t].op \in Ops \cup {"none"}
                        /\ thread[t].got \subseteq Facts
                        /\ reply[t].outcome \in Outcomes
                        /\ reply[t].facts \subseteq Facts
  /\ apart \in [Keys -> Reasons]

(* ReadsBounded: what a read returns was the record's value no longer ago  *)
(* than the lifetime of a local entry (lines 59 and 84), plus the time the *)
(* fetch that stored it and the read itself may take.  There are two       *)
(* exceptions, and the property says that there are no others: an entry in *)
(* front of it was assigned again while held (lines 45, 59, 92), or the    *)
(* sweep was misled by one that moved to the back (utilities, line 21).    *)
ReadsBounded ==
  \A t \in Threads : \A fact \in reply[t].facts :
    fact.late \/ reply[t].at - fact.asOf <= TTL + 2 * MaxCall

(* ClearsAllStale: a sweep that has ended left no entry that was stale by  *)
(* the time it read, as the docstring of __clear_cache__ has it.  Stated   *)
(* for one thread; several could store stale entries after the sweep.      *)
ClearsAllStale ==
  \A t \in Threads : At(t, "lookup") =>
    \A i \in DOMAIN cache : ~ Stale(cache[i], thread[t].clock)

(* Coherent: between operations the local cache agrees with the records.   *)
(* A record that something else changed, or a write of this process that   *)
(* raised, is beyond its knowledge; of its own calls, put and remove keep  *)
(* the two together (lines 45, 125-133), and truncate does not: it leaves  *)
(* the local entries of the records it takes away (lines 163-164), and     *)
(* they are the only ones it leaves wrong.                                 *)
Coherent ==
  (\A t \in Threads : At(t, "idle")) =>
    \A i \in DOMAIN cache : LET k == cache[i].key IN
      \/ cache[i].data.val = remote[k]
      \/ apart[k] = "changed"
      \/ apart[k] = "emptied" /\ remote[k] = Nothing

(* NoKeyError: no operation dies of an entry that vanished between its     *)
(* test and its use (lines 55-56, 103, 108 and the sweep).                 *)
NoKeyError == \A t \in Threads : reply[t].outcome # "KeyError"

(* OperationsEnd: no operation waits forever for a lock, nor sweeps or     *)
(* gathers forever while other threads change the cache.                   *)
OperationsEnd == \A t \in Threads : ~ At(t, "idle") ~> At(t, "idle")
=============================================================================
