----------------------------- MODULE ArgsCache ------------------------------
(***************************************************************************)
(* The asynchronous wrapper of @ArgsCache and @KwargsCache                 *)
(* (kh_common/caching/__init__.py).  A call is a coroutine; its first step *)
(* sweeps the cache and looks its key up without yielding to the event     *)
(* loop (the body under the asyncio lock has no await, so the lock is      *)
(* always free and nothing runs between the sweep and the lookup).  On a   *)
(* miss the wrapped function is awaited, other coroutines run meanwhile,   *)
(* and several calls may compute the same key.                             *)
(*                                                                         *)
(* The data a call of the wrapped function produces is abstracted to the   *)
(* key it was computed for and the time at which the function read its     *)
(* source.  The key of a call is what the wrapper builds from the          *)
(* arguments.                                                              *)
(***************************************************************************)
EXTENDS Integers, Sequences, OrderedCache

CONSTANTS
  Tasks,      \* coroutines
  Keys,       \* cache keys
  NoKey,      \* the key of a coroutine that is not in a call
  NoAnswer,   \* no call has returned yet
  TTL,        \* lifetime of an entry, in ticks
  MaxCall,    \* longest time the wrapped function takes, in ticks
  MaxTime     \* bound on the clock, for model checking only

ASSUME ArgsCacheAssumption ==
  /\ NoKey \notin Keys
  /\ TTL \in Nat
  /\ MaxCall \in Nat
  /\ MaxTime \in Nat
  /\ NoAnswer \notin [asked : Keys, data : [of : Keys, asOf : Nat], at : Nat]

VARIABLES now, cache, call, answer

vars == <<now, cache, call, answer>>

Data == [of : Keys, asOf : Nat]
Entries == [key : Keys, exp : Nat, data : Data]
Answers == [asked : Keys, data : Data, at : Nat]
Phases == {"idle", "called", "running", "computed"}
Calls == [phase : Phases, key : Keys \cup {NoKey}, started : Nat, asOf : Nat]

CallState(phase, key, started, asOf) ==
  [phase |-> phase, key |-> key, started |-> started, asOf |-> asOf]

Idle == CallState("idle", NoKey, 0, 0)

InFlight(t) == call[t].phase \in {"running", "computed"}

Init ==
  /\ now = 0
  /\ cache = << >>
  /\ call = [t \in Tasks |-> Idle]
  /\ answer = [t \in Tasks |-> NoAnswer]

(* The coroutine is created with its arguments; it has not run yet. *)
Call(t, k) ==
  /\ call[t].phase = "idle"
  /\ call' = [call EXCEPT ![t] = CallState("called", k, 0, 0)]
  /\ answer' = [answer EXCEPT ![t] = NoAnswer]
  /\ UNCHANGED <<now, cache>>

(* return copy(decorator.cache[key][1]) *)
Hit(t) ==
  /\ call[t].phase = "called"
  /\ \E n \in 0 .. Len(cache) :
       /\ StaleRun(cache, now, n)
       /\ cache' = AfterFirst(cache, n)
  /\ call[t].key \in HeldKeys(cache')
  /\ answer' = [answer EXCEPT ![t] =
       [asked |-> call[t].key, data |-> EntryOf(cache', call[t].key).data, at |-> now]]
  /\ call' = [call EXCEPT ![t] = Idle]
  /\ UNCHANGED now

(* not in the cache: the wrapped function starts *)
Miss(t) ==
  /\ call[t].phase = "called"
  /\ \E n \in 0 .. Len(cache) :
       /\ StaleRun(cache, now, n)
       /\ cache' = AfterFirst(cache, n)
  /\ call[t].key \notin HeldKeys(cache')
  /\ call' = [call EXCEPT ![t] = CallState("running", call[t].key, now, 0)]
  /\ UNCHANGED <<now, answer>>

(* the wrapped function reads whatever it computes its result from *)
Compute(t) ==
  /\ call[t].phase = "running"
  /\ call' = [call EXCEPT ![t] = CallState("computed", call[t].key, call[t].started, now)]
  /\ UNCHANGED <<now, cache, answer>>

(* decorator.cache[key] = (time() + TTL, data); return copy(data) *)
Store(t) ==
  /\ call[t].phase = "computed"
  /\ LET data == [of |-> call[t].key, asOf |-> call[t].asOf]
     IN  /\ cache' = StoreEntry(cache, CacheEntry(call[t].key, now + TTL, data))
         /\ answer' = [answer EXCEPT ![t] =
                         [asked |-> call[t].key, data |-> data, at |-> now]]
  /\ call' = [call EXCEPT ![t] = Idle]
  /\ UNCHANGED now

(* the wrapped function raises, or the coroutine is cancelled in it *)
Fail(t) ==
  /\ InFlight(t)
  /\ call' = [call EXCEPT ![t] = Idle]
  /\ UNCHANGED <<now, cache, answer>>

(* Time passes; a call of the wrapped function takes at most MaxCall. *)
Tick ==
  /\ now < MaxTime
  /\ \A t \in Tasks : InFlight(t) => now < call[t].started + MaxCall
  /\ now' = now + 1
  /\ UNCHANGED <<cache, call, answer>>

Next ==
  \/ Tick
  \/ \E t \in Tasks, k \in Keys : Call(t, k)
  \/ \E t \in Tasks : Hit(t) \/ Miss(t) \/ Compute(t) \/ Store(t) \/ Fail(t)

Spec == Init /\ [][Next]_vars
-----------------------------------------------------------------------------
(* Every variable has the shape the code gives it. *)
TypeOK ==
  /\ now \in Nat
  /\ cache \in Seq(Entries)
  /\ call \in [Tasks -> Calls]
  /\ answer \in [Tasks -> Answers \cup {NoAnswer}]

(* The largest age of the data a call returns: the entry's lifetime, the   *)
(* time the call that filled it took after reading its source, and the     *)
(* time for which a refreshed entry in front can shield a stale one from   *)
(* the sweep.                                                              *)
Bound == TTL + 2 * MaxCall

(* BoundedStaleness: whichever coroutine filled or refreshed the entry, in *)
(* whatever order, a call returns data computed for its own key (line 105  *)
(* returns the entry of the key that was looked up) and reflecting a       *)
(* source state no older than Bound.                                       *)
BoundedStaleness ==
  \A t \in Tasks : answer[t] # NoAnswer =>
    /\ answer[t].data.of = answer[t].asked
    /\ answer[t].data.asOf <= answer[t].at
    /\ answer[t].at - answer[t].data.asOf <= Bound

(* A call is in one of its phases with the times those phases record, and  *)
(* the clock has not run past the longest call.                            *)
CallsOK ==
  \A t \in Tasks :
    /\ call[t].phase # "idle" => call[t].key \in Keys
    /\ InFlight(t) => call[t].started <= now /\ now <= call[t].started + MaxCall
    /\ call[t].phase = "computed" =>
         call[t].started <= call[t].asOf /\ call[t].asOf <= now

(* An entry was written by a call that read its source at most MaxCall     *)
(* before, and was given a full TTL from then.                             *)
EntriesOK ==
  \A i \in DOMAIN cache :
    LET e == cache[i]
    IN  /\ e.data.of = e.key
        /\ TTL <= e.exp /\ e.exp <= now + TTL
        /\ e.data.asOf + TTL <= e.exp
        /\ e.exp <= e.data.asOf + TTL + MaxCall

(* ShieldBounded: expirations are not sorted along the cache, because a    *)
(* second call that computed the same key writes the entry anew in its old *)
(* place; but an entry never outlives one that stands behind it by more    *)
(* than MaxCall.                                                           *)
ShieldBounded ==
  \A i, j \in DOMAIN cache : i < j => cache[i].exp <= cache[j].exp + MaxCall

(* A call in flight missed its key when it started, so the entry another   *)
(* call has put there since, and all entries behind it, are younger.       *)
MissedBefore ==
  \A t \in Tasks, i \in DOMAIN cache :
    InFlight(t) /\ call[t].key = cache[i].key =>
      \A j \in DOMAIN cache : i <= j => call[t].started + TTL <= cache[j].exp

Inv ==
  /\ TypeOK
  /\ DistinctKeys(cache)
  /\ CallsOK
  /\ EntriesOK
  /\ ShieldBounded
  /\ MissedBefore
  /\ BoundedStaleness

(* The cached function keeps the promise of CachedCall. *)
Contract ==
  INSTANCE CachedCall WITH
    asked <- [t \in Tasks |-> IF call[t].phase = "idle" THEN {} ELSE {call[t].key}]

Implements == Contract!Spec
=============================================================================
