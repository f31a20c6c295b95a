-------------------------- MODULE ArgsCacheProofs ---------------------------
(***************************************************************************)
(* Proofs that ArgsCache keeps its inductive invariant, serves data of     *)
(* bounded age and implements CachedCall, for every number of coroutines,  *)
(* every set of keys and every TTL and duration of the cached function.    *)
(***************************************************************************)
EXTENDS ArgsCache, TLAPS

(* What is left of a cache once its first n entries are gone. *)
LEMMA SuffixFacts ==
  ASSUME NEW S, NEW c \in Seq(S), NEW n \in 0 .. Len(c)
  PROVE  /\ AfterFirst(c, n) \in Seq(S)
         /\ Len(AfterFirst(c, n)) = Len(c) - n
         /\ DOMAIN AfterFirst(c, n) = 1 .. Len(c) - n
         /\ \A i \in 1 .. Len(c) - n : /\ i + n \in DOMAIN c
                                       /\ AfterFirst(c, n)[i] = c[i + n]
BY DEF AfterFirst

(* Storing an entry either replaces the entry of its key in place or       *)
(* appends it; every other entry stays where it is.                        *)
LEMMA StoreFacts ==
  ASSUME NEW c \in Seq(Entries), NEW e \in Entries
  PROVE  /\ StoreEntry(c, e) \in Seq(Entries)
         /\ \A i \in DOMAIN StoreEntry(c, e) :
              \/ i \in DOMAIN c /\ c[i].key # e.key /\ StoreEntry(c, e)[i] = c[i]
              \/ i \in DOMAIN c /\ c[i].key = e.key /\ StoreEntry(c, e)[i] = e
              \/ /\ e.key \notin HeldKeys(c)
                 /\ i = Len(c) + 1 /\ StoreEntry(c, e)[i] = e
         /\ DOMAIN StoreEntry(c, e) = DOMAIN c
              \/ (e.key \notin HeldKeys(c) /\ DOMAIN StoreEntry(c, e) = 1 .. Len(c) + 1)
<1>1. CASE e.key \in HeldKeys(c)
  <2>1. StoreEntry(c, e) = [i \in 1 .. Len(c) |-> IF c[i].key = e.key THEN e ELSE c[i]]
    BY <1>1 DEF StoreEntry
  <2>2. \A i \in 1 .. Len(c) : (IF c[i].key = e.key THEN e ELSE c[i]) \in Entries
    OBVIOUS
  <2>3. StoreEntry(c, e) \in [1 .. Len(c) -> Entries]
    BY <2>1, <2>2
  <2>4. StoreEntry(c, e) \in Seq(Entries)
    BY <2>3
  <2>. QED  BY <2>1, <2>4
<1>2. CASE e.key \notin HeldKeys(c)
  <2>1. StoreEntry(c, e) = Append(c, e)
    BY <1>2 DEF StoreEntry
  <2>. QED  BY <1>2, <2>1 DEF HeldKeys
<1>. QED  BY <1>1, <1>2

(* An entry that is found is one of the cache. *)
LEMMA EntryFacts ==
  ASSUME NEW c, NEW k \in HeldKeys(c)
  PROVE  \E i \in DOMAIN c : c[i].key = k /\ EntryOf(c, k) = c[i]
BY DEF HeldKeys, EntryOf
-----------------------------------------------------------------------------
LEMMA InitInv == Init => Inv
BY ArgsCacheAssumption
   DEF Init, Inv, TypeOK, DistinctKeys, CallsOK, EntriesOK, ShieldBounded,
       MissedBefore, BoundedStaleness, Calls, Phases, Idle, CallState, InFlight

(* The sweep keeps what is true of the entries: it only drops some. *)
LEMMA SweepKeeps ==
  ASSUME Inv, NEW n \in 0 .. Len(cache), cache' = AfterFirst(cache, n), now' = now
  PROVE  /\ cache' \in Seq(Entries)
         /\ DistinctKeys(cache')
         /\ EntriesOK'
         /\ ShieldBounded'
         /\ \A i \in DOMAIN cache' : i + n \in DOMAIN cache /\ cache'[i] = cache[i + n]
<1>1. cache \in Seq(Entries)
  BY DEF Inv, TypeOK
<1>2. /\ cache' \in Seq(Entries)
      /\ DOMAIN cache' = 1 .. Len(cache) - n
      /\ \A i \in DOMAIN cache' : i \in Nat /\ i + n \in DOMAIN cache /\ cache'[i] = cache[i + n]
  <2>1. /\ AfterFirst(cache, n) \in Seq(Entries)
        /\ DOMAIN AfterFirst(cache, n) = 1 .. Len(cache) - n
        /\ \A i \in 1 .. Len(cache) - n :
             i + n \in DOMAIN cache /\ AfterFirst(cache, n)[i] = cache[i + n]
    BY <1>1, SuffixFacts
  <2>2. \A i \in 1 .. Len(cache) - n : i \in Nat
    BY <1>1
  <2>. QED  BY <2>1, <2>2
<1>3. DistinctKeys(cache')
  BY <1>2 DEF Inv, DistinctKeys
<1>4. EntriesOK'
  BY <1>2 DEF Inv, EntriesOK
<1>5. ShieldBounded'
  BY SMTT(30), <1>2 DEF Inv, ShieldBounded
<1>. QED  BY <1>2, <1>3, <1>4, <1>5

LEMMA CallStep ==
  ASSUME Inv, NEW t \in Tasks, NEW k \in Keys, Call(t, k)
  PROVE  Inv'
<1>. USE DEF Inv, TypeOK
<1>1. call' = [call EXCEPT ![t] = [phase |-> "called", key |-> k, started |-> 0, asOf |-> 0]]
  BY DEF Call, CallState
<1>2. call' \in [Tasks -> Calls]
  BY <1>1 DEF Calls, Phases
<1>3. \A u \in Tasks : InFlight(u)' => u # t /\ call'[u] = call[u] /\ InFlight(u)
  BY <1>1 DEF InFlight, Calls
<1>4. CallsOK'
  BY <1>1, <1>2, <1>3 DEF CallsOK, Call, Calls, InFlight
<1>5. MissedBefore'
  BY <1>3 DEF MissedBefore, Call
<1>6. BoundedStaleness' /\ answer' \in [Tasks -> Answers \cup {NoAnswer}]
  BY DEF BoundedStaleness, Call
<1>. QED
  BY <1>2, <1>4, <1>5, <1>6 DEF Call, EntriesOK, ShieldBounded

(* The age of the data of an entry that stands behind one which is fresh.  *)
LEMMA AgeBehindHead ==
  ASSUME NEW clock \in Nat, NEW head \in Nat, NEW exp \in Nat, NEW asOf \in Nat,
         NEW ttl \in Nat, NEW longest \in Nat,
         clock <= head, head <= exp + longest, exp <= asOf + ttl + longest
  PROVE  clock - asOf <= ttl + 2 * longest
  OBVIOUS

LEMMA HitStep ==
  ASSUME Inv, NEW t \in Tasks, Hit(t)
  PROVE  Inv'
<1>1. PICK n \in 0 .. Len(cache) : StaleRun(cache, now, n) /\ cache' = AfterFirst(cache, n)
  BY DEF Hit
<1>2. /\ cache' \in Seq(Entries) /\ DistinctKeys(cache') /\ EntriesOK' /\ ShieldBounded'
      /\ \A i \in DOMAIN cache' : i + n \in DOMAIN cache /\ cache'[i] = cache[i + n]
  BY <1>1, SweepKeeps DEF Hit
<1>3. \A u \in Tasks : InFlight(u)' => u # t /\ call'[u] = call[u] /\ InFlight(u)
  BY DEF Hit, InFlight, Idle, CallState, Inv, TypeOK
<1>4. CallsOK' /\ call' \in [Tasks -> Calls]
  BY <1>3 DEF CallsOK, Hit, Idle, CallState, Calls, Phases, InFlight, Inv, TypeOK
<1>5. MissedBefore'
  <2>. SUFFICES ASSUME NEW u \in Tasks, NEW i \in DOMAIN cache', InFlight(u)',
                       call'[u].key = cache'[i].key, NEW j \in DOMAIN cache', i <= j
                PROVE  call'[u].started + TTL <= cache'[j].exp
    BY DEF MissedBefore
  <2>1. i \in Nat /\ j \in Nat /\ i + n <= j + n
    BY <1>2
  <2>. QED  BY <1>2, <1>3, <2>1 DEF Inv, MissedBefore
<1>6. PICK e \in DOMAIN cache' : cache'[e].key = call[t].key
                              /\ EntryOf(cache', call[t].key) = cache'[e]
  BY EntryFacts DEF Hit
<1>7. cache'[e] \in Entries /\ cache'[1] \in Entries /\ 1 \in DOMAIN cache'
  BY <1>2
<1>8. now <= cache'[1].exp
  BY SMTT(30), <1>1, <1>2, <1>7 DEF StaleRun, Stale, AfterFirst, Inv, TypeOK, Entries
<1>9. cache'[1].exp <= cache'[e].exp + MaxCall
  <2>1. CASE e = 1
    BY <2>1, <1>7, ArgsCacheAssumption DEF Entries
  <2>2. CASE 1 < e
    BY <2>2, <1>2, <1>7 DEF ShieldBounded
  <2>. QED  BY <2>1, <2>2, <1>2
<1>10. /\ cache'[e].data.of = call[t].key
       /\ cache'[e].data.asOf <= now
       /\ now - cache'[e].data.asOf <= Bound
  <2>1. /\ cache'[e].data.of = cache'[e].key
        /\ cache'[e].exp <= now + TTL
        /\ cache'[e].data.asOf + TTL <= cache'[e].exp
        /\ cache'[e].exp <= cache'[e].data.asOf + TTL + MaxCall
    BY <1>2 DEF EntriesOK, Hit
  <2>2. cache'[e].exp \in Nat /\ cache'[1].exp \in Nat /\ cache'[e].data.asOf \in Nat
        /\ now \in Nat /\ TTL \in Nat /\ MaxCall \in Nat
    BY <1>7, ArgsCacheAssumption DEF Entries, Data, Inv, TypeOK
  <2>3. now - cache'[e].data.asOf <= TTL + 2 * MaxCall
    BY <2>1, <2>2, <1>8, <1>9, AgeBehindHead
  <2>. QED  BY SMTT(30), <2>1, <2>2, <2>3, <1>6 DEF Bound
<1>11. answer' = [answer EXCEPT ![t] =
                    [asked |-> call[t].key, data |-> cache'[e].data, at |-> now]]
  BY <1>6 DEF Hit
<1>12. answer' \in [Tasks -> Answers \cup {NoAnswer}]
  BY <1>6, <1>7, <1>11 DEF Answers, Entries, Inv, TypeOK
<1>13. BoundedStaleness'
  BY <1>10, <1>11 DEF BoundedStaleness, Inv, TypeOK
<1>. QED
  BY <1>2, <1>4, <1>5, <1>12, <1>13 DEF Hit, Inv, TypeOK

LEMMA MissStep ==
  ASSUME Inv, NEW t \in Tasks, Miss(t)
  PROVE  Inv'
<1>1. PICK n \in 0 .. Len(cache) : cache' = AfterFirst(cache, n)
  BY DEF Miss
<1>2. /\ cache' \in Seq(Entries) /\ DistinctKeys(cache') /\ EntriesOK' /\ ShieldBounded'
      /\ \A i \in DOMAIN cache' : i + n \in DOMAIN cache /\ cache'[i] = cache[i + n]
  BY <1>1, SweepKeeps DEF Miss
<1>3. call' \in [Tasks -> Calls]
  BY DEF Miss, CallState, Calls, Phases, Inv, TypeOK
<1>4. /\ call'[t].key = call[t].key /\ call'[t].started = now /\ call'[t].phase = "running"
      /\ \A u \in Tasks \ {t} : call'[u] = call[u]
  BY DEF Miss, CallState, Calls, Inv, TypeOK
<1>5. CallsOK'
  BY <1>4, ArgsCacheAssumption DEF CallsOK, InFlight, Miss, Inv, TypeOK
<1>6. MissedBefore'
  <2>. SUFFICES ASSUME NEW u \in Tasks, NEW i \in DOMAIN cache', InFlight(u)',
                       call'[u].key = cache'[i].key, NEW j \in DOMAIN cache', i <= j
                PROVE  call'[u].started + TTL <= cache'[j].exp
    BY DEF MissedBefore
  <2>1. u # t
    BY <1>4 DEF Miss, HeldKeys
  <2>2. i \in Nat /\ j \in Nat /\ i + n <= j + n
    BY <1>2
  <2>. QED  BY <1>2, <1>4, <2>1, <2>2 DEF Inv, MissedBefore, InFlight
<1>7. BoundedStaleness'
  BY DEF BoundedStaleness, Miss, Inv
<1>. QED
  BY <1>2, <1>3, <1>5, <1>6, <1>7 DEF Miss, Inv, TypeOK

LEMMA ComputeStep ==
  ASSUME Inv, NEW t \in Tasks, Compute(t)
  PROVE  Inv'
<1>1. /\ call'[t] = CallState("computed", call[t].key, call[t].started, now)
      /\ \A u \in Tasks \ {t} : call'[u] = call[u]
      /\ call[t].phase = "running"
  BY DEF Compute, Inv, TypeOK
<1>2. call' \in [Tasks -> Calls]
  BY DEF Compute, CallState, Calls, Phases, Inv, TypeOK
<1>3. CallsOK'
  BY <1>1 DEF CallsOK, CallState, InFlight, Compute, Calls, Inv, TypeOK
<1>4. MissedBefore'
  BY <1>1 DEF MissedBefore, CallState, InFlight, Compute, Inv
<1>. QED
  BY <1>2, <1>3, <1>4
     DEF Compute, Inv, TypeOK, EntriesOK, ShieldBounded, BoundedStaleness

LEMMA FailStep ==
  ASSUME Inv, NEW t \in Tasks, Fail(t)
  PROVE  Inv'
<1>1. \A u \in Tasks : InFlight(u)' => u # t /\ call'[u] = call[u] /\ InFlight(u)
  BY DEF Fail, InFlight, Idle, CallState, Inv, TypeOK
<1>2. call' \in [Tasks -> Calls]
  BY DEF Fail, Idle, CallState, Calls, Phases, Inv, TypeOK
<1>3. CallsOK'
  BY <1>1, <1>2 DEF CallsOK, Fail, Idle, CallState, InFlight, Inv, TypeOK
<1>4. MissedBefore'
  BY <1>1 DEF MissedBefore, Fail, Inv
<1>. QED
  BY <1>2, <1>3, <1>4
     DEF Fail, Inv, TypeOK, EntriesOK, ShieldBounded, BoundedStaleness

LEMMA TickStep ==
  ASSUME Inv, Tick
  PROVE  Inv'
<1>1. now \in Nat /\ now' = now + 1
  BY DEF Tick, Inv, TypeOK
<1>2. CallsOK'
  <2>. SUFFICES ASSUME NEW t \in Tasks
                PROVE  /\ call[t].phase # "idle" => call[t].key \in Keys
                       /\ InFlight(t) => call[t].started <= now' /\ now' <= call[t].started + MaxCall
                       /\ call[t].phase = "computed" =>
                            call[t].started <= call[t].asOf /\ call[t].asOf <= now'
    BY DEF CallsOK, Tick, InFlight
  <2>1. call[t].started \in Nat /\ call[t].asOf \in Nat
    BY DEF Calls, Inv, TypeOK
  <2>. QED  BY <1>1, <2>1, ArgsCacheAssumption DEF Tick, CallsOK, Inv
<1>3. EntriesOK'
  <2>. SUFFICES ASSUME NEW i \in DOMAIN cache
                PROVE  cache[i].exp <= now' + TTL
    BY DEF EntriesOK, Inv, Tick
  <2>1. cache[i] \in Entries
    BY DEF Inv, TypeOK
  <2>2. cache[i].exp \in Nat /\ cache[i].exp <= now + TTL
    BY <2>1 DEF EntriesOK, Entries, Inv
  <2>. QED  BY <1>1, <2>2, ArgsCacheAssumption
<1>. QED
  BY <1>1, <1>2, <1>3
     DEF Tick, Inv, TypeOK, ShieldBounded, MissedBefore, BoundedStaleness, InFlight

(* Storing a computed result.  The new entry expires last of all; if it    *)
(* replaces an entry in place, MissedBefore bounds by how much it now      *)
(* outlives the entries behind it.                                         *)
LEMMA StoreStep ==
  ASSUME Inv, NEW t \in Tasks, Store(t)
  PROVE  Inv'
<1>. DEFINE data == [of |-> call[t].key, asOf |-> call[t].asOf]
            e == CacheEntry(call[t].key, now + TTL, data)
<1>1. /\ now \in Nat /\ TTL \in Nat /\ MaxCall \in Nat
      /\ call[t].key \in Keys /\ call[t].started \in Nat /\ call[t].asOf \in Nat
      /\ call[t].started <= call[t].asOf /\ call[t].asOf <= now
      /\ now <= call[t].started + MaxCall
      /\ InFlight(t)
  BY ArgsCacheAssumption DEF Store, InFlight, Inv, TypeOK, CallsOK, Calls
<1>2. /\ e \in Entries /\ e.key = call[t].key /\ e.exp = now + TTL
      /\ e.data.of = call[t].key /\ e.data.asOf = call[t].asOf
  BY <1>1 DEF CacheEntry, Entries, Data
<1>3. cache \in Seq(Entries) /\ cache' = StoreEntry(cache, e)
  BY DEF Store, Inv, TypeOK
<1>4. /\ cache' \in Seq(Entries)
      /\ \A i \in DOMAIN cache' :
           \/ i \in DOMAIN cache /\ cache[i].key # e.key /\ cache'[i] = cache[i]
           \/ i \in DOMAIN cache /\ cache[i].key = e.key /\ cache'[i] = e
           \/ e.key \notin HeldKeys(cache) /\ i = Len(cache) + 1 /\ cache'[i] = e
  BY <1>2, <1>3, StoreFacts
<1>5. \A i \in DOMAIN cache : /\ i \in Nat /\ i <= Len(cache)
                              /\ cache[i].exp \in Nat /\ cache[i].exp <= now + TTL
  <2>1. \A i \in DOMAIN cache : i \in Nat /\ i <= Len(cache) /\ cache[i] \in Entries
    BY <1>3
  <2>. QED  BY <2>1 DEF Entries, EntriesOK, Inv
<1>6. \A i \in DOMAIN cache' : i \in Nat
  BY <1>4
<1>7. DistinctKeys(cache')
  BY <1>2, <1>4 DEF DistinctKeys, HeldKeys, Inv
<1>8. EntriesOK'
  <2>. SUFFICES ASSUME NEW i \in DOMAIN cache'
                PROVE  /\ cache'[i].data.of = cache'[i].key
                       /\ TTL <= cache'[i].exp /\ cache'[i].exp <= now + TTL
                       /\ cache'[i].data.asOf + TTL <= cache'[i].exp
                       /\ cache'[i].exp <= cache'[i].data.asOf + TTL + MaxCall
    BY DEF EntriesOK, Store
  <2>1. CASE cache'[i] = e
    BY <2>1, <1>1, <1>2
  <2>2. CASE i \in DOMAIN cache /\ cache'[i] = cache[i]
    BY <2>2 DEF EntriesOK, Inv
  <2>. QED  BY <2>1, <2>2, <1>4
<1>9. ShieldBounded'
  <2>. SUFFICES ASSUME NEW i \in DOMAIN cache', NEW j \in DOMAIN cache', i < j
                PROVE  cache'[i].exp <= cache'[j].exp + MaxCall
    BY DEF ShieldBounded
  <2>1. cache'[i].exp \in Nat /\ cache'[i].exp <= now + TTL
    BY SMTT(30), <1>1, <1>2, <1>4, <1>5
  <2>2. CASE cache'[j] = e
    BY <2>1, <2>2, <1>1, <1>2
  <2>3. CASE j \in DOMAIN cache /\ cache'[j] = cache[j]
    <3>1. i \in DOMAIN cache
      BY <2>3, <1>4, <1>5, <1>6
    <3>2. CASE cache'[i] = cache[i]
      BY <3>1, <3>2, <2>3 DEF ShieldBounded, Inv
    <3>3. CASE cache[i].key = e.key /\ cache'[i] = e
      <4>1. call[t].started + TTL <= cache[j].exp
        BY <3>1, <3>3, <2>3, <1>1, <1>2, <1>6 DEF MissedBefore, Inv
      <4>. QED  BY SMTT(30), <4>1, <3>3, <2>3, <1>1, <1>2, <1>5
    <3>. QED  BY <3>1, <3>2, <3>3, <1>4, <1>5
  <2>. QED  BY <2>2, <2>3, <1>4
<1>10. \A u \in Tasks : InFlight(u)' => u # t /\ call'[u] = call[u] /\ InFlight(u)
  BY DEF Store, InFlight, Idle, CallState, Inv, TypeOK
<1>11. call' \in [Tasks -> Calls]
  BY DEF Store, Idle, CallState, Calls, Phases, Inv, TypeOK
<1>12. CallsOK'
  BY <1>10, <1>11 DEF CallsOK, Store, Idle, CallState, InFlight, Inv, TypeOK
<1>13. MissedBefore'
  <2>. SUFFICES ASSUME NEW u \in Tasks, NEW i \in DOMAIN cache', InFlight(u)',
                       call'[u].key = cache'[i].key, NEW j \in DOMAIN cache', i <= j
                PROVE  call'[u].started + TTL <= cache'[j].exp
    BY DEF MissedBefore
  <2>1. /\ call'[u] = call[u] /\ InFlight(u) /\ call[u].started \in Nat
        /\ call[u].started <= now
    BY <1>10 DEF CallsOK, Calls, Inv, TypeOK
  <2>2. CASE cache'[j] = e
    BY <2>1, <2>2, <1>1, <1>2
  <2>3. CASE j \in DOMAIN cache /\ cache'[j] = cache[j]
    <3>1. i \in DOMAIN cache
      BY <2>3, <1>4, <1>5, <1>6
    <3>2. cache'[i].key = cache[i].key
      BY <3>1, <1>4, <1>5
    <3>. QED  BY <3>1, <3>2, <2>1, <2>3 DEF MissedBefore, Inv
  <2>. QED  BY <2>2, <2>3, <1>4
<1>14. answer' = [answer EXCEPT ![t] = [asked |-> call[t].key, data |-> data, at |-> now]]
  BY DEF Store
<1>15. answer' \in [Tasks -> Answers \cup {NoAnswer}]
  BY <1>1, <1>14 DEF Answers, Data, Inv, TypeOK
<1>16. BoundedStaleness'
  <2>1. now - call[t].asOf <= Bound
    BY <1>1 DEF Bound
  <2>. QED  BY <2>1, <1>1, <1>14 DEF BoundedStaleness, Inv, TypeOK
<1>. QED
  BY <1>4, <1>7, <1>8, <1>9, <1>11, <1>12, <1>13, <1>15, <1>16 DEF Store, Inv, TypeOK

LEMMA NextInv == Inv /\ [Next]_vars => Inv'
<1>. SUFFICES ASSUME Inv, [Next]_vars
              PROVE  Inv'
  OBVIOUS
<1>1. CASE Tick
  BY <1>1, TickStep
<1>2. ASSUME NEW t \in Tasks, NEW k \in Keys, Call(t, k)
      PROVE  Inv'
  BY <1>2, CallStep
<1>3. ASSUME NEW t \in Tasks, Hit(t)
      PROVE  Inv'
  BY <1>3, HitStep
<1>4. ASSUME NEW t \in Tasks, Miss(t)
      PROVE  Inv'
  BY <1>4, MissStep
<1>5. ASSUME NEW t \in Tasks, Compute(t)
      PROVE  Inv'
  BY <1>5, ComputeStep
<1>6. ASSUME NEW t \in Tasks, Store(t)
      PROVE  Inv'
  BY <1>6, StoreStep
<1>7. ASSUME NEW t \in Tasks, Fail(t)
      PROVE  Inv'
  BY <1>7, FailStep
<1>8. CASE UNCHANGED vars
  BY <1>8 DEF vars, Inv, TypeOK, CallsOK, EntriesOK, ShieldBounded, MissedBefore,
              BoundedStaleness, InFlight
<1>. QED  BY <1>1, <1>2, <1>3, <1>4, <1>5, <1>6, <1>7, <1>8 DEF Next
-----------------------------------------------------------------------------
(* The inductive invariant holds in every behaviour. *)
THEOREM Invariance == Spec => []Inv
BY InitInv, NextInv, PTL DEF Spec

(* Every variable keeps its type. *)
THEOREM TypeCorrect == Spec => []TypeOK
<1>1. Inv => TypeOK
  BY DEF Inv
<1>. QED  BY <1>1, Invariance, PTL

(* No call is ever answered with data for another key or with data that    *)
(* is older than Bound, whatever the other coroutines do to the cache.     *)
THEOREM StalenessTheorem == Spec => []BoundedStaleness
<1>1. Inv => BoundedStaleness
  BY DEF Inv
<1>. QED  BY <1>1, Invariance, PTL

(* An entry outlives those behind it by at most the duration of a call.    *)
THEOREM ShieldTheorem == Spec => []ShieldBounded
<1>1. Inv => ShieldBounded
  BY DEF Inv
<1>. QED  BY <1>1, Invariance, PTL
-----------------------------------------------------------------------------
(* Every step of the wrapper is a step of CachedCall, or leaves the caller *)
(* with what it had.                                                       *)
LEMMA StepImplements ==
  ASSUME Inv, Inv', [Next]_vars
  PROVE  [Contract!Next]_(Contract!vars)
<1>. DEFINE Asked == [t \in Tasks |-> IF call[t].phase = "idle" THEN {} ELSE {call[t].key}]
<1>. USE DEF Contract!vars
<1>0. now \in Nat /\ call \in [Tasks -> Calls] /\ answer \in [Tasks -> Answers \cup {NoAnswer}]
  BY DEF Inv, TypeOK
<1>1. CASE Tick
  BY <1>1 DEF Tick, Contract!Next, Contract!Tick
<1>2. ASSUME NEW t \in Tasks, NEW k \in Keys, Call(t, k)
      PROVE  Contract!Ask(t, k)
  <2>1. Asked[t] = {}
    BY <1>2 DEF Call
  <2>2. Asked' = [Asked EXCEPT ![t] = {k}]
    BY <1>0, <1>2 DEF Call, CallState
  <2>. QED  BY <1>2, <2>1, <2>2 DEF Call, Contract!Ask
<1>3. ASSUME NEW t \in Tasks, Hit(t) \/ Store(t)
      PROVE  Contract!Next
  <2>1. PICK data \in Data :
          answer' = [answer EXCEPT ![t] = [asked |-> call[t].key, data |-> data, at |-> now]]
    <3>1. CASE Hit(t)
      <4>1. PICK i \in DOMAIN cache' : EntryOf(cache', call[t].key) = cache'[i]
        BY <3>1, EntryFacts DEF Hit
      <4>2. cache'[i] \in Entries
        BY <4>1 DEF Inv, TypeOK
      <4>. QED  BY <3>1, <4>1, <4>2 DEF Hit, Entries
    <3>2. CASE Store(t)
      <4>1. [of |-> call[t].key, asOf |-> call[t].asOf] \in Data
        BY <1>0, <3>2 DEF Store, Data, Calls, CallsOK, Inv
      <4>. QED  BY <3>2, <4>1 DEF Store
    <3>. QED  BY <1>3, <3>1, <3>2
  <2>2. answer'[t] # NoAnswer /\ answer'[t] = [asked |-> call[t].key, data |-> data, at |-> now]
    <3>1. answer'[t] = [asked |-> call[t].key, data |-> data, at |-> now]
      BY <1>0, <2>1
    <3>2. call[t].key \in Keys
      BY <1>3 DEF Hit, Store, CallsOK, Inv
    <3>. QED  BY <1>0, <3>1, <3>2, ArgsCacheAssumption DEF Data
  <2>3. data.of = call[t].key /\ data.asOf <= now /\ now - data.asOf <= Bound
    BY <2>2 DEF BoundedStaleness, Inv
  <2>4. Asked[t] = {data.of}
    BY <1>3, <2>3 DEF Hit, Store
  <2>5. call'[t].phase = "idle" /\ \A u \in Tasks \ {t} : call'[u] = call[u]
    BY <1>0, <1>3 DEF Hit, Store, Idle, CallState
  <2>6. Asked' = [Asked EXCEPT ![t] = {}]
    BY <2>5
  <2>7. data = [of |-> data.of, asOf |-> data.asOf] /\ data.of \in Keys /\ data.asOf \in 0 .. now
    BY <1>0, <2>3 DEF Data
  <2>8. answer' = [answer EXCEPT ![t] =
          [asked |-> data.of, data |-> [of |-> data.of, asOf |-> data.asOf], at |-> now]]
    BY <2>1, <2>3, <2>7
  <2>9. Contract!Respond(t, data.of, data.asOf)
    BY <1>3, <2>3, <2>4, <2>6, <2>8 DEF Contract!Respond, Hit, Store
  <2>. QED  BY <2>7, <2>9 DEF Contract!Next
<1>4. ASSUME NEW t \in Tasks, Miss(t) \/ Compute(t)
      PROVE  UNCHANGED <<now, Asked, answer>>
  <2>1. call[t].phase # "idle" /\ call'[t].phase # "idle" /\ call'[t].key = call[t].key
    BY <1>0, <1>4 DEF Miss, Compute, CallState
  <2>2. \A u \in Tasks \ {t} : call'[u] = call[u]
    BY <1>0, <1>4 DEF Miss, Compute
  <2>3. Asked' = Asked
    BY <2>1, <2>2
  <2>. QED  BY <1>4, <2>3 DEF Miss, Compute
<1>5. ASSUME NEW t \in Tasks, Fail(t)
      PROVE  Contract!Raise(t)
  <2>1. Asked[t] # {} /\ Asked' = [Asked EXCEPT ![t] = {}]
    BY <1>0, <1>5 DEF Fail, InFlight, Idle, CallState
  <2>. QED  BY <1>5, <2>1 DEF Fail, Contract!Raise
<1>6. CASE UNCHANGED vars
  BY <1>6 DEF vars
<1>. QED
  BY <1>1, <1>2, <1>3, <1>4, <1>5, <1>6 DEF Next, Contract!Next

(* The wrapper implements the contract of a cached function: this is what  *)
(* its callers may rely on without knowing how the cache is swept, filled  *)
(* and refreshed.                                                          *)
THEOREM ImplementsTheorem == Spec => Implements
<1>1. Init => Contract!Init
  BY DEF Init, Idle, CallState, Contract!Init
<1>2. Inv /\ Inv' /\ [Next]_vars => [Contract!Next]_(Contract!vars)
  BY StepImplements
<1>. QED  BY <1>1, <1>2, Invariance, PTL DEF Spec, Implements, Contract!Spec
=============================================================================
