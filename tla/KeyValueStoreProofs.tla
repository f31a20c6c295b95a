------------------------ MODULE KeyValueStoreProofs -------------------------
(***************************************************************************)
(* Proofs about the local cache of a KeyValueStore: for any number of      *)
(* threads, keys and values, any local TTL and any duration of a call, a   *)
(* read is no older than ReadsBounded says; and where a process only reads *)
(* and removes, no read is late.                                           *)
(***************************************************************************)
EXTENDS KeyValueStore, TLAPS

Entries == [key : Keys, exp : Nat, data : Facts]

ThreadStates ==
  [op : Ops \cup {"none"}, pc : Labels, keys : SUBSET Keys, val : Values \cup {Nothing},
   clock : 0 .. MaxTime, head : Keys \cup {Nothing}, misled : BOOLEAN,
   todo : SUBSET Keys, local : SUBSET Keys, got : SUBSET Facts, exp : Nat]

Replies == [outcome : Outcomes, at : 0 .. MaxTime, facts : SUBSET Facts]

(* An entry that is not late waits for no entry in front of it for longer  *)
(* than a call after its own end.                                          *)
CacheOK(c, n) ==
  /\ c \in Seq(Entries) /\ DistinctKeys(c)
  /\ \A i \in DOMAIN c : c[i].key = c[i].data.key /\ c[i].exp <= n + TTL
  /\ \A i, j \in DOMAIN c :
       j <= i => c[i].data.late \/ c[j].exp <= c[i].data.asOf + TTL + MaxCall

(* a fact that a thread may return, and one it has just got from the store *)
Timely(q, fact) == fact.late \/ q.clock <= fact.asOf + TTL + MaxCall
Fresh(q, fact, n) == ~ fact.late /\ q.clock <= fact.asOf /\ fact.asOf <= n

ThreadOK(q, n) ==
  /\ q \in ThreadStates
  /\ q.pc \notin {"idle", "empty"} => q.keys # {}
  /\ q.pc = "write" => q.val \in Values
  /\ q.pc \notin {"idle", "wait"} => q.clock <= n /\ n <= q.clock + MaxCall
  /\ q.pc \in {"wait", "peek", "judge", "drop", "lookup"} => q.got = {} /\ q.exp = 0
  /\ q.pc \in {"fill", "keep"} => q.got # {} /\ \A fact \in q.got : Fresh(q, fact, n)
  /\ q.pc \in {"stamp", "gather"} =>
       \A fact \in q.got : Timely(q, fact) /\ (fact.key \in q.todo => Fresh(q, fact, n))
  /\ q.pc = "gather" => q.exp <= n + TTL

(* What a thread that has swept the cache may find in it.                  *)
MayFind(q, c) ==
  q.pc \in {"lookup", "hit", "fetch_many", "stamp", "gather"} /\ ~ q.misled =>
    \A i \in DOMAIN c : Timely(q, c[i].data)

ReplyOK(r) ==
  r \in Replies /\ \A fact \in r.facts : fact.late \/ r.at - fact.asOf <= TTL + 2 * MaxCall

Inv ==
  /\ now \in 0 .. MaxTime
  /\ remote \in [Keys -> Values \cup {Nothing}]
  /\ CacheOK(cache, now)
  /\ thread \in [Threads -> ThreadStates]
  /\ \A t \in Threads : ThreadOK(thread[t], now) /\ MayFind(thread[t], cache)
  /\ reply \in [Threads -> Replies]
  /\ \A t \in Threads : ReplyOK(reply[t])
  /\ apart \in [Keys -> Reasons]
-----------------------------------------------------------------------------
LEMMA Constants == TTL \in Nat /\ MaxCall \in Nat /\ MaxTime \in Nat /\ Nothing \notin Keys \cup Values
BY KeyValueStoreAssumption

LEMMA TheKeyFact ==
  ASSUME NEW t \in Threads, thread[t].keys # {}, thread[t].keys \in SUBSET Keys
  PROVE  TheKey(t) \in thread[t].keys /\ TheKey(t) \in Keys
<1>1. TheKey(t) \in thread[t].keys
  <2>1. PICK k \in thread[t].keys : TRUE
    OBVIOUS
  <2>. QED
    BY <2>1 DEF TheKey
<1>. QED
  BY <1>1

(* The entry of a held key is in the cache, and is the only one.           *)
LEMMA EntryFact ==
  ASSUME NEW c \in Seq(Entries), DistinctKeys(c), NEW k \in HeldKeys(c)
  PROVE  /\ \E i \in DOMAIN c : EntryOf(c, k) = c[i] /\ c[i].key = k
         /\ \A i \in DOMAIN c : c[i].key = k => EntryOf(c, k) = c[i]
<1>. DEFINE place == CHOOSE i \in DOMAIN c : c[i].key = k
<1>1. place \in DOMAIN c /\ c[place].key = k
  BY DEF HeldKeys
<1>2. EntryOf(c, k) = c[place]
  BY DEF EntryOf
<1>. QED
  BY <1>1, <1>2 DEF DistinctKeys

(* What a deletion leaves, and that it leaves it in order.                 *)
LEMMA DropFacts ==
  ASSUME NEW n \in Nat, NEW c, CacheOK(c, n), NEW k \in HeldKeys(c)
  PROVE  /\ CacheOK(DropKey(c, k), n)
         /\ \A i \in DOMAIN DropKey(c, k) : \E j \in DOMAIN c : DropKey(c, k)[i] = c[j]
<1>. DEFINE place == CHOOSE i \in DOMAIN c : c[i].key = k
            Old(i) == IF i < place THEN i ELSE i + 1
            d == DropKey(c, k)
<1>1. place \in DOMAIN c /\ c[place].key = k
  BY DEF HeldKeys
<1>2. c \in Seq(Entries) /\ DOMAIN c = 1 .. Len(c) /\ Len(c) \in Nat
  BY DEF CacheOK
<1>3. Len(c) - 1 \in Nat
  BY <1>1, <1>2
<1>4. d = [i \in 1 .. Len(c) - 1 |-> c[Old(i)]]
  BY DEF DropKey
<1>. HIDE DEF place, d
<1>5. /\ \A i \in 1 .. Len(c) - 1 : Old(i) \in DOMAIN c
      /\ \A i, j \in 1 .. Len(c) - 1 : Old(i) = Old(j) => i = j
      /\ \A i, j \in 1 .. Len(c) - 1 : j <= i => Old(j) <= Old(i)
  BY <1>1, <1>2
<1>6. DOMAIN d = 1 .. Len(c) - 1 /\ \A i \in DOMAIN d : d[i] = c[Old(i)]
  BY <1>4
<1>. HIDE DEF Old
<1>7. \A i \in DOMAIN c : c[i] \in Entries
  BY <1>2
<1>8. d \in [1 .. Len(c) - 1 -> Entries]
  BY <1>4, <1>5, <1>7
<1>9. d \in Seq(Entries)
  BY <1>3, <1>8
<1>10. DistinctKeys(d)
  <2>1. DistinctKeys(c)
    BY DEF CacheOK
  <2>. QED
    BY <2>1, <1>5, <1>6 DEF DistinctKeys
<1>11. CacheOK(d, n)
  BY <1>5, <1>6, <1>9, <1>10 DEF CacheOK
<1>12. \A i \in DOMAIN d : \E j \in DOMAIN c : d[i] = c[j]
  BY <1>5, <1>6
<1>. QED
  BY <1>11, <1>12 DEF d

(* What an assignment of a fresh fact leaves.                              *)
LEMMA AssignFacts ==
  ASSUME NEW n \in Nat, CacheOK(cache, n),
         NEW fact \in Facts, ~ fact.late, fact.asOf <= n, n <= fact.asOf + MaxCall,
         NEW e \in Nat, e <= n + TTL
  PROVE  /\ CacheOK(Assigned(fact, e), n)
         /\ \A i \in DOMAIN Assigned(fact, e) :
              LET f == Assigned(fact, e)[i].data
              IN  f.late \/ n <= f.asOf + MaxCall \/ \E j \in DOMAIN cache : f = cache[j].data
         /\ \A i \in DOMAIN Assigned(fact, e) :
              LET f == Assigned(fact, e)[i].data
              IN  \/ f.key = fact.key /\ f.val = fact.val /\ f.asOf = fact.asOf
                  \/ \E j \in DOMAIN cache :
                       LET g == cache[j].data
                       IN  g.key # fact.key /\ f.key = g.key /\ f.val = g.val /\ f.asOf = g.asOf
<1>. DEFINE entry == CacheEntry(fact.key, e, fact)
            s == StoreEntry(cache, entry)
            HeldUp(j) == \E i \in DOMAIN cache : i < j /\ cache[i].key = fact.key
            a == Assigned(fact, e)
<1>1. /\ entry \in Entries /\ entry.key = fact.key /\ entry.exp = e /\ entry.data = fact
      /\ fact.key \in Keys
  BY DEF CacheEntry, Entries, Facts
<1>2. cache \in Seq(Entries) /\ DistinctKeys(cache) /\ DOMAIN cache = 1 .. Len(cache) /\ Len(cache) \in Nat
  BY DEF CacheOK
<1>3. \A i \in DOMAIN cache : cache[i] \in Entries
  BY <1>2
<1>4. a = [j \in DOMAIN s |-> [s[j] EXCEPT !.data.late = @ \/ HeldUp(j)]]
  BY DEF Assigned
<1>5. /\ s \in Seq(Entries) /\ DOMAIN cache \subseteq DOMAIN s
      /\ \A i \in DOMAIN s :
           \/ i \in DOMAIN cache /\ cache[i].key # fact.key /\ s[i] = cache[i]
           \/ i \in DOMAIN cache /\ cache[i].key = fact.key /\ s[i] = entry
           \/ /\ i = Len(cache) + 1 /\ s[i] = entry
              /\ \A j \in DOMAIN cache : cache[j].key # fact.key
  <2>1. CASE fact.key \in HeldKeys(cache)
    <3>1. s = [i \in 1 .. Len(cache) |-> IF cache[i].key = fact.key THEN entry ELSE cache[i]]
      BY <2>1, <1>1, <1>2 DEF StoreEntry
    <3>. HIDE DEF s, entry
    <3>2. s \in [1 .. Len(cache) -> Entries]
      BY <3>1, <1>1, <1>2, <1>3
    <3>3. s \in Seq(Entries)
      BY <3>2, <1>2
    <3>. QED
      BY <3>1, <3>3, <1>2
  <2>2. CASE fact.key \notin HeldKeys(cache)
    <3>1. s = Append(cache, entry)
      BY <2>2, <1>1 DEF StoreEntry
    <3>. HIDE DEF s, entry
    <3>2. \A j \in DOMAIN cache : cache[j].key # fact.key
      BY <2>2 DEF HeldKeys
    <3>. QED
      BY <3>1, <3>2, <1>1, <1>2
  <2>. QED
    BY <2>1, <2>2
<1>. HIDE DEF s, entry, HeldUp, a
<1>6. \A i \in DOMAIN s : s[i] \in Entries
  BY <1>5
<1>7. /\ DOMAIN a = DOMAIN s
      /\ \A i \in DOMAIN a : /\ a[i] \in Entries /\ a[i].key = s[i].key /\ a[i].exp = s[i].exp
                             /\ a[i].data.key = s[i].data.key /\ a[i].data.asOf = s[i].data.asOf
                             /\ a[i].data.val = s[i].data.val
                             /\ a[i].data.late <=> s[i].data.late \/ HeldUp(i)
                             /\ ~ HeldUp(i) => a[i].data = s[i].data
  <2>1. DOMAIN a = DOMAIN s
    BY <1>4
  <2>2. ASSUME NEW i \in DOMAIN s
        PROVE  /\ a[i] \in Entries /\ a[i].key = s[i].key /\ a[i].exp = s[i].exp
               /\ a[i].data.key = s[i].data.key /\ a[i].data.asOf = s[i].data.asOf
               /\ a[i].data.val = s[i].data.val
               /\ a[i].data.late <=> s[i].data.late \/ HeldUp(i)
               /\ ~ HeldUp(i) => a[i].data = s[i].data
    <3>1. s[i] \in [key : Keys, exp : Nat, data : Facts]
      BY <1>6 DEF Entries
    <3>2. s[i].data \in [key : Keys, val : Values, asOf : 0 .. MaxTime, late : BOOLEAN]
      BY <3>1 DEF Facts
    <3>3. HeldUp(i) \in BOOLEAN
      BY DEF HeldUp
    <3>4. a[i] = [s[i] EXCEPT !.data.late = s[i].data.late \/ HeldUp(i)]
      BY <1>4
    <3>. QED
      BY <3>1, <3>2, <3>3, <3>4 DEF Entries, Facts
  <2>. QED
    BY <2>1, <2>2
<1>8. a \in Seq(Entries)
  <2>1. s \in Seq(Entries) /\ DOMAIN s = 1 .. Len(s) /\ Len(s) \in Nat
    BY <1>5
  <2>2. a \in [1 .. Len(s) -> Entries]
    BY <1>4, <1>7, <2>1
  <2>. QED
    BY <2>1, <2>2
<1>9. DistinctKeys(a)
  BY <1>1, <1>2, <1>5, <1>7 DEF DistinctKeys
<1>10. ASSUME NEW i \in DOMAIN a
       PROVE  a[i].key = a[i].data.key /\ a[i].exp <= n + TTL
  BY <1>1, <1>5, <1>7 DEF CacheOK
<1>11. ASSUME NEW i \in DOMAIN a, NEW j \in DOMAIN a, j <= i, ~ a[i].data.late
       PROVE  a[j].exp <= a[i].data.asOf + TTL + MaxCall
  <2>1. TTL \in Nat /\ MaxCall \in Nat /\ fact.asOf \in Nat /\ i \in Nat /\ j \in Nat
    BY Constants, <1>8 DEF Facts
  <2>2. ~ HeldUp(i) /\ a[i].data = s[i].data
    BY <1>7, <1>11
  <2>3. CASE s[i] = entry
    BY <2>1, <2>2, <2>3, <1>1, <1>6, <1>7, <1>10 DEF Entries
  <2>4. CASE i \in DOMAIN cache /\ cache[i].key # fact.key /\ s[i] = cache[i]
    <3>1. j \in DOMAIN cache
      BY <2>4, <1>2, <1>7, <1>11, <1>5
    <3>2. j # i => cache[j].key # fact.key
      BY <2>1, <2>2, <3>1, <1>11 DEF HeldUp
    <3>3. s[j] = cache[j]
      BY <3>1, <3>2, <2>4, <1>2, <1>5, <1>7
    <3>. QED
      BY <2>2, <2>4, <3>1, <3>3, <1>7, <1>11 DEF CacheOK
  <2>. QED
    BY <2>3, <2>4, <1>5, <1>7
<1>12. ASSUME NEW i \in DOMAIN a
       PROVE  \/ a[i].data.late \/ n <= a[i].data.asOf + MaxCall
              \/ \E j \in DOMAIN cache : a[i].data = cache[j].data
  BY <1>1, <1>5, <1>7
<1>13. CacheOK(a, n)
  BY <1>8, <1>9, <1>10, <1>11 DEF CacheOK
<1>14. ASSUME NEW i \in DOMAIN a
       PROVE  \/ /\ a[i].data.key = fact.key /\ a[i].data.val = fact.val
                 /\ a[i].data.asOf = fact.asOf
              \/ \E j \in DOMAIN cache : /\ cache[j].data.key # fact.key
                                        /\ a[i].data.key = cache[j].data.key
                                        /\ a[i].data.val = cache[j].data.val
                                        /\ a[i].data.asOf = cache[j].data.asOf
  BY <1>1, <1>5, <1>7 DEF CacheOK
<1>. QED
  BY <1>12, <1>13, <1>14 DEF a
-----------------------------------------------------------------------------
(* A step of one thread.  The facts it leaves in the cache were there, or  *)
(* are as recent as the call that stored them is long.                     *)
Kept ==
  \A i \in DOMAIN cache' :
    LET f == cache'[i].data
    IN  f.late \/ now <= f.asOf + MaxCall \/ \E j \in DOMAIN cache : f = cache[j].data

Settled ==
  /\ now' = now /\ remote' \in [Keys -> Values \cup {Nothing}] /\ apart' \in [Keys -> Reasons]
  /\ CacheOK(cache', now) /\ Kept

LEMMA EntryTypes ==
  ASSUME NEW n, NEW c, CacheOK(c, n), NEW i \in DOMAIN c
  PROVE  c[i] \in Entries /\ c[i].data \in Facts /\ c[i].data.asOf \in Nat /\ c[i].exp \in Nat
<1>1. c \in Seq(Entries)
  BY DEF CacheOK
<1>2. c[i] \in Entries
  BY <1>1
<1>3. c[i].data \in Facts /\ c[i].exp \in Nat
  BY <1>2 DEF Entries
<1>4. c[i].data.asOf \in Nat
  BY <1>3, Constants DEF Facts
<1>. QED
  BY <1>2, <1>3, <1>4

LEMMA ThreadStep ==
  ASSUME Inv, Settled, NEW t \in Threads, NEW q, NEW r,
         thread' = [thread EXCEPT ![t] = q], ThreadOK(q, now), MayFind(q, cache'),
         reply' = [reply EXCEPT ![t] = r], ReplyOK(r)
  PROVE  Inv'
<1>1. /\ now' \in 0 .. MaxTime /\ remote' \in [Keys -> Values \cup {Nothing}]
      /\ apart' \in [Keys -> Reasons] /\ CacheOK(cache', now')
  BY DEF Inv, Settled
<1>2. thread' \in [Threads -> ThreadStates] /\ reply' \in [Threads -> Replies]
  BY DEF Inv, ThreadOK, ReplyOK
<1>3. \A u \in Threads : ReplyOK(reply'[u])
  BY DEF Inv
<1>4. ASSUME NEW u \in Threads
      PROVE  ThreadOK(thread'[u], now') /\ MayFind(thread'[u], cache')
  <2>1. CASE u = t
    BY <2>1 DEF Inv, Settled
  <2>2. CASE u # t
    <3>1. thread'[u] = thread[u] /\ ThreadOK(thread[u], now) /\ MayFind(thread[u], cache) /\ now' = now
      BY <2>2 DEF Inv, Settled
    <3>. DEFINE w == thread[u]
    <3>2. ASSUME w.pc \in {"lookup", "hit", "fetch_many", "stamp", "gather"}, ~ w.misled,
                 NEW i \in DOMAIN cache'
          PROVE  Timely(w, cache'[i].data)
      <4>1. w.clock <= now /\ w.clock \in Nat /\ now \in Nat
        BY <3>1, <3>2, Constants DEF ThreadOK, ThreadStates, Inv
      <4>2. CacheOK(cache', now)
        BY DEF Settled
      <4>3. cache'[i].data.asOf \in Nat
        BY <4>2, EntryTypes
      <4>4. CASE now <= cache'[i].data.asOf + MaxCall
        BY <4>1, <4>3, <4>4, Constants DEF Timely
      <4>5. CASE \E j \in DOMAIN cache : cache'[i].data = cache[j].data
        BY <3>1, <3>2, <4>5 DEF MayFind
      <4>. QED
        BY <4>4, <4>5 DEF Settled, Kept, Timely
    <3>3. MayFind(w, cache')
      BY <3>2 DEF MayFind
    <3>. QED
      BY <3>1, <3>3
  <2>. QED
    BY <2>1, <2>2
<1>. QED
  BY <1>1, <1>2, <1>3, <1>4 DEF Inv

LEMMA IdleOK == ASSUME NEW n, NEW c  PROVE ThreadOK(Idle, n) /\ MayFind(Idle, c)
<1>1. Idle \in ThreadStates
  BY Constants DEF Idle, ThreadStates, Labels
<1>. QED
  BY <1>1 DEF ThreadOK, MayFind, Idle

(* an operation that ends *)
LEMMA EndStep ==
  ASSUME Inv, Settled, NEW t \in Threads, NEW outcome \in Outcomes, NEW facts \in SUBSET Facts,
         End(t, outcome, facts), \A f \in facts : f.late \/ now - f.asOf <= TTL + 2 * MaxCall
  PROVE  Inv'
<1>. DEFINE r == [outcome |-> outcome, at |-> now, facts |-> facts]
<1>1. ReplyOK(r)
  BY DEF ReplyOK, Replies, Inv
<1>2. thread' = [thread EXCEPT ![t] = Idle] /\ reply' = [reply EXCEPT ![t] = r]
  BY DEF End
<1>. QED
  BY <1>1, <1>2, ThreadStep, IdleOK

(* an operation that goes on *)
LEMMA GoOnStep ==
  ASSUME Inv, Settled, NEW t \in Threads, NEW q, thread' = [thread EXCEPT ![t] = q],
         ThreadOK(q, now), MayFind(q, cache'), UNCHANGED reply
  PROVE  Inv'
<1>1. reply' = [reply EXCEPT ![t] = reply[t]] /\ ReplyOK(reply[t])
  BY DEF Inv
<1>. QED
  BY <1>1, ThreadStep

LEMMA SettledSame ==
  ASSUME Inv, now' = now, remote' \in [Keys -> Values \cup {Nothing}], cache' = cache, apart' \in [Keys -> Reasons]
  PROVE  Settled
BY DEF Inv, Settled, Kept

LEMMA Marked ==
  ASSUME NEW f \in [Keys -> Reasons], NEW k, NEW why \in Reasons
  PROVE  [f EXCEPT ![k] = why] \in [Keys -> Reasons]
OBVIOUS

LEMMA ReasonFacts == {"none", "changed", "emptied"} = Reasons
BY DEF Reasons

LEMMA SettledForget ==
  ASSUME Inv, now' = now, remote' = remote, NEW k \in HeldKeys(cache), Forget(k)
  PROVE  Settled /\ \A i \in DOMAIN cache' : \E j \in DOMAIN cache : cache'[i] = cache[j]
<1>1. now \in Nat /\ CacheOK(cache, now) /\ cache' = DropKey(cache, k) /\ apart' \in [Keys -> Reasons]
  <2>1. apart \in [Keys -> Reasons] /\ apart' = [apart EXCEPT ![k] = "none"] /\ "none" \in Reasons
    BY ReasonFacts DEF Inv, Forget
  <2>2. apart' \in [Keys -> Reasons]
    BY <2>1, Marked
  <2>. QED
    BY <2>2, Constants DEF Inv, Forget
<1>2. /\ CacheOK(cache', now)
      /\ \A i \in DOMAIN cache' : \E j \in DOMAIN cache : cache'[i] = cache[j]
  BY <1>1, DropFacts
<1>. QED
  BY <1>1, <1>2 DEF Settled, Kept, Inv

LEMMA SettledStore ==
  ASSUME Inv, now' = now, remote' = remote, NEW fact \in Facts, ~ fact.late,
         fact.asOf <= now, now <= fact.asOf + MaxCall, NEW e \in Nat, e <= now + TTL, StoreFact(fact, e)
  PROVE  Settled
<1>1. now \in Nat /\ CacheOK(cache, now) /\ cache' = Assigned(fact, e) /\ apart' \in [Keys -> Reasons]
  <2>1. /\ apart \in [Keys -> Reasons] /\ "none" \in Reasons
        /\ apart' = IF remote[fact.key] = fact.val THEN [apart EXCEPT ![fact.key] = "none"] ELSE apart
    BY ReasonFacts DEF Inv, StoreFact
  <2>2. apart' \in [Keys -> Reasons]
    BY <2>1, Marked
  <2>. QED
    BY <2>2, Constants DEF Inv, StoreFact
<1>2. CacheOK(cache', now) /\ Kept
  BY <1>1, AssignFacts DEF Kept
<1>. QED
  BY <1>1, <1>2 DEF Settled, Inv
-----------------------------------------------------------------------------
LEMMA GotoStep ==
  ASSUME Inv, Settled, NEW t \in Threads, NEW pc, Goto(t, pc),
         ThreadOK([thread[t] EXCEPT !.pc = pc], now), MayFind([thread[t] EXCEPT !.pc = pc], cache')
  PROVE  Inv'
<1>1. thread' = [thread EXCEPT ![t] = [thread[t] EXCEPT !.pc = pc]] /\ UNCHANGED reply
  BY DEF Goto, Inv
<1>. QED
  BY <1>1, GoOnStep

LEMMA BeginStep ==
  ASSUME Inv, NEW t \in Threads, NEW op \in Ops, NEW keys \in SUBSET Keys, NEW val \in Values \cup {Nothing},
         op = "put" => val \in Values, op # "truncate" => keys # {},
         Begin(t, op, keys, val), reply' = [reply EXCEPT ![t] = NoReply],
         UNCHANGED <<now, remote, cache, apart>>
  PROVE  Inv'
<1>. DEFINE pc == CASE op \in Locked -> "wait"
                    [] op \in {"get", "get_many"} -> "peek"
                    [] op = "put" -> "write"
                    [] op = "remove" -> "check"
                    [] op = "exists" -> "probe"
                    [] op = "truncate" -> "empty"
            q == [Idle EXCEPT !.op = op, !.keys = keys, !.val = val, !.clock = now, !.pc = pc]
<1>1. /\ pc \in {"wait", "peek", "write", "check", "probe", "empty"}
      /\ pc = "write" => op = "put"
      /\ op = "truncate" => pc = "empty"
  BY KeyValueStoreAssumption DEF Locked
<1>2. thread' = [thread EXCEPT ![t] = q]
  BY DEF Begin
<1>. HIDE DEF pc
<1>3. /\ q \in ThreadStates /\ q.pc = pc /\ q.clock = now /\ q.got = {} /\ q.exp = 0 /\ q.keys = keys /\ q.val = val
      /\ now \in Nat
  <2>1. now \in 0 .. MaxTime /\ pc \in Labels
    BY <1>1 DEF Inv, Labels
  <2>2. Idle \in ThreadStates /\ Idle.got = {} /\ Idle.exp = 0
    BY IdleOK DEF ThreadOK, Idle
  <2>. DEFINE q1 == [Idle EXCEPT !.op = op, !.keys = keys, !.val = val]
  <2>3. q1 \in ThreadStates /\ q1.got = {} /\ q1.exp = 0 /\ q1.keys = keys /\ q1.val = val
    BY <2>2 DEF ThreadStates
  <2>4. q = [q1 EXCEPT !.clock = now, !.pc = pc]
    BY DEF Idle
  <2>. HIDE DEF q1, q
  <2>5. q \in ThreadStates
    BY <2>1, <2>3, <2>4 DEF ThreadStates
  <2>6. q.pc = pc /\ q.clock = now /\ q.got = {} /\ q.exp = 0 /\ q.keys = keys /\ q.val = val
    BY <2>1, <2>3, <2>4 DEF ThreadStates
  <2>. QED
    BY <2>1, <2>5, <2>6, Constants
<1>4. ThreadOK(q, now) /\ MayFind(q, cache')
  BY <1>1, <1>3, Constants DEF ThreadOK, MayFind
<1>5. ReplyOK(NoReply)
  BY Constants DEF ReplyOK, NoReply, Replies, Outcomes
<1>6. Settled
  BY SettledSame DEF Inv
<1>. QED
  BY <1>2, <1>4, <1>5, <1>6, ThreadStep

LEMMA StartStep == ASSUME Inv, NEW t \in Threads, Start(t)  PROVE Inv'
<1>1. PICK op \in Ops :
       \/ op \in {"get", "get_async", "remove", "exists"}
            /\ \E k \in Keys : Begin(t, op, {k}, Nothing)
       \/ op \in {"get_many", "get_many_async"}
            /\ \E ks \in (SUBSET Keys) \ {{}} : Begin(t, op, ks, Nothing)
       \/ op = "put" /\ \E k \in Keys, v \in Values : Begin(t, op, {k}, v)
       \/ op = "truncate" /\ Begin(t, op, {}, Nothing)
  BY DEF Start
<1>2. reply' = [reply EXCEPT ![t] = NoReply] /\ UNCHANGED <<now, remote, cache, apart>>
  BY DEF Start
<1>3. ASSUME op \in {"get", "get_async", "remove", "exists"}, NEW k \in Keys, Begin(t, op, {k}, Nothing)
      PROVE  Inv'
  <2>1. {k} \in SUBSET Keys /\ {k} # {} /\ Nothing \in Values \cup {Nothing} /\ op # "put"
    BY <1>3
  <2>. QED
    BY <2>1, <1>2, <1>3, BeginStep
<1>4. ASSUME op \in {"get_many", "get_many_async"}, NEW ks \in (SUBSET Keys) \ {{}}, Begin(t, op, ks, Nothing)
      PROVE  Inv'
  <2>1. ks \in SUBSET Keys /\ ks # {}
    OBVIOUS
  <2>2. Nothing \in Values \cup {Nothing} /\ op # "put"
    BY <1>4
  <2>. QED
    BY <2>1, <2>2, <1>2, <1>4, BeginStep
<1>5. ASSUME NEW k \in Keys, NEW v \in Values, Begin(t, op, {k}, v)
      PROVE  Inv'
  <2>1. {k} \in SUBSET Keys /\ {k} # {} /\ v \in Values \cup {Nothing}
    OBVIOUS
  <2>. QED
    BY <2>1, <1>2, <1>5, BeginStep
<1>6. ASSUME op = "truncate", Begin(t, op, {}, Nothing)
      PROVE  Inv'
  <2>1. {} \in SUBSET Keys /\ Nothing \in Values \cup {Nothing} /\ op # "put"
    BY <1>6
  <2>. QED
    BY <2>1, <1>2, <1>6, BeginStep
<1>. QED
  BY <1>1, <1>3, <1>4, <1>5, <1>6

LEMMA AcquireStep == ASSUME Inv, NEW t \in Threads, Acquire(t)  PROVE Inv'
<1>. DEFINE q == [thread[t] EXCEPT !.pc = "peek", !.clock = now]
<1>1. thread' = [thread EXCEPT ![t] = q] /\ thread[t] \in ThreadStates /\ ThreadOK(thread[t], now)
      /\ thread[t].pc = "wait" /\ now \in 0 .. MaxTime
  BY DEF Acquire, At, Inv
<1>2. /\ q \in ThreadStates /\ q.pc = "peek" /\ q.clock = now
      /\ q.keys = thread[t].keys /\ q.got = thread[t].got /\ q.exp = thread[t].exp
  BY <1>1 DEF ThreadStates, Labels
<1>3. ThreadOK(q, now) /\ MayFind(q, cache')
  BY <1>1, <1>2, Constants DEF ThreadOK, MayFind
<1>4. Settled /\ UNCHANGED reply
  BY SettledSame DEF Acquire, Inv
<1>. QED
  BY <1>1, <1>3, <1>4, GoOnStep

LEMMA PeekStep == ASSUME Inv, NEW t \in Threads, Peek(t)  PROVE Inv'
<1>1. /\ thread[t] \in ThreadStates /\ ThreadOK(thread[t], now) /\ thread[t].pc = "peek"
      /\ cache \in Seq(Entries) /\ Settled /\ UNCHANGED <<reply, cache>>
  BY SettledSame DEF Peek, At, Inv, CacheOK
<1>2. CASE cache = << >>
  <2>. DEFINE q == [thread[t] EXCEPT !.pc = "lookup"]
  <2>1. thread' = [thread EXCEPT ![t] = q]
    BY <1>2 DEF Peek, Inv
  <2>2. /\ q \in ThreadStates /\ q.pc = "lookup" /\ q.clock = thread[t].clock
        /\ q.keys = thread[t].keys /\ q.got = thread[t].got /\ q.exp = thread[t].exp
    BY <1>1 DEF ThreadStates, Labels
  <2>3. ThreadOK(q, now) /\ MayFind(q, cache')
    BY <1>1, <1>2, <2>2 DEF ThreadOK, MayFind
  <2>. QED
    BY <1>1, <2>1, <2>3, GoOnStep
<1>3. CASE cache # << >>
  <2>. DEFINE q == [thread[t] EXCEPT !.pc = "judge", !.head = cache[1].key]
  <2>1. thread' = [thread EXCEPT ![t] = q]
    BY <1>3 DEF Peek, Inv
  <2>2. 1 \in DOMAIN cache /\ cache[1] \in Entries /\ cache[1].key \in Keys
    <3>1. 1 \in DOMAIN cache
      BY <1>1, <1>3
    <3>2. cache[1] \in Entries
      BY <1>1, <3>1
    <3>. QED
      BY <3>1, <3>2 DEF Entries
  <2>3. /\ q \in ThreadStates /\ q.pc = "judge" /\ q.clock = thread[t].clock
        /\ q.keys = thread[t].keys /\ q.got = thread[t].got /\ q.exp = thread[t].exp
    BY <1>1, <2>2 DEF ThreadStates, Labels
  <2>4. ThreadOK(q, now) /\ MayFind(q, cache')
    BY <1>1, <2>3 DEF ThreadOK, MayFind
  <2>. QED
    BY <1>1, <2>1, <2>4, GoOnStep
<1>. QED
  BY <1>2, <1>3

(* KeyError, whoever raises it *)
LEMMA KeyErrorStep ==
  ASSUME Inv, NEW t \in Threads, End(t, "KeyError", {}), UNCHANGED <<now, remote, cache, apart>>
  PROVE  Inv'
BY SettledSame, EndStep DEF Inv, Outcomes

LEMMA JudgeStep == ASSUME Inv, NEW t \in Threads, Judge(t)  PROVE Inv'
<1>. DEFINE head == thread[t].head
<1>1. /\ thread[t] \in ThreadStates /\ ThreadOK(thread[t], now) /\ thread[t].pc = "judge"
      /\ cache \in Seq(Entries) /\ DistinctKeys(cache) /\ CacheOK(cache, now)
      /\ Settled /\ UNCHANGED <<now, remote, cache, apart>>
  BY SettledSame DEF Judge, At, Inv, CacheOK
<1>2. CASE head \notin HeldKeys(cache)
  BY <1>1, <1>2, KeyErrorStep DEF Judge
<1>3. CASE head \in HeldKeys(cache) /\ Stale(EntryOf(cache, head), thread[t].clock)
  <2>. DEFINE q == [thread[t] EXCEPT !.pc = "drop"]
  <2>1. Goto(t, "drop")
    BY <1>3 DEF Judge
  <2>2. /\ q \in ThreadStates /\ q.pc = "drop" /\ q.clock = thread[t].clock
        /\ q.keys = thread[t].keys /\ q.got = thread[t].got /\ q.exp = thread[t].exp
    BY <1>1 DEF ThreadStates, Labels
  <2>3. ThreadOK(q, now) /\ MayFind(q, cache')
    BY <1>1, <2>2 DEF ThreadOK, MayFind
  <2>. QED
    BY <1>1, <2>1, <2>3, GotoStep
<1>4. CASE head \in HeldKeys(cache) /\ ~ Stale(EntryOf(cache, head), thread[t].clock)
  <2>. DEFINE q == [thread[t] EXCEPT !.pc = "lookup", !.misled = cache[1].key # head]
  <2>1. thread' = [thread EXCEPT ![t] = q] /\ UNCHANGED reply
    BY <1>4 DEF Judge, Inv
  <2>2. /\ q \in ThreadStates /\ q.pc = "lookup" /\ q.clock = thread[t].clock
        /\ q.keys = thread[t].keys /\ q.got = thread[t].got /\ q.exp = thread[t].exp /\ q.misled = (cache[1].key # head)
    BY <1>1 DEF ThreadStates, Labels
  <2>3. ThreadOK(q, now)
    BY <1>1, <2>2 DEF ThreadOK
  <2>4. ASSUME cache[1].key = head, NEW i \in DOMAIN cache, ~ cache[i].data.late
        PROVE  q.clock <= cache[i].data.asOf + TTL + MaxCall
    <3>1. 1 \in DOMAIN cache /\ 1 <= i
      BY <1>1
    <3>2. EntryOf(cache, head) = cache[1]
      BY <1>1, <1>4, <2>4, <3>1, EntryFact
    <3>3. cache[1].exp \in Nat /\ cache[i].data.asOf \in Nat /\ q.clock \in Nat
      BY <1>1, <2>2, <3>1, EntryTypes, Constants DEF ThreadStates
    <3>4. q.clock <= cache[1].exp
      BY <1>4, <2>2, <3>2, <3>3 DEF Stale
    <3>5. cache[1].exp <= cache[i].data.asOf + TTL + MaxCall
      BY <1>1, <2>4, <3>1 DEF CacheOK
    <3>. QED
      BY <3>3, <3>4, <3>5, Constants
  <2>5. MayFind(q, cache')
    BY <1>1, <2>2, <2>4 DEF MayFind, Timely
  <2>. QED
    BY <1>1, <2>1, <2>3, <2>5, GoOnStep
<1>. QED
  BY <1>2, <1>3, <1>4

LEMMA DropStep == ASSUME Inv, NEW t \in Threads, Drop(t)  PROVE Inv'
<1>. DEFINE head == thread[t].head
            q == [thread[t] EXCEPT !.pc = "peek"]
<1>1. /\ thread[t] \in ThreadStates /\ ThreadOK(thread[t], now) /\ thread[t].pc = "drop"
      /\ UNCHANGED <<now, remote>>
  BY DEF Drop, At, Inv
<1>2. CASE head \notin HeldKeys(cache)
  BY <1>1, <1>2, KeyErrorStep DEF Drop
<1>3. CASE head \in HeldKeys(cache)
  <2>1. Forget(head) /\ Goto(t, "peek")
    BY <1>3 DEF Drop
  <2>2. Settled
    BY <1>1, <1>3, <2>1, SettledForget
  <2>3. /\ q \in ThreadStates /\ q.pc = "peek" /\ q.clock = thread[t].clock
        /\ q.keys = thread[t].keys /\ q.got = thread[t].got /\ q.exp = thread[t].exp
    BY <1>1 DEF ThreadStates, Labels
  <2>4. ThreadOK(q, now) /\ MayFind(q, cache')
    BY <1>1, <2>3 DEF ThreadOK, MayFind
  <2>. QED
    BY <2>1, <2>2, <2>4, GotoStep
<1>. QED
  BY <1>2, <1>3
-----------------------------------------------------------------------------
LEMMA LookupStep == ASSUME Inv, NEW t \in Threads, Lookup(t)  PROVE Inv'
<1>1. /\ thread[t] \in ThreadStates /\ ThreadOK(thread[t], now) /\ MayFind(thread[t], cache)
      /\ thread[t].pc = "lookup" /\ Settled /\ UNCHANGED cache
  BY SettledSame DEF Lookup, At, Inv
<1>2. ASSUME NEW pc \in {"hit", "fetch"}, Goto(t, pc)  PROVE Inv'
  <2>. DEFINE q == [thread[t] EXCEPT !.pc = pc]
  <2>1. /\ q \in ThreadStates /\ q.pc = pc /\ q.clock = thread[t].clock
        /\ q.keys = thread[t].keys /\ q.misled = thread[t].misled
    BY <1>1 DEF ThreadStates, Labels
  <2>2. ThreadOK(q, now) /\ MayFind(q, cache')
    BY <1>1, <2>1 DEF ThreadOK, MayFind, Timely
  <2>. QED
    BY <1>1, <1>2, <2>2, GotoStep
<1>. QED
  BY <1>2 DEF Lookup

(* what a thread takes out of the cache after its sweep *)
LEMMA TakenFact ==
  ASSUME Inv, NEW t \in Threads, thread[t].pc \in {"hit", "gather"}, NEW k \in HeldKeys(cache)
  PROVE  /\ Taken(t, k) \in Facts /\ Taken(t, k).key = k
         /\ Taken(t, k).late \/ thread[t].clock <= Taken(t, k).asOf + TTL + MaxCall
<1>1. /\ cache \in Seq(Entries) /\ DistinctKeys(cache) /\ CacheOK(cache, now)
      /\ thread[t] \in ThreadStates /\ MayFind(thread[t], cache)
  BY DEF Inv, CacheOK
<1>2. PICK i \in DOMAIN cache : EntryOf(cache, k) = cache[i] /\ cache[i].key = k
  BY <1>1, EntryFact
<1>. DEFINE f == cache[i].data
<1>3. f \in Facts /\ f.key = k
  BY <1>1, <1>2, EntryTypes DEF CacheOK
<1>4. Taken(t, k) = [f EXCEPT !.late = f.late \/ thread[t].misled]
  BY <1>2 DEF Taken
<1>. HIDE DEF f
<1>5. thread[t].misled \in BOOLEAN
  BY <1>1 DEF ThreadStates
<1>6. /\ Taken(t, k) \in Facts /\ Taken(t, k).key = k /\ Taken(t, k).asOf = f.asOf
      /\ Taken(t, k).late <=> f.late \/ thread[t].misled
  BY <1>3, <1>4, <1>5 DEF Facts
<1>7. ~ thread[t].misled => f.late \/ thread[t].clock <= f.asOf + TTL + MaxCall
  BY <1>1, <1>2 DEF MayFind, Timely, f
<1>. QED
  BY <1>6, <1>7

(* the arithmetic of a read *)
LEMMA TimelyRead ==
  ASSUME Inv, NEW t \in Threads, thread[t].pc \notin {"idle", "wait"}, NEW f \in Facts,
         f.late \/ thread[t].clock <= f.asOf + TTL + MaxCall
  PROVE  f.late \/ now - f.asOf <= TTL + 2 * MaxCall
<1>1. thread[t] \in ThreadStates /\ ThreadOK(thread[t], now) /\ now \in 0 .. MaxTime
  BY DEF Inv
<1>2. now \in Nat /\ thread[t].clock \in Nat /\ now <= thread[t].clock + MaxCall /\ f.asOf \in Nat
  BY <1>1, Constants DEF ThreadOK, ThreadStates, Facts
<1>. QED
  BY <1>2, Constants

LEMMA HitStep == ASSUME Inv, NEW t \in Threads, Hit(t)  PROVE Inv'
<1>. DEFINE k == TheKey(t)
<1>1. thread[t].pc = "hit" /\ Settled /\ UNCHANGED <<now, remote, cache, apart>>
  BY SettledSame DEF Hit, At, Inv
<1>2. CASE k \in HeldKeys(cache)
  <2>1. End(t, "ok", {Taken(t, k)})
    BY <1>2 DEF Hit
  <2>2. Taken(t, k) \in Facts /\ (Taken(t, k).late \/ now - Taken(t, k).asOf <= TTL + 2 * MaxCall)
    BY <1>1, <1>2, TakenFact, TimelyRead
  <2>. QED
    BY <1>1, <2>1, <2>2, EndStep DEF Outcomes
<1>3. CASE k \notin HeldKeys(cache)
  BY <1>1, <1>3, KeyErrorStep DEF Hit
<1>. QED
  BY <1>2, <1>3

LEMMA FailStep ==
  ASSUME Inv, NEW t \in Threads, NEW outcome \in Outcomes, End(t, outcome, {}),
         now' = now, remote' \in [Keys -> Values \cup {Nothing}], cache' = cache, apart' \in [Keys -> Reasons]
  PROVE  Inv'
BY SettledSame, EndStep

(* a record that has just been read or written *)
LEMMA NewFact ==
  ASSUME Inv, NEW k \in Keys, NEW v \in Values
  PROVE  /\ Fact(k, v, now) \in Facts /\ ~ Fact(k, v, now).late
         /\ Fact(k, v, now).asOf = now /\ Fact(k, v, now).key = k /\ now \in Nat
BY Constants DEF Inv, Fact, Facts

LEMMA FetchStep == ASSUME Inv, NEW t \in Threads, Fetch(t)  PROVE Inv'
<1>. DEFINE k == TheKey(t)
            q == [thread[t] EXCEPT !.pc = "fill", !.got = {Fact(k, remote[k], now)}]
<1>1. /\ thread[t].pc = "fetch" /\ Settled /\ UNCHANGED <<now, remote, cache, apart>>
      /\ thread[t] \in ThreadStates /\ ThreadOK(thread[t], now)
      /\ remote \in [Keys -> Values \cup {Nothing}] /\ apart \in [Keys -> Reasons]
  BY SettledSame DEF Fetch, At, Inv
<1>2. ASSUME NEW outcome \in {"RemoteError", "RecordNotFound"}, End(t, outcome, {})  PROVE Inv'
  BY <1>1, <1>2, FailStep DEF Outcomes
<1>3. ASSUME remote[k] # Nothing, UNCHANGED reply,
             thread' = [thread EXCEPT ![t].pc = "fill", ![t].got = {Fact(k, remote[k], now)}]
      PROVE  Inv'
  <2>1. thread' = [thread EXCEPT ![t] = q]
    BY <1>3 DEF Inv
  <2>2. thread[t].keys # {} /\ thread[t].keys \in SUBSET Keys
    BY <1>1 DEF ThreadOK, ThreadStates
  <2>3. k \in Keys /\ remote[k] \in Values
    BY <1>1, <1>3, <2>2, TheKeyFact
  <2>. DEFINE f == Fact(k, remote[k], now)
  <2>4. f \in Facts /\ ~ f.late /\ f.asOf = now /\ now \in Nat
    BY <2>3, NewFact
  <2>. HIDE DEF f, k
  <2>5. /\ q \in ThreadStates /\ q.pc = "fill" /\ q.clock = thread[t].clock /\ q.got = {f}
        /\ q.keys = thread[t].keys
    BY <1>1, <2>4 DEF ThreadStates, Labels, f
  <2>6. ThreadOK(q, now) /\ MayFind(q, cache')
    BY <1>1, <2>4, <2>5 DEF ThreadOK, MayFind, Fresh
  <2>. QED
    BY <1>1, <1>3, <2>1, <2>6, GoOnStep
<1>. QED
  BY <1>2, <1>3 DEF Fetch

(* a fresh fact may be stored *)
LEMMA FreshFact ==
  ASSUME Inv, NEW t \in Threads, thread[t].pc \notin {"idle", "wait"},
         NEW f \in Facts, Fresh(thread[t], f, now)
  PROVE  /\ ~ f.late /\ f.asOf <= now /\ now <= f.asOf + MaxCall
         /\ now + TTL \in Nat /\ now + TTL <= now + TTL
         /\ now - f.asOf <= TTL + 2 * MaxCall
<1>1. thread[t] \in ThreadStates /\ ThreadOK(thread[t], now) /\ now \in 0 .. MaxTime
  BY DEF Inv
<1>2. now \in Nat /\ thread[t].clock \in Nat /\ now <= thread[t].clock + MaxCall /\ f.asOf \in Nat
  BY <1>1, Constants DEF ThreadOK, ThreadStates, Facts
<1>. QED
  BY <1>2, Constants DEF Fresh

(* Fill and Keep: the one fact in hand is stored, and the operation ends   *)
LEMMA StoreAndEnd ==
  ASSUME Inv, NEW t \in Threads, thread[t].pc \in {"fill", "keep"}, UNCHANGED <<now, remote>>,
         \A fact \in thread[t].got : StoreFact(fact, now + TTL),
         NEW facts \in SUBSET thread[t].got, End(t, "ok", facts)
  PROVE  Inv'
<1>1. thread[t] \in ThreadStates /\ ThreadOK(thread[t], now)
  BY DEF Inv
<1>2. thread[t].got \in SUBSET Facts /\ thread[t].got # {} /\ \A f \in thread[t].got : Fresh(thread[t], f, now)
  BY <1>1 DEF ThreadOK, ThreadStates
<1>3. \A f \in thread[t].got : /\ ~ f.late /\ f.asOf <= now /\ now <= f.asOf + MaxCall
                               /\ now + TTL \in Nat /\ now + TTL <= now + TTL
                               /\ now - f.asOf <= TTL + 2 * MaxCall
  BY <1>2, FreshFact
<1>4. PICK f \in thread[t].got : TRUE
  BY <1>2
<1>5. Settled
  BY <1>2, <1>3, <1>4, SettledStore
<1>. QED
  BY <1>2, <1>3, <1>5, EndStep DEF Outcomes

LEMMA FillStep == ASSUME Inv, NEW t \in Threads, Fill(t)  PROVE Inv'
BY StoreAndEnd DEF Fill, At
-----------------------------------------------------------------------------
LEMMA SplitStep == ASSUME Inv, NEW t \in Threads, Split(t)  PROVE Inv'
<1>. DEFINE missing == thread[t].keys \ HeldKeys(cache)
            pc == IF missing = {} THEN "gather" ELSE "fetch_many"
            q == [thread[t] EXCEPT !.todo = missing, !.local = thread[t].keys \ missing, !.pc = pc]
<1>1. /\ thread[t] \in ThreadStates /\ ThreadOK(thread[t], now) /\ MayFind(thread[t], cache)
      /\ thread[t].pc = "lookup" /\ Settled /\ UNCHANGED <<cache, reply>> /\ now \in Nat
  BY SettledSame, Constants DEF Split, At, Inv
<1>2. thread' = [thread EXCEPT ![t] = q]
  BY DEF Split, Inv
<1>3. /\ missing \in SUBSET Keys /\ thread[t].keys \ missing \in SUBSET Keys /\ pc \in {"gather", "fetch_many"}
      /\ thread[t].exp \in Nat /\ thread[t].keys \in SUBSET Keys
  BY <1>1 DEF ThreadStates
<1>. HIDE DEF missing, pc
<1>4. /\ q \in ThreadStates /\ q.pc = pc /\ q.clock = thread[t].clock /\ q.keys = thread[t].keys
      /\ q.misled = thread[t].misled /\ q.got = thread[t].got /\ q.exp = thread[t].exp
  BY <1>1, <1>3 DEF ThreadStates, Labels
<1>. HIDE DEF q
<1>5. thread[t].exp = 0
  BY <1>1 DEF ThreadOK
<1>6. ThreadOK(q, now)
  BY <1>1, <1>3, <1>4, <1>5, Constants DEF ThreadOK
<1>7. MayFind(q, cache')
  BY <1>1, <1>3, <1>4 DEF MayFind, Timely
<1>. QED
  BY <1>1, <1>2, <1>6, <1>7, GoOnStep

LEMMA FetchManyStep == ASSUME Inv, NEW t \in Threads, FetchMany(t)  PROVE Inv'
<1>. DEFINE found == {k \in thread[t].todo : remote[k] # Nothing}
            facts == {Fact(k, remote[k], now) : k \in found}
            q == [thread[t] EXCEPT !.pc = "stamp", !.todo = found, !.got = facts]
<1>1. /\ thread[t].pc = "fetch_many" /\ Settled /\ UNCHANGED <<now, remote, cache, apart>>
      /\ thread[t] \in ThreadStates /\ ThreadOK(thread[t], now) /\ MayFind(thread[t], cache)
      /\ remote \in [Keys -> Values \cup {Nothing}] /\ apart \in [Keys -> Reasons]
  BY SettledSame DEF FetchMany, At, Inv
<1>2. CASE End(t, "RemoteError", {})
  BY <1>1, <1>2, FailStep DEF Outcomes
<1>3. ASSUME UNCHANGED reply,
             thread' = [thread EXCEPT ![t].pc = "stamp", ![t].todo = found, ![t].got = facts]
      PROVE  Inv'
  <2>1. thread' = [thread EXCEPT ![t] = q]
    BY <1>3 DEF Inv
  <2>2. found \in SUBSET Keys /\ \A k \in found : k \in Keys /\ remote[k] \in Values
    BY <1>1 DEF ThreadStates
  <2>3. \A f \in facts : f \in Facts /\ ~ f.late /\ f.asOf = now
    BY <2>2, NewFact
  <2>4. facts \in SUBSET Facts
    BY <2>3
  <2>. HIDE DEF found, facts
  <2>5. /\ q \in ThreadStates /\ q.pc = "stamp" /\ q.clock = thread[t].clock /\ q.got = facts
        /\ q.keys = thread[t].keys /\ q.misled = thread[t].misled
    BY <1>1, <2>2, <2>4 DEF ThreadStates, Labels
  <2>. HIDE DEF q
  <2>6. q.clock \in Nat /\ now \in Nat /\ q.clock <= now
    BY <1>1, <2>5, Constants DEF ThreadOK, ThreadStates, Inv
  <2>7. \A f \in facts : Timely(q, f) /\ Fresh(q, f, now)
    BY <2>3, <2>6, Constants DEF Timely, Fresh
  <2>8. ThreadOK(q, now)
    BY <1>1, <2>5, <2>7 DEF ThreadOK
  <2>9. MayFind(q, cache')
    BY <1>1, <2>5 DEF MayFind, Timely
  <2>. QED
    BY <1>1, <1>3, <2>1, <2>8, <2>9, GoOnStep
<1>. QED
  BY <1>2, <1>3 DEF FetchMany

LEMMA StampStep == ASSUME Inv, NEW t \in Threads, Stamp(t)  PROVE Inv'
<1>. DEFINE q == [thread[t] EXCEPT !.pc = "gather", !.exp = now + TTL]
<1>1. /\ thread[t] \in ThreadStates /\ ThreadOK(thread[t], now) /\ MayFind(thread[t], cache)
      /\ thread[t].pc = "stamp" /\ Settled /\ UNCHANGED <<cache, reply>> /\ now \in Nat
  BY SettledSame, Constants DEF Stamp, At, Inv
<1>2. thread' = [thread EXCEPT ![t] = q]
  BY DEF Stamp, Inv
<1>3. now + TTL \in Nat
  BY <1>1, Constants
<1>4. /\ q \in ThreadStates /\ q.pc = "gather" /\ q.clock = thread[t].clock /\ q.keys = thread[t].keys
      /\ q.misled = thread[t].misled /\ q.got = thread[t].got /\ q.todo = thread[t].todo /\ q.exp = now + TTL
  BY <1>1, <1>3 DEF ThreadStates, Labels
<1>. HIDE DEF q
<1>5. \A f \in q.got : Timely(q, f) /\ (f.key \in q.todo => Fresh(q, f, now))
  BY <1>1, <1>4 DEF ThreadOK, Timely, Fresh
<1>6. ThreadOK(q, now)
  BY <1>1, <1>3, <1>4, <1>5 DEF ThreadOK
<1>7. MayFind(q, cache')
  BY <1>1, <1>4 DEF MayFind, Timely
<1>. QED
  BY <1>1, <1>2, <1>6, <1>7, GoOnStep

LEMMA FillOneStep == ASSUME Inv, NEW t \in Threads, FillOne(t)  PROVE Inv'
<1>1. PICK f \in thread[t].got :
        /\ f.key \in thread[t].todo /\ StoreFact(f, thread[t].exp)
        /\ thread' = [thread EXCEPT ![t].todo = thread[t].todo \ {f.key}]
  BY DEF FillOne, Inv
<1>. DEFINE q == [thread[t] EXCEPT !.todo = thread[t].todo \ {f.key}]
<1>2. /\ thread[t] \in ThreadStates /\ ThreadOK(thread[t], now) /\ MayFind(thread[t], cache)
      /\ thread[t].pc = "gather" /\ UNCHANGED <<now, remote, reply>>
  BY DEF FillOne, At, Inv
<1>3. /\ f \in Facts /\ Fresh(thread[t], f, now) /\ thread[t].exp \in Nat /\ thread[t].exp <= now + TTL
      /\ thread[t].todo \in SUBSET Keys
  BY <1>1, <1>2 DEF ThreadOK, ThreadStates
<1>4. ~ f.late /\ f.asOf <= now /\ now <= f.asOf + MaxCall
  BY <1>2, <1>3, FreshFact
<1>5. Settled
  BY <1>1, <1>2, <1>3, <1>4, SettledStore
<1>6. thread' = [thread EXCEPT ![t] = q]
  BY <1>1 DEF Inv
<1>7. /\ q \in ThreadStates /\ q.pc = "gather" /\ q.clock = thread[t].clock /\ q.keys = thread[t].keys
      /\ q.misled = thread[t].misled /\ q.got = thread[t].got /\ q.todo \subseteq thread[t].todo
      /\ q.exp = thread[t].exp
  BY <1>2, <1>3 DEF ThreadStates
<1>. HIDE DEF q
<1>8. \A g \in q.got : Timely(q, g) /\ (g.key \in q.todo => Fresh(q, g, now))
  BY <1>2, <1>7 DEF ThreadOK, Timely, Fresh
<1>9. ThreadOK(q, now)
  BY <1>2, <1>3, <1>7, <1>8 DEF ThreadOK
<1>10. MayFind(q, cache')
  <2>1. ASSUME ~ q.misled, NEW i \in DOMAIN cache'  PROVE Timely(q, cache'[i].data)
    <3>1. \A j \in DOMAIN cache : Timely(q, cache[j].data)
      BY <1>2, <1>7, <2>1 DEF MayFind, Timely
    <3>2. q.clock \in Nat /\ now \in Nat /\ q.clock <= now /\ cache'[i].data.asOf \in Nat
      BY <1>2, <1>5, <1>7, Constants, EntryTypes DEF ThreadOK, ThreadStates, Inv, Settled
    <3>. QED
      BY <1>5, <3>1, <3>2, Constants DEF Settled, Kept, Timely
  <2>. QED
    BY <2>1 DEF MayFind
<1>. QED
  BY <1>2, <1>5, <1>6, <1>9, <1>10, GoOnStep

LEMMA CollectOneStep == ASSUME Inv, NEW t \in Threads, CollectOne(t)  PROVE Inv'
<1>1. /\ thread[t].pc = "gather" /\ thread[t].todo = {} /\ Settled /\ UNCHANGED <<now, remote, cache, apart>>
      /\ thread[t] \in ThreadStates /\ ThreadOK(thread[t], now) /\ MayFind(thread[t], cache)
  BY SettledSame DEF CollectOne, At, Inv
<1>2. PICK k \in thread[t].local :
       \/ k \notin HeldKeys(cache) /\ End(t, "KeyError", {})
       \/ /\ k \in HeldKeys(cache)
          /\ thread' = [thread EXCEPT ![t].local = thread[t].local \ {k},
                                      ![t].got = thread[t].got \cup {Taken(t, k)}]
          /\ UNCHANGED reply
  BY DEF CollectOne, Inv
<1>3. CASE k \notin HeldKeys(cache)
  BY <1>1, <1>2, <1>3, KeyErrorStep
<1>4. CASE k \in HeldKeys(cache)
  <2>. DEFINE f == Taken(t, k)
              q == [thread[t] EXCEPT !.local = thread[t].local \ {k}, !.got = thread[t].got \cup {f}]
  <2>1. f \in Facts /\ (f.late \/ thread[t].clock <= f.asOf + TTL + MaxCall)
    BY <1>1, <1>4, TakenFact
  <2>2. thread' = [thread EXCEPT ![t] = q] /\ UNCHANGED reply
    BY <1>2, <1>4 DEF Inv
  <2>3. thread[t].local \in SUBSET Keys /\ thread[t].got \in SUBSET Facts
    BY <1>1 DEF ThreadStates
  <2>. HIDE DEF f
  <2>4. /\ q \in ThreadStates /\ q.pc = "gather" /\ q.clock = thread[t].clock /\ q.keys = thread[t].keys
        /\ q.misled = thread[t].misled /\ q.got = thread[t].got \cup {f} /\ q.todo = thread[t].todo
        /\ q.exp = thread[t].exp
    BY <1>1, <2>1, <2>3 DEF ThreadStates
  <2>. HIDE DEF q
  <2>5. \A g \in q.got : Timely(q, g) /\ (g.key \in q.todo => Fresh(q, g, now))
    BY <1>1, <2>1, <2>4 DEF ThreadOK, Timely, Fresh
  <2>6. ThreadOK(q, now)
    BY <1>1, <2>4, <2>5 DEF ThreadOK
  <2>7. MayFind(q, cache')
    BY <1>1, <2>4 DEF MayFind, Timely
  <2>. QED
    BY <1>1, <2>2, <2>6, <2>7, GoOnStep
<1>. QED
  BY <1>3, <1>4

LEMMA ReturnManyStep == ASSUME Inv, NEW t \in Threads, ReturnMany(t)  PROVE Inv'
<1>1. /\ thread[t].pc = "gather" /\ Settled /\ End(t, "ok", thread[t].got)
      /\ thread[t] \in ThreadStates /\ ThreadOK(thread[t], now)
  BY SettledSame DEF ReturnMany, At, Inv
<1>2. thread[t].got \in SUBSET Facts
  BY <1>1 DEF ThreadStates
<1>3. ASSUME NEW f \in thread[t].got  PROVE f.late \/ now - f.asOf <= TTL + 2 * MaxCall
  <2>1. f \in Facts /\ (f.late \/ thread[t].clock <= f.asOf + TTL + MaxCall)
    BY <1>1, <1>2 DEF ThreadOK, Timely
  <2>. QED
    BY <1>1, <2>1, TimelyRead
<1>. QED
  BY <1>1, <1>2, <1>3, EndStep DEF Outcomes
-----------------------------------------------------------------------------
LEMMA RaiseStep ==
  ASSUME Inv, NEW t \in Threads, NEW k \in Keys, NEW v \in Values \cup {Nothing}, RaiseInDoubt(t, k, v),
         UNCHANGED <<now, cache>>
  PROVE  Inv'
<1>1. remote' \in [Keys -> Values \cup {Nothing}] /\ apart' \in [Keys -> Reasons]
  BY DEF RaiseInDoubt, Inv, Reasons
<1>. QED
  BY <1>1, FailStep DEF RaiseInDoubt, Outcomes

LEMMA WriteStep == ASSUME Inv, NEW t \in Threads, Write(t)  PROVE Inv'
<1>. DEFINE k == TheKey(t)
            v == thread[t].val
            f == Fact(k, v, now)
            q == [thread[t] EXCEPT !.pc = "keep", !.got = {f}]
<1>1. /\ thread[t].pc = "write" /\ UNCHANGED <<now, cache>>
      /\ thread[t] \in ThreadStates /\ ThreadOK(thread[t], now) /\ apart \in [Keys -> Reasons]
      /\ remote \in [Keys -> Values \cup {Nothing}]
  BY DEF Write, At, Inv
<1>2. thread[t].keys # {} /\ thread[t].keys \in SUBSET Keys /\ v \in Values
  BY <1>1 DEF ThreadOK, ThreadStates
<1>3. k \in Keys
  BY <1>2, TheKeyFact
<1>4. CASE RaiseInDoubt(t, k, v)
  BY <1>1, <1>2, <1>3, <1>4, RaiseStep
<1>5. ASSUME remote' = [remote EXCEPT ![k] = v], UNCHANGED <<reply, apart>>,
             thread' = [thread EXCEPT ![t].pc = "keep", ![t].got = {f}]
      PROVE  Inv'
  <2>1. thread' = [thread EXCEPT ![t] = q]
    BY <1>5 DEF Inv
  <2>2. f \in Facts /\ ~ f.late /\ f.asOf = now /\ now \in Nat
    BY <1>2, <1>3, NewFact
  <2>3. Settled
    BY <1>1, <1>2, <1>5, SettledSame
  <2>. HIDE DEF f
  <2>4. /\ q \in ThreadStates /\ q.pc = "keep" /\ q.clock = thread[t].clock /\ q.got = {f}
        /\ q.keys = thread[t].keys
    BY <1>1, <2>2 DEF ThreadStates, Labels
  <2>5. ThreadOK(q, now) /\ MayFind(q, cache')
    BY <1>1, <2>2, <2>4 DEF ThreadOK, MayFind, Fresh
  <2>. QED
    BY <1>5, <2>1, <2>3, <2>5, GoOnStep
<1>. QED
  BY <1>4, <1>5 DEF Write

LEMMA KeepStep == ASSUME Inv, NEW t \in Threads, Keep(t)  PROVE Inv'
<1>1. {} \in SUBSET thread[t].got
  OBVIOUS
<1>. QED
  BY <1>1, StoreAndEnd DEF Keep, At

LEMMA CheckStep == ASSUME Inv, NEW t \in Threads, Check(t)  PROVE Inv'
<1>1. /\ thread[t] \in ThreadStates /\ ThreadOK(thread[t], now) /\ thread[t].pc = "check" /\ Settled
  BY SettledSame DEF Check, At, Inv
<1>2. ASSUME NEW pc \in {"unset", "erase"}, Goto(t, pc)  PROVE Inv'
  <2>. DEFINE q == [thread[t] EXCEPT !.pc = pc]
  <2>1. q \in ThreadStates /\ q.pc = pc /\ q.clock = thread[t].clock /\ q.keys = thread[t].keys
    BY <1>1 DEF ThreadStates, Labels
  <2>2. ThreadOK(q, now) /\ MayFind(q, cache')
    BY <1>1, <2>1 DEF ThreadOK, MayFind
  <2>. QED
    BY <1>1, <1>2, <2>2, GotoStep
<1>. QED
  BY <1>2 DEF Check

LEMMA UnsetStep == ASSUME Inv, NEW t \in Threads, Unset(t)  PROVE Inv'
<1>. DEFINE k == TheKey(t)
            q == [thread[t] EXCEPT !.pc = "erase"]
<1>1. /\ thread[t] \in ThreadStates /\ ThreadOK(thread[t], now) /\ thread[t].pc = "unset"
      /\ UNCHANGED <<now, remote>>
  BY DEF Unset, At, Inv
<1>2. CASE k \notin HeldKeys(cache)
  BY <1>1, <1>2, KeyErrorStep DEF Unset
<1>3. CASE k \in HeldKeys(cache)
  <2>1. Forget(k) /\ Goto(t, "erase")
    BY <1>3 DEF Unset
  <2>2. Settled
    BY <1>1, <1>3, <2>1, SettledForget
  <2>3. q \in ThreadStates /\ q.pc = "erase" /\ q.clock = thread[t].clock /\ q.keys = thread[t].keys
    BY <1>1 DEF ThreadStates, Labels
  <2>4. ThreadOK(q, now) /\ MayFind(q, cache')
    BY <1>1, <2>3 DEF ThreadOK, MayFind
  <2>. QED
    BY <2>1, <2>2, <2>4, GotoStep
<1>. QED
  BY <1>2, <1>3

LEMMA KeyInHand ==
  ASSUME Inv, NEW t \in Threads, thread[t].pc \notin {"idle", "empty"}
  PROVE  TheKey(t) \in Keys
<1>1. thread[t].keys # {} /\ thread[t].keys \in SUBSET Keys
  BY DEF Inv, ThreadOK, ThreadStates
<1>. QED
  BY <1>1, TheKeyFact

LEMMA EraseStep == ASSUME Inv, NEW t \in Threads, Erase(t)  PROVE Inv'
<1>. DEFINE k == TheKey(t)
<1>1. /\ UNCHANGED <<now, cache>> /\ k \in Keys /\ apart \in [Keys -> Reasons]
      /\ remote \in [Keys -> Values \cup {Nothing}]
  BY KeyInHand DEF Erase, At, Inv
<1>2. CASE RaiseInDoubt(t, k, Nothing)
  BY <1>1, <1>2, RaiseStep
<1>3. ASSUME NEW outcome \in {"RecordNotFound", "ok"}, End(t, outcome, {}), apart' = apart,
             remote' = remote \/ remote' = [remote EXCEPT ![k] = Nothing]
      PROVE  Inv'
  <2>1. remote' \in [Keys -> Values \cup {Nothing}]
    BY <1>1, <1>3
  <2>. QED
    BY <1>1, <1>3, <2>1, FailStep DEF Outcomes
<1>. QED
  BY <1>2, <1>3 DEF Erase

LEMMA ProbeStep == ASSUME Inv, NEW t \in Threads, Probe(t)  PROVE Inv'
<1>. DEFINE keys == {TheKey(t)} \cap {j \in Keys : remote[j] # Nothing}
            facts == {Fact(k, remote[k], now) : k \in keys}
<1>1. /\ UNCHANGED <<now, remote, cache, apart>> /\ Settled
      /\ remote \in [Keys -> Values \cup {Nothing}] /\ apart \in [Keys -> Reasons]
  BY SettledSame DEF Probe, Inv
<1>2. CASE End(t, "RemoteError", {})
  BY <1>1, <1>2, FailStep DEF Outcomes
<1>3. CASE End(t, "ok", facts)
  <2>1. \A k \in keys : k \in Keys /\ remote[k] \in Values
    BY <1>1
  <2>2. \A f \in facts : f \in Facts /\ ~ f.late /\ f.asOf = now /\ now \in Nat
    BY <2>1, NewFact
  <2>3. facts \in SUBSET Facts /\ \A f \in facts : now - f.asOf <= TTL + 2 * MaxCall
    BY <2>2, Constants
  <2>. HIDE DEF facts
  <2>. QED
    BY <1>1, <1>3, <2>3, EndStep DEF Outcomes
<1>. QED
  BY <1>2, <1>3 DEF Probe

LEMMA TruncateStep == ASSUME Inv, NEW t \in Threads, Truncate(t)  PROVE Inv'
<1>1. remote' \in [Keys -> Values \cup {Nothing}] /\ apart' \in [Keys -> Reasons]
  BY DEF Truncate, Inv, Reasons
<1>. QED
  BY <1>1, FailStep DEF Truncate, Outcomes
-----------------------------------------------------------------------------
LEMMA OutsideStep ==
  ASSUME Inv, NEW k \in Keys, NEW v \in Values \cup {Nothing}, remote' = [remote EXCEPT ![k] = v],
         apart' = [apart EXCEPT ![k] = "changed"], UNCHANGED <<now, cache, thread, reply>>
  PROVE  Inv'
<1>1. remote' \in [Keys -> Values \cup {Nothing}] /\ apart' \in [Keys -> Reasons]
  BY ReasonFacts, Marked DEF Inv
<1>. QED
  BY <1>1 DEF Inv

LEMMA TickStep == ASSUME Inv, Tick  PROVE Inv'
<1>1. /\ now \in 0 .. MaxTime /\ now < MaxTime /\ now' = now + 1
      /\ UNCHANGED <<remote, cache, thread, reply, apart>> /\ CacheOK(cache, now)
  BY DEF Inv, Tick
<1>2. now \in Nat /\ now' \in 0 .. MaxTime
  BY <1>1, Constants
<1>3. CacheOK(cache, now + 1)
  <2>1. \A i \in DOMAIN cache : cache[i].exp \in Nat
    BY <1>1, EntryTypes
  <2>. QED
    BY <1>1, <1>2, <2>1, Constants DEF CacheOK
<1>4. ASSUME NEW t \in Threads  PROVE ThreadOK(thread[t], now + 1)
  <2>. DEFINE q == thread[t]
  <2>1. q \in ThreadStates /\ ThreadOK(q, now)
    BY DEF Inv
  <2>2. q.clock \in Nat /\ q.exp \in Nat /\ \A f \in q.got : f.asOf \in Nat
    BY <2>1, Constants DEF ThreadStates, Facts
  <2>3. q.pc \notin {"idle", "wait"} => now < q.clock + MaxCall
    BY DEF Tick, At
  <2>. HIDE DEF q
  <2>4. /\ q.pc \notin {"idle", "wait"} => q.clock <= now + 1 /\ now + 1 <= q.clock + MaxCall
        /\ q.pc = "gather" => q.exp <= now + 1 + TTL
        /\ \A f \in q.got : Fresh(q, f, now) => Fresh(q, f, now + 1)
    BY <1>2, <2>1, <2>2, <2>3, Constants DEF ThreadOK, Fresh
  <2>. QED
    BY <2>1, <2>4 DEF ThreadOK, q
<1>. QED
  BY <1>1, <1>2, <1>3, <1>4 DEF Inv

LEMMA InitInv == Init => Inv
<1>. SUFFICES ASSUME Init  PROVE Inv
  OBVIOUS
<1>1. NoReply \in Replies /\ ReplyOK(NoReply)
  BY Constants DEF ReplyOK, NoReply, Replies, Outcomes
<1>2. Idle \in ThreadStates
  BY IdleOK DEF ThreadOK
<1>3. CacheOK(<< >>, 0)
  BY DEF CacheOK, DistinctKeys
<1>4. apart \in [Keys -> Reasons]
  BY ReasonFacts DEF Init
<1>. QED
  BY <1>1, <1>2, <1>3, <1>4, IdleOK, Constants DEF Init, Inv

LEMMA NextInv == Inv /\ [Next]_vars => Inv'
<1>. SUFFICES ASSUME Inv, [Next]_vars  PROVE Inv'
  OBVIOUS
<1>1. ASSUME NEW k \in Keys, Expire(k)  PROVE Inv'
  BY <1>1, OutsideStep DEF Expire
<1>2. ASSUME NEW k \in Keys, NEW v \in Values, ForeignWrite(k, v)  PROVE Inv'
  BY <1>2, OutsideStep DEF ForeignWrite
<1>3. ASSUME NEW t \in Threads, Read(t)  PROVE Inv'
  BY <1>3, PeekStep, JudgeStep, DropStep, LookupStep, HitStep, FetchStep, FillStep, SplitStep,
     FetchManyStep, StampStep, FillOneStep, CollectOneStep, ReturnManyStep DEF Read
<1>4. ASSUME NEW t \in Threads, Update(t)  PROVE Inv'
  BY <1>4, WriteStep, KeepStep, CheckStep, UnsetStep, EraseStep, ProbeStep, TruncateStep DEF Update
<1>5. CASE UNCHANGED vars
  BY <1>5 DEF vars, Inv
<1>. QED
  BY <1>1, <1>2, <1>3, <1>4, <1>5, TickStep, StartStep, AcquireStep DEF Next

(* Inv is an invariant of every store. *)
THEOREM Invariance == Spec => []Inv
<1>. QED
  BY InitInv, NextInv, PTL DEF Spec

(* Type correctness. *)
THEOREM TypeCorrect == Spec => []TypeOK
<1>1. Inv => TypeOK
  <2>. SUFFICES ASSUME Inv  PROVE TypeOK
    OBVIOUS
  <2>1. ASSUME NEW i \in DOMAIN cache  PROVE cache[i].data \in Facts /\ cache[i].key = cache[i].data.key
    BY EntryTypes DEF Inv, CacheOK
  <2>2. ASSUME NEW t \in Threads
        PROVE  /\ thread[t].pc \in Labels /\ thread[t].op \in Ops \cup {"none"}
               /\ thread[t].got \subseteq Facts
               /\ reply[t].outcome \in Outcomes /\ reply[t].facts \subseteq Facts
    <3>1. thread[t] \in ThreadStates /\ reply[t] \in Replies
      BY DEF Inv
    <3>. QED
      BY <3>1 DEF ThreadStates, Replies
  <2>. QED
    BY <2>1, <2>2 DEF TypeOK, Inv, CacheOK
<1>. QED
  BY <1>1, Invariance, PTL

(* What a read returns was so at most a local TTL and two calls ago, or an *)
(* entry in front of it was renewed in its place or moved to the back.     *)
THEOREM ReadsTheorem == Spec => []ReadsBounded
<1>1. Inv => ReadsBounded
  BY DEF Inv, ReplyOK, ReadsBounded
<1>. QED
  BY <1>1, Invariance, PTL
-----------------------------------------------------------------------------
(* A process that gets one key at a time and never puts, as the one that   *)
(* verifies tokens: the lock keeps its sweeps apart, so no entry is ever   *)
(* stored again while it is held, and only the front one is deleted under  *)
(* a sweep.                                                                *)
OnlyGets == Ops \subseteq {"get_async", "remove", "exists", "truncate"}

Reading == {"peek", "judge", "drop", "lookup", "hit", "fetch", "fill"}

NoneLate(c) == \A i \in DOMAIN c : ~ c[i].data.late

LoneThread(q, c) ==
  /\ q.pc \notin {"write", "keep", "fetch_many", "stamp", "gather"}
  /\ q.pc \in Reading \cup {"wait"} => q.op = "get_async"
  /\ ~ q.misled
  /\ q.pc \in {"judge", "drop"} /\ q.head \in HeldKeys(c) => c[1].key = q.head
  /\ q.pc = "fetch" => (CHOOSE k \in q.keys : TRUE) \notin HeldKeys(c)
  /\ q.pc = "fill" => \A fact \in q.got : fact.key \notin HeldKeys(c)

LoneReaders == \A t, u \in Threads : thread[t].pc \in Reading /\ thread[u].pc \in Reading => t = u

LoneInv ==
  /\ Inv /\ NoneLate(cache) /\ LoneReaders
  /\ \A t \in Threads : LoneThread(thread[t], cache) /\ \A fact \in reply[t].facts : ~ fact.late

(* Deleting an entry behind the front leaves the front. *)
LEMMA DropFront ==
  ASSUME NEW n \in Nat, NEW c, CacheOK(c, n), NEW k \in HeldKeys(c)
  PROVE  /\ HeldKeys(DropKey(c, k)) \subseteq HeldKeys(c) \ {k}
         /\ c[1].key # k => DropKey(c, k)[1] = c[1]
<1>. DEFINE place == CHOOSE i \in DOMAIN c : c[i].key = k
            d == DropKey(c, k)
<1>1. place \in DOMAIN c /\ c[place].key = k
  BY DEF HeldKeys
<1>2. DOMAIN c = 1 .. Len(c) /\ Len(c) \in Nat /\ DistinctKeys(c)
  BY DEF CacheOK
<1>3. /\ DOMAIN d = 1 .. Len(c) - 1
      /\ \A i \in 1 .. Len(c) - 1 : d[i] = c[IF i < place THEN i ELSE i + 1]
  BY DEF DropKey
<1>. HIDE DEF place, d
<1>4. ASSUME NEW i \in DOMAIN d  PROVE d[i].key \in HeldKeys(c) /\ d[i].key # k
  <2>. DEFINE j == IF i < place THEN i ELSE i + 1
  <2>1. i \in 1 .. Len(c) - 1 /\ i \in Nat /\ place \in Nat
    BY <1>1, <1>2, <1>3
  <2>2. d[i] = c[j]
    BY <1>3, <2>1
  <2>3. j \in DOMAIN c /\ j # place
    BY <1>2, <2>1
  <2>. HIDE DEF j
  <2>. QED
    BY <1>1, <1>2, <2>2, <2>3 DEF DistinctKeys, HeldKeys
<1>5. ASSUME c[1].key # k  PROVE d[1] = c[1]
  BY <1>1, <1>2, <1>3, <1>5
<1>. QED
  BY <1>4, <1>5 DEF HeldKeys, d

Shrunk == cache' = cache \/ \E k \in HeldKeys(cache) : cache' = DropKey(cache, k)

LEMMA ShrunkFacts ==
  ASSUME Inv, Shrunk
  PROVE  /\ NoneLate(cache) => NoneLate(cache')
         /\ \A q : LoneThread(q, cache) => LoneThread(q, cache')
<1>1. now \in Nat /\ CacheOK(cache, now)
  BY Constants DEF Inv
<1>2. CASE cache' = cache
  BY <1>2
<1>3. ASSUME NEW k \in HeldKeys(cache), cache' = DropKey(cache, k)
      PROVE  /\ NoneLate(cache) => NoneLate(cache')
             /\ \A q : LoneThread(q, cache) => LoneThread(q, cache')
  <2>1. \A i \in DOMAIN cache' : \E j \in DOMAIN cache : cache'[i] = cache[j]
    BY <1>1, <1>3, DropFacts
  <2>2. /\ HeldKeys(cache') \subseteq HeldKeys(cache) \ {k}
        /\ cache[1].key # k => cache'[1] = cache[1]
    BY <1>1, <1>3, DropFront
  <2>3. ASSUME NEW q, LoneThread(q, cache)  PROVE LoneThread(q, cache')
    <3>1. q.pc \in {"judge", "drop"} /\ q.head \in HeldKeys(cache') => cache'[1].key = q.head
      BY <2>2, <2>3 DEF LoneThread
    <3>. QED
      BY <2>2, <2>3, <3>1 DEF LoneThread
  <2>. QED
    BY <2>1, <2>3 DEF NoneLate
<1>. QED
  BY <1>2, <1>3 DEF Shrunk

(* A step of one thread, which may begin to read if nobody else does.      *)
LEMMA LoneStep ==
  ASSUME LoneInv, Inv', NEW t \in Threads, NEW q,
         thread' = [thread EXCEPT ![t] = q], LoneThread(q, cache'), NoneLate(cache'),
         \A u \in Threads \ {t} : LoneThread(thread[u], cache'),
         q.pc \in Reading => \A u \in Threads \ {t} : thread[u].pc \notin Reading,
         \A u \in Threads \ {t} : reply'[u] = reply[u],
         \A fact \in reply'[t].facts : ~ fact.late
  PROVE  LoneInv'
<1>1. thread'[t] = q /\ \A u \in Threads \ {t} : thread'[u] = thread[u]
  BY DEF LoneInv, Inv
<1>2. LoneReaders'
  BY <1>1 DEF LoneInv, LoneReaders
<1>3. \A u \in Threads : LoneThread(thread'[u], cache')
  BY <1>1
<1>4. \A u \in Threads : \A fact \in reply'[u].facts : ~ fact.late
  BY DEF LoneInv
<1>. QED
  BY <1>2, <1>3, <1>4 DEF LoneInv

LEMMA LoneEnd ==
  ASSUME LoneInv, Inv', NEW t \in Threads, NEW outcome, NEW facts, End(t, outcome, facts),
         \A fact \in facts : ~ fact.late, NoneLate(cache'),
         \A u \in Threads \ {t} : LoneThread(thread[u], cache')
  PROVE  LoneInv'
<1>1. Idle.pc = "idle" /\ LoneThread(Idle, cache')
  BY DEF Idle, LoneThread, Reading
<1>2. thread' = [thread EXCEPT ![t] = Idle]
  BY DEF End
<1>3. reply'[t].facts = facts /\ \A u \in Threads \ {t} : reply'[u] = reply[u]
  BY DEF End, LoneInv, Inv
<1>. QED
  BY <1>1, <1>2, <1>3, LoneStep DEF Reading

LEMMA LoneEndShrunk ==
  ASSUME LoneInv, Inv', NEW t \in Threads, NEW outcome, NEW facts, End(t, outcome, facts),
         \A fact \in facts : ~ fact.late, Shrunk
  PROVE  LoneInv'
BY LoneEnd, ShrunkFacts DEF LoneInv

(* an operation that goes on, a reader as a reader *)
LEMMA LoneGoOn ==
  ASSUME LoneInv, Inv', NEW t \in Threads, NEW q, thread' = [thread EXCEPT ![t] = q], UNCHANGED reply,
         Shrunk, LoneThread(q, cache'), q.pc \in Reading => thread[t].pc \in Reading
  PROVE  LoneInv'
<1>1. NoneLate(cache') /\ \A u \in Threads \ {t} : LoneThread(thread[u], cache')
  BY ShrunkFacts DEF LoneInv
<1>2. q.pc \in Reading => \A u \in Threads \ {t} : thread[u].pc \notin Reading
  BY DEF LoneInv, LoneReaders
<1>. QED
  BY <1>1, <1>2, LoneStep DEF LoneInv

LEMMA LoneStart ==
  ASSUME OnlyGets, LoneInv, Inv', NEW t \in Threads, Start(t)  PROVE LoneInv'
<1>0. PICK op \in Ops : \E keys, val : Begin(t, op, keys, val)
  BY DEF Start
<1>1. PICK keys, val : Begin(t, op, keys, val)
  BY <1>0
<1>. DEFINE pc == CASE op \in Locked -> "wait"
                    [] op \in {"get", "get_many"} -> "peek"
                    [] op = "put" -> "write"
                    [] op = "remove" -> "check"
                    [] op = "exists" -> "probe"
                    [] op = "truncate" -> "empty"
            q == [Idle EXCEPT !.op = op, !.keys = keys, !.val = val, !.clock = now, !.pc = pc]
<1>2. pc \in {"wait", "check", "probe", "empty"} /\ (pc = "wait" => op = "get_async")
  BY DEF OnlyGets, Locked
<1>3. thread' = [thread EXCEPT ![t] = q]
  BY <1>1 DEF Begin
<1>. HIDE DEF pc
<1>4. q.pc = pc /\ q.op = op /\ q.misled = FALSE
  BY DEF Idle
<1>. HIDE DEF q
<1>5. LoneThread(q, cache) /\ q.pc \notin Reading
  BY <1>2, <1>4 DEF LoneThread, Reading
<1>6. UNCHANGED cache /\ reply' = [reply EXCEPT ![t] = NoReply] /\ NoReply.facts = {}
  BY DEF Start, NoReply
<1>7. reply'[t].facts = {} /\ \A u \in Threads \ {t} : reply'[u] = reply[u]
  BY <1>6 DEF LoneInv, Inv
<1>. QED
  BY <1>3, <1>5, <1>6, <1>7, LoneStep DEF LoneInv

LEMMA LoneAcquire ==
  ASSUME LoneInv, Inv', NEW t \in Threads, Acquire(t)  PROVE LoneInv'
<1>. DEFINE q == [thread[t] EXCEPT !.pc = "peek", !.clock = now]
<1>1. /\ thread' = [thread EXCEPT ![t] = q] /\ UNCHANGED <<cache, reply>>
      /\ thread[t] \in ThreadStates /\ thread[t].pc = "wait" /\ LoneThread(thread[t], cache)
  BY DEF Acquire, At, LoneInv, Inv
<1>2. q.pc = "peek" /\ q.op = "get_async" /\ ~ q.misled
  BY <1>1 DEF ThreadStates, LoneThread
<1>. HIDE DEF q
<1>3. LoneThread(q, cache')
  BY <1>2 DEF LoneThread, Reading
<1>4. ASSUME NEW u \in Threads  PROVE thread[u].pc \notin Reading
  <2>1. ~ Holds(u, "get_async") /\ LoneThread(thread[u], cache)
    BY <1>1 DEF Acquire, LoneInv, LoneThread
  <2>. QED
    BY <2>1 DEF Holds, At, LoneThread, Reading
<1>. QED
  BY <1>1, <1>3, <1>4, LoneStep DEF LoneInv

LEMMA LonePeek ==
  ASSUME LoneInv, Inv', NEW t \in Threads, Peek(t)  PROVE LoneInv'
<1>1. /\ thread[t] \in ThreadStates /\ thread[t].pc = "peek" /\ LoneThread(thread[t], cache)
      /\ UNCHANGED <<cache, reply>>
  BY DEF Peek, At, LoneInv, Inv
<1>2. CASE cache = << >>
  <2>. DEFINE q == [thread[t] EXCEPT !.pc = "lookup"]
  <2>1. thread' = [thread EXCEPT ![t] = q]
    BY <1>2 DEF Peek, LoneInv, Inv
  <2>2. q.misled = thread[t].misled /\ q.op = thread[t].op /\ q.pc = "lookup"
    BY <1>1 DEF ThreadStates
  <2>3. LoneThread(q, cache')
    BY <1>1, <2>2 DEF LoneThread, Reading
  <2>. QED
    BY <1>1, <2>1, <2>2, <2>3, LoneGoOn DEF Shrunk, Reading
<1>3. CASE cache # << >>
  <2>. DEFINE q == [thread[t] EXCEPT !.pc = "judge", !.head = cache[1].key]
  <2>1. thread' = [thread EXCEPT ![t] = q]
    BY <1>3 DEF Peek, LoneInv, Inv
  <2>2. q.misled = thread[t].misled /\ q.op = thread[t].op /\ q.pc = "judge" /\ q.head = cache[1].key
    BY <1>1 DEF ThreadStates
  <2>3. LoneThread(q, cache')
    BY <1>1, <2>2 DEF LoneThread, Reading
  <2>. QED
    BY <1>1, <2>1, <2>2, <2>3, LoneGoOn DEF Shrunk, Reading
<1>. QED
  BY <1>2, <1>3

(* a reader that only changes its place in the code *)
LEMMA LoneGoto ==
  ASSUME LoneInv, Inv', NEW t \in Threads, NEW pc, Goto(t, pc), Shrunk,
         pc \in {"peek", "drop", "lookup", "hit", "fetch"} =>
           thread[t].pc \in Reading,
         pc = "drop" => thread[t].pc = "judge",
         pc = "fetch" => TheKey(t) \notin HeldKeys(cache),
         pc \in {"peek", "drop", "lookup", "hit", "fetch", "unset", "erase"}
  PROVE  LoneInv'
<1>. DEFINE q == [thread[t] EXCEPT !.pc = pc]
<1>1. /\ thread[t] \in ThreadStates /\ LoneThread(thread[t], cache) /\ LoneThread(thread[t], cache')
      /\ thread' = [thread EXCEPT ![t] = q] /\ UNCHANGED reply
  BY ShrunkFacts DEF Goto, LoneInv, Inv
<1>2. /\ q.pc = pc /\ q.misled = thread[t].misled /\ q.op = thread[t].op /\ q.head = thread[t].head
      /\ q.keys = thread[t].keys
  BY <1>1 DEF ThreadStates
<1>3. HeldKeys(cache') \subseteq HeldKeys(cache)
  <2>1. ASSUME NEW k \in HeldKeys(cache), cache' = DropKey(cache, k)  PROVE HeldKeys(cache') \subseteq HeldKeys(cache)
    BY <2>1, DropFront, Constants DEF LoneInv, Inv
  <2>. QED
    BY <2>1 DEF Shrunk
<1>4. LoneThread(q, cache')
  BY <1>1, <1>2, <1>3 DEF LoneThread, Reading, TheKey
<1>. QED
  BY <1>1, <1>2, <1>4, LoneGoOn DEF Reading

LEMMA LoneJudge ==
  ASSUME LoneInv, Inv', NEW t \in Threads, Judge(t)  PROVE LoneInv'
<1>. DEFINE head == thread[t].head
<1>1. /\ thread[t] \in ThreadStates /\ thread[t].pc = "judge" /\ LoneThread(thread[t], cache)
      /\ UNCHANGED cache /\ Shrunk
  BY DEF Judge, At, LoneInv, Inv, Shrunk
<1>2. CASE head \notin HeldKeys(cache)
  BY <1>1, <1>2, LoneEndShrunk DEF Judge
<1>3. CASE head \in HeldKeys(cache) /\ Stale(EntryOf(cache, head), thread[t].clock)
  BY <1>1, <1>3, LoneGoto DEF Judge, Reading
<1>4. CASE head \in HeldKeys(cache) /\ ~ Stale(EntryOf(cache, head), thread[t].clock)
  <2>. DEFINE q == [thread[t] EXCEPT !.pc = "lookup", !.misled = cache[1].key # head]
  <2>1. thread' = [thread EXCEPT ![t] = q] /\ UNCHANGED reply
    BY <1>4 DEF Judge, LoneInv, Inv
  <2>2. q.pc = "lookup" /\ q.op = thread[t].op /\ q.misled = (cache[1].key # head)
    BY <1>1 DEF ThreadStates
  <2>3. LoneThread(q, cache')
    BY <1>1, <1>4, <2>2 DEF LoneThread, Reading
  <2>. QED
    BY <1>1, <2>1, <2>2, <2>3, LoneGoOn DEF Reading
<1>. QED
  BY <1>2, <1>3, <1>4

LEMMA LoneDrop ==
  ASSUME LoneInv, Inv', NEW t \in Threads, Drop(t)  PROVE LoneInv'
<1>1. thread[t].pc = "drop"
  BY DEF Drop, At
<1>2. CASE thread[t].head \notin HeldKeys(cache)
  BY <1>2, LoneEndShrunk DEF Drop, Shrunk
<1>3. CASE thread[t].head \in HeldKeys(cache)
  <2>1. Goto(t, "peek") /\ Shrunk
    BY <1>3 DEF Drop, Forget, Shrunk
  <2>. QED
    BY <1>1, <2>1, LoneGoto DEF Reading
<1>. QED
  BY <1>2, <1>3

LEMMA LoneLookup ==
  ASSUME LoneInv, Inv', NEW t \in Threads, Lookup(t)  PROVE LoneInv'
<1>1. thread[t].pc = "lookup" /\ Shrunk
  BY DEF Lookup, At, Shrunk
<1>2. CASE TheKey(t) \in HeldKeys(cache)
  BY <1>1, <1>2, LoneGoto DEF Lookup, Reading
<1>3. CASE TheKey(t) \notin HeldKeys(cache)
  BY <1>1, <1>3, LoneGoto DEF Lookup, Reading
<1>. QED
  BY <1>2, <1>3

LEMMA LoneHit ==
  ASSUME LoneInv, Inv', NEW t \in Threads, Hit(t)  PROVE LoneInv'
<1>. DEFINE k == TheKey(t)
<1>1. thread[t].pc = "hit" /\ Shrunk /\ ~ thread[t].misled
  BY DEF Hit, At, Shrunk, LoneInv, LoneThread
<1>2. CASE k \in HeldKeys(cache)
  <2>1. PICK i \in DOMAIN cache : EntryOf(cache, k) = cache[i]
    BY <1>2, EntryFact DEF LoneInv, Inv, CacheOK
  <2>2. cache[i].data \in Facts /\ ~ cache[i].data.late
    BY EntryTypes DEF LoneInv, Inv, NoneLate
  <2>3. ~ Taken(t, k).late
    BY <1>1, <2>1, <2>2 DEF Taken, Facts
  <2>. QED
    BY <1>1, <1>2, <2>3, LoneEndShrunk DEF Hit
<1>3. CASE k \notin HeldKeys(cache)
  BY <1>1, <1>3, LoneEndShrunk DEF Hit
<1>. QED
  BY <1>2, <1>3

LEMMA LoneFetch ==
  ASSUME LoneInv, Inv', NEW t \in Threads, Fetch(t)  PROVE LoneInv'
<1>. DEFINE k == TheKey(t)
            f == Fact(k, remote[k], now)
            q == [thread[t] EXCEPT !.pc = "fill", !.got = {f}]
<1>1. /\ thread[t] \in ThreadStates /\ thread[t].pc = "fetch" /\ LoneThread(thread[t], cache)
      /\ UNCHANGED cache /\ Shrunk
  BY DEF Fetch, At, LoneInv, Inv, Shrunk
<1>2. ASSUME NEW outcome, End(t, outcome, {})  PROVE LoneInv'
  BY <1>1, <1>2, LoneEndShrunk
<1>3. ASSUME UNCHANGED reply, thread' = [thread EXCEPT ![t].pc = "fill", ![t].got = {f}]
      PROVE  LoneInv'
  <2>1. thread' = [thread EXCEPT ![t] = q]
    BY <1>3 DEF LoneInv, Inv
  <2>2. f.key = k /\ k \notin HeldKeys(cache)
    BY <1>1 DEF Fact, LoneThread, TheKey
  <2>. HIDE DEF f, k
  <2>3. q.pc = "fill" /\ q.op = thread[t].op /\ q.misled = thread[t].misled /\ q.got = {f}
    BY <1>1 DEF ThreadStates
  <2>4. LoneThread(q, cache')
    BY <1>1, <2>2, <2>3 DEF LoneThread, Reading
  <2>. QED
    BY <1>1, <1>3, <2>1, <2>3, <2>4, LoneGoOn DEF Reading
<1>. QED
  BY <1>2, <1>3 DEF Fetch

LEMMA LoneStore ==
  ASSUME LoneInv, NEW fact \in Facts, ~ fact.late, NEW e, fact.key \notin HeldKeys(cache)
  PROVE  NoneLate(Assigned(fact, e))
<1>. DEFINE entry == CacheEntry(fact.key, e, fact)
            HeldUp(j) == \E i \in DOMAIN cache : i < j /\ cache[i].key = fact.key
<1>1. cache \in Seq(Entries) /\ NoneLate(cache) /\ \A i \in DOMAIN cache : cache[i] \in Entries
  BY EntryTypes DEF LoneInv, Inv, CacheOK
<1>2. entry.key = fact.key /\ entry.data = fact /\ entry = [key |-> fact.key, exp |-> e, data |-> fact]
  BY DEF CacheEntry
<1>3. Assigned(fact, e) = [j \in DOMAIN Append(cache, entry) |->
                             [Append(cache, entry)[j] EXCEPT !.data.late = @ \/ HeldUp(j)]]
  BY <1>2 DEF Assigned, StoreEntry
<1>4. \A j : ~ HeldUp(j)
  BY DEF HeldKeys
<1>. HIDE DEF HeldUp, entry
<1>5. ASSUME NEW j \in DOMAIN Assigned(fact, e)  PROVE ~ Assigned(fact, e)[j].data.late
  <2>1. j \in DOMAIN Append(cache, entry)
    BY <1>3
  <2>2. Assigned(fact, e)[j] = [Append(cache, entry)[j] EXCEPT !.data.late = @ \/ HeldUp(j)]
    BY <1>3, <2>1
  <2>3. CASE j \in DOMAIN cache
    <3>1. Append(cache, entry)[j] = cache[j]
      BY <1>1, <2>3
    <3>2. cache[j] \in [key : Keys, exp : Nat, data : Facts] /\ cache[j].data \in Facts /\ ~ cache[j].data.late
      BY <1>1, <2>3 DEF Entries, NoneLate
    <3>. QED
      BY <2>2, <3>1, <3>2, <1>4 DEF Facts
  <2>4. CASE j = Len(cache) + 1
    <3>1. Append(cache, entry)[j] = entry
      BY <1>1, <2>4
    <3>. QED
      BY <2>2, <3>1, <1>2, <1>4 DEF Facts
  <2>. QED
    BY <1>1, <2>1, <2>3, <2>4
<1>. QED
  BY <1>5 DEF NoneLate

LEMMA LoneFill ==
  ASSUME LoneInv, Inv', NEW t \in Threads, Fill(t)  PROVE LoneInv'
<1>1. /\ thread[t].pc = "fill" /\ ThreadOK(thread[t], now) /\ LoneThread(thread[t], cache)
  BY DEF Fill, At, LoneInv, Inv
<1>2. /\ thread[t].got # {} /\ thread[t].got \in SUBSET Facts
      /\ \A f \in thread[t].got : ~ f.late /\ f.key \notin HeldKeys(cache)
  BY <1>1 DEF ThreadOK, ThreadStates, Fresh, LoneThread
<1>3. PICK f \in thread[t].got : StoreFact(f, now + TTL)
  BY <1>2 DEF Fill
<1>4. NoneLate(cache')
  BY <1>2, <1>3, LoneStore DEF StoreFact
<1>5. ASSUME NEW u \in Threads \ {t}  PROVE LoneThread(thread[u], cache')
  BY <1>1 DEF LoneInv, LoneReaders, LoneThread, Reading
<1>. QED
  BY <1>2, <1>4, <1>5, LoneEnd DEF Fill

LEMMA LoneRemove ==
  ASSUME LoneInv, Inv', NEW t \in Threads, Check(t) \/ Unset(t) \/ Erase(t)  PROVE LoneInv'
<1>1. CASE Check(t)
  <2>1. thread[t].pc = "check" /\ Shrunk
    BY <1>1 DEF Check, At, Shrunk
  <2>2. ASSUME NEW pc \in {"unset", "erase"}, Goto(t, pc)  PROVE LoneInv'
    BY <2>1, <2>2, LoneGoto
  <2>. QED
    BY <1>1, <2>2 DEF Check
<1>2. CASE Unset(t)
  <2>1. CASE TheKey(t) \notin HeldKeys(cache)
    BY <1>2, <2>1, LoneEndShrunk DEF Unset, Shrunk
  <2>2. CASE TheKey(t) \in HeldKeys(cache)
    <3>1. Goto(t, "erase") /\ Shrunk
      BY <1>2, <2>2 DEF Unset, Forget, Shrunk
    <3>. QED
      BY <3>1, LoneGoto
  <2>. QED
    BY <2>1, <2>2
<1>3. CASE Erase(t)
  <2>1. (\E outcome : End(t, outcome, {})) /\ Shrunk
    BY <1>3 DEF Erase, RaiseInDoubt, Shrunk
  <2>. QED
    BY <2>1, LoneEndShrunk
<1>. QED
  BY <1>1, <1>2, <1>3

LEMMA LoneProbe ==
  ASSUME LoneInv, Inv', NEW t \in Threads, Probe(t) \/ Truncate(t)  PROVE LoneInv'
<1>1. ASSUME NEW k  PROVE ~ Fact(k, remote[k], now).late
  BY DEF Fact
<1>2. Shrunk /\ \E outcome, facts : End(t, outcome, facts) /\ \A fact \in facts : ~ fact.late
  BY <1>1 DEF Probe, Truncate, Shrunk
<1>. QED
  BY <1>2, LoneEndShrunk

LEMMA LoneNext == OnlyGets /\ LoneInv /\ [Next]_vars => LoneInv'
<1>. SUFFICES ASSUME OnlyGets, LoneInv, [Next]_vars  PROVE LoneInv'
  OBVIOUS
<1>1. Inv'
  BY NextInv DEF LoneInv
<1>2. ASSUME UNCHANGED <<cache, thread, reply>>  PROVE LoneInv'
  BY <1>1, <1>2 DEF LoneInv, LoneReaders
<1>3. ASSUME NEW t \in Threads, Read(t)  PROVE LoneInv'
  <2>1. LoneThread(thread[t], cache)
    BY DEF LoneInv
  <2>2. /\ ~ Split(t) /\ ~ FetchMany(t) /\ ~ Stamp(t) /\ ~ FillOne(t) /\ ~ CollectOne(t) /\ ~ ReturnMany(t)
    BY <2>1 DEF Split, FetchMany, Stamp, FillOne, CollectOne, ReturnMany, At, LoneThread, Reading, Singles
  <2>. QED
    BY <1>1, <1>3, <2>2, LonePeek, LoneJudge, LoneDrop, LoneLookup, LoneHit, LoneFetch, LoneFill DEF Read
<1>4. ASSUME NEW t \in Threads, Update(t)  PROVE LoneInv'
  <2>1. ~ Write(t) /\ ~ Keep(t)
    BY DEF LoneInv, LoneThread, Write, Keep, At
  <2>. QED
    BY <1>1, <1>4, <2>1, LoneRemove, LoneProbe DEF Update
<1>5. CASE Tick \/ UNCHANGED vars \/ \E k \in Keys : Expire(k) \/ \E v \in Values : ForeignWrite(k, v)
  BY <1>2, <1>5 DEF Tick, vars, Expire, ForeignWrite
<1>. QED
  BY <1>1, <1>3, <1>4, <1>5, LoneStart, LoneAcquire DEF Next

LEMMA LoneInit == Init => LoneInv
<1>. SUFFICES ASSUME Init  PROVE LoneInv
  OBVIOUS
<1>1. LoneThread(Idle, cache)
  BY DEF Idle, LoneThread, Reading
<1>2. NoneLate(cache) /\ LoneReaders /\ \A t \in Threads : reply[t].facts = {}
  BY DEF Init, NoneLate, LoneReaders, Idle, Reading, NoReply
<1>. QED
  BY <1>1, <1>2, InitInv DEF Init, LoneInv

(* What a read returns was so at most a local TTL and two calls ago,       *)
(* without exception: the contract that Auth relies on for records.        *)
PromptReads ==
  \A t \in Threads : \A fact \in reply[t].facts : reply[t].at - fact.asOf <= TTL + 2 * MaxCall

(* A process that only calls get_async, remove, exists and truncate gets   *)
(* nothing late: the lock (line 71) is enough for its sweeps.              *)
THEOREM PromptReadsTheorem == OnlyGets => (Spec => []PromptReads)
<1>. SUFFICES ASSUME OnlyGets  PROVE Spec => []PromptReads
  OBVIOUS
<1>1. LoneInv /\ [Next]_vars => LoneInv'
  BY LoneNext
<1>2. LoneInv => PromptReads
  BY DEF LoneInv, Inv, ReplyOK, PromptReads
<1>. QED
  BY <1>1, <1>2, LoneInit, PTL DEF Spec
-----------------------------------------------------------------------------
(* One thread: the local cache and the records.                            *)
OneThread == Threads # {} /\ \A t, u \in Threads : t = u

(* what is kept of a record is its value, or the record changed unseen, or  *)
(* truncate took it away                                                    *)
Agrees(fact, rem, why) ==
  \/ fact.val = rem[fact.key]
  \/ why[fact.key] = "changed"
  \/ why[fact.key] = "emptied" /\ rem[fact.key] = Nothing

(* what becomes of another key does not touch a fact, and a key that changed unseen agrees *)
LEMMA AgreesStill ==
  ASSUME NEW rem, NEW why, rem \in [Keys -> Values \cup {Nothing}], why \in [Keys -> Reasons],
         NEW f, f.key \in Keys, Agrees(f, rem, why), NEW k, NEW v, NEW w
  PROVE  /\ f.key # k => /\ Agrees(f, [rem EXCEPT ![k] = v], [why EXCEPT ![k] = w])
                         /\ Agrees(f, [rem EXCEPT ![k] = v], why)
                         /\ Agrees(f, rem, [why EXCEPT ![k] = w])
         /\ Agrees(f, [rem EXCEPT ![k] = v], [why EXCEPT ![k] = "changed"])
         /\ Agrees(f, rem, [why EXCEPT ![k] = "changed"])
<1>1. f.key # k => [rem EXCEPT ![k] = v][f.key] = rem[f.key] /\ [why EXCEPT ![k] = w][f.key] = why[f.key]
  OBVIOUS
<1>2. [why EXCEPT ![k] = "changed"][f.key] = "changed" \/ f.key # k
  OBVIOUS
<1>3. f.key # k => [rem EXCEPT ![k] = v][f.key] = rem[f.key] /\ [why EXCEPT ![k] = "changed"][f.key] = why[f.key]
  OBVIOUS
<1>. QED
  BY <1>1, <1>2, <1>3 DEF Agrees

InHand(q) == CHOOSE k \in q.keys : TRUE

CoherentFor(q, c, rem, why) ==
  /\ \A i \in DOMAIN c : Agrees(c[i].data, rem, why) \/ (q.pc = "keep" /\ c[i].data.key = InHand(q))
  /\ q.pc \in {"fill", "keep"} =>
       \A fact \in q.got : Agrees(fact, rem, why) /\ fact.key = InHand(q)
  /\ q.pc \in {"stamp", "gather"} =>
       \A fact \in q.got : fact.key \in q.todo => Agrees(fact, rem, why)
  /\ q.pc = "erase" => InHand(q) \notin HeldKeys(c)

CoherentInv == Inv /\ \A t \in Threads : CoherentFor(thread[t], cache, remote, apart)

LEMMA CoherentStep ==
  ASSUME OneThread, CoherentInv, Inv', NEW t \in Threads, NEW q, thread' = [thread EXCEPT ![t] = q],
         CoherentFor(q, cache', remote', apart')
  PROVE  CoherentInv'
<1>1. \A u \in Threads : u = t
  BY DEF OneThread
<1>2. thread'[t] = q
  BY DEF CoherentInv, Inv
<1>. QED
  BY <1>1, <1>2 DEF CoherentInv

(* a step after which the thread has nothing in hand *)
Plain == Labels \ {"fill", "keep", "stamp", "gather", "erase"}

LEMMA PlainStep ==
  ASSUME OneThread, CoherentInv, Inv', NEW t \in Threads, NEW q, thread' = [thread EXCEPT ![t] = q],
         q.pc \in Plain,
         \A i \in DOMAIN cache' : Agrees(cache'[i].data, remote', apart')
  PROVE  CoherentInv'
<1>1. CoherentFor(q, cache', remote', apart')
  BY DEF CoherentFor, Plain
<1>. QED
  BY <1>1, CoherentStep

(* the cache as an ending or a plain step finds it *)
LEMMA AgreesNow ==
  ASSUME CoherentInv, NEW t \in Threads, thread[t].pc # "keep"
  PROVE  \A i \in DOMAIN cache : Agrees(cache[i].data, remote, apart)
BY DEF CoherentInv, CoherentFor

LEMMA PlainEnd ==
  ASSUME OneThread, CoherentInv, Inv', NEW t \in Threads, NEW outcome, NEW facts, End(t, outcome, facts),
         \A i \in DOMAIN cache' : Agrees(cache'[i].data, remote', apart')
  PROVE  CoherentInv'
<1>1. thread' = [thread EXCEPT ![t] = Idle] /\ Idle.pc \in Plain
  BY DEF End, Idle, Plain, Labels
<1>. QED
  BY <1>1, PlainStep

LEMMA PlainEndSame ==
  ASSUME OneThread, CoherentInv, Inv', NEW t \in Threads, NEW outcome, NEW facts, End(t, outcome, facts),
         thread[t].pc # "keep", UNCHANGED <<remote, cache, apart>>
  PROVE  CoherentInv'
<1>1. \A i \in DOMAIN cache' : Agrees(cache'[i].data, remote', apart')
  BY AgreesNow
<1>. QED
  BY <1>1, PlainEnd

LEMMA PlainSame ==
  ASSUME OneThread, CoherentInv, Inv', NEW t \in Threads, NEW q, thread' = [thread EXCEPT ![t] = q],
         q.pc \in Plain, thread[t].pc # "keep", UNCHANGED <<remote, cache, apart>>
  PROVE  CoherentInv'
<1>1. \A i \in DOMAIN cache' : Agrees(cache'[i].data, remote', apart')
  BY AgreesNow
<1>. QED
  BY <1>1, PlainStep

LEMMA PlainGoto ==
  ASSUME OneThread, CoherentInv, Inv', NEW t \in Threads, NEW pc \in Plain, Goto(t, pc),
         thread[t].pc # "keep", UNCHANGED <<remote, cache, apart>>
  PROVE  CoherentInv'
<1>. DEFINE q == [thread[t] EXCEPT !.pc = pc]
<1>1. thread' = [thread EXCEPT ![t] = q] /\ thread[t] \in ThreadStates
  BY DEF Goto, CoherentInv, Inv
<1>2. q.pc = pc
  BY <1>1 DEF ThreadStates
<1>. HIDE DEF q
<1>. QED
  BY <1>1, <1>2, PlainSame

(* Forgetting a key, and storing a fact that agrees. *)
LEMMA ForgetAgrees ==
  ASSUME CoherentInv, NEW t \in Threads, thread[t].pc # "keep", NEW k \in HeldKeys(cache), Forget(k),
         remote' = remote
  PROVE  /\ \A i \in DOMAIN cache' : Agrees(cache'[i].data, remote', apart')
         /\ k \notin HeldKeys(cache')
<1>1. now \in Nat /\ CacheOK(cache, now) /\ cache' = DropKey(cache, k) /\ apart' = [apart EXCEPT ![k] = "none"]
  BY Constants DEF CoherentInv, Inv, Forget
<1>2. HeldKeys(cache') \subseteq HeldKeys(cache) \ {k}
  BY <1>1, DropFront
<1>3. ASSUME NEW i \in DOMAIN cache'  PROVE Agrees(cache'[i].data, remote', apart')
  <2>1. PICK j \in DOMAIN cache : cache'[i] = cache[j]
    BY <1>1, DropFacts
  <2>2. cache'[i].key # k /\ cache[j].key = cache[j].data.key
    BY <1>1, <1>2 DEF HeldKeys, CacheOK
  <2>. QED
    BY <1>1, <2>1, <2>2, AgreesNow DEF Agrees
<1>. QED
  BY <1>2, <1>3

LEMMA StoreAgrees ==
  ASSUME CoherentInv, NEW t \in Threads, NEW fact \in Facts, ~ fact.late, fact.asOf <= now,
         now <= fact.asOf + MaxCall, NEW e \in Nat, e <= now + TTL, StoreFact(fact, e), remote' = remote,
         Agrees(fact, remote, apart), thread[t].pc = "keep" => fact.key = InHand(thread[t])
  PROVE  /\ \A i \in DOMAIN cache' : Agrees(cache'[i].data, remote', apart')
         /\ apart' \in {apart, [apart EXCEPT ![fact.key] = "none"]}
<1>1. /\ now \in Nat /\ CacheOK(cache, now) /\ cache' = Assigned(fact, e)
      /\ apart' = IF remote[fact.key] = fact.val THEN [apart EXCEPT ![fact.key] = "none"] ELSE apart
  BY Constants DEF CoherentInv, Inv, StoreFact
<1>2. ASSUME NEW i \in DOMAIN cache'  PROVE Agrees(cache'[i].data, remote', apart')
  <2>. DEFINE f == cache'[i].data
  <2>1. \/ f.key = fact.key /\ f.val = fact.val
        \/ \E j \in DOMAIN cache : LET g == cache[j].data
                                  IN  g.key # fact.key /\ f.key = g.key /\ f.val = g.val
    BY <1>1, AssignFacts
  <2>2. CASE f.key = fact.key /\ f.val = fact.val
    BY <1>1, <2>2 DEF Agrees
  <2>3. ASSUME NEW j \in DOMAIN cache, cache[j].data.key # fact.key,
               f.key = cache[j].data.key, f.val = cache[j].data.val
        PROVE  Agrees(f, remote', apart')
    <3>1. Agrees(cache[j].data, remote, apart)
      BY <2>3 DEF CoherentInv, CoherentFor
    <3>. QED
      BY <1>1, <2>3, <3>1 DEF Agrees
  <2>. QED
    BY <2>1, <2>2, <2>3
<1>. QED
  BY <1>1, <1>2

LEMMA CoherentStart ==
  ASSUME OneThread, CoherentInv, Inv', NEW t \in Threads, Start(t) \/ Acquire(t)  PROVE CoherentInv'
<1>1. thread[t].pc # "keep" /\ UNCHANGED <<remote, cache, apart>>
  BY DEF Start, Acquire, At
<1>2. CASE Start(t)
  <2>1. PICK op \in Ops : \E keys, val : Begin(t, op, keys, val)
    BY <1>2 DEF Start
  <2>2. PICK keys, val : Begin(t, op, keys, val)
    BY <2>1
  <2>. DEFINE pc == CASE op \in Locked -> "wait"
                      [] op \in {"get", "get_many"} -> "peek"
                      [] op = "put" -> "write"
                      [] op = "remove" -> "check"
                      [] op = "exists" -> "probe"
                      [] op = "truncate" -> "empty"
              q == [Idle EXCEPT !.op = op, !.keys = keys, !.val = val, !.clock = now, !.pc = pc]
  <2>3. pc \in {"wait", "peek", "write", "check", "probe", "empty"}
    BY KeyValueStoreAssumption DEF Locked
  <2>4. thread' = [thread EXCEPT ![t] = q]
    BY <2>2 DEF Begin
  <2>. HIDE DEF pc
  <2>5. q.pc = pc
    BY DEF Idle
  <2>. HIDE DEF q
  <2>. QED
    BY <1>1, <2>3, <2>4, <2>5, PlainSame DEF Plain, Labels
<1>3. CASE Acquire(t)
  <2>. DEFINE q == [thread[t] EXCEPT !.pc = "peek", !.clock = now]
  <2>1. thread' = [thread EXCEPT ![t] = q] /\ thread[t] \in ThreadStates
    BY <1>3 DEF Acquire, CoherentInv, Inv
  <2>2. q.pc = "peek"
    BY <2>1 DEF ThreadStates
  <2>. HIDE DEF q
  <2>. QED
    BY <1>1, <2>1, <2>2, PlainSame DEF Plain, Labels
<1>. QED
  BY <1>2, <1>3

LEMMA CoherentSweep ==
  ASSUME OneThread, CoherentInv, Inv', NEW t \in Threads, Peek(t) \/ Judge(t) \/ Drop(t)  PROVE CoherentInv'
<1>1. thread[t] \in ThreadStates /\ thread[t].pc # "keep"
  BY DEF Peek, Judge, Drop, At, CoherentInv, Inv
<1>2. CASE Peek(t)
  <2>1. UNCHANGED <<remote, cache, apart>>
    BY <1>2 DEF Peek
  <2>2. CASE cache = << >>
    <3>. DEFINE q == [thread[t] EXCEPT !.pc = "lookup"]
    <3>1. thread' = [thread EXCEPT ![t] = q]
      BY <1>2, <2>2 DEF Peek, CoherentInv, Inv
    <3>2. q.pc = "lookup"
      BY <1>1 DEF ThreadStates
    <3>. HIDE DEF q
    <3>. QED
      BY <1>1, <2>1, <3>1, <3>2, PlainSame DEF Plain, Labels
  <2>3. CASE cache # << >>
    <3>. DEFINE q == [thread[t] EXCEPT !.pc = "judge", !.head = cache[1].key]
    <3>1. thread' = [thread EXCEPT ![t] = q]
      BY <1>2, <2>3 DEF Peek, CoherentInv, Inv
    <3>2. q.pc = "judge"
      BY <1>1 DEF ThreadStates
    <3>. HIDE DEF q
    <3>. QED
      BY <1>1, <2>1, <3>1, <3>2, PlainSame DEF Plain, Labels
  <2>. QED
    BY <2>2, <2>3
<1>3. CASE Judge(t)
  <2>. DEFINE head == thread[t].head
              q == [thread[t] EXCEPT !.pc = "lookup", !.misled = cache[1].key # head]
  <2>1. UNCHANGED <<remote, cache, apart>>
    BY <1>3 DEF Judge
  <2>2. CASE head \notin HeldKeys(cache)
    BY <1>1, <1>3, <2>1, <2>2, PlainEndSame DEF Judge
  <2>3. CASE head \in HeldKeys(cache) /\ Stale(EntryOf(cache, head), thread[t].clock)
    BY <1>1, <1>3, <2>1, <2>3, PlainGoto DEF Judge, Plain, Labels
  <2>4. CASE head \in HeldKeys(cache) /\ ~ Stale(EntryOf(cache, head), thread[t].clock)
    <3>1. thread' = [thread EXCEPT ![t] = q]
      BY <1>3, <2>4 DEF Judge, CoherentInv, Inv
    <3>2. q.pc = "lookup"
      BY <1>1 DEF ThreadStates
    <3>. HIDE DEF q
    <3>. QED
      BY <1>1, <2>1, <3>1, <3>2, PlainSame DEF Plain, Labels
  <2>. QED
    BY <2>2, <2>3, <2>4
<1>4. CASE Drop(t)
  <2>. DEFINE head == thread[t].head
              q == [thread[t] EXCEPT !.pc = "peek"]
  <2>1. CASE head \notin HeldKeys(cache)
    BY <1>1, <1>4, <2>1, PlainEndSame DEF Drop
  <2>2. CASE head \in HeldKeys(cache)
    <3>1. Forget(head) /\ thread' = [thread EXCEPT ![t] = q] /\ remote' = remote
      BY <1>4, <2>2 DEF Drop, Goto, CoherentInv, Inv
    <3>2. q.pc = "peek"
      BY <1>1 DEF ThreadStates
    <3>3. \A i \in DOMAIN cache' : Agrees(cache'[i].data, remote', apart')
      BY <1>1, <2>2, <3>1, ForgetAgrees
    <3>. HIDE DEF q
    <3>. QED
      BY <3>1, <3>2, <3>3, PlainStep DEF Plain, Labels
  <2>. QED
    BY <2>1, <2>2
<1>. QED
  BY <1>2, <1>3, <1>4

LEMMA CoherentGet ==
  ASSUME OneThread, CoherentInv, Inv', NEW t \in Threads, Lookup(t) \/ Hit(t) \/ Fetch(t)
  PROVE  CoherentInv'
<1>1. thread[t] \in ThreadStates /\ thread[t].pc # "keep" /\ UNCHANGED <<remote, cache, apart>>
  BY DEF Lookup, Hit, Fetch, At, CoherentInv, Inv
<1>2. CASE Lookup(t)
  <2>1. PICK pc \in {"hit", "fetch"} : Goto(t, pc)
    BY <1>2 DEF Lookup
  <2>. QED
    BY <1>1, <2>1, PlainGoto DEF Plain, Labels
<1>3. ASSUME NEW outcome, NEW facts, End(t, outcome, facts)  PROVE CoherentInv'
  BY <1>1, <1>3, PlainEndSame
<1>4. CASE Hit(t)
  BY <1>3, <1>4 DEF Hit
<1>5. CASE Fetch(t)
  <2>. DEFINE k == TheKey(t)
              f == Fact(k, remote[k], now)
              q == [thread[t] EXCEPT !.pc = "fill", !.got = {f}]
  <2>1. ASSUME thread' = [thread EXCEPT ![t].pc = "fill", ![t].got = {f}]  PROVE CoherentInv'
    <3>1. thread' = [thread EXCEPT ![t] = q]
      BY <2>1 DEF CoherentInv, Inv
    <3>2. f.key = k /\ f.val = remote[k]
      BY DEF Fact
    <3>. HIDE DEF f
    <3>3. q.pc = "fill" /\ q.got = {f} /\ q.keys = thread[t].keys
      BY <1>1 DEF ThreadStates
    <3>4. InHand(q) = k
      BY <3>3 DEF InHand, TheKey
    <3>. HIDE DEF q, k
    <3>5. CoherentFor(q, cache', remote', apart')
      BY <1>1, <3>2, <3>3, <3>4, AgreesNow DEF CoherentFor, Agrees
    <3>. QED
      BY <3>1, <3>5, CoherentStep
  <2>. QED
    BY <1>3, <1>5, <2>1 DEF Fetch
<1>. QED
  BY <1>2, <1>4, <1>5

(* Fill and Keep *)
LEMMA CoherentStore ==
  ASSUME OneThread, CoherentInv, Inv', NEW t \in Threads, Fill(t) \/ Keep(t)  PROVE CoherentInv'
<1>1. /\ thread[t].pc \in {"fill", "keep"} /\ ThreadOK(thread[t], now) /\ remote' = remote
      /\ CoherentFor(thread[t], cache, remote, apart) /\ Inv
  BY DEF Fill, Keep, At, CoherentInv, Inv
<1>2. /\ thread[t].got # {} /\ thread[t].got \in SUBSET Facts
      /\ \A f \in thread[t].got : /\ Fresh(thread[t], f, now)
                                  /\ Agrees(f, remote, apart) /\ f.key = InHand(thread[t])
  BY <1>1 DEF ThreadOK, ThreadStates, CoherentFor
<1>3. PICK f \in thread[t].got : StoreFact(f, now + TTL)
  BY <1>2 DEF Fill, Keep
<1>4. /\ ~ f.late /\ f.asOf <= now /\ now <= f.asOf + MaxCall
      /\ now + TTL \in Nat /\ now + TTL <= now + TTL
  BY <1>1, <1>2, FreshFact
<1>5. \A i \in DOMAIN cache' : Agrees(cache'[i].data, remote', apart')
  BY <1>1, <1>2, <1>3, <1>4, StoreAgrees
<1>. QED
  BY <1>5, PlainEnd DEF Fill, Keep

LEMMA CoherentGetMany ==
  ASSUME OneThread, CoherentInv, Inv', NEW t \in Threads,
         Split(t) \/ FetchMany(t) \/ Stamp(t) \/ CollectOne(t) \/ ReturnMany(t)
  PROVE  CoherentInv'
<1>1. /\ thread[t] \in ThreadStates /\ thread[t].pc # "keep" /\ UNCHANGED <<remote, cache, apart>>
      /\ CoherentFor(thread[t], cache, remote, apart)
  BY DEF Split, FetchMany, Stamp, CollectOne, ReturnMany, At, CoherentInv, Inv
<1>2. ASSUME NEW outcome, NEW facts, End(t, outcome, facts)  PROVE CoherentInv'
  BY <1>1, <1>2, PlainEndSame
<1>3. ASSUME NEW q, thread' = [thread EXCEPT ![t] = q], q.pc \in {"stamp", "gather"},
             \A f \in q.got : f.key \in q.todo => Agrees(f, remote, apart)
      PROVE  CoherentInv'
  <2>1. CoherentFor(q, cache', remote', apart')
    BY <1>1, <1>3, AgreesNow DEF CoherentFor
  <2>. QED
    BY <1>3, <2>1, CoherentStep
<1>4. CASE Split(t)
  <2>. DEFINE missing == thread[t].keys \ HeldKeys(cache)
              pc == IF missing = {} THEN "gather" ELSE "fetch_many"
              q == [thread[t] EXCEPT !.todo = missing, !.local = thread[t].keys \ missing, !.pc = pc]
  <2>1. thread' = [thread EXCEPT ![t] = q]
    BY <1>4 DEF Split, CoherentInv, Inv
  <2>2. pc \in {"gather", "fetch_many"} /\ (pc = "gather" => missing = {})
    OBVIOUS
  <2>. HIDE DEF missing, pc
  <2>3. q.pc = pc /\ q.todo = missing
    BY <1>1 DEF ThreadStates
  <2>. HIDE DEF q
  <2>4. CoherentFor(q, cache', remote', apart')
    BY <1>1, <2>2, <2>3, AgreesNow DEF CoherentFor
  <2>. QED
    BY <2>1, <2>4, CoherentStep
<1>5. CASE FetchMany(t)
  <2>. DEFINE found == {k \in thread[t].todo : remote[k] # Nothing}
              facts == {Fact(k, remote[k], now) : k \in found}
              q == [thread[t] EXCEPT !.pc = "stamp", !.todo = found, !.got = facts]
  <2>1. ASSUME thread' = [thread EXCEPT ![t].pc = "stamp", ![t].todo = found, ![t].got = facts]
        PROVE  CoherentInv'
    <3>1. thread' = [thread EXCEPT ![t] = q]
      BY <2>1 DEF CoherentInv, Inv
    <3>2. \A f \in facts : Agrees(f, remote, apart)
      BY DEF Fact, Agrees
    <3>. HIDE DEF found, facts
    <3>3. q.pc = "stamp" /\ q.got = facts
      BY <1>1 DEF ThreadStates
    <3>. HIDE DEF q
    <3>. QED
      BY <1>3, <3>1, <3>2, <3>3
  <2>. QED
    BY <1>2, <1>5, <2>1 DEF FetchMany
<1>6. CASE Stamp(t)
  <2>. DEFINE q == [thread[t] EXCEPT !.pc = "gather", !.exp = now + TTL]
  <2>1. thread' = [thread EXCEPT ![t] = q] /\ thread[t].pc = "stamp"
    BY <1>6 DEF Stamp, At, CoherentInv, Inv
  <2>2. q.pc = "gather" /\ q.got = thread[t].got /\ q.todo = thread[t].todo
    BY <1>1 DEF ThreadStates
  <2>. HIDE DEF q
  <2>3. \A f \in q.got : f.key \in q.todo => Agrees(f, remote, apart)
    BY <1>1, <2>1, <2>2 DEF CoherentFor
  <2>. QED
    BY <1>3, <2>1, <2>2, <2>3
<1>7. CASE CollectOne(t)
  <2>1. PICK k \in thread[t].local :
         \/ End(t, "KeyError", {})
         \/ thread' = [thread EXCEPT ![t].local = thread[t].local \ {k},
                                     ![t].got = thread[t].got \cup {Taken(t, k)}]
    BY <1>7 DEF CollectOne, CoherentInv, Inv
  <2>. DEFINE q == [thread[t] EXCEPT !.local = thread[t].local \ {k}, !.got = thread[t].got \cup {Taken(t, k)}]
  <2>2. ASSUME thread' = [thread EXCEPT ![t].local = thread[t].local \ {k},
                                        ![t].got = thread[t].got \cup {Taken(t, k)}]
        PROVE  CoherentInv'
    <3>1. thread' = [thread EXCEPT ![t] = q] /\ thread[t].pc = "gather" /\ thread[t].todo = {}
      BY <1>7, <2>2 DEF CollectOne, At, CoherentInv, Inv
    <3>2. q.pc = "gather" /\ q.todo = {}
      BY <1>1, <3>1 DEF ThreadStates
    <3>. HIDE DEF q
    <3>. QED
      BY <1>3, <3>1, <3>2
  <2>. QED
    BY <1>2, <2>1, <2>2
<1>. QED
  BY <1>2, <1>4, <1>5, <1>6, <1>7 DEF ReturnMany

LEMMA CoherentFillOne ==
  ASSUME OneThread, CoherentInv, Inv', NEW t \in Threads, FillOne(t)  PROVE CoherentInv'
<1>1. PICK f \in thread[t].got :
        /\ f.key \in thread[t].todo /\ StoreFact(f, thread[t].exp)
        /\ thread' = [thread EXCEPT ![t].todo = thread[t].todo \ {f.key}]
  BY DEF FillOne, CoherentInv, Inv
<1>. DEFINE q == [thread[t] EXCEPT !.todo = thread[t].todo \ {f.key}]
<1>2. /\ thread[t] \in ThreadStates /\ ThreadOK(thread[t], now) /\ thread[t].pc = "gather"
      /\ UNCHANGED <<now, remote>> /\ CoherentFor(thread[t], cache, remote, apart) /\ Inv
  BY DEF FillOne, At, CoherentInv, Inv
<1>3. /\ f \in Facts /\ Fresh(thread[t], f, now) /\ thread[t].exp \in Nat /\ thread[t].exp <= now + TTL
  BY <1>1, <1>2 DEF ThreadOK, ThreadStates
<1>4. ~ f.late /\ f.asOf <= now /\ now <= f.asOf + MaxCall /\ Agrees(f, remote, apart)
  BY <1>1, <1>2, <1>3, FreshFact DEF CoherentFor
<1>5. /\ \A i \in DOMAIN cache' : Agrees(cache'[i].data, remote', apart')
      /\ apart' \in {apart, [apart EXCEPT ![f.key] = "none"]}
  BY <1>1, <1>2, <1>3, <1>4, StoreAgrees
<1>6. thread' = [thread EXCEPT ![t] = q]
  BY <1>1 DEF CoherentInv, Inv
<1>7. q.pc = "gather" /\ q.got = thread[t].got /\ q.todo = thread[t].todo \ {f.key}
  BY <1>2 DEF ThreadStates
<1>. HIDE DEF q
<1>8. ASSUME NEW g \in q.got, g.key \in q.todo  PROVE Agrees(g, remote', apart')
  <2>1. g.key \in Keys /\ g.key # f.key /\ Agrees(g, remote, apart)
    BY <1>2, <1>7, <1>8 DEF CoherentFor, ThreadStates, Facts
  <2>2. Agrees(g, remote, [apart EXCEPT ![f.key] = "none"])
    BY <1>2, <2>1, AgreesStill DEF Inv
  <2>. QED
    BY <1>2, <1>5, <2>1, <2>2
<1>9. CoherentFor(q, cache', remote', apart')
  BY <1>5, <1>7, <1>8 DEF CoherentFor
<1>. QED
  BY <1>6, <1>9, CoherentStep

LEMMA CoherentWrite ==
  ASSUME OneThread, CoherentInv, Inv', NEW t \in Threads, Write(t)  PROVE CoherentInv'
<1>. DEFINE k == TheKey(t)
            v == thread[t].val
            f == Fact(k, v, now)
            q == [thread[t] EXCEPT !.pc = "keep", !.got = {f}]
<1>1. /\ thread[t] \in ThreadStates /\ thread[t].pc = "write" /\ UNCHANGED cache
      /\ \A i \in DOMAIN cache : Agrees(cache[i].data, remote, apart)
      /\ k \in Keys /\ remote \in [Keys -> Values \cup {Nothing}]
      /\ \A i \in DOMAIN cache : cache[i].data.key \in Keys
  <2>1. \A i \in DOMAIN cache : cache[i].data.key \in Keys
    BY EntryTypes DEF Facts, CoherentInv, Inv
  <2>. QED
    BY <2>1, AgreesNow, KeyInHand DEF Write, At, CoherentInv, Inv
<1>2. CASE RaiseInDoubt(t, k, v)
  <2>1. apart \in [Keys -> Reasons]
    BY DEF CoherentInv, Inv
  <2>2. \A i \in DOMAIN cache : Agrees(cache[i].data, [remote EXCEPT ![k] = v], [apart EXCEPT ![k] = "changed"])
    BY <1>1, <2>1, AgreesStill
  <2>3. \A i \in DOMAIN cache' : Agrees(cache'[i].data, remote', apart')
    BY <1>1, <1>2, <2>2 DEF RaiseInDoubt
  <2>. QED
    BY <1>2, <2>3, PlainEnd DEF RaiseInDoubt
<1>3. ASSUME remote' = [remote EXCEPT ![k] = v], UNCHANGED apart,
             thread' = [thread EXCEPT ![t].pc = "keep", ![t].got = {f}]
      PROVE  CoherentInv'
  <2>1. thread' = [thread EXCEPT ![t] = q]
    BY <1>3 DEF CoherentInv, Inv
  <2>2. f.key = k /\ f.val = v
    BY DEF Fact
  <2>. HIDE DEF f
  <2>3. q.pc = "keep" /\ q.got = {f} /\ q.keys = thread[t].keys
    BY <1>1 DEF ThreadStates
  <2>4. InHand(q) = k
    BY <2>3 DEF InHand, TheKey
  <2>. HIDE DEF q, k, v
  <2>5. CoherentFor(q, cache', remote', apart')
    BY <1>1, <1>3, <2>2, <2>3, <2>4 DEF CoherentFor, Agrees
  <2>. QED
    BY <2>1, <2>5, CoherentStep
<1>. QED
  BY <1>2, <1>3 DEF Write

LEMMA CoherentRemove ==
  ASSUME OneThread, CoherentInv, Inv', NEW t \in Threads, Check(t) \/ Unset(t) \/ Erase(t)
  PROVE  CoherentInv'
<1>. DEFINE k == TheKey(t)
            q == [thread[t] EXCEPT !.pc = "erase"]
<1>1. thread[t] \in ThreadStates /\ thread[t].pc # "keep" /\ q.pc = "erase" /\ InHand(q) = k
  <2>1. thread[t] \in ThreadStates /\ thread[t].pc # "keep"
    BY DEF Check, Unset, Erase, At, CoherentInv, Inv
  <2>2. q.pc = "erase" /\ q.keys = thread[t].keys
    BY <2>1 DEF ThreadStates
  <2>. QED
    BY <2>1, <2>2 DEF InHand, TheKey
<1>. HIDE DEF q
<1>2. ASSUME thread' = [thread EXCEPT ![t] = q], k \notin HeldKeys(cache'),
             \A i \in DOMAIN cache' : Agrees(cache'[i].data, remote', apart')
      PROVE  CoherentInv'
  <2>1. CoherentFor(q, cache', remote', apart')
    BY <1>1, <1>2 DEF CoherentFor
  <2>. QED
    BY <1>2, <2>1, CoherentStep
<1>3. CASE Check(t)
  <2>1. UNCHANGED <<remote, cache, apart>>
    BY <1>3 DEF Check
  <2>2. CASE k \in HeldKeys(cache)
    BY <1>1, <1>3, <2>1, <2>2, PlainGoto DEF Check, Plain, Labels
  <2>3. CASE k \notin HeldKeys(cache)
    <3>1. thread' = [thread EXCEPT ![t] = q]
      BY <1>3, <2>3 DEF Check, Goto, CoherentInv, Inv, q
    <3>. QED
      BY <1>1, <1>2, <2>1, <2>3, <3>1, AgreesNow
  <2>. QED
    BY <2>2, <2>3
<1>4. CASE Unset(t)
  <2>1. CASE k \notin HeldKeys(cache)
    BY <1>1, <1>4, <2>1, PlainEndSame DEF Unset
  <2>2. CASE k \in HeldKeys(cache)
    <3>1. Forget(k) /\ thread' = [thread EXCEPT ![t] = q] /\ remote' = remote
      BY <1>4, <2>2 DEF Unset, Goto, CoherentInv, Inv, q
    <3>. QED
      BY <1>1, <1>2, <2>2, <3>1, ForgetAgrees
  <2>. QED
    BY <2>1, <2>2
<1>5. CASE Erase(t)
  <2>1. /\ UNCHANGED cache /\ k \notin HeldKeys(cache)
        /\ \A i \in DOMAIN cache : Agrees(cache[i].data, remote, apart) /\ cache[i].data.key # k
        /\ \A i \in DOMAIN cache : cache[i].data.key \in Keys
        /\ remote \in [Keys -> Values \cup {Nothing}] /\ apart \in [Keys -> Reasons]
    <3>1. k \notin HeldKeys(cache)
      BY <1>5 DEF Erase, At, CoherentInv, CoherentFor, InHand, TheKey
    <3>2. \A i \in DOMAIN cache : cache[i].data.key # k
      BY <3>1 DEF HeldKeys, CoherentInv, Inv, CacheOK
    <3>3. \A i \in DOMAIN cache : cache[i].data.key \in Keys
      BY EntryTypes DEF Facts, CoherentInv, Inv
    <3>. QED
      BY <1>1, <1>5, <3>1, <3>2, <3>3, AgreesNow DEF Erase, CoherentInv, Inv
  <2>2. /\ \E outcome : End(t, outcome, {})
        /\ remote' = remote \/ remote' = [remote EXCEPT ![k] = Nothing]
        /\ apart' = apart \/ apart' = [apart EXCEPT ![k] = "changed"]
    BY <1>5 DEF Erase, RaiseInDoubt
  <2>. HIDE DEF k
  <2>3. ASSUME NEW i \in DOMAIN cache  PROVE Agrees(cache[i].data, remote', apart')
    <3>. DEFINE f == cache[i].data
    <3>1. f.key \in Keys /\ f.key # k /\ Agrees(f, remote, apart)
      BY <2>1
    <3>. HIDE DEF f
    <3>2. /\ Agrees(f, [remote EXCEPT ![k] = Nothing], [apart EXCEPT ![k] = "changed"])
          /\ Agrees(f, [remote EXCEPT ![k] = Nothing], apart)
          /\ Agrees(f, remote, [apart EXCEPT ![k] = "changed"])
      BY <2>1, <3>1, AgreesStill
    <3>3. Agrees(f, remote', apart')
      BY <2>2, <3>1, <3>2
    <3>. QED
      BY <3>3 DEF f
  <2>. QED
    BY <2>1, <2>2, <2>3, PlainEnd
<1>. QED
  BY <1>3, <1>4, <1>5

LEMMA CoherentProbe ==
  ASSUME OneThread, CoherentInv, Inv', NEW t \in Threads, Probe(t) \/ Truncate(t)  PROVE CoherentInv'
<1>1. CASE Probe(t)
  <2>1. (\E outcome, facts : End(t, outcome, facts)) /\ thread[t].pc # "keep" /\ UNCHANGED <<remote, cache, apart>>
    BY <1>1 DEF Probe, At
  <2>. QED
    BY <2>1, PlainEndSame
<1>2. CASE Truncate(t)
  <2>1. \A i \in DOMAIN cache : cache[i].data.key \in Keys /\ cache[i].data.key \in HeldKeys(cache)
    BY EntryTypes DEF Facts, CoherentInv, Inv, CacheOK, HeldKeys
  <2>2. \A i \in DOMAIN cache' : Agrees(cache'[i].data, remote', apart')
    BY <1>2, <2>1 DEF Truncate, Agrees
  <2>. QED
    BY <1>2, <2>2, PlainEnd DEF Truncate
<1>. QED
  BY <1>1, <1>2

(* the records change elsewhere *)
LEMMA CoherentOutside ==
  ASSUME CoherentInv, Inv', NEW k \in Keys, NEW v, remote' = [remote EXCEPT ![k] = v],
         apart' = [apart EXCEPT ![k] = "changed"], UNCHANGED <<cache, thread>>
  PROVE  CoherentInv'
<1>1. \A f : f.key \in Keys /\ Agrees(f, remote, apart) => Agrees(f, remote', apart')
  BY DEF Agrees, CoherentInv, Inv
<1>2. \A i \in DOMAIN cache : cache[i].data.key \in Keys
  BY EntryTypes DEF Facts, CoherentInv, Inv
<1>3. \A t \in Threads : \A f \in thread[t].got : f.key \in Keys
  BY DEF CoherentInv, Inv, ThreadStates, Facts
<1>4. ASSUME NEW t \in Threads  PROVE CoherentFor(thread[t], cache, remote', apart')
  <2>1. CoherentFor(thread[t], cache, remote, apart)
    BY DEF CoherentInv
  <2>. QED
    BY <1>1, <1>2, <1>3, <2>1 DEF CoherentFor
<1>. QED
  BY <1>4 DEF CoherentInv

LEMMA CoherentNext == OneThread /\ CoherentInv /\ [Next]_vars => CoherentInv'
<1>. SUFFICES ASSUME OneThread, CoherentInv, [Next]_vars  PROVE CoherentInv'
  OBVIOUS
<1>1. Inv'
  BY NextInv DEF CoherentInv
<1>2. ASSUME NEW t \in Threads, Read(t)  PROVE CoherentInv'
  BY <1>1, <1>2, CoherentSweep, CoherentGet, CoherentStore, CoherentGetMany, CoherentFillOne DEF Read
<1>3. ASSUME NEW t \in Threads, Update(t)  PROVE CoherentInv'
  BY <1>1, <1>3, CoherentWrite, CoherentStore, CoherentRemove, CoherentProbe DEF Update
<1>4. CASE Tick \/ UNCHANGED vars
  BY <1>1, <1>4 DEF Tick, vars, CoherentInv
<1>5. ASSUME NEW k \in Keys, Expire(k) \/ \E v \in Values : ForeignWrite(k, v)  PROVE CoherentInv'
  BY <1>1, <1>5, CoherentOutside DEF Expire, ForeignWrite
<1>. QED
  BY <1>1, <1>2, <1>3, <1>4, <1>5, CoherentStart DEF Next

(* Between the operations of a single thread the local cache agrees with   *)
(* every record, but for those that changed without its knowledge, and for *)
(* those truncate took away: of its own calls that one alone leaves local  *)
(* entries of what is no longer there (lines 163-164).                     *)
THEOREM CoherentTheorem == OneThread => (Spec => []Coherent)
<1>. SUFFICES ASSUME OneThread  PROVE Spec => []Coherent
  OBVIOUS
<1>1. Init => CoherentInv
  BY InitInv DEF Init, CoherentInv, CoherentFor, Idle
<1>2. CoherentInv /\ [Next]_vars => CoherentInv'
  BY CoherentNext
<1>3. CoherentInv => Coherent
  <2>1. Threads # {}
    BY DEF OneThread
  <2>. QED
    BY <2>1 DEF CoherentInv, Inv, CacheOK, CoherentFor, Agrees, Coherent, At
<1>. QED
  BY <1>1, <1>2, <1>3, PTL DEF Spec
-----------------------------------------------------------------------------
(* What the store knows: every fact in the cache, in hand or returned is   *)
(* one that was read or written, the mark of a late one aside.  H may be   *)
(* any set that has all that is read or written.                           *)
Known(fact) == <<fact.key, fact.val, fact.asOf>>

FactsIn(H) ==
  /\ \A i \in DOMAIN cache : Known(cache[i].data) \in H
  /\ \A t \in Threads : /\ \A fact \in thread[t].got : Known(fact) \in H
                        /\ \A fact \in reply[t].facts : Known(fact) \in H

LEMMA FactsMove ==
  ASSUME NEW H, Inv, FactsIn(H), NEW t \in Threads, NEW q, NEW r,
         thread' = [thread EXCEPT ![t] = q], reply' = [reply EXCEPT ![t] = r],
         \A fact \in q.got : Known(fact) \in H, \A fact \in r.facts : Known(fact) \in H,
         \A i \in DOMAIN cache' : Known(cache'[i].data) \in H
  PROVE  FactsIn(H)'
<1>1. /\ thread'[t] = q /\ \A u \in Threads \ {t} : thread'[u] = thread[u]
      /\ reply'[t] = r /\ \A u \in Threads \ {t} : reply'[u] = reply[u]
  BY DEF Inv
<1>. QED
  BY <1>1 DEF FactsIn

LEMMA FactsGoOn ==
  ASSUME NEW H, Inv, FactsIn(H), NEW t \in Threads, NEW q,
         thread' = [thread EXCEPT ![t] = q], UNCHANGED reply,
         \A fact \in q.got : Known(fact) \in H,
         \A i \in DOMAIN cache' : Known(cache'[i].data) \in H
  PROVE  FactsIn(H)'
<1>1. reply' = [reply EXCEPT ![t] = reply[t]] /\ \A fact \in reply[t].facts : Known(fact) \in H
  BY DEF Inv, FactsIn
<1>. QED
  BY <1>1, FactsMove

LEMMA FactsEnd ==
  ASSUME NEW H, Inv, FactsIn(H), NEW t \in Threads, NEW outcome, NEW facts, End(t, outcome, facts),
         \A fact \in facts : Known(fact) \in H,
         \A i \in DOMAIN cache' : Known(cache'[i].data) \in H
  PROVE  FactsIn(H)'
<1>. DEFINE r == [outcome |-> outcome, at |-> now, facts |-> facts]
<1>1. Idle.got = {} /\ r.facts = facts
  BY DEF Idle
<1>2. thread' = [thread EXCEPT ![t] = Idle] /\ reply' = [reply EXCEPT ![t] = r]
  BY DEF End
<1>. HIDE DEF r
<1>. QED
  BY <1>1, <1>2, FactsMove

LEMMA FactsSame == ASSUME NEW H, FactsIn(H), cache' = cache
                   PROVE  \A i \in DOMAIN cache' : Known(cache'[i].data) \in H
BY DEF FactsIn

LEMMA FactsForget ==
  ASSUME NEW H, Inv, FactsIn(H), now' = now, remote' = remote, NEW k \in HeldKeys(cache), Forget(k)
  PROVE  \A i \in DOMAIN cache' : Known(cache'[i].data) \in H
BY SettledForget DEF FactsIn

LEMMA FactsStored ==
  ASSUME NEW H, Inv, FactsIn(H), NEW t \in Threads, thread[t].pc \in {"fill", "keep", "gather"},
         NEW fact \in thread[t].got, Fresh(thread[t], fact, now), NEW e \in Nat, e <= now + TTL,
         StoreFact(fact, e)
  PROVE  \A i \in DOMAIN cache' : Known(cache'[i].data) \in H
<1>1. thread[t] \in ThreadStates /\ CacheOK(cache, now) /\ now \in Nat
  BY Constants DEF Inv
<1>2. fact \in Facts
  BY <1>1 DEF ThreadStates
<1>3. ~ fact.late /\ fact.asOf <= now /\ now <= fact.asOf + MaxCall
  BY <1>2, FreshFact
<1>4. \A i \in DOMAIN Assigned(fact, e) :
        LET f == Assigned(fact, e)[i].data
        IN  \/ f.key = fact.key /\ f.val = fact.val /\ f.asOf = fact.asOf
            \/ \E j \in DOMAIN cache :
                 LET g == cache[j].data
                 IN  g.key # fact.key /\ f.key = g.key /\ f.val = g.val /\ f.asOf = g.asOf
  BY <1>1, <1>2, <1>3, AssignFacts
<1>5. Known(fact) \in H /\ \A j \in DOMAIN cache : Known(cache[j].data) \in H
  BY DEF FactsIn
<1>. QED
  BY <1>4, <1>5 DEF Known, StoreFact

LEMMA FactsGoto ==
  ASSUME NEW H, Inv, FactsIn(H), NEW t \in Threads, NEW pc, Goto(t, pc),
         \A i \in DOMAIN cache' : Known(cache'[i].data) \in H
  PROVE  FactsIn(H)'
<1>1. /\ thread' = [thread EXCEPT ![t] = [thread[t] EXCEPT !.pc = pc]] /\ UNCHANGED reply
      /\ thread[t] \in ThreadStates
  BY DEF Goto, Inv
<1>2. [thread[t] EXCEPT !.pc = pc].got = thread[t].got
  BY <1>1 DEF ThreadStates
<1>. QED
  BY <1>1, <1>2, FactsGoOn DEF FactsIn

LEMMA FactsStart ==
  ASSUME NEW H, Inv, FactsIn(H), NEW t \in Threads, Start(t) \/ Acquire(t)  PROVE FactsIn(H)'
<1>1. cache' = cache /\ thread \in [Threads -> ThreadStates]
  BY DEF Start, Acquire, Inv
<1>2. CASE Start(t)
  <2>1. PICK op, ks, v : Begin(t, op, ks, v)
    BY <1>2 DEF Start
  <2>. DEFINE pc == CASE op \in Locked -> "wait"
                      [] op \in {"get", "get_many"} -> "peek"
                      [] op = "put" -> "write"
                      [] op = "remove" -> "check"
                      [] op = "exists" -> "probe"
                      [] op = "truncate" -> "empty"
              q == [Idle EXCEPT !.op = op, !.keys = ks, !.val = v, !.clock = now, !.pc = pc]
  <2>2. thread' = [thread EXCEPT ![t] = q] /\ q.got = {}
    BY <2>1, Zenon DEF Begin, Idle
  <2>3. reply' = [reply EXCEPT ![t] = NoReply] /\ NoReply.facts = {}
    BY <1>2 DEF Start, NoReply
  <2>. QED
    BY <1>1, <2>2, <2>3, FactsMove, FactsSame
<1>3. CASE Acquire(t)
  <2>. DEFINE q == [thread[t] EXCEPT !.pc = "peek", !.clock = now]
  <2>1. thread' = [thread EXCEPT ![t] = q] /\ q.got = thread[t].got /\ UNCHANGED reply
    BY <1>1, <1>3 DEF Acquire, ThreadStates
  <2>. QED
    BY <1>1, <2>1, FactsGoOn, FactsSame DEF FactsIn
<1>. QED
  BY <1>2, <1>3

LEMMA FactsSweep ==
  ASSUME NEW H, Inv, FactsIn(H), NEW t \in Threads, Peek(t) \/ Judge(t) \/ Drop(t)  PROVE FactsIn(H)'
<1>1. thread \in [Threads -> ThreadStates] /\ now' = now /\ remote' = remote
  BY DEF Peek, Judge, Drop, Inv
<1>2. CASE Peek(t)
  <2>1. cache' = cache /\ UNCHANGED reply
    BY <1>2 DEF Peek
  <2>2. \E q : thread' = [thread EXCEPT ![t] = q] /\ q.got = thread[t].got
    <3>1. CASE cache = << >>
      BY <1>1, <1>2, <3>1 DEF Peek, ThreadStates
    <3>2. CASE cache # << >>
      BY <1>1, <1>2, <3>2 DEF Peek, ThreadStates
    <3>. QED
      BY <3>1, <3>2
  <2>. QED
    BY <2>1, <2>2, FactsGoOn, FactsSame DEF FactsIn
<1>3. CASE Judge(t)
  <2>1. cache' = cache
    BY <1>3 DEF Judge
  <2>2. ASSUME End(t, "KeyError", {})  PROVE FactsIn(H)'
    BY <2>1, <2>2, FactsEnd, FactsSame
  <2>3. ASSUME Goto(t, "drop")  PROVE FactsIn(H)'
    BY <2>1, <2>3, FactsGoto, FactsSame
  <2>4. ASSUME NEW m, thread' = [thread EXCEPT ![t].pc = "lookup", ![t].misled = m], UNCHANGED reply
        PROVE  FactsIn(H)'
    <3>. DEFINE q == [thread[t] EXCEPT !.pc = "lookup", !.misled = m]
    <3>1. thread' = [thread EXCEPT ![t] = q] /\ q.got = thread[t].got
      BY <1>1, <2>4 DEF ThreadStates
    <3>. QED
      BY <2>1, <2>4, <3>1, FactsGoOn, FactsSame DEF FactsIn
  <2>. QED
    BY <1>3, <2>2, <2>3, <2>4 DEF Judge
<1>4. CASE Drop(t)
  <2>1. CASE thread[t].head \notin HeldKeys(cache)
    BY <1>4, <2>1, FactsEnd, FactsSame DEF Drop
  <2>2. CASE thread[t].head \in HeldKeys(cache)
    BY <1>1, <1>4, <2>2, FactsGoto, FactsForget DEF Drop
  <2>. QED
    BY <2>1, <2>2
<1>. QED
  BY <1>2, <1>3, <1>4

LEMMA FactsTaken ==
  ASSUME NEW H, Inv, FactsIn(H), NEW t \in Threads, NEW k \in HeldKeys(cache)
  PROVE  Known(Taken(t, k)) \in H
<1>1. cache \in Seq(Entries) /\ DistinctKeys(cache) /\ CacheOK(cache, now)
  BY DEF Inv, CacheOK
<1>2. PICK i \in DOMAIN cache : EntryOf(cache, k) = cache[i]
  BY <1>1, EntryFact
<1>. DEFINE f == cache[i].data
<1>3. f \in Facts /\ Known(f) \in H
  BY <1>1, <1>2, EntryTypes DEF FactsIn
<1>4. Taken(t, k) = [f EXCEPT !.late = f.late \/ thread[t].misled]
  BY <1>2 DEF Taken
<1>. HIDE DEF f
<1>5. Taken(t, k).key = f.key /\ Taken(t, k).val = f.val /\ Taken(t, k).asOf = f.asOf
  BY <1>3, <1>4 DEF Facts
<1>. QED
  BY <1>3, <1>5 DEF Known

LEMMA FactsGet ==
  ASSUME NEW H, Inv, FactsIn(H), NEW t \in Threads, Lookup(t) \/ Hit(t) \/ Fetch(t) \/ Fill(t),
         \A k \in Keys : remote[k] # Nothing => <<k, remote[k], now>> \in H
  PROVE  FactsIn(H)'
<1>1. /\ thread \in [Threads -> ThreadStates] /\ ThreadOK(thread[t], now)
      /\ now' = now /\ remote' = remote /\ now \in Nat
  BY Constants DEF Lookup, Hit, Fetch, Fill, Inv
<1>2. CASE Lookup(t)
  <2>1. cache' = cache /\ \E pc : Goto(t, pc)
    BY <1>2 DEF Lookup
  <2>. QED
    BY <2>1, FactsGoto, FactsSame
<1>3. CASE Hit(t)
  <2>. DEFINE k == TheKey(t)
  <2>1. CASE k \in HeldKeys(cache)
    <3>1. End(t, "ok", {Taken(t, k)}) /\ Known(Taken(t, k)) \in H /\ cache' = cache
      BY <1>3, <2>1, FactsTaken DEF Hit
    <3>. QED
      BY <3>1, FactsEnd, FactsSame
  <2>2. CASE k \notin HeldKeys(cache)
    BY <1>3, <2>2, FactsEnd, FactsSame DEF Hit
  <2>. QED
    BY <2>1, <2>2
<1>4. CASE Fetch(t)
  <2>1. cache' = cache
    BY <1>4 DEF Fetch
  <2>2. ASSUME NEW outcome, End(t, outcome, {})  PROVE FactsIn(H)'
    BY <2>1, <2>2, FactsEnd, FactsSame
  <2>. DEFINE k == TheKey(t)  f == Fact(k, remote[k], now)
  <2>3. ASSUME remote[k] # Nothing, thread' = [thread EXCEPT ![t].pc = "fill", ![t].got = {f}],
               UNCHANGED reply
        PROVE  FactsIn(H)'
    <3>1. k \in Keys
      BY <1>1, <1>4, TheKeyFact DEF Fetch, At, ThreadOK, ThreadStates
    <3>2. Known(f) \in H
      BY <2>3, <3>1 DEF Known, Fact
    <3>. HIDE DEF f, k
    <3>. DEFINE q == [thread[t] EXCEPT !.pc = "fill", !.got = {f}]
    <3>3. thread' = [thread EXCEPT ![t] = q] /\ q.got = {f}
      BY <1>1, <2>3 DEF ThreadStates
    <3>. QED
      BY <2>1, <2>3, <3>2, <3>3, FactsGoOn, FactsSame
  <2>. QED
    BY <1>4, <2>2, <2>3 DEF Fetch
<1>5. CASE Fill(t)
  <2>1. thread[t].pc = "fill" /\ thread[t].got # {} /\ \A f \in thread[t].got : Fresh(thread[t], f, now)
    BY <1>1, <1>5 DEF Fill, At, ThreadOK
  <2>2. PICK f \in thread[t].got : StoreFact(f, now + TTL)
    BY <1>5, <2>1 DEF Fill
  <2>3. now + TTL \in Nat /\ now + TTL <= now + TTL
    BY <1>1, Constants
  <2>4. \A i \in DOMAIN cache' : Known(cache'[i].data) \in H
    BY <2>1, <2>2, <2>3, FactsStored
  <2>. QED
    BY <1>5, <2>4, FactsEnd DEF Fill, FactsIn
<1>. QED
  BY <1>2, <1>3, <1>4, <1>5

LEMMA FactsGetMany ==
  ASSUME NEW H, Inv, FactsIn(H), NEW t \in Threads,
         Split(t) \/ FetchMany(t) \/ Stamp(t) \/ CollectOne(t) \/ ReturnMany(t),
         \A k \in Keys : remote[k] # Nothing => <<k, remote[k], now>> \in H
  PROVE  FactsIn(H)'
<1>1. /\ thread \in [Threads -> ThreadStates] /\ cache' = cache
      /\ \A fact \in thread[t].got : Known(fact) \in H
  BY DEF Split, FetchMany, Stamp, CollectOne, ReturnMany, Inv, FactsIn
<1>2. ASSUME NEW q, thread' = [thread EXCEPT ![t] = q], UNCHANGED reply,
             \A fact \in q.got : Known(fact) \in H
      PROVE  FactsIn(H)'
  BY <1>1, <1>2, FactsGoOn, FactsSame
<1>3. ASSUME NEW outcome, NEW facts, End(t, outcome, facts), \A fact \in facts : Known(fact) \in H
      PROVE  FactsIn(H)'
  BY <1>1, <1>3, FactsEnd, FactsSame
<1>4. CASE Split(t)
  <2>. DEFINE missing == thread[t].keys \ HeldKeys(cache)
              pc == IF missing = {} THEN "gather" ELSE "fetch_many"
              q == [thread[t] EXCEPT !.todo = missing, !.local = thread[t].keys \ missing, !.pc = pc]
  <2>1. thread' = [thread EXCEPT ![t] = q] /\ UNCHANGED reply
    BY <1>1, <1>4 DEF Split
  <2>. HIDE DEF missing, pc
  <2>2. q.got = thread[t].got
    BY <1>1 DEF ThreadStates
  <2>. QED
    BY <1>1, <1>2, <2>1, <2>2
<1>5. CASE FetchMany(t)
  <2>1. ASSUME NEW found, found \subseteq thread[t].todo, \A k \in found : remote[k] # Nothing, UNCHANGED reply,
               thread' = [thread EXCEPT ![t].pc = "stamp", ![t].todo = found,
                            ![t].got = {Fact(k, remote[k], now) : k \in found}]
        PROVE  FactsIn(H)'
    <3>. DEFINE got == {Fact(k, remote[k], now) : k \in found}
    <3>1. found \subseteq Keys
      BY <1>1, <2>1 DEF ThreadStates
    <3>2. \A f \in got : Known(f) \in H
      BY <2>1, <3>1 DEF Known, Fact
    <3>. HIDE DEF got
    <3>. DEFINE q == [thread[t] EXCEPT !.pc = "stamp", !.todo = found, !.got = got]
    <3>3. thread' = [thread EXCEPT ![t] = q] /\ q.got = got
      BY <1>1, <2>1 DEF ThreadStates, got
    <3>. QED
      BY <1>2, <2>1, <3>2, <3>3
  <2>2. ASSUME End(t, "RemoteError", {})  PROVE FactsIn(H)'
    BY <1>3, <2>2
  <2>. DEFINE found == {k \in thread[t].todo : remote[k] # Nothing}
  <2>3. found \subseteq thread[t].todo /\ \A k \in found : remote[k] # Nothing
    OBVIOUS
  <2>4. \/ End(t, "RemoteError", {})
        \/ /\ UNCHANGED reply
           /\ thread' = [thread EXCEPT ![t].pc = "stamp", ![t].todo = found,
                            ![t].got = {Fact(k, remote[k], now) : k \in found}]
    BY <1>5 DEF FetchMany
  <2>. HIDE DEF found
  <2>. QED
    BY <2>1, <2>2, <2>3, <2>4
<1>6. CASE Stamp(t)
  <2>. DEFINE q == [thread[t] EXCEPT !.pc = "gather", !.exp = now + TTL]
  <2>1. thread' = [thread EXCEPT ![t] = q] /\ UNCHANGED reply /\ q.got = thread[t].got
    BY <1>1, <1>6 DEF Stamp, ThreadStates
  <2>. QED
    BY <1>1, <1>2, <2>1
<1>7. CASE CollectOne(t)
  <2>1. PICK k \in thread[t].local :
               \/ k \notin HeldKeys(cache) /\ End(t, "KeyError", {})
               \/ /\ k \in HeldKeys(cache)
                  /\ thread' = [thread EXCEPT ![t].local = @ \ {k}, ![t].got = @ \cup {Taken(t, k)}]
                  /\ UNCHANGED reply
    BY <1>7 DEF CollectOne
  <2>2. CASE k \in HeldKeys(cache)
    <3>1. Known(Taken(t, k)) \in H
      BY <2>2, FactsTaken
    <3>2. /\ UNCHANGED reply
          /\ thread' = [thread EXCEPT ![t].local = @ \ {k}, ![t].got = @ \cup {Taken(t, k)}]
      BY <2>1, <2>2
    <3>. DEFINE q == [thread[t] EXCEPT !.local = @ \ {k}, !.got = @ \cup {Taken(t, k)}]
    <3>3. thread' = [thread EXCEPT ![t] = q] /\ q.got = thread[t].got \cup {Taken(t, k)}
      BY <1>1, <3>2 DEF ThreadStates
    <3>. QED
      BY <1>1, <1>2, <3>1, <3>2, <3>3
  <2>3. CASE k \notin HeldKeys(cache)
    BY <1>3, <2>1, <2>3
  <2>. QED
    BY <2>2, <2>3
<1>8. CASE ReturnMany(t)
  BY <1>1, <1>3, <1>8 DEF ReturnMany
<1>. QED
  BY <1>4, <1>5, <1>6, <1>7, <1>8

LEMMA FactsFillOne ==
  ASSUME NEW H, Inv, FactsIn(H), NEW t \in Threads, FillOne(t)  PROVE FactsIn(H)'
<1>1. /\ thread[t].pc = "gather" /\ thread \in [Threads -> ThreadStates] /\ ThreadOK(thread[t], now)
      /\ UNCHANGED reply
  BY DEF FillOne, At, Inv
<1>2. PICK f \in thread[t].got : /\ f.key \in thread[t].todo /\ StoreFact(f, thread[t].exp)
                                 /\ thread' = [thread EXCEPT ![t].todo = @ \ {f.key}]
  BY DEF FillOne
<1>3. Fresh(thread[t], f, now) /\ thread[t].exp \in Nat /\ thread[t].exp <= now + TTL
  BY <1>1, <1>2 DEF ThreadOK, ThreadStates
<1>4. \A i \in DOMAIN cache' : Known(cache'[i].data) \in H
  BY <1>1, <1>2, <1>3, FactsStored
<1>. DEFINE q == [thread[t] EXCEPT !.todo = @ \ {f.key}]
<1>5. thread' = [thread EXCEPT ![t] = q] /\ q.got = thread[t].got
  BY <1>1, <1>2 DEF ThreadStates
<1>. QED
  BY <1>1, <1>4, <1>5, FactsGoOn DEF FactsIn

LEMMA FactsPut ==
  ASSUME NEW H, Inv, FactsIn(H), NEW t \in Threads, Write(t) \/ Keep(t),
         \A k \in Keys : remote'[k] # Nothing => <<k, remote'[k], now>> \in H
  PROVE  FactsIn(H)'
<1>1. /\ thread \in [Threads -> ThreadStates] /\ ThreadOK(thread[t], now) /\ now \in Nat
      /\ remote \in [Keys -> Values \cup {Nothing}]
  BY Constants DEF Inv
<1>2. CASE Write(t)
  <2>1. cache' = cache /\ thread[t].pc = "write"
    BY <1>2 DEF Write, At
  <2>. DEFINE k == TheKey(t)  f == Fact(k, thread[t].val, now)
  <2>2. CASE RaiseInDoubt(t, k, thread[t].val)
    BY <2>1, <2>2, FactsEnd, FactsSame DEF RaiseInDoubt
  <2>3. ASSUME remote' = [remote EXCEPT ![k] = thread[t].val], UNCHANGED reply,
               thread' = [thread EXCEPT ![t].pc = "keep", ![t].got = {f}]
        PROVE  FactsIn(H)'
    <3>1. k \in Keys /\ thread[t].val \in Values
      BY <1>1, <2>1, TheKeyFact DEF ThreadOK, ThreadStates
    <3>2. remote'[k] = thread[t].val /\ remote'[k] # Nothing
      BY <1>1, <2>3, <3>1, Constants
    <3>3. Known(f) \in H
      BY <3>1, <3>2 DEF Known, Fact
    <3>. HIDE DEF f, k
    <3>. DEFINE q == [thread[t] EXCEPT !.pc = "keep", !.got = {f}]
    <3>4. thread' = [thread EXCEPT ![t] = q] /\ q.got = {f}
      BY <1>1, <2>3 DEF ThreadStates
    <3>. QED
      BY <2>1, <2>3, <3>3, <3>4, FactsGoOn, FactsSame
  <2>. QED
    BY <1>2, <2>2, <2>3 DEF Write
<1>3. CASE Keep(t)
  <2>1. thread[t].pc = "keep" /\ thread[t].got # {} /\ \A f \in thread[t].got : Fresh(thread[t], f, now)
    BY <1>1, <1>3 DEF Keep, At, ThreadOK
  <2>2. PICK f \in thread[t].got : StoreFact(f, now + TTL)
    BY <1>3, <2>1 DEF Keep
  <2>3. now + TTL \in Nat /\ now + TTL <= now + TTL
    BY <1>1, Constants
  <2>4. \A i \in DOMAIN cache' : Known(cache'[i].data) \in H
    BY <2>1, <2>2, <2>3, FactsStored
  <2>. QED
    BY <1>3, <2>4, FactsEnd DEF Keep
<1>. QED
  BY <1>2, <1>3

LEMMA FactsRemove ==
  ASSUME NEW H, Inv, FactsIn(H), NEW t \in Threads,
         Check(t) \/ Unset(t) \/ Erase(t) \/ Probe(t) \/ Truncate(t),
         \A k \in Keys : remote'[k] # Nothing => <<k, remote'[k], now>> \in H
  PROVE  FactsIn(H)'
<1>1. CASE Check(t)
  <2>1. cache' = cache /\ \E pc : Goto(t, pc)
    BY <1>1 DEF Check
  <2>. QED
    BY <2>1, FactsGoto, FactsSame
<1>2. CASE Unset(t)
  <2>1. CASE TheKey(t) \notin HeldKeys(cache)
    BY <1>2, <2>1, FactsEnd, FactsSame DEF Unset
  <2>2. CASE TheKey(t) \in HeldKeys(cache)
    BY <1>2, <2>2, FactsGoto, FactsForget DEF Unset
  <2>. QED
    BY <2>1, <2>2
<1>3. CASE Erase(t)
  <2>1. cache' = cache /\ \E outcome : End(t, outcome, {})
    BY <1>3 DEF Erase, RaiseInDoubt
  <2>. QED
    BY <2>1, FactsEnd, FactsSame
<1>4. CASE Probe(t)
  <2>1. cache' = cache /\ remote' = remote
    BY <1>4 DEF Probe
  <2>2. \E outcome, facts : End(t, outcome, facts) /\ \A fact \in facts : Known(fact) \in H
    BY <1>4, <2>1 DEF Probe, Known, Fact
  <2>. QED
    BY <2>1, <2>2, FactsEnd, FactsSame
<1>5. CASE Truncate(t)
  <2>1. cache' = cache /\ End(t, "ok", {})
    BY <1>5 DEF Truncate
  <2>. QED
    BY <2>1, FactsEnd, FactsSame
<1>. QED
  BY <1>1, <1>2, <1>3, <1>4, <1>5

(* No step invents anything: what a store knows of a record was the        *)
(* record's value at that time.                                            *)
LEMMA FactsNext ==
  ASSUME NEW H, Inv, FactsIn(H), [Next]_vars,
         \A k \in Keys : remote'[k] # Nothing => <<k, remote'[k], now>> \in H
  PROVE  FactsIn(H)'
<1>1. ASSUME UNCHANGED <<cache, thread, reply>>  PROVE FactsIn(H)'
  BY <1>1 DEF FactsIn
<1>2. CASE Tick \/ UNCHANGED vars \/ \E k \in Keys : Expire(k) \/ \E v \in Values : ForeignWrite(k, v)
  BY <1>1, <1>2 DEF Tick, vars, Expire, ForeignWrite
<1>3. ASSUME NEW t \in Threads, Read(t)  PROVE FactsIn(H)'
  <2>1. remote' = remote
    BY <1>3 DEF Read, Peek, Judge, Drop, Lookup, Hit, Fetch, Fill, Split, FetchMany, Stamp, FillOne,
                CollectOne, ReturnMany
  <2>2. \A k \in Keys : remote[k] # Nothing => <<k, remote[k], now>> \in H
    BY <2>1
  <2>. QED
    BY <1>3, <2>2, FactsSweep, FactsGet, FactsGetMany, FactsFillOne DEF Read
<1>4. ASSUME NEW t \in Threads, Update(t)  PROVE FactsIn(H)'
  BY <1>4, FactsPut, FactsRemove DEF Update
<1>. QED
  BY <1>2, <1>3, <1>4, FactsStart DEF Next
-----------------------------------------------------------------------------
(* A get_async is for one key from its start to its end, and what it ends  *)
(* with is about that key.                                                 *)
OneKey(q) ==
  q.pc \in Reading \cup {"wait"} =>
    \E k \in Keys : q.keys = {k} /\ (q.pc = "fill" => \E fact : q.got = {fact} /\ fact.key = k)

OneKeys == \A t \in Threads : OneKey(thread[t])

(* what the operation of t ends with, if the step ends it *)
Answers(t) ==
  LET r == reply'[t]  IN
  /\ thread'[t].pc = "idle" /\ r.at = now
  /\ \/ r.outcome \in {"KeyError", "RemoteError"}
     \/ r.outcome = "RecordNotFound" /\ \A k \in thread[t].keys : remote[k] = Nothing
     \/ r.outcome = "ok" /\ \E fact : r.facts = {fact} /\ fact.key \in thread[t].keys

GoesOn(t) ==
  /\ thread'[t].pc # "idle" /\ thread'[t].keys = thread[t].keys /\ OneKey(thread'[t])
  /\ reply'[t] = reply[t]

LEMMA KeyOf == ASSUME NEW t \in Threads, NEW k, thread[t].keys = {k}  PROVE TheKey(t) = k
BY DEF TheKey

LEMMA AnswerEnds ==
  ASSUME NEW t \in Threads, NEW outcome, NEW facts, End(t, outcome, facts), Inv,
         \/ outcome \in {"KeyError", "RemoteError"}
         \/ outcome = "RecordNotFound" /\ \A k \in thread[t].keys : remote[k] = Nothing
         \/ outcome = "ok" /\ \E fact : facts = {fact} /\ fact.key \in thread[t].keys
  PROVE  Answers(t)
<1>1. thread'[t] = Idle /\ reply'[t] = [outcome |-> outcome, at |-> now, facts |-> facts]
  BY DEF End, Inv
<1>2. Idle.pc = "idle"
  BY DEF Idle
<1>. QED
  BY <1>1, <1>2 DEF Answers

LEMMA GoingOn ==
  ASSUME NEW t \in Threads, NEW q, thread' = [thread EXCEPT ![t] = q], UNCHANGED reply, Inv,
         q.pc # "idle", q.keys = thread[t].keys, OneKey(q)
  PROVE  GoesOn(t)
<1>1. thread'[t] = q
  BY DEF Inv
<1>. QED
  BY <1>1 DEF GoesOn

LEMMA GoingTo ==
  ASSUME NEW t \in Threads, NEW pc, pc \notin {"idle", "fill"}, Goto(t, pc), Inv, OneKey(thread[t]),
         thread[t].pc \in Reading
  PROVE  GoesOn(t)
<1>. DEFINE q == [thread[t] EXCEPT !.pc = pc]
<1>1. thread' = [thread EXCEPT ![t] = q] /\ UNCHANGED reply /\ q.pc = pc /\ q.keys = thread[t].keys
  BY DEF Goto, Inv, ThreadStates
<1>2. OneKey(q)
  BY <1>1 DEF OneKey
<1>. HIDE DEF q
<1>. QED
  BY <1>1, <1>2, GoingOn

LEMMA SweepOneKey ==
  ASSUME Inv, OneKeys, NEW t \in Threads, Acquire(t) \/ Peek(t) \/ Judge(t) \/ Drop(t)
  PROVE  GoesOn(t) \/ Answers(t)
<1>1. thread \in [Threads -> ThreadStates] /\ OneKey(thread[t])
  BY DEF Inv, OneKeys
<1>2. ASSUME End(t, "KeyError", {})  PROVE Answers(t)
  BY <1>2, AnswerEnds
<1>3. ASSUME NEW pc \in {"drop", "lookup", "peek"}, Goto(t, pc), thread[t].pc \in Reading  PROVE GoesOn(t)
  BY <1>1, <1>3, GoingTo
<1>4. CASE Acquire(t)
  <2>. DEFINE q == [thread[t] EXCEPT !.pc = "peek", !.clock = now]
  <2>1. /\ thread' = [thread EXCEPT ![t] = q] /\ UNCHANGED reply /\ q.pc = "peek" /\ q.keys = thread[t].keys
        /\ thread[t].pc = "wait"
    BY <1>1, <1>4 DEF Acquire, At, ThreadStates
  <2>. HIDE DEF q
  <2>2. OneKey(q)
    BY <1>1, <2>1 DEF OneKey
  <2>. QED
    BY <2>1, <2>2, GoingOn
<1>5. CASE Peek(t)
  <2>1. thread[t].pc = "peek" /\ UNCHANGED reply
    BY <1>5 DEF Peek, At
  <2>2. \E q : /\ thread' = [thread EXCEPT ![t] = q] /\ q.keys = thread[t].keys
               /\ q.pc \in {"lookup", "judge"}
    <3>1. CASE cache = << >>
      BY <1>1, <1>5, <3>1 DEF Peek, ThreadStates
    <3>2. CASE cache # << >>
      BY <1>1, <1>5, <3>2 DEF Peek, ThreadStates
    <3>. QED
      BY <3>1, <3>2
  <2>3. PICK q : /\ thread' = [thread EXCEPT ![t] = q] /\ q.keys = thread[t].keys
                 /\ q.pc \in {"lookup", "judge"}
    BY <2>2
  <2>4. OneKey(q)
    BY <1>1, <2>1, <2>3 DEF OneKey, Reading
  <2>. QED
    BY <2>1, <2>3, <2>4, GoingOn
<1>6. CASE Judge(t)
  <2>1. thread[t].pc = "judge" /\ thread[t].pc \in Reading
    BY <1>6 DEF Judge, At, Reading
  <2>2. ASSUME NEW m, thread' = [thread EXCEPT ![t].pc = "lookup", ![t].misled = m], UNCHANGED reply
        PROVE  GoesOn(t)
    <3>. DEFINE q == [thread[t] EXCEPT !.pc = "lookup", !.misled = m]
    <3>1. thread' = [thread EXCEPT ![t] = q] /\ q.pc = "lookup" /\ q.keys = thread[t].keys
      BY <1>1, <2>2 DEF ThreadStates
    <3>. HIDE DEF q
    <3>2. OneKey(q)
      BY <1>1, <2>1, <3>1 DEF OneKey
    <3>. QED
      BY <2>2, <3>1, <3>2, GoingOn
  <2>. QED
    BY <1>2, <1>3, <1>6, <2>1, <2>2 DEF Judge
<1>7. CASE Drop(t)
  <2>1. thread[t].pc \in Reading
    BY <1>7 DEF Drop, At, Reading
  <2>. QED
    BY <1>2, <1>3, <1>7, <2>1 DEF Drop
<1>. QED
  BY <1>4, <1>5, <1>6, <1>7

LEMMA GetOneKey ==
  ASSUME Inv, OneKeys, NEW t \in Threads, Lookup(t) \/ Hit(t) \/ Fetch(t) \/ Fill(t)
  PROVE  GoesOn(t) \/ Answers(t)
<1>1. thread \in [Threads -> ThreadStates] /\ OneKey(thread[t]) /\ thread[t].pc \in Reading
  BY DEF Inv, OneKeys, Lookup, Hit, Fetch, Fill, At, Reading
<1>2. PICK k \in Keys : /\ thread[t].keys = {k}
                        /\ thread[t].pc = "fill" => \E fact : thread[t].got = {fact} /\ fact.key = k
  BY <1>1 DEF OneKey
<1>3. TheKey(t) = k
  BY <1>2, KeyOf
<1>4. CASE Lookup(t)
  <2>1. \E pc \in {"hit", "fetch"} : Goto(t, pc)
    BY <1>4 DEF Lookup
  <2>. QED
    BY <1>1, <2>1, GoingTo
<1>5. CASE Hit(t)
  <2>1. CASE k \in HeldKeys(cache)
    <3>1. End(t, "ok", {Taken(t, k)}) /\ thread[t].pc = "hit"
      BY <1>3, <1>5, <2>1 DEF Hit, At
    <3>2. Taken(t, k).key = k
      BY <2>1, <3>1, TakenFact
    <3>. QED
      BY <1>2, <3>1, <3>2, AnswerEnds
  <2>2. CASE k \notin HeldKeys(cache)
    BY <1>3, <1>5, <2>2, AnswerEnds DEF Hit
  <2>. QED
    BY <2>1, <2>2
<1>6. CASE Fetch(t)
  <2>1. ASSUME End(t, "RemoteError", {})  PROVE Answers(t)
    BY <2>1, AnswerEnds
  <2>2. ASSUME remote[k] = Nothing, End(t, "RecordNotFound", {})  PROVE Answers(t)
    BY <1>2, <2>2, AnswerEnds
  <2>. DEFINE f == Fact(k, remote[k], now)
              q == [thread[t] EXCEPT !.pc = "fill", !.got = {f}]
  <2>3. ASSUME UNCHANGED reply, thread' = [thread EXCEPT ![t].pc = "fill", ![t].got = {f}]
        PROVE  GoesOn(t)
    <3>1. thread' = [thread EXCEPT ![t] = q] /\ q.pc = "fill" /\ q.keys = {k} /\ q.got = {f}
      BY <1>1, <1>2, <2>3 DEF ThreadStates
    <3>2. f.key = k
      BY DEF Fact
    <3>. HIDE DEF q, f
    <3>3. OneKey(q)
      BY <3>1, <3>2 DEF OneKey
    <3>. QED
      BY <1>2, <2>3, <3>1, <3>3, GoingOn
  <2>. QED
    BY <1>3, <1>6, <2>1, <2>2, <2>3 DEF Fetch
<1>7. CASE Fill(t)
  <2>1. thread[t].pc = "fill" /\ End(t, "ok", thread[t].got)
    BY <1>7 DEF Fill, At
  <2>. QED
    BY <1>2, <2>1, AnswerEnds
<1>. QED
  BY <1>4, <1>5, <1>6, <1>7

(* A step of a reader, as far as whoever waits for it can tell. *)
LEMMA ReaderStep ==
  ASSUME LoneInv, OneKeys, NEW t \in Threads, Acquire(t) \/ Read(t)
  PROVE  /\ thread[t].pc # "idle" /\ now' = now /\ remote' = remote
         /\ GoesOn(t) \/ Answers(t)
         /\ \A u \in Threads \ {t} : thread'[u] = thread[u] /\ reply'[u] = reply[u]
         /\ OneKeys'
<1>1. Inv /\ LoneThread(thread[t], cache)
  BY DEF LoneInv
<1>2. /\ ~ Split(t) /\ ~ FetchMany(t) /\ ~ Stamp(t) /\ ~ FillOne(t) /\ ~ CollectOne(t) /\ ~ ReturnMany(t)
  BY <1>1 DEF Split, FetchMany, Stamp, FillOne, CollectOne, ReturnMany, At, LoneThread, Reading, Singles
<1>3. \/ Acquire(t) \/ Peek(t) \/ Judge(t) \/ Drop(t)
      \/ Lookup(t) \/ Hit(t) \/ Fetch(t) \/ Fill(t)
  BY <1>2 DEF Read
<1>4. GoesOn(t) \/ Answers(t)
  BY <1>1, <1>3, SweepOneKey, GetOneKey
<1>5. thread[t].pc # "idle" /\ now' = now /\ remote' = remote
  BY <1>3 DEF Acquire, Peek, Judge, Drop, Lookup, Hit, Fetch, Fill, At
<1>6. ASSUME NEW u \in Threads \ {t}  PROVE thread'[u] = thread[u] /\ reply'[u] = reply[u]
  <2>1. thread \in [Threads -> ThreadStates] /\ reply \in [Threads -> Replies]
    BY <1>1 DEF Inv
  <2>. QED
    BY <1>3, <2>1 DEF Acquire, Peek, Judge, Drop, Lookup, Hit, Fetch, Fill, Goto, End
<1>7. OneKey(thread'[t])
  <2>1. CASE Answers(t)
    BY <2>1 DEF Answers, OneKey, Reading
  <2>. QED
    BY <1>4, <2>1 DEF GoesOn
<1>. QED
  BY <1>4, <1>5, <1>6, <1>7 DEF OneKeys

LEMMA ReaderStarts ==
  ASSUME OnlyGets, Inv, OneKeys, NEW t \in Threads, Start(t)
  PROVE  /\ thread[t].pc = "idle" /\ thread'[t].pc # "idle"
         /\ \A u \in Threads \ {t} : thread'[u] = thread[u] /\ reply'[u] = reply[u]
         /\ OneKeys'
<1>1. /\ thread[t].pc = "idle" /\ reply' = [reply EXCEPT ![t] = NoReply]
      /\ thread \in [Threads -> ThreadStates] /\ reply \in [Threads -> Replies]
  BY DEF Start, At, Inv
<1>2. PICK op, ks, v :
        /\ op \in Ops /\ Begin(t, op, ks, v)
        /\ op \in {"get", "get_async", "remove", "exists"} => \E k \in Keys : ks = {k}
  BY DEF Start
<1>3. op \in {"get_async", "remove", "exists", "truncate"}
  BY <1>2 DEF OnlyGets
<1>. DEFINE pc == CASE op \in Locked -> "wait"
                    [] op \in {"get", "get_many"} -> "peek"
                    [] op = "put" -> "write"
                    [] op = "remove" -> "check"
                    [] op = "exists" -> "probe"
                    [] op = "truncate" -> "empty"
            q == [Idle EXCEPT !.op = op, !.keys = ks, !.val = v, !.clock = now, !.pc = pc]
<1>4. thread' = [thread EXCEPT ![t] = q]
  BY <1>2, Zenon DEF Begin
<1>5. pc \in {"wait", "check", "probe", "empty"} /\ (pc = "wait" => op = "get_async")
  BY <1>3 DEF Locked
<1>. HIDE DEF pc
<1>6. q.pc = pc /\ q.keys = ks
  BY DEF Idle
<1>. HIDE DEF q
<1>7. OneKey(q)
  BY <1>2, <1>5, <1>6 DEF OneKey, Reading
<1>8. thread'[t] = q /\ \A u \in Threads \ {t} : thread'[u] = thread[u] /\ reply'[u] = reply[u]
  BY <1>1, <1>4
<1>. QED
  BY <1>1, <1>5, <1>6, <1>7, <1>8 DEF OneKeys
=============================================================================
