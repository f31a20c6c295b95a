---------------------------- MODULE OrderedCache ----------------------------
(***************************************************************************)
(* The structure that every local cache of kh_common.caching shares: an    *)
(* OrderedDict  key -> (expiration, data)  that is only ever swept from    *)
(* its front.  It is a sequence of entries in dictionary order, at most    *)
(* one per key.  Assigning to a key that is already held keeps the place   *)
(* of its entry, which is why expirations along the sequence need not be   *)
(* sorted.                                                                 *)
(***************************************************************************)
EXTENDS Integers, Sequences

CacheEntry(key, exp, data) == [key |-> key, exp |-> exp, data |-> data]

HeldKeys(cache) == {cache[i].key : i \in DOMAIN cache}

(* mutant: the entry in front, whatever its key *)
EntryOf_First(cache, key) == cache[1]

EntryOf(cache, key) == cache[CHOOSE i \in DOMAIN cache : cache[i].key = key]

DistinctKeys(cache) ==
  \A i, j \in DOMAIN cache : cache[i].key = cache[j].key => i = j

Stale(entry, now) == entry.exp < now

(* del cache[key], for a key that is held *)
DropKey(cache, key) ==
  LET place == CHOOSE i \in DOMAIN cache : cache[i].key = key
  IN  [i \in 1 .. Len(cache) - 1 |-> cache[IF i < place THEN i ELSE i + 1]]

(* mutant: a second entry for the key *)
StoreEntry_Twice(cache, entry) == Append(cache, entry)

(* cache[key] = (exp, data) *)
StoreEntry(cache, entry) ==
  IF entry.key \in HeldKeys(cache)
  THEN [i \in DOMAIN cache |-> IF cache[i].key = entry.key THEN entry ELSE cache[i]]
  ELSE Append(cache, entry)

(* mutant: nothing is ever swept *)
StaleRun_Never(cache, now, n) == n = 0

(* __clear_cache__ stops at the first entry that is not stale: n is the    *)
(* number of entries it deletes.                                           *)
StaleRun(cache, now, n) ==
  /\ n \in 0 .. Len(cache)
  /\ \A i \in 1 .. n : Stale(cache[i], now)
  /\ n < Len(cache) => ~ Stale(cache[n + 1], now)

AfterFirst(cache, n) == SubSeq(cache, n + 1, Len(cache))

(* what __clear_cache__ leaves *)
Swept(cache, now) ==
  AfterFirst(cache, CHOOSE n \in 0 .. Len(cache) : StaleRun(cache, now, n))
=============================================================================
