---------------------------- MODULE AuthProofs ------------------------------
(***************************************************************************)
(* Proofs about tokens: for any number of requests, tokens and keys, any   *)
(* lifetimes of the caches and any duration of a call, nobody is trusted   *)
(* for longer than the properties of Auth say, and nobody is refused who   *)
(* need not be.                                                            *)
(***************************************************************************)
EXTENDS AuthStore, TLAPS, WellFoundedInduction

Entries(K) == [key : K, exp : Nat, data : K]

(* An entry that was refreshed in its place outlives those behind it by no *)
(* more than a call takes.                                                 *)
Shielded(c) == \A i, j \in DOMAIN c : i < j => c[i].exp <= c[j].exp + MaxCall

(* When a call missed k in the cache, everything at or behind an entry of  *)
(* k was stored later than that.                                           *)
Missed(c, k, bound) == \A i, j \in DOMAIN c : c[i].key = k /\ i <= j => bound <= c[j].exp

States == {"active", "inactive", "gone"}
Outcomes == {"none", "open", "401", "400", "403", "500", "granted"}
RequestStates ==
  [pc : {"idle", "key", "record", "app", "done"}, caller : {"none", "middleware", "verify_scope"},
   token : Tokens \cup {NoToken}, user : Tokens \cup {NoToken}, started : Nat,
   record : States \cup {"none"}, outcome : Outcomes]

Verdicts == {"AuthToken", "Unauthorized", "InvalidToken", "RecordNotFound", "error"}

(* What the entry of a token was stored for.                               *)
Earned(e) ==
  LET c == Claims[e.key]
  IN  /\ c.key # 0
      /\ state[e.key] = "active" \/ e.exp <= ended[e.key] + TTL + MaxCall + RecordAge
      /\ e.exp <= c.expires + TTL + MaxCall
      /\ e.exp <= KeyExpires[c.key] + KeyTTL + TTL + 2 * MaxCall

VerifiedOK(c) ==
  /\ c \in Seq(Entries(Tokens)) /\ Shielded(c)
  /\ \A i \in DOMAIN c : c[i].exp <= now + TTL /\ Earned(c[i])

KeysOK(c) ==
  /\ c \in Seq(Entries(KeyIds)) /\ Shielded(c)
  /\ \A i \in DOMAIN c : /\ c[i].data = c[i].key
                         /\ c[i].exp <= now + KeyTTL /\ c[i].exp <= KeyExpires[c[i].key] + KeyTTL

(* what a user may be trusted for, and what a verdict is good for *)
Trusted(k) ==
  LET c == Claims[k]
  IN  /\ state[k] = "active" \/ now - ended[k] <= TTL + 2 * MaxCall + RecordAge
      /\ now - c.expires <= TTL + 2 * MaxCall
      /\ now - KeyExpires[c.key] <= KeyTTL + TTL + 3 * MaxCall

Judged(q) ==
  /\ q.user # NoToken /\ (q.pc = "app" \/ q.outcome = "granted") => Trusted(q.user)
  /\ q.outcome = "401" \/ (q.pc = "app" /\ q.user = NoToken) => RefusalDue(q.token)

Calls(q) == q.caller # "none" /\ (q.caller = "verify_scope" => q.user = q.token)

(* A call of verifyToken, and what the task that reads the record found.   *)
CallOK(q) ==
  q.pc \in {"key", "record"} =>
    /\ q.token \in Tokens /\ Calls(q) /\ q.outcome = "none"
    /\ q.started <= now /\ now <= q.started + MaxCall
    /\ Claims[q.token].key # 0 /\ q.started <= Claims[q.token].expires
    /\ q.record = "active" => state[q.token] = "active" \/ q.started <= ended[q.token] + RecordAge
    /\ q.record \in {"inactive", "gone"} => state[q.token] # "active"
    /\ q.pc = "record" => /\ Claims[q.token].signed
                          /\ q.started <= KeyExpires[Claims[q.token].key] + KeyTTL + MaxCall

AppOK(q) ==
  q.pc = "app" => /\ q.outcome = "none" /\ q.record = "none" /\ q.user \in {NoToken, q.token}
                  /\ q.user = NoToken => RefusalDue(q.token)

MissOK(q, v, ks) ==
  /\ q.pc \in {"key", "record"} => Missed(v, q.token, q.started + TTL)
  /\ q.pc = "key" => Missed(ks, Claims[q.token].key, q.started + KeyTTL)

RequestOK(q) == q \in RequestStates /\ CallOK(q) /\ AppOK(q)

ServiceOK ==
  /\ now \in Nat /\ held \subseteq Tokens /\ required \in BOOLEAN
  /\ state \in [Tokens -> States] /\ ended \in [Tokens -> Nat] /\ \A k \in Tokens : ended[k] <= now

Inv ==
  /\ ServiceOK /\ VerifiedOK(verified) /\ KeysOK(keys)
  /\ request \in [Requests -> RequestStates]
  /\ \A r \in Requests : RequestOK(request[r]) /\ MissOK(request[r], verified, keys)
-----------------------------------------------------------------------------
(* The sweep drops some entries from the front, and stops at a fresh one.  *)
LEMMA SweptFacts ==
  ASSUME NEW S, NEW c \in Seq(S), NEW clock
  PROVE  LET s == Swept(c, clock)
         IN  /\ s \in Seq(S)
             /\ s # << >> => ~ Stale(s[1], clock)
             /\ \E n \in Nat : \A i \in DOMAIN s : i \in Nat /\ i + n \in DOMAIN c /\ s[i] = c[i + n]
<1>. DEFINE T == {n \in 0 .. Len(c) : n < Len(c) => ~ Stale(c[n + 1], clock)}
<1>1. T \subseteq Nat /\ Len(c) \in T
  OBVIOUS
<1>2. PICK m \in T : \A n \in T : ~ (<<n, m>> \in OpToRel(<, Nat))
  BY <1>1, NatLessThanWellFounded, WFMin
<1>3. \A n \in T : ~ (n < m)
  BY <1>1, <1>2 DEF OpToRel
<1>4. StaleRun(c, clock, m)
  <2>1. ASSUME NEW i \in 1 .. m  PROVE Stale(c[i], clock)
    <3>1. i - 1 \in 0 .. Len(c) /\ i - 1 < m /\ (i - 1) + 1 = i
      OBVIOUS
    <3>2. i - 1 \notin T
      BY <1>3, <3>1
    <3>. QED  BY <3>1, <3>2
  <2>. QED  BY <2>1 DEF StaleRun
<1>. DEFINE n == CHOOSE j \in 0 .. Len(c) : StaleRun(c, clock, j)
            s == AfterFirst(c, n)
<1>5. n \in 0 .. Len(c) /\ StaleRun(c, clock, n)
  BY <1>4
<1> HIDE DEF n
<1>6. /\ s \in Seq(S) /\ Len(s) = Len(c) - n
      /\ \A i \in DOMAIN s : i \in Nat /\ i + n \in DOMAIN c /\ s[i] = c[i + n]
  BY <1>5 DEF AfterFirst
<1>7. s # << >> => ~ Stale(s[1], clock)
  <2>. SUFFICES ASSUME s # << >>  PROVE ~ Stale(s[1], clock)
    OBVIOUS
  <2>1. Len(s) \in Nat /\ Len(s) # 0
    BY <1>6
  <2>2. 1 \in DOMAIN s /\ n < Len(c)
    BY <1>5, <1>6, <2>1
  <2>3. s[1] = c[n + 1]
    BY <1>5, <1>6, <2>2
  <2>. QED  BY <1>5, <2>2, <2>3 DEF StaleRun
<1>8. Swept(c, clock) = s /\ n \in Nat
  BY <1>5 DEF Swept, n
<1> HIDE DEF s
<1>. QED  BY <1>6, <1>7, <1>8

(* What the sweep leaves as it was.                                        *)
LEMMA SweepKeeps ==
  ASSUME NEW K, NEW c \in Seq(Entries(K)), Shielded(c), NEW clock
  PROVE  LET s == Swept(c, clock)
         IN  /\ s \in Seq(Entries(K)) /\ Shielded(s)
             /\ \A i \in DOMAIN s : \E j \in DOMAIN c : s[i] = c[j]
             /\ \A k, b : Missed(c, k, b) => Missed(s, k, b)
<1>. DEFINE s == Swept(c, clock)
<1>1. PICK n \in Nat : \A i \in DOMAIN s : i \in Nat /\ i + n \in DOMAIN c /\ s[i] = c[i + n]
  BY SweptFacts
<1>2. s \in Seq(Entries(K))
  BY SweptFacts
<1> HIDE DEF s
<1>3. Shielded(s)
  <2>1. ASSUME NEW i \in DOMAIN s, NEW j \in DOMAIN s, i < j  PROVE s[i].exp <= s[j].exp + MaxCall
    <3>1. i + n < j + n
      BY <1>1, <2>1
    <3>. QED  BY <1>1, <3>1 DEF Shielded
  <2>. QED  BY <2>1 DEF Shielded
<1>4. ASSUME NEW k, NEW b, Missed(c, k, b)  PROVE Missed(s, k, b)
  <2>1. ASSUME NEW i \in DOMAIN s, NEW j \in DOMAIN s, s[i].key = k, i <= j  PROVE b <= s[j].exp
    <3>1. i + n <= j + n
      BY <1>1, <2>1
    <3>. QED  BY <1>1, <1>4, <2>1, <3>1 DEF Missed
  <2>. QED  BY <2>1 DEF Missed
<1>. QED  BY <1>1, <1>2, <1>3, <1>4 DEF s

(* A hit: the entry expired no longer ago than a call takes.               *)
LEMMA HitFacts ==
  ASSUME NEW K, NEW c \in Seq(Entries(K)), Shielded(c), NEW clock \in Nat, NEW k \in HeldKeys(Swept(c, clock))
  PROVE  \E i \in DOMAIN c : /\ EntryOf(Swept(c, clock), k) = c[i] /\ c[i].key = k
                             /\ clock <= c[i].exp + MaxCall
<1>. DEFINE s == Swept(c, clock)
<1>1. /\ s \in Seq(Entries(K)) /\ Shielded(s) /\ \A i \in DOMAIN s : \E j \in DOMAIN c : s[i] = c[j]
      /\ s # << >> => ~ Stale(s[1], clock)
  BY SweepKeeps, SweptFacts
<1> HIDE DEF s
<1>2. PICK i \in DOMAIN s : s[i].key = k /\ EntryOf(s, k) = s[i]
  BY DEF HeldKeys, EntryOf, s
<1>3. i \in Nat /\ 1 <= i /\ 1 \in DOMAIN s /\ s # << >>
  BY <1>1
<1>4. s[1] \in Entries(K) /\ s[i] \in Entries(K)
  BY <1>1, <1>3
<1>5. s[1].exp \in Nat /\ s[i].exp \in Nat /\ clock <= s[1].exp
  BY <1>1, <1>3, <1>4 DEF Entries, Stale
<1>6. s[1].exp <= s[i].exp + MaxCall
  BY SMTT(30), <1>1, <1>3, <1>5, AuthAssumption DEF Shielded
<1>7. clock <= s[i].exp + MaxCall
  BY <1>5, <1>6, AuthAssumption
<1>. QED  BY <1>1, <1>2, <1>7 DEF s

(* Storing an entry replaces that of its key in place, or appends it.      *)
LEMMA StoreFacts ==
  ASSUME NEW S, NEW c \in Seq(S), NEW e \in S
  PROVE  LET s == StoreEntry(c, e)
         IN  /\ s \in Seq(S)
             /\ \A i \in DOMAIN s :
                  /\ i \in Nat
                  /\ \/ i \in DOMAIN c /\ c[i].key # e.key /\ s[i] = c[i]
                     \/ i \in DOMAIN c /\ c[i].key = e.key /\ s[i] = e
                     \/ i = Len(c) + 1 /\ s[i] = e
             /\ \A i \in DOMAIN c : i <= Len(c)
<1>1. CASE e.key \in HeldKeys(c)
  <2>1. StoreEntry(c, e) = [i \in 1 .. Len(c) |-> IF c[i].key = e.key THEN e ELSE c[i]]
    BY <1>1 DEF StoreEntry
  <2>2. \A i \in 1 .. Len(c) : (IF c[i].key = e.key THEN e ELSE c[i]) \in S
    OBVIOUS
  <2>3. StoreEntry(c, e) \in [1 .. Len(c) -> S]
    BY <2>1, <2>2
  <2>. QED  BY <2>1, <2>3
<1>2. CASE e.key \notin HeldKeys(c)
  <2>1. StoreEntry(c, e) = Append(c, e)
    BY <1>2 DEF StoreEntry
  <2>. QED  BY <1>2, <2>1 DEF HeldKeys
<1>. QED  BY <1>1, <1>2

(* A call that missed e's key stores e, which expires last of all.         *)
LEMMA StoreKeeps ==
  ASSUME NEW K, NEW c \in Seq(Entries(K)), Shielded(c), NEW e \in Entries(K), NEW b \in Nat,
         Missed(c, e.key, b), e.exp <= b + MaxCall, \A i \in DOMAIN c : c[i].exp <= e.exp
  PROVE  LET s == StoreEntry(c, e)
         IN  /\ s \in Seq(Entries(K)) /\ Shielded(s)
             /\ \A i \in DOMAIN s : s[i] = e \/ \E j \in DOMAIN c : s[i] = c[j]
             /\ \A k : \A d : Missed(c, k, d) /\ d <= e.exp => Missed(s, k, d)
<1>. DEFINE s == StoreEntry(c, e)
<1>1. /\ s \in Seq(Entries(K))
      /\ \A i \in DOMAIN s : /\ i \in Nat
                             /\ \/ i \in DOMAIN c /\ c[i].key # e.key /\ s[i] = c[i]
                                \/ i \in DOMAIN c /\ c[i].key = e.key /\ s[i] = e
                                \/ i = Len(c) + 1 /\ s[i] = e
      /\ \A i \in DOMAIN c : i <= Len(c)
  BY StoreFacts
<1> HIDE DEF s
<1>2. MaxCall \in Nat /\ e.exp \in Nat /\ DOMAIN c = 1 .. Len(c) /\ Len(c) \in Nat
  BY AuthAssumption DEF Entries
<1>3. \A i \in DOMAIN s : s[i].exp \in Nat /\ s[i].exp <= e.exp
  <2>1. \A i \in DOMAIN s : s[i] \in Entries(K)
    BY <1>1
  <2>. QED  BY SMTT(30), <1>1, <1>2, <2>1 DEF Entries
<1>4. Shielded(s)
  <2>. SUFFICES ASSUME NEW i \in DOMAIN s, NEW j \in DOMAIN s, i < j  PROVE s[i].exp <= s[j].exp + MaxCall
    BY DEF Shielded
  <2>1. CASE s[j] = e
    BY <1>2, <1>3, <2>1
  <2>2. CASE j \in DOMAIN c /\ s[j] = c[j]
    <3>1. i \in DOMAIN c
      BY <1>1, <1>2, <2>2
    <3>2. CASE s[i] = c[i]
      BY <2>2, <3>1, <3>2 DEF Shielded
    <3>3. CASE c[i].key = e.key
      <4>1. i <= j
        BY <1>1
      <4>2. b <= s[j].exp
        BY <2>2, <3>1, <3>3, <4>1 DEF Missed
      <4>. QED  BY <1>2, <1>3, <4>2
    <3>4. i # Len(c) + 1
      BY <1>2, <3>1
    <3>. QED  BY <1>1, <3>1, <3>2, <3>3, <3>4
  <2>. QED  BY <1>1, <2>1, <2>2
<1>5. ASSUME NEW k, NEW d, Missed(c, k, d), d <= e.exp  PROVE Missed(s, k, d)
  <2>. SUFFICES ASSUME NEW i \in DOMAIN s, NEW j \in DOMAIN s, s[i].key = k, i <= j  PROVE d <= s[j].exp
    BY DEF Missed
  <2>1. CASE s[j] = e
    BY <1>5, <2>1
  <2>2. CASE j \in DOMAIN c /\ s[j] = c[j]
    <3>1. i \in DOMAIN c
      BY <1>1, <1>2, <2>2
    <3>2. c[i].key = k
      BY <1>1, <1>2, <3>1
    <3>. QED  BY <1>5, <2>2, <3>1, <3>2 DEF Missed
  <2>. QED  BY <1>1, <2>1, <2>2
<1>. QED  BY <1>1, <1>4, <1>5 DEF s
-----------------------------------------------------------------------------
LEMMA Constants ==
  /\ NoToken \notin Tokens /\ TTL \in Nat /\ KeyTTL \in Nat /\ MaxCall \in Nat /\ RecordAge \in Nat
  /\ KeyIds \subseteq Nat \ {0} /\ \A id \in KeyIds : KeyExpires[id] \in Nat
  /\ \A k \in Tokens : /\ Claims[k].expires \in Nat /\ Claims[k].key \in KeyIds \cup {0}
                       /\ Claims[k].version \in {"1", "unknown", "malformed"}
BY AuthAssumption

LEMMA Facts ==
  ASSUME Inv, NEW r \in Requests
  PROVE  /\ now \in Nat /\ held \subseteq Tokens /\ required \in BOOLEAN
         /\ \A k \in Tokens : state[k] \in States /\ ended[k] \in Nat /\ ended[k] <= now
         /\ verified \in Seq(Entries(Tokens)) /\ Shielded(verified)
         /\ keys \in Seq(Entries(KeyIds)) /\ Shielded(keys)
         /\ RequestOK(request[r]) /\ request[r] \in RequestStates
         /\ MissOK(request[r], verified, keys)
BY DEF Inv, ServiceOK, VerifiedOK, KeysOK

(* What the request of one step is judged by, and what the step may do to  *)
(* the caches for the others.                                              *)
Keeps(v, ks) ==
  /\ VerifiedOK(v) /\ KeysOK(ks)
  /\ \A k : \A b \in Nat : b <= now + TTL /\ Missed(verified, k, b) => Missed(v, k, b)
  /\ \A k : \A b \in Nat : b <= now + KeyTTL /\ Missed(keys, k, b) => Missed(ks, k, b)

Judgement == \A r \in Requests : request'[r] # request[r] => Judged(request'[r])

LEMMA ActorStep ==
  ASSUME Inv, NEW r \in Requests, NEW z, request' = [request EXCEPT ![r] = z], UNCHANGED service,
         Keeps(verified', keys'), RequestOK(z), MissOK(z, verified', keys'), Judged(z)
  PROVE  Inv' /\ Judgement
<1>1. /\ now' = now /\ state' = state /\ ended' = ended /\ held' = held /\ required' = required
  BY DEF service
<1>2. ServiceOK' /\ VerifiedOK(verified)' /\ KeysOK(keys)'
  BY <1>1 DEF Inv, ServiceOK, Keeps, VerifiedOK, KeysOK, Earned
<1>3. z \in RequestStates /\ request' \in [Requests -> RequestStates] /\ request'[r] = z
      /\ \A u \in Requests \ {r} : request'[u] = request[u]
  BY DEF RequestOK, Inv
<1>4. ASSUME NEW u \in Requests \ {r}  PROVE MissOK(request[u], verified', keys')
  <2>1. /\ request[u].started \in Nat /\ now \in Nat
        /\ request[u].pc \in {"key", "record"} => request[u].started <= now
        /\ MissOK(request[u], verified, keys)
    BY Facts DEF RequestOK, RequestStates, CallOK
  <2>2. /\ request[u].started + TTL \in Nat /\ request[u].started + KeyTTL \in Nat
        /\ request[u].pc \in {"key", "record"} => /\ request[u].started + TTL <= now + TTL
                                                  /\ request[u].started + KeyTTL <= now + KeyTTL
    BY <2>1, Constants
  <2>. QED  BY <2>1, <2>2 DEF Keeps, MissOK
<1>5. ASSUME NEW u \in Requests  PROVE RequestOK(request'[u]) /\ MissOK(request'[u], verified', keys')
  BY <1>3, <1>4 DEF Inv
<1>6. ASSUME NEW u \in Requests  PROVE RequestOK(request[u])' /\ MissOK(request[u], verified, keys)'
  BY <1>1, <1>5 DEF RequestOK, CallOK, AppOK, MissOK, RefusalDue
<1>7. Judgement
  BY <1>3 DEF Judgement
<1>. QED  BY <1>2, <1>3, <1>6, <1>7 DEF Inv

(* If a verdict is deserved, so is what becomes of the request.            *)
LEMMA ReturnFacts ==
  ASSUME NEW q \in RequestStates, Calls(q), NEW verdict \in Verdicts, NEW z \in Return(q, verdict),
         verdict = "AuthToken" => q.token \in Tokens /\ Trusted(q.token),
         verdict = "Unauthorized" => RefusalDue(q.token)
  PROVE  /\ RequestOK(z) /\ Judged(z) /\ z.pc \in {"app", "done"}
<1>1. ASSUME NEW o \in Outcomes \ {"none"}, z = Ends(q, o),
             o = "granted" /\ q.user # NoToken => Trusted(q.user), o = "401" => RefusalDue(q.token)
      PROVE  RequestOK(z) /\ Judged(z) /\ z.pc \in {"app", "done"}
  <2>1. /\ z \in RequestStates /\ z.pc = "done" /\ z.outcome = o
        /\ o \in {"401", "granted"} => z.token = q.token /\ z.user = q.user
    BY ZenonT(60), <1>1 DEF Ends, Idle, RequestStates, Outcomes, States
  <2>. QED  BY <1>1, <2>1 DEF RequestOK, CallOK, AppOK, Judged
<1>2. ASSUME NEW k \in {NoToken, q.token}, z = Admitted(q, k),
             k # NoToken => Trusted(k), k = NoToken => RefusalDue(q.token)
      PROVE  RequestOK(z) /\ Judged(z) /\ z.pc \in {"app", "done"}
  <2>1. /\ z \in RequestStates /\ z.pc = "app" /\ z.outcome = "none" /\ z.record = "none"
        /\ z.user = k /\ z.token = q.token
    BY <1>2 DEF Admitted, Idle, RequestStates, Outcomes
  <2>. QED  BY <1>2, <2>1 DEF RequestOK, CallOK, AppOK, Judged
<1>3. CASE q.caller = "middleware"
  <2>1. z \in ToMiddleware(q, verdict)
    BY <1>3 DEF Return
  <2>2. CASE verdict = "AuthToken"
    <3>1. z = Admitted(q, q.token)
      BY <2>1, <2>2 DEF ToMiddleware
    <3>. QED  BY <1>2, <2>2, <3>1, Constants
  <2>3. CASE verdict = "Unauthorized"
    <3>1. z = Admitted(q, NoToken) \/ z = Ends(q, "401")
      BY <2>1, <2>3 DEF ToMiddleware
    <3>. QED  BY <1>1, <1>2, <2>3, <3>1 DEF Outcomes
  <2>4. CASE verdict \in {"InvalidToken", "RecordNotFound", "error"}
    <3>1. z = Ends(q, "400") \/ z = Ends(q, "500")
      BY <2>1, <2>4 DEF ToMiddleware
    <3>. QED  BY <1>1, <3>1 DEF Outcomes
  <2>. QED  BY <2>2, <2>3, <2>4 DEF Verdicts
<1>4. CASE q.caller = "verify_scope"
  <2>1. z \in ToVerifyScope(q, verdict) /\ q.user = q.token
    BY <1>4 DEF Return, Calls
  <2>2. CASE verdict = "AuthToken"
    <3>1. z = Ends(q, "granted") \/ z = Ends(q, "403")
      BY <2>1, <2>2 DEF ToVerifyScope
    <3>. QED  BY <1>1, <2>1, <2>2, <3>1 DEF Outcomes
  <2>3. CASE verdict = "Unauthorized"
    <3>1. z = Ends(q, "401")
      BY <2>1, <2>3 DEF ToVerifyScope
    <3>. QED  BY <1>1, <2>3, <3>1 DEF Outcomes
  <2>4. CASE verdict \in {"InvalidToken", "RecordNotFound", "error"}
    <3>1. z = Ends(q, "500")
      BY <2>1, <2>4 DEF ToVerifyScope
    <3>. QED  BY <1>1, <3>1 DEF Outcomes
  <2>. QED  BY <2>2, <2>3, <2>4 DEF Verdicts
<1>. QED  BY <1>3, <1>4 DEF Calls, RequestStates

(* A step that answers a request with such a verdict.                      *)
LEMMA VerdictStep ==
  ASSUME Inv, NEW r \in Requests, NEW q \in RequestStates, Calls(q), NEW verdict \in Verdicts,
         Becomes(r, Return(q, verdict)), UNCHANGED service, Keeps(verified', keys'),
         verdict = "AuthToken" => q.token \in Tokens /\ Trusted(q.token),
         verdict = "Unauthorized" => RefusalDue(q.token)
  PROVE  Inv' /\ Judgement
<1>1. PICK z \in Return(q, verdict) : request' = [request EXCEPT ![r] = z]
  BY DEF Becomes
<1>2. RequestOK(z) /\ Judged(z) /\ z.pc \in {"app", "done"}
  BY ReturnFacts
<1>3. MissOK(z, verified', keys')
  BY <1>2 DEF MissOK
<1>. QED  BY <1>1, <1>2, <1>3, ActorStep

LEMMA KeepsSame ==
  ASSUME Inv, UNCHANGED <<verified, keys>>
  PROVE  Keeps(verified', keys')
BY DEF Inv, Keeps

(* What was so, but for extra, a call before an entry was stored.          *)
LEMMA AgeOfEntry ==
  ASSUME NEW clock \in Nat, NEW exp \in Nat, NEW x \in Nat, NEW ttl \in Nat, NEW longest \in Nat,
         NEW extra \in Nat, clock <= exp + longest, exp <= x + ttl + longest + extra
  PROVE  clock - x <= ttl + 2 * longest + extra
OBVIOUS

(* The sweep that every call begins with.                                  *)
LEMMA SweepOK ==
  ASSUME Inv
  PROVE  /\ Keeps(Swept(verified, now), keys) /\ Keeps(Swept(verified, now), Swept(keys, now))
         /\ \A k \in HeldKeys(Swept(verified, now)) : Trusted(k)
         /\ \A k \in HeldKeys(Swept(keys, now)) :
              /\ EntryOf(Swept(keys, now), k).data = k
              /\ now <= KeyExpires[k] + KeyTTL + MaxCall
<1>1. /\ ServiceOK /\ VerifiedOK(verified) /\ KeysOK(keys)
      /\ verified \in Seq(Entries(Tokens)) /\ Shielded(verified) /\ keys \in Seq(Entries(KeyIds)) /\ Shielded(keys)
      /\ now \in Nat
  BY DEF Inv, VerifiedOK, KeysOK, ServiceOK
<1>2. /\ VerifiedOK(Swept(verified, now))
      /\ \A k, b : Missed(verified, k, b) => Missed(Swept(verified, now), k, b)
  <2>1. /\ Swept(verified, now) \in Seq(Entries(Tokens)) /\ Shielded(Swept(verified, now))
        /\ \A i \in DOMAIN Swept(verified, now) : \E j \in DOMAIN verified : Swept(verified, now)[i] = verified[j]
        /\ \A k, b : Missed(verified, k, b) => Missed(Swept(verified, now), k, b)
    BY <1>1, SweepKeeps
  <2>. QED  BY <1>1, <2>1 DEF VerifiedOK
<1>3. /\ KeysOK(Swept(keys, now))
      /\ \A k, b : Missed(keys, k, b) => Missed(Swept(keys, now), k, b)
  <2>1. /\ Swept(keys, now) \in Seq(Entries(KeyIds)) /\ Shielded(Swept(keys, now))
        /\ \A i \in DOMAIN Swept(keys, now) : \E j \in DOMAIN keys : Swept(keys, now)[i] = keys[j]
        /\ \A k, b : Missed(keys, k, b) => Missed(Swept(keys, now), k, b)
    BY <1>1, SweepKeeps
  <2>. QED  BY <1>1, <2>1 DEF KeysOK
<1>4. ASSUME NEW k \in HeldKeys(Swept(verified, now))  PROVE Trusted(k)
  <2>1. PICK i \in DOMAIN verified : verified[i].key = k /\ now <= verified[i].exp + MaxCall
    BY <1>1, HitFacts
  <2>2. verified[i] \in Entries(Tokens) /\ Earned(verified[i])
    BY <1>1 DEF VerifiedOK
  <2>. DEFINE exp == verified[i].exp  c == Claims[k]
  <2>3. k \in Tokens /\ exp \in Nat
    BY <2>1, <2>2 DEF Entries
  <2>4. /\ c.key # 0
        /\ state[k] = "active" \/ exp <= ended[k] + TTL + MaxCall + RecordAge
        /\ exp <= c.expires + TTL + MaxCall
        /\ exp <= KeyExpires[c.key] + KeyTTL + TTL + 2 * MaxCall
    BY <2>1, <2>2 DEF Earned
  <2>5. c.expires \in Nat /\ KeyExpires[c.key] \in Nat /\ ended[k] \in Nat
    BY <1>1, <2>3, <2>4, Constants DEF ServiceOK
  <2>6. now <= exp + MaxCall
    BY <2>1
  <2> HIDE DEF exp, c
  <2>7. TTL \in Nat /\ KeyTTL \in Nat /\ MaxCall \in Nat /\ RecordAge \in Nat
    BY Constants
  <2>8. state[k] = "active" \/ now - ended[k] <= TTL + 2 * MaxCall + RecordAge
    BY <1>1, <2>3, <2>4, <2>5, <2>6, <2>7, AgeOfEntry
  <2>9. now - c.expires <= TTL + 2 * MaxCall
    <3>1. exp <= c.expires + TTL + MaxCall + 0
      BY <2>4, <2>5, <2>7
    <3>2. now - c.expires <= TTL + 2 * MaxCall + 0
      BY <1>1, <2>3, <2>5, <2>6, <2>7, <3>1, AgeOfEntry
    <3>. QED  BY <2>7, <3>2
  <2>10. now - KeyExpires[c.key] <= KeyTTL + TTL + 3 * MaxCall
    <3>1. KeyTTL + MaxCall \in Nat
      BY <2>7
    <3>2. exp <= KeyExpires[c.key] + TTL + MaxCall + (KeyTTL + MaxCall)
      BY <2>3, <2>4, <2>5, <2>7
    <3>3. now - KeyExpires[c.key] <= TTL + 2 * MaxCall + (KeyTTL + MaxCall)
      BY <1>1, <2>3, <2>5, <2>6, <2>7, <3>1, <3>2, AgeOfEntry
    <3>. QED  BY <2>7, <3>3
  <2>. QED  BY <2>8, <2>9, <2>10 DEF Trusted, c
<1>5. ASSUME NEW k \in HeldKeys(Swept(keys, now))
      PROVE  EntryOf(Swept(keys, now), k).data = k /\ now <= KeyExpires[k] + KeyTTL + MaxCall
  <2>1. PICK i \in DOMAIN keys : /\ EntryOf(Swept(keys, now), k) = keys[i] /\ keys[i].key = k
                                 /\ now <= keys[i].exp + MaxCall
    BY <1>1, HitFacts
  <2>2. keys[i] \in Entries(KeyIds) /\ keys[i].data = k /\ keys[i].exp <= KeyExpires[k] + KeyTTL
    BY <1>1, <2>1 DEF KeysOK
  <2>3. k \in KeyIds /\ keys[i].exp \in Nat
    BY <2>1, <2>2 DEF Entries
  <2>4. KeyExpires[k] \in Nat
    BY <2>3, Constants
  <2>. QED  BY <1>1, <2>1, <2>2, <2>3, <2>4, Constants
<1>. QED  BY <1>1, <1>2, <1>3, <1>4, <1>5 DEF Keeps

(* A key is at hand; what follows up to the record.                        *)
LEMMA SignatureStep ==
  ASSUME Inv, NEW r \in Requests, NEW q \in RequestStates, q.pc = "key", CallOK(q),
         NEW key, key = Claims[q.token].key, q.started <= KeyExpires[key] + KeyTTL + MaxCall,
         Becomes(r, Signature(q, key)), UNCHANGED service, Keeps(verified', keys'),
         Missed(verified', q.token, q.started + TTL)
  PROVE  Inv' /\ Judgement
<1>1. CASE Claims[q.token].signed
  <2>. DEFINE z == [q EXCEPT !.pc = "record"]
  <2>1. request' = [request EXCEPT ![r] = z]
    BY <1>1 DEF Becomes, Signature
  <2>2. /\ z \in RequestStates /\ z.pc = "record" /\ z.token = q.token /\ z.user = q.user /\ z.caller = q.caller
        /\ z.started = q.started /\ z.record = q.record /\ z.outcome = q.outcome
    BY DEF RequestStates
  <2> HIDE DEF z
  <2>3. RequestOK(z)
    BY <1>1, <2>2 DEF RequestOK, CallOK, AppOK, Calls
  <2>4. Judged(z) /\ MissOK(z, verified', keys')
    BY <2>2 DEF CallOK, Judged, MissOK
  <2>. QED  BY <2>1, <2>3, <2>4, ActorStep
<1>2. CASE ~ Claims[q.token].signed
  <2>1. Becomes(r, Return(q, "Unauthorized")) /\ RefusalDue(q.token) /\ Calls(q)
    BY <1>2 DEF Signature, RefusalDue, CallOK
  <2>. QED  BY <2>1, VerdictStep DEF Verdicts
<1>. QED  BY <1>1, <1>2

(* verifyToken up to its first suspension.                                 *)
LEMMA VerifyTokenStep ==
  ASSUME Inv, NEW r \in Requests, NEW q \in RequestStates, q.token \in Tokens, Calls(q),
         q.outcome = "none", q.record = "none", VerifyToken(r, q), UNCHANGED service
  PROVE  Inv' /\ Judgement
<1>1. verified' = Swept(verified, now)
  BY DEF VerifyToken
<1>2. now \in Nat
  BY Facts
<1>3. CASE /\ q.token \in HeldKeys(verified') /\ Becomes(r, Return(q, "AuthToken")) /\ UNCHANGED keys
  <2>1. Keeps(verified', keys') /\ Trusted(q.token)
    BY <1>1, <1>3, SweepOK
  <2>. QED  BY <1>3, <2>1, VerdictStep DEF Verdicts
<1>4. CASE /\ \E verdict \in Refusals(q.token) : Becomes(r, Return(q, verdict))
           /\ UNCHANGED keys
  <2>1. Keeps(verified', keys')
    BY <1>1, <1>4, SweepOK
  <2>2. PICK verdict \in Refusals(q.token) : Becomes(r, Return(q, verdict))
    BY <1>4
  <2>3. verdict \in {"InvalidToken", "error", "Unauthorized"}
    BY <2>2 DEF Refusals
  <2>4. verdict = "Unauthorized" => Claims[q.token].key = 0 \/ now > Claims[q.token].expires
    BY <2>2 DEF Refusals
  <2>5. verdict = "Unauthorized" => RefusalDue(q.token)
    BY <1>2, <2>4, Constants DEF RefusalDue
  <2>. QED  BY <2>1, <2>2, <2>3, <2>5, VerdictStep DEF Verdicts
<1>5. CASE /\ q.token \notin HeldKeys(verified') /\ Refusals(q.token) = {}
           /\ keys' = Swept(keys, now)
           /\ LET id == KeyArgument(q.token)
                  waiting == [q EXCEPT !.pc = "key", !.started = now]
              IN  Becomes(r, IF id \in HeldKeys(keys')
                            THEN Signature(waiting, EntryOf(keys', id).data)
                            ELSE {waiting})
  <2>. DEFINE id == Claims[q.token].key  w == [q EXCEPT !.pc = "key", !.started = now]
  <2>1. Keeps(verified', keys')
    BY <1>1, <1>5, SweepOK
  <2>2. /\ w \in RequestStates /\ w.pc = "key" /\ w.token = q.token /\ w.user = q.user /\ w.caller = q.caller
        /\ w.started = now /\ w.record = "none" /\ w.outcome = "none"
    BY <1>2 DEF RequestStates
  <2>3. id # 0 /\ ~ (now > Claims[q.token].expires)
    BY <1>5 DEF Refusals
  <2>4. CallOK(w) /\ RequestOK(w) /\ Judged(w)
    <3> HIDE DEF w
    <3>. QED  BY <1>2, <2>2, <2>3, Constants DEF RequestOK, CallOK, AppOK, Judged, Calls
  <2>5. Missed(verified', w.token, w.started + TTL)
    BY <1>5, <2>2 DEF Missed, HeldKeys
  <2>6. CASE id \in HeldKeys(keys')
    <3>1. Becomes(r, Signature(w, EntryOf(keys', id).data))
      BY <1>5, <2>6 DEF KeyArgument
    <3>2. EntryOf(keys', id).data = id /\ now <= KeyExpires[id] + KeyTTL + MaxCall
      BY <1>5, <2>6, SweepOK
    <3>3. Becomes(r, Signature(w, id)) /\ id = Claims[w.token].key
          /\ w.started <= KeyExpires[id] + KeyTTL + MaxCall
      BY <2>2, <3>1, <3>2
    <3> HIDE DEF w, id
    <3>. QED  BY <2>1, <2>2, <2>4, <2>5, <3>3, SignatureStep
  <2>7. CASE id \notin HeldKeys(keys')
    <3>1. request' = [request EXCEPT ![r] = w]
      BY <1>5, <2>7 DEF KeyArgument, Becomes
    <3>2. Missed(keys', Claims[w.token].key, w.started + KeyTTL)
      BY <2>2, <2>7 DEF Missed, HeldKeys
    <3> HIDE DEF w, id
    <3>3. MissOK(w, verified', keys')
      BY <2>5, <3>2 DEF MissOK
    <3>. QED  BY <2>1, <2>4, <3>1, <3>3, ActorStep
  <2>. QED  BY <2>6, <2>7
<1>. QED  BY <1>3, <1>4, <1>5 DEF VerifyToken

LEMMA ArriveStep == ASSUME Inv, NEW r \in Requests, Arrive(r)  PROVE Inv' /\ Judgement
<1>. DEFINE q == [Idle EXCEPT !.caller = "middleware"]
<1>0. UNCHANGED service
  BY DEF Arrive
<1>1. CASE Becomes(r, {Ends(Idle, "open")}) /\ UNCHANGED <<verified, keys>>
  <2>. DEFINE z == Ends(Idle, "open")
  <2>1. /\ z \in RequestStates /\ z.pc = "done" /\ z.outcome = "open"
    BY DEF Ends, Idle, RequestStates, Outcomes
  <2>2. request' = [request EXCEPT ![r] = z]
    BY <1>1 DEF Becomes
  <2> HIDE DEF z
  <2>3. RequestOK(z) /\ Judged(z) /\ MissOK(z, verified', keys')
    BY <2>1 DEF RequestOK, CallOK, AppOK, Judged, MissOK
  <2>. QED  BY <1>0, <1>1, <2>2, <2>3, ActorStep, KeepsSame
<1>2. CASE Becomes(r, Return(q, "Unauthorized")) /\ UNCHANGED <<verified, keys>>
  <2>1. q \in RequestStates /\ Calls(q) /\ RefusalDue(q.token)
    BY DEF Idle, RequestStates, Outcomes, Calls, RefusalDue
  <2>. QED  BY <1>0, <1>2, <2>1, VerdictStep, KeepsSame DEF Verdicts
<1>3. CASE \E k \in held : VerifyToken(r, [Idle EXCEPT !.caller = "middleware", !.token = k])
  <2>1. PICK k \in held : VerifyToken(r, [Idle EXCEPT !.caller = "middleware", !.token = k])
    BY <1>3
  <2>. DEFINE z == [Idle EXCEPT !.caller = "middleware", !.token = k]
  <2>2. k \in Tokens
    BY Facts
  <2>3. z \in RequestStates /\ z.token = k /\ Calls(z) /\ z.outcome = "none" /\ z.record = "none"
    BY <2>2 DEF Idle, RequestStates, Outcomes, Calls
  <2> HIDE DEF z
  <2>. QED  BY <1>0, <2>1, <2>2, <2>3, VerifyTokenStep DEF z
<1>. QED  BY <1>1, <1>2, <1>3 DEF Arrive

LEMMA FetchKeyStep == ASSUME Inv, NEW r \in Requests, FetchKey(r)  PROVE Inv' /\ Judgement
<1>. DEFINE q == request[r]  id == Claims[request[r].token].key  e == CacheEntry(id, now + KeyTTL, id)
<1>1. /\ q.pc = "key" /\ verified' = verified /\ UNCHANGED service
      /\ \/ now <= KeyExpires[id] /\ keys' = StoreEntry(keys, e) /\ Becomes(r, Signature(q, id))
         \/ now > KeyExpires[id] /\ Becomes(r, Return(q, "Unauthorized")) /\ keys' = keys
         \/ Becomes(r, Return(q, "error")) /\ keys' = keys
  BY DEF FetchKey, KeyArgument
<1>2. /\ q \in RequestStates /\ CallOK(q) /\ q.token \in Tokens /\ Calls(q) /\ id \in KeyIds
      /\ q.started \in Nat /\ q.started <= now /\ now <= q.started + MaxCall
      /\ now \in Nat /\ KeyExpires[id] \in Nat
      /\ Missed(verified, q.token, q.started + TTL) /\ Missed(keys, id, q.started + KeyTTL)
  BY <1>1, Facts, Constants DEF RequestOK, CallOK, RequestStates, MissOK
<1>3. /\ VerifiedOK(verified) /\ KeysOK(keys) /\ keys \in Seq(Entries(KeyIds)) /\ Shielded(keys)
      /\ KeyTTL \in Nat /\ MaxCall \in Nat
  BY Constants DEF Inv, KeysOK
<1>4. CASE now <= KeyExpires[id] /\ keys' = StoreEntry(keys, e) /\ Becomes(r, Signature(q, id))
  <2>1. e \in Entries(KeyIds) /\ e.key = id /\ e.data = id /\ e.exp = now + KeyTTL
    BY <1>2, <1>3 DEF CacheEntry, Entries
  <2> HIDE DEF e
  <2>2. q.started + KeyTTL \in Nat /\ e.exp <= (q.started + KeyTTL) + MaxCall
    BY <1>2, <1>3, <2>1
  <2>3. \A i \in DOMAIN keys : keys[i].exp <= e.exp
    BY <1>3, <2>1 DEF KeysOK
  <2>4. /\ keys' \in Seq(Entries(KeyIds)) /\ Shielded(keys')
        /\ \A i \in DOMAIN keys' : keys'[i] = e \/ \E j \in DOMAIN keys : keys'[i] = keys[j]
        /\ \A k : \A d : Missed(keys, k, d) /\ d <= e.exp => Missed(keys', k, d)
    BY SMTT(30), <1>2, <1>3, <1>4, <2>1, <2>2, <2>3, StoreKeeps
  <2>5. e.exp <= now + KeyTTL /\ e.exp <= KeyExpires[id] + KeyTTL
    BY <1>2, <1>3, <1>4, <2>1
  <2>6. KeysOK(keys')
    BY <1>3, <2>1, <2>4, <2>5 DEF KeysOK
  <2>7. Keeps(verified', keys')
    BY <1>1, <1>3, <2>1, <2>4, <2>6 DEF Keeps
  <2>8. q.started <= KeyExpires[id] + KeyTTL + MaxCall
    BY SMTT(30), <1>2, <1>3, <1>4
  <2>9. Missed(verified', q.token, q.started + TTL)
    BY <1>1, <1>2
  <2>. QED  BY <1>1, <1>2, <1>4, <2>7, <2>8, <2>9, SignatureStep
<1>5. CASE now > KeyExpires[id] /\ Becomes(r, Return(q, "Unauthorized")) /\ keys' = keys
  <2>1. RefusalDue(q.token)
    BY <1>2, <1>5 DEF RefusalDue
  <2>. QED  BY <1>1, <1>2, <1>5, <2>1, VerdictStep, KeepsSame DEF Verdicts
<1>6. CASE Becomes(r, Return(q, "error")) /\ keys' = keys
  BY <1>1, <1>2, <1>6, VerdictStep, KeepsSame DEF Verdicts
<1>. QED  BY <1>1, <1>4, <1>5, <1>6

LEMMA ReadRecordStep == ASSUME Inv, NEW r \in Requests, ReadRecord(r)  PROVE Inv' /\ Judgement
<1>. DEFINE q == request[r]
<1>1. PICK s \in Readable(q.token) : request' = [request EXCEPT ![r] = [q EXCEPT !.record = s]]
  BY DEF ReadRecord, Becomes
<1>2. /\ q.pc \in {"key", "record"} /\ UNCHANGED <<verified, keys>> /\ UNCHANGED service
  BY DEF ReadRecord
<1>3. /\ q \in RequestStates /\ CallOK(q) /\ q.token \in Tokens /\ q.outcome = "none"
      /\ q.started \in Nat /\ q.started <= now /\ now \in Nat /\ ended[q.token] \in Nat
      /\ state[q.token] \in States /\ MissOK(q, verified, keys)
  BY <1>2, Facts DEF RequestOK, CallOK, RequestStates
<1>4. /\ s \in States
      /\ s = "active" => state[q.token] = "active" \/ q.started <= ended[q.token] + RecordAge
      /\ s \in {"inactive", "gone"} => state[q.token] # "active"
  <2>1. RecordAge \in Nat
    BY Constants
  <2>2. s = state[q.token] \/ (s = "active" /\ now - ended[q.token] <= RecordAge)
    BY <1>1 DEF Readable
  <2>3. now - ended[q.token] <= RecordAge => q.started <= ended[q.token] + RecordAge
    BY <1>3, <2>1
  <2>. QED  BY <1>3, <2>2, <2>3 DEF States
<1>. DEFINE z == [q EXCEPT !.record = s]
<1>5. /\ z \in RequestStates /\ z.pc = q.pc /\ z.token = q.token /\ z.user = q.user /\ z.caller = q.caller
      /\ z.started = q.started /\ z.record = s /\ z.outcome = q.outcome
  BY <1>3, <1>4 DEF RequestStates
<1> HIDE DEF z
<1>6. RequestOK(z) /\ Judged(z) /\ MissOK(z, verified', keys')
  <2>1. CallOK(z)
    BY <1>3, <1>4, <1>5 DEF CallOK, Calls
  <2>2. AppOK(z) /\ Judged(z)
    BY <1>2, <1>3, <1>5 DEF AppOK, Judged
  <2>3. MissOK(z, verified', keys')
    BY <1>2, <1>3, <1>5 DEF MissOK
  <2>. QED  BY <1>5, <2>1, <2>2, <2>3 DEF RequestOK
<1>. QED  BY <1>1, <1>2, <1>6, ActorStep, KeepsSame DEF z

LEMMA AcceptStep == ASSUME Inv, NEW r \in Requests, Accept(r)  PROVE Inv' /\ Judgement
<1>. DEFINE q == request[r]  k == request[r].token  e == CacheEntry(k, now + TTL, k)  c == Claims[k]
<1>1. /\ q.pc = "record" /\ q.record = "active" /\ verified' = StoreEntry(verified, e)
      /\ Becomes(r, Return(q, "AuthToken")) /\ keys' = keys /\ UNCHANGED service
  BY DEF Accept
<1>2. /\ q \in RequestStates /\ CallOK(q) /\ k \in Tokens /\ Calls(q) /\ c.key # 0
      /\ q.started \in Nat /\ q.started <= now /\ now <= q.started + MaxCall /\ q.started <= c.expires
      /\ q.started <= KeyExpires[c.key] + KeyTTL + MaxCall
      /\ state[k] = "active" \/ q.started <= ended[k] + RecordAge
      /\ now \in Nat /\ ended[k] \in Nat
      /\ Missed(verified, k, q.started + TTL)
  BY <1>1, Facts DEF RequestOK, CallOK, RequestStates, MissOK
<1>3. /\ TTL \in Nat /\ KeyTTL \in Nat /\ MaxCall \in Nat /\ RecordAge \in Nat
      /\ c.expires \in Nat /\ KeyExpires[c.key] \in Nat
  BY <1>2, Constants
<1>4. VerifiedOK(verified) /\ KeysOK(keys) /\ verified \in Seq(Entries(Tokens)) /\ Shielded(verified)
  BY DEF Inv, VerifiedOK
<1>5. e \in Entries(Tokens) /\ e.key = k /\ e.exp = now + TTL
  BY <1>2, <1>3 DEF CacheEntry, Entries
<1> HIDE DEF e
<1>6. q.started + TTL \in Nat /\ e.exp <= (q.started + TTL) + MaxCall
  BY <1>2, <1>3, <1>5
<1>7. \A i \in DOMAIN verified : verified[i].exp <= e.exp
  BY <1>4, <1>5 DEF VerifiedOK
<1>8. /\ verified' \in Seq(Entries(Tokens)) /\ Shielded(verified')
      /\ \A i \in DOMAIN verified' : verified'[i] = e \/ \E j \in DOMAIN verified : verified'[i] = verified[j]
      /\ \A n : \A d : Missed(verified, n, d) /\ d <= e.exp => Missed(verified', n, d)
  BY <1>1, <1>2, <1>4, <1>5, <1>6, <1>7, StoreKeeps
<1>9. Earned(e) /\ Trusted(k)
  <2>. DEFINE x == KeyExpires[c.key]  y == c.expires  w == ended[k]
  <2>1. /\ x \in Nat /\ y \in Nat /\ w \in Nat /\ q.started <= y /\ q.started <= x + KeyTTL + MaxCall
        /\ state[k] = "active" \/ q.started <= w + RecordAge
    BY <1>2, <1>3
  <2> HIDE DEF x, y, w
  <2>2. /\ q.started <= w + RecordAge => /\ e.exp <= w + TTL + MaxCall + RecordAge
                                         /\ now - w <= TTL + 2 * MaxCall + RecordAge
        /\ e.exp <= y + TTL + MaxCall /\ now - y <= TTL + 2 * MaxCall
        /\ e.exp <= x + KeyTTL + TTL + 2 * MaxCall /\ now - x <= KeyTTL + TTL + 3 * MaxCall
    BY <1>2, <1>3, <1>5, <2>1
  <2>. QED  BY <1>2, <1>5, <2>1, <2>2 DEF Earned, Trusted, x, y, w
<1>10. VerifiedOK(verified')
  <2>1. e.exp <= now + TTL
    BY <1>2, <1>3, <1>5
  <2>. QED  BY <1>4, <1>8, <1>9, <2>1 DEF VerifiedOK
<1>11. Keeps(verified', keys')
  BY <1>1, <1>4, <1>5, <1>8, <1>10 DEF Keeps
<1>. QED  BY <1>1, <1>2, <1>9, <1>11, VerdictStep DEF Verdicts

LEMMA RefuseStep == ASSUME Inv, NEW r \in Requests, Refuse(r)  PROVE Inv' /\ Judgement
<1>. DEFINE q == request[r]
<1>1. /\ q.pc = "record" /\ UNCHANGED <<verified, keys>> /\ UNCHANGED service
      /\ \/ /\ q.record = "inactive" \/ (q.record = "active" /\ ~ Claims[q.token].matches)
            /\ Becomes(r, Return(q, "Unauthorized"))
         \/ Becomes(r, Return(q, "RecordNotFound"))
         \/ Becomes(r, Return(q, "error"))
  BY DEF Refuse
<1>2. q \in RequestStates /\ Calls(q) /\ CallOK(q) /\ Keeps(verified', keys')
  BY <1>1, Facts, KeepsSame DEF RequestOK, CallOK
<1>3. CASE /\ q.record = "inactive" \/ (q.record = "active" /\ ~ Claims[q.token].matches)
           /\ Becomes(r, Return(q, "Unauthorized"))
  <2>1. RefusalDue(q.token)
    BY <1>1, <1>2, <1>3 DEF CallOK, RefusalDue
  <2>. QED  BY <1>1, <1>2, <1>3, <2>1, VerdictStep DEF Verdicts
<1>4. CASE Becomes(r, Return(q, "RecordNotFound"))
  BY <1>1, <1>2, <1>4, VerdictStep DEF Verdicts
<1>5. CASE Becomes(r, Return(q, "error"))
  BY <1>1, <1>2, <1>5, VerdictStep DEF Verdicts
<1>. QED  BY <1>1, <1>3, <1>4, <1>5

LEMMA IdleFacts ==
  Idle \in RequestStates /\ Idle.pc = "idle" /\ Idle.outcome = "none" /\ Idle.user = NoToken
BY DEF Idle, RequestStates, Outcomes

LEMMA ServeStep == ASSUME Inv, NEW r \in Requests, Serve(r)  PROVE Inv' /\ Judgement
<1>1. request' = [request EXCEPT ![r] = Idle] /\ UNCHANGED <<verified, keys>> /\ UNCHANGED service
  BY DEF Serve, Becomes
<1>2. RequestOK(Idle) /\ Judged(Idle) /\ MissOK(Idle, verified', keys')
  BY IdleFacts DEF RequestOK, CallOK, AppOK, Judged, MissOK
<1>. QED  BY <1>1, <1>2, ActorStep, KeepsSame

LEMMA VerifyScopeStep == ASSUME Inv, NEW r \in Requests, VerifyScope(r)  PROVE Inv' /\ Judgement
<1>. DEFINE q == request[r]
<1>1. /\ q.pc = "app" /\ UNCHANGED service
      /\ \/ /\ q.user = NoToken /\ UNCHANGED <<verified, keys>>
            /\ \E s \in Scopes, raise_error \in BOOLEAN :
                 Becomes(r, {Ends(q, IF raise_error THEN "401" ELSE IF s = "default" THEN "granted" ELSE "403")})
         \/ q.user # NoToken /\ VerifyToken(r, [q EXCEPT !.caller = "verify_scope"])
  BY DEF VerifyScope
<1>2. /\ q \in RequestStates /\ q.outcome = "none" /\ q.record = "none" /\ q.user \in {NoToken, q.token}
      /\ q.user = NoToken => RefusalDue(q.token)
  BY <1>1, Facts DEF RequestOK, AppOK
<1>3. CASE /\ q.user = NoToken /\ UNCHANGED <<verified, keys>>
           /\ \E s \in Scopes, raise_error \in BOOLEAN :
                Becomes(r, {Ends(q, IF raise_error THEN "401" ELSE IF s = "default" THEN "granted" ELSE "403")})
  <2>1. PICK o \in {"401", "granted", "403"} : request' = [request EXCEPT ![r] = Ends(q, o)]
    BY <1>3 DEF Becomes
  <2>. DEFINE z == Ends(q, o)
  <2>2. /\ z \in RequestStates /\ z.pc = "done" /\ z.outcome = o
        /\ o \in {"401", "granted"} => z.token = q.token /\ z.user = q.user
    BY <1>2 DEF Ends, Idle, RequestStates, Outcomes
  <2> HIDE DEF z
  <2>3. RequestOK(z) /\ Judged(z) /\ MissOK(z, verified', keys')
    BY <1>2, <1>3, <2>2 DEF RequestOK, CallOK, AppOK, Judged, MissOK
  <2>. QED  BY <1>1, <1>3, <2>1, <2>3, ActorStep, KeepsSame DEF z
<1>4. CASE q.user # NoToken /\ VerifyToken(r, [q EXCEPT !.caller = "verify_scope"])
  <2>. DEFINE z == [q EXCEPT !.caller = "verify_scope"]
  <2>1. /\ z \in RequestStates /\ z.token = q.token /\ z.user = q.token /\ z.caller = "verify_scope"
        /\ z.outcome = "none" /\ z.record = "none" /\ q.token # NoToken
    BY <1>2, <1>4 DEF RequestStates
  <2> HIDE DEF z
  <2>2. z.token \in Tokens /\ Calls(z)
    BY <1>2, <2>1 DEF RequestStates, Calls
  <2>. QED  BY <1>1, <1>4, <2>1, <2>2, VerifyTokenStep DEF z
<1>. QED  BY <1>1, <1>3, <1>4

LEMMA RevokeStep == ASSUME Inv, NEW k \in held, Revoke(k)  PROVE Inv' /\ Judgement
<1>1. /\ state' = [state EXCEPT ![k] = Fate[k]] /\ ended' = [ended EXCEPT ![k] = now] /\ Fate[k] # "active"
      /\ now' = now /\ held' = held /\ required' = required
      /\ verified' = verified /\ keys' = keys /\ request' = request
  BY DEF Revoke
<1>2. ServiceOK /\ k \in Tokens /\ now \in Nat /\ Fate[k] \in States
  BY AuthAssumption DEF Inv, ServiceOK, States
<1>3. /\ state'[k] # "active" /\ ended'[k] = now
      /\ \A j \in Tokens \ {k} : state'[j] = state[j] /\ ended'[j] = ended[j]
  BY <1>1, <1>2 DEF ServiceOK
<1>4. ServiceOK'
  BY <1>1, <1>2 DEF ServiceOK
<1>5. VerifiedOK(verified)'
  <2>1. ASSUME NEW i \in DOMAIN verified  PROVE Earned(verified[i])'
    <3>1. verified[i] \in Entries(Tokens) /\ Earned(verified[i]) /\ verified[i].exp <= now + TTL
      BY DEF Inv, VerifiedOK
    <3>2. verified[i].key \in Tokens /\ verified[i].exp \in Nat
      BY <3>1 DEF Entries
    <3>3. verified[i].exp <= now + TTL + MaxCall + RecordAge
      BY <1>2, <3>1, <3>2, Constants
    <3>. QED  BY <1>1, <1>3, <3>1, <3>2, <3>3 DEF Earned
  <2>. QED  BY <1>1, <2>1 DEF Inv, VerifiedOK
<1>6. KeysOK(keys)'
  BY <1>1 DEF Inv, KeysOK
<1>7. ASSUME NEW r \in Requests  PROVE RequestOK(request[r])' /\ MissOK(request[r], verified, keys)'
  <2>1. request[r] \in RequestStates /\ RequestOK(request[r]) /\ MissOK(request[r], verified, keys)
    BY Facts
  <2>2. CallOK(request[r])'
    <3>1. request[r].pc \in {"key", "record"} => request[r].started <= now + RecordAge
      BY <1>2, <2>1, Constants DEF RequestOK, CallOK, RequestStates
    <3>. QED  BY <1>1, <1>3, <2>1, <3>1 DEF RequestOK, CallOK
  <2>3. AppOK(request[r])'
    <3>1. RefusalDue(request[r].token) => RefusalDue(request[r].token)'
      BY <1>1, <1>3, <2>1 DEF RefusalDue, RequestStates
    <3>. QED  BY <1>1, <2>1, <3>1 DEF RequestOK, AppOK
  <2>. QED  BY <1>1, <2>1, <2>2, <2>3 DEF RequestOK, MissOK
<1>. QED  BY <1>1, <1>4, <1>5, <1>6, <1>7 DEF Inv, Judgement

LEMMA TickStep == ASSUME Inv, Tick  PROVE Inv' /\ Judgement
<1>1. /\ now' = now + 1 /\ held' = held /\ required' = required /\ state' = state /\ ended' = ended
      /\ verified' = verified /\ keys' = keys /\ request' = request
      /\ \A r \in Requests : request[r].pc \in {"key", "record"} => now < request[r].started + MaxCall
  BY DEF Tick
<1>2. ServiceOK /\ now \in Nat
  BY DEF Inv, ServiceOK
<1>3. ServiceOK'
  BY <1>1, <1>2 DEF ServiceOK
<1>4. VerifiedOK(verified)'
  <2>1. ASSUME NEW i \in DOMAIN verified  PROVE verified[i].exp <= now' + TTL
    <3>1. verified[i] \in Entries(Tokens) /\ verified[i].exp <= now + TTL
      BY DEF Inv, VerifiedOK
    <3>. QED  BY <1>1, <1>2, <3>1, Constants DEF Entries
  <2>. QED  BY <1>1, <2>1 DEF Inv, VerifiedOK, Earned
<1>5. KeysOK(keys)'
  <2>1. ASSUME NEW i \in DOMAIN keys  PROVE keys[i].exp <= now' + KeyTTL
    <3>1. keys[i] \in Entries(KeyIds) /\ keys[i].exp <= now + KeyTTL
      BY DEF Inv, KeysOK
    <3>. QED  BY <1>1, <1>2, <3>1, Constants DEF Entries
  <2>. QED  BY <1>1, <2>1 DEF Inv, KeysOK
<1>6. ASSUME NEW r \in Requests  PROVE RequestOK(request[r])' /\ MissOK(request[r], verified, keys)'
  <2>1. request[r] \in RequestStates /\ RequestOK(request[r]) /\ MissOK(request[r], verified, keys)
    BY Facts
  <2>2. CallOK(request[r])'
    <3>1. request[r].pc \in {"key", "record"} =>
            request[r].started <= now' /\ now' <= request[r].started + MaxCall
      BY <1>1, <1>2, <2>1, Constants DEF RequestOK, CallOK, RequestStates
    <3>. QED  BY <1>1, <2>1, <3>1 DEF RequestOK, CallOK
  <2>3. AppOK(request[r])'
    <3>1. RefusalDue(request[r].token) => RefusalDue(request[r].token)'
      <4>1. CASE request[r].token = NoToken
        BY <1>1, <4>1 DEF RefusalDue
      <4>2. CASE request[r].token \in Tokens
        <5>. DEFINE k == request[r].token
        <5>1. Claims[k].expires \in Nat /\ (Claims[k].key = 0 \/ KeyExpires[Claims[k].key] \in Nat)
          BY <4>2, Constants
        <5> HIDE DEF k
        <5>. QED  BY <1>1, <1>2, <5>1 DEF RefusalDue, k
      <4>. QED  BY <2>1, <4>1, <4>2 DEF RequestStates
    <3>. QED  BY <1>1, <2>1, <3>1 DEF RequestOK, AppOK
  <2>. QED  BY <1>1, <2>1, <2>2, <2>3 DEF RequestOK, MissOK
<1>. QED  BY <1>1, <1>3, <1>4, <1>5, <1>6 DEF Inv, Judgement

LEMMA InitInv == Init => Inv
<1>. SUFFICES ASSUME Init  PROVE Inv
  OBVIOUS
<1>1. ServiceOK
  BY AuthAssumption DEF Init, ServiceOK, States
<1>2. VerifiedOK(verified) /\ KeysOK(keys)
  BY DEF Init, VerifiedOK, KeysOK, Shielded
<1>3. RequestOK(Idle) /\ MissOK(Idle, verified, keys)
  BY IdleFacts DEF RequestOK, CallOK, AppOK, MissOK
<1>4. request \in [Requests -> RequestStates] /\ \A r \in Requests : request[r] = Idle
  BY IdleFacts DEF Init
<1>. QED  BY <1>1, <1>2, <1>3, <1>4 DEF Inv

LEMMA StepInv == Inv /\ [Next]_vars => Inv' /\ Judgement
<1>. SUFFICES ASSUME Inv, [Next]_vars  PROVE Inv' /\ Judgement
  OBVIOUS
<1>1. ASSUME NEW r \in Requests,
             \/ Arrive(r) \/ FetchKey(r) \/ ReadRecord(r) \/ Accept(r) \/ Refuse(r)
             \/ Serve(r) \/ VerifyScope(r)
      PROVE  Inv' /\ Judgement
  BY <1>1, ArriveStep, FetchKeyStep, ReadRecordStep, AcceptStep, RefuseStep, ServeStep, VerifyScopeStep
<1>2. ASSUME NEW k \in held, Revoke(k)  PROVE Inv' /\ Judgement
  BY <1>2, RevokeStep
<1>3. CASE Tick
  BY <1>3, TickStep
<1>4. CASE UNCHANGED vars
  <2>1. /\ now' = now /\ held' = held /\ required' = required /\ state' = state /\ ended' = ended
        /\ verified' = verified /\ keys' = keys /\ request' = request
    BY <1>4 DEF vars
  <2>2. ServiceOK' /\ VerifiedOK(verified)' /\ KeysOK(keys)'
    BY <2>1 DEF Inv, ServiceOK, VerifiedOK, KeysOK, Earned
  <2>3. ASSUME NEW r \in Requests  PROVE RequestOK(request[r])' /\ MissOK(request[r], verified, keys)'
    BY <2>1 DEF Inv, RequestOK, CallOK, AppOK, MissOK, RefusalDue
  <2>. QED  BY <2>1, <2>2, <2>3 DEF Inv, Judgement
<1>. QED  BY <1>1, <1>2, <1>3, <1>4 DEF Next

(* Inv is an invariant of the middleware, verifyToken and verify_scope     *)
(* (auth/__init__.py and server/middleware/auth.py).                       *)
THEOREM Invariance == Spec => []Inv
BY InitInv, StepInv, PTL DEF Spec

(* A token whose record is no longer active is not trusted for longer than *)
(* the cache and the calls in front of it can hide that (lines 34, 103,    *)
(* 116 and 141).                                                           *)
THEOREM RevocationTheorem == Spec => RevocationBounded
<1>1. Judgement => \A r \in Requests : Trusts(r) =>
        \/ state[request'[r].user] = "active"
        \/ now - ended[request'[r].user] <= TTL + 2 * MaxCall + RecordAge
  BY DEF Judgement, Judged, Trusted, Trusts
<1>2. Inv /\ [Next]_vars => [\A r \in Requests : Trusts(r) =>
        \/ state[request'[r].user] = "active"
        \/ now - ended[request'[r].user] <= TTL + 2 * MaxCall + RecordAge]_vars
  BY <1>1, StepInv
<1>. QED  BY <1>2, Invariance, PTL DEF Spec, RevocationBounded

(* Nor is a token trusted much later than it expired (line 99), or than    *)
(* its key did (line 61).                                                  *)
THEOREM ExpiryTheorem == Spec => ExpiryBounded
<1>1. Judgement => \A r \in Requests : Trusts(r) =>
        LET c == Claims[request'[r].user]
        IN  /\ now - c.expires <= TTL + 2 * MaxCall
            /\ now - KeyExpires[c.key] <= KeyTTL + TTL + 3 * MaxCall
  BY DEF Judgement, Judged, Trusted, Trusts
<1>2. Inv /\ [Next]_vars => [\A r \in Requests : Trusts(r) =>
        LET c == Claims[request'[r].user]
        IN  /\ now - c.expires <= TTL + 2 * MaxCall
            /\ now - KeyExpires[c.key] <= KeyTTL + TTL + 3 * MaxCall]_vars
  BY <1>1, StepInv
<1>. QED  BY <1>2, Invariance, PTL DEF Spec, ExpiryBounded

(* Whoever is turned away, or let in without the user, brought no token or *)
(* one that deserves it at that time (lines 48-70 and 103-125).            *)
THEOREM GoodTokensTheorem == Spec => GoodTokensPass
<1>1. Judgement => \A r \in Requests : Rejects(r) => RefusalDue(request'[r].token)
  BY DEF Judgement, Judged, Rejects
<1>2. Inv /\ [Next]_vars => [\A r \in Requests : Rejects(r) => RefusalDue(request'[r].token)]_vars
  BY <1>1, StepInv
<1>. QED  BY <1>2, Invariance, PTL DEF Spec, GoodTokensPass
-----------------------------------------------------------------------------
(***************************************************************************)
(* Auth over the KeyValueStore: what Auth assumes of a read, the store     *)
(* keeps.                                                                  *)
(***************************************************************************)
Proved == INSTANCE KeyValueStoreProofs WITH
  Threads <- Readers, Keys <- Tokens, Values <- {"active", "inactive"}, Nothing <- "gone",
  Ops <- {"get_async"}, Environment <- {"write", "expire"}, InDoubt <- FALSE,
  TTL <- StoreTTL, MaxCall <- StoreCall,
  remote <- state, cache <- local, thread <- reader

(* what may be known of a token's record: what it is, or was while active  *)
Honest ==
  {x \in Tokens \X {"active", "inactive"} \X (0 .. now) :
     state[x[1]] = x[2] \/ (x[2] = "active" /\ x[3] <= ended[x[1]])}

(* the task of a call reads the record of its token *)
TaskOK(r) ==
  task[r] # NoReader =>
    /\ Calling(request[r]) /\ request[r].record = "none"
    /\ reader[task[r]].pc # "idle" /\ reader[task[r]].keys = {request[r].token}

StoreInv ==
  /\ Proved!LoneInv /\ Proved!OneKeys /\ Proved!FactsIn(Honest)
  /\ task \in [Requests -> Readers \cup {NoReader}]
  /\ \A r \in Requests : TaskOK(r)
  /\ \A r, s \in Requests : task[r] = task[s] /\ task[r] # NoReader => r = s

LEMMA StoreConstants ==
  /\ StoreTTL \in Nat /\ StoreCall \in Nat /\ MaxTime \in Nat
  /\ "gone" \notin Tokens /\ NoReader \notin Readers
  /\ RecordAge = StoreTTL + 2 * StoreCall
BY AuthAssumption, AuthStoreAssumption

LEMMA ProvedAssumption == Proved!KeyValueStoreAssumption
BY StoreConstants DEF Proved!KeyValueStoreAssumption

LEMMA ProvedOnlyGets == Proved!OnlyGets
BY DEF Proved!OnlyGets

(* the store of the model is the one that the theorems are about *)
LEMMA SameInit == Store!Init => Proved!Init
BY DEF Store!Init, Store!Idle, Store!NoReply, Proved!Init, Proved!Idle, Proved!NoReply

LEMMA SameStart == ASSUME NEW t \in Readers, Store!Start(t)  PROVE Proved!Start(t)
BY DEF Store!Start, Store!At, Store!Begin, Store!Idle, Store!Locked, Store!NoReply,
       Proved!Start, Proved!At, Proved!Begin, Proved!Idle, Proved!Locked, Proved!NoReply

LEMMA SameTick == Store!Tick => Proved!Tick
BY DEF Store!Tick, Store!At, Proved!Tick, Proved!At

LEMMA SameOutside ==
  ASSUME NEW k \in Tokens
  PROVE  /\ Store!Expire(k) => Proved!Expire(k)
         /\ \A v : Store!ForeignWrite(k, v) => Proved!ForeignWrite(k, v)
BY DEF Store!Expire, Store!ForeignWrite, Proved!Expire, Proved!ForeignWrite

LEMMA SameRead ==
  ASSUME NEW t \in Readers, Store!Acquire(t) \/ Store!Read(t)  PROVE Proved!Acquire(t) \/ Proved!Read(t)
<1>1. Store!Acquire(t) => Proved!Acquire(t)
  BY Zenon DEF Store!Acquire, Store!Holds, Store!At,
               Proved!Acquire, Proved!Holds, Proved!At
<1>2. Store!Peek(t) => Proved!Peek(t)
  BY Zenon DEF Store!Peek, Store!At,
               Proved!Peek, Proved!At
<1>3. Store!Judge(t) => Proved!Judge(t)
  BY Zenon DEF Store!Judge, Store!At, Store!Goto, Store!End, Store!Idle, Store!HeldKeys, Store!EntryOf, Store!Stale,
               Proved!Judge, Proved!At, Proved!Goto, Proved!End, Proved!Idle, Proved!HeldKeys, Proved!EntryOf, Proved!Stale
<1>4. Store!Drop(t) => Proved!Drop(t)
  BY Zenon DEF Store!Drop, Store!At, Store!Goto, Store!End, Store!Idle, Store!Forget, Store!HeldKeys, Store!DropKey,
               Proved!Drop, Proved!At, Proved!Goto, Proved!End, Proved!Idle, Proved!Forget, Proved!HeldKeys, Proved!DropKey
<1>5. Store!Lookup(t) => Proved!Lookup(t)
  BY Zenon DEF Store!Lookup, Store!At, Store!Singles, Store!Goto, Store!TheKey, Store!HeldKeys,
               Proved!Lookup, Proved!At, Proved!Singles, Proved!Goto, Proved!TheKey, Proved!HeldKeys
<1>6. Store!Hit(t) => Proved!Hit(t)
  BY Zenon DEF Store!Hit, Store!At, Store!TheKey, Store!End, Store!Idle, Store!Taken, Store!HeldKeys, Store!EntryOf,
               Proved!Hit, Proved!At, Proved!TheKey, Proved!End, Proved!Idle, Proved!Taken, Proved!HeldKeys, Proved!EntryOf
<1>7. Store!Fetch(t) => Proved!Fetch(t)
  BY Zenon DEF Store!Fetch, Store!At, Store!TheKey, Store!End, Store!Idle, Store!Fact,
               Proved!Fetch, Proved!At, Proved!TheKey, Proved!End, Proved!Idle, Proved!Fact
<1>8. Store!Fill(t) => Proved!Fill(t)
  BY Zenon DEF Store!Fill, Store!At, Store!StoreFact, Store!Assigned, Store!End, Store!Idle, Store!StoreEntry, Store!CacheEntry, Store!HeldKeys,
               Proved!Fill, Proved!At, Proved!StoreFact, Proved!Assigned, Proved!End, Proved!Idle, Proved!StoreEntry, Proved!CacheEntry, Proved!HeldKeys
<1>9. Store!Split(t) => Proved!Split(t)
  BY Zenon DEF Store!Split, Store!At, Store!Singles, Store!HeldKeys,
               Proved!Split, Proved!At, Proved!Singles, Proved!HeldKeys
<1>10. Store!FetchMany(t) => Proved!FetchMany(t)
  BY Zenon DEF Store!FetchMany, Store!At, Store!End, Store!Idle, Store!Fact,
               Proved!FetchMany, Proved!At, Proved!End, Proved!Idle, Proved!Fact
<1>11. Store!Stamp(t) => Proved!Stamp(t)
  BY Zenon DEF Store!Stamp, Store!At,
               Proved!Stamp, Proved!At
<1>12. Store!FillOne(t) => Proved!FillOne(t)
  BY Zenon DEF Store!FillOne, Store!At, Store!StoreFact, Store!Assigned, Store!StoreEntry, Store!CacheEntry, Store!HeldKeys,
               Proved!FillOne, Proved!At, Proved!StoreFact, Proved!Assigned, Proved!StoreEntry, Proved!CacheEntry, Proved!HeldKeys
<1>13. Store!CollectOne(t) => Proved!CollectOne(t)
  BY Zenon DEF Store!CollectOne, Store!At, Store!End, Store!Idle, Store!Taken, Store!HeldKeys, Store!EntryOf,
               Proved!CollectOne, Proved!At, Proved!End, Proved!Idle, Proved!Taken, Proved!HeldKeys, Proved!EntryOf
<1>14. Store!ReturnMany(t) => Proved!ReturnMany(t)
  BY Zenon DEF Store!ReturnMany, Store!At, Store!End, Store!Idle,
               Proved!ReturnMany, Proved!At, Proved!End, Proved!Idle
<1>. QED
  BY <1>1, <1>2, <1>3, <1>4, <1>5, <1>6, <1>7, <1>8, <1>9, <1>10, <1>11, <1>12, <1>13, <1>14
     DEF Store!Read, Proved!Read

LEMMA StoreStep ==
  ASSUME Proved!LoneInv, Proved!Next \/ UNCHANGED Proved!vars  PROVE Proved!LoneInv'
BY ProvedAssumption, ProvedOnlyGets, Proved!LoneNext

LEMMA HonestGrows ==
  ASSUME Proved!FactsIn(Honest), Honest \subseteq Honest', UNCHANGED <<local, reader, reply>>
  PROVE  Proved!FactsIn(Honest)'
BY DEF Proved!FactsIn

LEMMA HonestStep ==
  ASSUME StoreInv, ServiceOK, Proved!Next, UNCHANGED <<now, state, ended>>
  PROVE  Proved!FactsIn(Honest)'
<1>1. PICK H : H = Honest
  OBVIOUS
<1>2. Proved!FactsIn(H) /\ Proved!Inv
  BY <1>1 DEF StoreInv, Proved!LoneInv
<1>3. ASSUME NEW k \in Tokens, state'[k] # "gone"  PROVE <<k, state'[k], now>> \in H
  <2>1. state[k] \in {"active", "inactive"} /\ now \in 0 .. now
    BY <1>3 DEF ServiceOK, States
  <2>. QED
    BY <1>1, <2>1 DEF Honest
<1>4. Proved!FactsIn(H)'
  BY <1>2, <1>3, ProvedAssumption, Proved!FactsNext
<1>5. Honest' = H
  BY <1>1 DEF Honest
<1>. QED
  BY <1>4, <1>5 DEF Proved!FactsIn

LEMMA StoreSame ==
  ASSUME StoreInv, UNCHANGED storeVars, UNCHANGED <<now, state, ended>>
  PROVE  Proved!LoneInv' /\ Proved!OneKeys' /\ Proved!FactsIn(Honest)'
<1>1. UNCHANGED <<local, reader, reply, apart>>
  BY DEF storeVars
<1>2. Proved!LoneInv'
  BY <1>1, StoreStep DEF StoreInv, Proved!vars
<1>3. Proved!OneKeys'
  BY <1>1 DEF StoreInv, Proved!OneKeys
<1>4. Honest \subseteq Honest'
  BY DEF Honest
<1>. QED
  BY <1>1, <1>2, <1>3, <1>4, HonestGrows DEF StoreInv

(* a task starts on a reader that is free *)
LEMMA TaskStarts ==
  ASSUME StoreInv, ServiceOK, NEW t \in Readers, Store!Start(t), UNCHANGED <<now, state, ended>>
  PROVE  /\ Proved!LoneInv' /\ Proved!OneKeys' /\ Proved!FactsIn(Honest)'
         /\ reader[t].pc = "idle" /\ reader'[t].pc # "idle"
         /\ \A u \in Readers \ {t} : reader'[u] = reader[u]
<1>1. Proved!Start(t)
  BY SameStart
<1>2. Proved!Next
  BY <1>1 DEF Proved!Next
<1>3. Proved!LoneInv' /\ Proved!FactsIn(Honest)'
  BY <1>2, StoreStep, HonestStep DEF StoreInv
<1>4. Proved!Inv /\ Proved!OneKeys
  BY DEF StoreInv, Proved!LoneInv
<1>. QED
  BY <1>1, <1>3, <1>4, ProvedAssumption, ProvedOnlyGets, Proved!ReaderStarts

(* where a request is after its call *)
LEMMA ReturnEnds ==
  ASSUME NEW q \in RequestStates, NEW verdict \in Verdicts, NEW z \in Return(q, verdict)
  PROVE  ~ Calling(z)
<1>1. ASSUME NEW outcome  PROVE Ends(q, outcome).pc = "done"
  BY DEF Ends, Idle
<1>2. ASSUME NEW token  PROVE Admitted(q, token).pc = "app"
  BY DEF Admitted, Idle
<1>3. ASSUME z \in ToMiddleware(q, verdict)  PROVE z.pc \in {"app", "done"}
  BY <1>1, <1>2, <1>3 DEF ToMiddleware, Verdicts
<1>4. ASSUME z \in ToVerifyScope(q, verdict)  PROVE z.pc \in {"app", "done"}
  BY <1>1, <1>4 DEF ToVerifyScope, Verdicts
<1>. QED
  BY <1>3, <1>4 DEF Return, Calling

(* A call goes on with its token and with what its task found; a new one   *)
(* knows nothing yet.                                                      *)
Follows(q, z) ==
  Calling(z) => IF Calling(q) THEN z.token = q.token /\ z.record = q.record ELSE z.record = "none"

LEMMA ReturnFollows ==
  ASSUME NEW r \in Requests, NEW q \in RequestStates, NEW verdict \in Verdicts,
         Becomes(r, Return(q, verdict))
  PROVE  \E z : request' = [request EXCEPT ![r] = z] /\ Follows(request[r], z)
<1>1. PICK z \in Return(q, verdict) : request' = [request EXCEPT ![r] = z]
  BY DEF Becomes
<1>. QED
  BY <1>1, ReturnEnds DEF Follows

LEMMA SignatureFollows ==
  ASSUME NEW r \in Requests, NEW q \in RequestStates, NEW key, Becomes(r, Signature(q, key)),
         IF Calling(request[r]) THEN q.token = request[r].token /\ q.record = request[r].record
                                ELSE q.record = "none"
  PROVE  \E z : request' = [request EXCEPT ![r] = z] /\ Follows(request[r], z)
<1>1. CASE Becomes(r, Return(q, "Unauthorized"))
  BY <1>1, ReturnFollows DEF Verdicts
<1>2. CASE Becomes(r, {[q EXCEPT !.pc = "record"]})
  <2>. DEFINE z == [q EXCEPT !.pc = "record"]
  <2>1. request' = [request EXCEPT ![r] = z] /\ z.token = q.token /\ z.record = q.record
    BY <1>2 DEF Becomes, RequestStates
  <2>. HIDE DEF z
  <2>. QED
    BY <2>1 DEF Follows
<1>. QED
  BY <1>1, <1>2 DEF Signature

LEMMA VerifyTokenFollows ==
  ASSUME NEW r \in Requests, ~ Calling(request[r]), NEW q \in RequestStates, q.record = "none",
         now \in Nat, VerifyToken(r, q)
  PROVE  \E z : request' = [request EXCEPT ![r] = z] /\ Follows(request[r], z)
<1>1. CASE Becomes(r, Return(q, "AuthToken"))
  BY <1>1, ReturnFollows DEF Verdicts
<1>2. ASSUME NEW verdict \in Refusals(q.token), Becomes(r, Return(q, verdict))
      PROVE  \E z : request' = [request EXCEPT ![r] = z] /\ Follows(request[r], z)
  <2>1. verdict \in Verdicts
    BY <1>2 DEF Refusals, Verdicts
  <2>. QED
    BY <1>2, <2>1, ReturnFollows
<1>. DEFINE w == [q EXCEPT !.pc = "key", !.started = now]
<1>3. CASE Becomes(r, {w})
  <2>1. request' = [request EXCEPT ![r] = w] /\ w.record = "none"
    BY <1>3 DEF Becomes, RequestStates
  <2>. HIDE DEF w
  <2>. QED
    BY <2>1 DEF Follows
<1>4. ASSUME NEW key, Becomes(r, Signature(w, key))
      PROVE  \E z : request' = [request EXCEPT ![r] = z] /\ Follows(request[r], z)
  <2>1. w \in RequestStates /\ w.record = "none"
    BY <1>4 DEF RequestStates
  <2>. HIDE DEF w
  <2>. QED
    BY <1>4, <2>1, SignatureFollows
<1>5. \/ Becomes(r, Return(q, "AuthToken"))
      \/ \E verdict \in Refusals(q.token) : Becomes(r, Return(q, verdict))
      \/ Becomes(r, {w}) \/ \E key : Becomes(r, Signature(w, key))
  BY DEF VerifyToken
<1>. QED
  BY <1>1, <1>2, <1>3, <1>4, <1>5

LEMMA CallFollows ==
  ASSUME Inv, NEW r \in Requests,
         Arrive(r) \/ FetchKey(r) \/ Accept(r) \/ Refuse(r) \/ Serve(r) \/ VerifyScope(r)
  PROVE  /\ UNCHANGED service
         /\ \E z : request' = [request EXCEPT ![r] = z] /\ Follows(request[r], z)
<1>1. request[r] \in RequestStates /\ now \in Nat /\ RequestOK(request[r])
  BY Facts
<1>2. UNCHANGED service
  BY DEF Arrive, FetchKey, Accept, Refuse, Serve, VerifyScope
<1>. SUFFICES \E z : request' = [request EXCEPT ![r] = z] /\ Follows(request[r], z)
  BY <1>2
<1>3. ASSUME NEW q, q.pc \in {"idle", "done"}, Becomes(r, {q})
      PROVE  \E z : request' = [request EXCEPT ![r] = z] /\ Follows(request[r], z)
  BY <1>3 DEF Becomes, Follows, Calling
<1>4. ASSUME NEW verdict \in Verdicts, Becomes(r, Return(request[r], verdict))
      PROVE  \E z : request' = [request EXCEPT ![r] = z] /\ Follows(request[r], z)
  BY <1>1, <1>4, ReturnFollows
<1>5. CASE Arrive(r)
  <2>. DEFINE q == [Idle EXCEPT !.caller = "middleware"]
  <2>1. q \in RequestStates /\ ~ Calling(request[r])
    BY <1>5 DEF Idle, RequestStates, Outcomes, Arrive, Calling
  <2>2. CASE Becomes(r, {Ends(Idle, "open")})
    <3>. DEFINE p == Ends(Idle, "open")
    <3>1. p.pc = "done" /\ Becomes(r, {p})
      BY <2>2 DEF Ends, Idle
    <3>. HIDE DEF p
    <3>. QED
      BY <1>3, <3>1
  <2>3. CASE Becomes(r, Return(q, "Unauthorized"))
    <3>. HIDE DEF q
    <3>1. "Unauthorized" \in Verdicts
      BY DEF Verdicts
    <3>. QED
      BY <2>1, <2>3, <3>1, ReturnFollows
  <2>4. ASSUME NEW k \in held, VerifyToken(r, [Idle EXCEPT !.caller = "middleware", !.token = k])
        PROVE  \E z : request' = [request EXCEPT ![r] = z] /\ Follows(request[r], z)
    <3>. DEFINE p == [Idle EXCEPT !.caller = "middleware", !.token = k]
    <3>1. k \in Tokens
      BY Facts
    <3>2. p \in RequestStates /\ p.record = "none"
      BY <3>1 DEF Idle, RequestStates, Outcomes
    <3>. HIDE DEF p
    <3>. QED
      BY <1>1, <2>1, <2>4, <3>2, VerifyTokenFollows DEF p
  <2>. QED
    BY <1>5, <2>2, <2>3, <2>4 DEF Arrive
<1>6. CASE FetchKey(r)
  <2>1. \/ \E key : Becomes(r, Signature(request[r], key))
        \/ \E verdict \in {"Unauthorized", "error"} : Becomes(r, Return(request[r], verdict))
    BY <1>6 DEF FetchKey
  <2>2. Calling(request[r])
    BY <1>6 DEF FetchKey, Calling
  <2>3. ASSUME NEW key, Becomes(r, Signature(request[r], key))
        PROVE  \E z : request' = [request EXCEPT ![r] = z] /\ Follows(request[r], z)
    BY <1>1, <2>2, <2>3, SignatureFollows
  <2>. QED
    BY <1>4, <2>1, <2>3 DEF Verdicts
<1>7. CASE Accept(r) \/ Refuse(r)
  BY <1>4, <1>7 DEF Accept, Refuse, Verdicts
<1>8. CASE Serve(r)
  BY <1>3, <1>8, IdleFacts DEF Serve
<1>9. CASE VerifyScope(r)
  <2>. DEFINE q == [request[r] EXCEPT !.caller = "verify_scope"]
  <2>1. ~ Calling(request[r]) /\ q \in RequestStates /\ q.record = "none"
    BY <1>1, <1>9 DEF VerifyScope, Calling, RequestOK, AppOK, RequestStates
  <2>2. CASE VerifyToken(r, q)
    <3>. HIDE DEF q
    <3>. QED
      BY <1>1, <2>1, <2>2, VerifyTokenFollows
  <2>3. ASSUME NEW outcome, Becomes(r, {Ends(request[r], outcome)})
        PROVE  \E z : request' = [request EXCEPT ![r] = z] /\ Follows(request[r], z)
    <3>1. Ends(request[r], outcome).pc = "done"
      BY DEF Ends, Idle
    <3>. QED
      BY <1>3, <2>3, <3>1
  <2>. QED
    BY <1>9, <2>2, <2>3 DEF VerifyScope
<1>. QED
  BY <1>5, <1>6, <1>7, <1>8, <1>9

(* A step of the call of r, that leaves it with the task x or with none.   *)
LEMMA TasksKept ==
  ASSUME Inv, StoreInv, Proved!LoneInv', Proved!OneKeys', Proved!FactsIn(Honest)',
         NEW r \in Requests, NEW z, request' = [request EXCEPT ![r] = z],
         NEW x \in Readers \cup {NoReader}, task' = [task EXCEPT ![r] = x],
         \A u \in Requests \ {r} : task[u] # NoReader => reader'[task[u]] = reader[task[u]],
         x # NoReader => /\ x = task[r] \/ reader[x].pc = "idle"
                         /\ Calling(z) /\ z.record = "none"
                         /\ reader'[x].pc # "idle" /\ reader'[x].keys = {z.token}
  PROVE  StoreInv'
<1>1. /\ request'[r] = z /\ \A u \in Requests \ {r} : request'[u] = request[u]
      /\ task'[r] = x /\ \A u \in Requests \ {r} : task'[u] = task[u]
      /\ task' \in [Requests -> Readers \cup {NoReader}]
  BY DEF Inv, StoreInv
<1>2. ASSUME NEW u \in Requests, task[u] # NoReader
      PROVE  task[u] \in Readers /\ reader[task[u]].pc # "idle"
  BY <1>2 DEF StoreInv, TaskOK
<1>3. ASSUME NEW u \in Requests  PROVE TaskOK(u)'
  <2>1. CASE u = r
    BY <1>1, <2>1 DEF TaskOK, Calling
  <2>2. CASE u # r
    <3>1. task'[u] = task[u] /\ request'[u] = request[u] /\ TaskOK(u)
      BY <1>1, <2>2 DEF StoreInv
    <3>. QED
      BY <1>2, <2>2, <3>1 DEF TaskOK, Calling
  <2>. QED
    BY <2>1, <2>2
<1>4. ASSUME NEW u \in Requests \ {r}, task[u] # NoReader  PROVE task[u] # x
  BY <1>2, <1>4 DEF StoreInv
<1>5. ASSUME NEW u \in Requests, NEW v \in Requests, task'[u] = task'[v], task'[u] # NoReader  PROVE u = v
  BY <1>1, <1>4, <1>5 DEF StoreInv
<1>. QED
  BY <1>1, <1>3, <1>5 DEF StoreInv

LEMMA CallRunsStep ==
  ASSUME Inv, StoreInv, NEW r \in Requests, CallRuns(r)
  PROVE  Next /\ StoreInv'
<1>1. Arrive(r) \/ FetchKey(r) \/ Accept(r) \/ Refuse(r) \/ Serve(r) \/ VerifyScope(r)
  BY DEF CallRuns
<1>. SUFFICES StoreInv'
  BY <1>1 DEF Next
<1>2. PICK z : request' = [request EXCEPT ![r] = z] /\ Follows(request[r], z)
  BY <1>1, CallFollows
<1>3. UNCHANGED <<now, state, ended>> /\ ServiceOK
  BY <1>1, CallFollows DEF service, Inv
<1>4. /\ request'[r] = z /\ task[r] \in Readers \cup {NoReader} /\ TaskOK(r)
      /\ task = [task EXCEPT ![r] = task[r]]
  BY <1>2 DEF Inv, StoreInv
<1>5. ASSUME UNCHANGED storeVars,
             \/ ~ Calling(request[r]) /\ UNCHANGED task
             \/ /\ Calling(request[r])
                /\ task' = [task EXCEPT ![r] = IF Calling(request'[r]) THEN @ ELSE NoReader]
      PROVE  StoreInv'
  <2>1. Proved!LoneInv' /\ Proved!OneKeys' /\ Proved!FactsIn(Honest)' /\ reader' = reader
    BY <1>3, <1>5, StoreSame DEF storeVars
  <2>2. CASE ~ Calling(request[r]) /\ UNCHANGED task
    <3>1. task[r] = NoReader /\ task' = [task EXCEPT ![r] = NoReader]
      BY <1>4, <2>2 DEF TaskOK
    <3>. QED
      BY <1>2, <2>1, <3>1, TasksKept
  <2>3. CASE Calling(request[r]) /\ task' = [task EXCEPT ![r] = IF Calling(request'[r]) THEN @ ELSE NoReader]
    <3>1. CASE Calling(z)
      <4>1. task' = [task EXCEPT ![r] = task[r]]
        BY <1>4, <2>3, <3>1
      <4>2. task[r] # NoReader => /\ z.record = "none"
                                  /\ reader'[task[r]].pc # "idle" /\ reader'[task[r]].keys = {z.token}
        BY <1>2, <1>4, <2>1, <2>3, <3>1 DEF TaskOK, Follows
      <4>. QED
        BY <1>2, <1>4, <2>1, <3>1, <4>1, <4>2, TasksKept
    <3>2. CASE ~ Calling(z)
      <4>1. task' = [task EXCEPT ![r] = NoReader]
        BY <1>4, <2>3, <3>2
      <4>. QED
        BY <1>2, <2>1, <4>1, TasksKept
    <3>. QED
      BY <3>1, <3>2
  <2>. QED
    BY <1>5, <2>2, <2>3
<1>6. ASSUME NEW t \in Readers, StartTask(t, z.token), ~ Calling(request[r]),
             NEW x \in {t, NoReader}, task' = [task EXCEPT ![r] = x], x = t => Calling(z)
      PROVE  StoreInv'
  <2>1. /\ Proved!LoneInv' /\ Proved!OneKeys' /\ Proved!FactsIn(Honest)'
        /\ reader[t].pc = "idle" /\ reader'[t].pc # "idle"
        /\ \A u \in Readers \ {t} : reader'[u] = reader[u]
    BY <1>3, <1>6, TaskStarts DEF StartTask
  <2>2. reader'[t].keys = {z.token}
    BY <1>6 DEF StartTask
  <2>3. Calling(z) => z.record = "none"
    BY <1>2, <1>6 DEF Follows
  <2>4. \A u \in Requests \ {r} : task[u] # NoReader => reader'[task[u]] = reader[task[u]]
    BY <2>1 DEF StoreInv, TaskOK
  <2>. QED
    BY <1>2, <1>6, <2>1, <2>2, <2>3, <2>4, StoreConstants, TasksKept
<1>7. ASSUME ~ Calling(request[r]), NEW t \in Readers, StartTask(t, z.token),
             \/ Calling(z) /\ task' = [task EXCEPT ![r] = t]
             \/ UNCHANGED task
      PROVE  StoreInv'
  <2>1. task[r] = NoReader
    BY <1>4, <1>7 DEF TaskOK
  <2>2. CASE Calling(z) /\ task' = [task EXCEPT ![r] = t]
    BY <1>6, <1>7, <2>2
  <2>3. CASE UNCHANGED task
    <3>1. task' = [task EXCEPT ![r] = NoReader]
      BY <1>4, <2>1, <2>3
    <3>. QED
      BY <1>6, <1>7, <3>1, StoreConstants
  <2>. QED
    BY <1>7, <2>2, <2>3
<1>8. \/ UNCHANGED storeVars /\ ~ Calling(request[r]) /\ UNCHANGED task
      \/ /\ UNCHANGED storeVars /\ Calling(request[r])
         /\ task' = [task EXCEPT ![r] = IF Calling(request'[r]) THEN @ ELSE NoReader]
      \/ /\ ~ Calling(request[r])
         /\ \E t \in Readers : /\ StartTask(t, request'[r].token)
                               /\ \/ Calling(request'[r]) /\ task' = [task EXCEPT ![r] = t]
                                  \/ UNCHANGED task
  BY Zenon DEF CallRuns, TaskOf, EndsAtOnce
<1>9. ASSUME NEW t \in Readers, StartTask(t, request'[r].token)  PROVE StartTask(t, z.token)
  BY <1>4, <1>9
<1>. QED
  BY <1>4, <1>5, <1>7, <1>8, <1>9

(* What a task ends with is what Auth assumes of a read, or nothing.       *)
LEMMA ReportedIsReadable ==
  ASSUME ServiceOK, NEW k \in Tokens, NEW t \in Readers,
         Proved!LoneInv', Proved!FactsIn(Honest)', UNCHANGED <<now, state, ended>>,
         Proved!Answers(t), reader[t].keys = {k}
  PROVE  Reported(reply'[t]) \in Readable(k) \cup {"none"}
<1>. DEFINE a == reply'[t]
<1>1. /\ a.at = now
      /\ \/ a.outcome \in {"KeyError", "RemoteError"}
         \/ a.outcome = "RecordNotFound" /\ state[k] = "gone"
         \/ a.outcome = "ok" /\ \E fact : a.facts = {fact} /\ fact.key = k
  BY DEF Proved!Answers
<1>2. CASE a.outcome \in {"KeyError", "RemoteError"}
  BY <1>2 DEF Reported
<1>3. CASE a.outcome = "RecordNotFound" /\ state[k] = "gone"
  BY <1>3 DEF Reported, Readable
<1>4. ASSUME a.outcome = "ok", NEW fact, a.facts = {fact}, fact.key = k
      PROVE  Reported(a) \in Readable(k)
  <2>1. Reported(a) = fact.val
    BY <1>4 DEF Reported
  <2>2. /\ <<k, fact.val, fact.asOf>> \in Honest
        /\ now - fact.asOf <= StoreTTL + 2 * StoreCall
    <3>1. fact \in reply'[t].facts
      BY <1>4
    <3>2. Proved!Known(fact) \in Honest'
      BY <3>1 DEF Proved!FactsIn
    <3>3. Honest' = Honest
      BY DEF Honest
    <3>4. ~ fact.late /\ (fact.late \/ a.at - fact.asOf <= StoreTTL + 2 * StoreCall)
      BY <3>1 DEF Proved!LoneInv, Proved!Inv, Proved!ReplyOK
    <3>. QED
      BY <1>1, <1>4, <3>2, <3>3, <3>4 DEF Proved!Known
  <2>3. /\ fact.asOf \in 0 .. now
        /\ state[k] = fact.val \/ (fact.val = "active" /\ fact.asOf <= ended[k])
    BY <2>2 DEF Honest
  <2>4. now \in Nat /\ ended[k] \in Nat
    BY DEF ServiceOK
  <2>5. fact.asOf <= ended[k] => now - ended[k] <= RecordAge
    BY <2>2, <2>3, <2>4, StoreConstants
  <2>. QED
    BY <2>1, <2>3, <2>5 DEF Readable
<1>. QED
  BY <1>1, <1>2, <1>3, <1>4

LEMMA TaskRunsStep ==
  ASSUME Inv, StoreInv, NEW t \in Readers, TaskRuns(t)
  PROVE  [Next]_vars /\ StoreInv'
<1>1. Proved!Acquire(t) \/ Proved!Read(t)
  BY SameRead DEF TaskRuns
<1>2. Proved!LoneInv /\ Proved!OneKeys /\ ServiceOK
  BY DEF StoreInv, Inv
<1>3. /\ UNCHANGED <<verified, keys, service>> /\ UNCHANGED <<now, state, ended>>
      /\ request' = [r \in Requests |-> IF reader'[t].pc = "idle" /\ task[r] = t
                                        THEN [request[r] EXCEPT !.record = Reported(reply'[t])] ELSE request[r]]
      /\ task' = [r \in Requests |-> IF reader'[t].pc = "idle" /\ task[r] = t THEN NoReader ELSE task[r]]
  BY DEF TaskRuns, Store!At, service
<1>4. /\ Proved!GoesOn(t) \/ Proved!Answers(t)
      /\ \A u \in Readers \ {t} : reader'[u] = reader[u]
      /\ Proved!OneKeys'
  BY <1>1, <1>2, ProvedAssumption, Proved!ReaderStep
<1>5. Proved!Next
  BY <1>1 DEF Proved!Next
<1>6. Proved!LoneInv' /\ Proved!FactsIn(Honest)'
  BY <1>2, <1>3, <1>5, StoreStep, HonestStep
<1>7. CASE \E r \in Requests : task[r] = t /\ reader'[t].pc = "idle"
  <2>1. PICK r \in Requests : task[r] = t /\ reader'[t].pc = "idle"
    BY <1>7
  <2>. DEFINE q == request[r]  z == [q EXCEPT !.record = Reported(reply'[t])]
  <2>2. \A u \in Requests \ {r} : task[u] # t
    BY <2>1, StoreConstants DEF StoreInv
  <2>3. request' = [request EXCEPT ![r] = z] /\ task' = [task EXCEPT ![r] = NoReader]
    BY <1>3, <2>1, <2>2 DEF Inv, StoreInv
  <2>4. \A u \in Requests \ {r} : task[u] # NoReader => reader'[task[u]] = reader[task[u]]
    BY <1>4, <2>2 DEF StoreInv
  <2>5. StoreInv'
    <3>. HIDE DEF z
    <3>. QED
      BY <1>4, <1>6, <2>3, <2>4, TasksKept
  <2>6. /\ q.pc \in {"key", "record"} /\ q.record = "none" /\ reader[t].keys = {q.token}
        /\ q \in RequestStates /\ q.token \in Tokens
    BY <2>1, StoreConstants, Facts DEF StoreInv, TaskOK, Calling, RequestOK, CallOK
  <2>7. Proved!Answers(t)
    BY <1>4, <2>1 DEF Proved!GoesOn
  <2>8. Reported(reply'[t]) \in Readable(q.token) \cup {"none"}
    BY <1>2, <1>3, <1>6, <2>6, <2>7, ReportedIsReadable
  <2>9. CASE Reported(reply'[t]) = "none"
    <3>1. z = q
      BY <2>6, <2>9 DEF RequestStates
    <3>2. request' = request
      BY <2>3, <3>1 DEF Inv
    <3>. QED
      BY <1>3, <2>5, <3>2 DEF vars, service
  <2>10. CASE Reported(reply'[t]) \in Readable(q.token)
    <3>1. ReadRecord(r)
      BY <1>3, <2>3, <2>6, <2>10 DEF ReadRecord, Becomes
    <3>. QED
      BY <2>5, <3>1 DEF Next
  <2>. QED
    BY <2>8, <2>9, <2>10
<1>8. CASE ~ \E r \in Requests : task[r] = t /\ reader'[t].pc = "idle"
  <2>1. request' = request /\ task' = task
    BY <1>3, <1>8 DEF Inv, StoreInv
  <2>2. UNCHANGED vars
    BY <1>3, <2>1 DEF vars, service
  <2>3. ASSUME NEW r \in Requests, task[r] = t  PROVE TaskOK(r)'
    <3>1. TaskOK(r) /\ reader'[t].pc # "idle" /\ task'[r] = t /\ t # NoReader
      BY <1>8, <2>1, <2>3, StoreConstants DEF StoreInv
    <3>2. reader'[t].keys = reader[t].keys
      BY <1>4, <3>1 DEF Proved!GoesOn, Proved!Answers
    <3>. QED
      BY <2>1, <2>3, <3>1, <3>2 DEF TaskOK, Calling
  <2>4. ASSUME NEW r \in Requests, task[r] # t  PROVE TaskOK(r)'
    <3>1. TaskOK(r) /\ task[r] # NoReader => reader'[task[r]] = reader[task[r]]
      BY <1>4, <2>4 DEF StoreInv
    <3>. QED
      BY <2>1, <2>4, <3>1 DEF TaskOK, Calling, StoreInv
  <2>5. StoreInv'
    BY <1>4, <1>6, <2>1, <2>3, <2>4 DEF StoreInv
  <2>. QED
    BY <2>2, <2>5
<1>. QED
  BY <1>7, <1>8

(* a step in which no call and no task moves *)
LEMMA StoreOutside ==
  ASSUME StoreInv, Proved!Next, Honest \subseteq Honest',
         UNCHANGED <<local, reader, reply>>, UNCHANGED task, request' = request
  PROVE  StoreInv'
<1>1. Proved!LoneInv' /\ Proved!FactsIn(Honest)'
  BY StoreStep, HonestGrows DEF StoreInv
<1>2. Proved!OneKeys' /\ \A r \in Requests : TaskOK(r)'
  BY DEF StoreInv, Proved!OneKeys, TaskOK, Calling
<1>. QED
  BY <1>1, <1>2 DEF StoreInv

LEMMA RevokedBehindStep ==
  ASSUME Inv, StoreInv, NEW k \in held, RevokedBehind(k)
  PROVE  Next /\ StoreInv'
<1>1. Revoke(k) /\ k \in Tokens /\ UNCHANGED task /\ ServiceOK
  BY DEF RevokedBehind, Inv, ServiceOK
<1>2. /\ now' = now /\ state[k] = "active" /\ state' = [state EXCEPT ![k] = Fate[k]]
      /\ ended' = [ended EXCEPT ![k] = now] /\ request' = request
  BY <1>1 DEF Revoke
<1>3. UNCHANGED <<local, reader, reply>>
  BY DEF RevokedBehind, Store!Expire, Store!ForeignWrite
<1>4. Proved!Next
  <2>1. Proved!Expire(k) \/ Proved!ForeignWrite(k, Fate[k])
    BY <1>1, SameOutside DEF RevokedBehind
  <2>2. Fate[k] \in {"active", "inactive", "gone"} /\ Fate[k] # "active"
    BY <1>1, AuthAssumption DEF Revoke
  <2>3. CASE Proved!Expire(k)
    BY <1>1, <2>3 DEF Proved!Next
  <2>4. CASE Proved!ForeignWrite(k, Fate[k]) /\ Fate[k] = "inactive"
    BY <1>1, <2>4 DEF Proved!Next
  <2>5. CASE Proved!ForeignWrite(k, Fate[k]) /\ Fate[k] = "gone"
    BY <1>1, <1>2, <2>5 DEF Proved!Next, Proved!ForeignWrite, Proved!Expire
  <2>. QED
    BY <2>1, <2>2, <2>3, <2>4, <2>5
<1>5. Honest \subseteq Honest'
  <2>. SUFFICES ASSUME NEW x \in Honest  PROVE x \in Honest'
    OBVIOUS
  <2>1. /\ x \in Tokens \X {"active", "inactive"} \X (0 .. now) /\ x[1] \in Tokens
        /\ state[x[1]] = x[2] \/ (x[2] = "active" /\ x[3] <= ended[x[1]])
    BY DEF Honest
  <2>2. CASE x[1] = k
    <3>1. x[2] = "active" /\ x[3] <= ended'[x[1]]
      BY <1>1, <1>2, <2>1, <2>2 DEF ServiceOK
    <3>. QED
      BY <1>2, <2>1, <3>1 DEF Honest
  <2>3. CASE x[1] # k
    <3>1. state'[x[1]] = state[x[1]] /\ ended'[x[1]] = ended[x[1]]
      BY <1>1, <1>2, <2>1, <2>3 DEF ServiceOK
    <3>. QED
      BY <1>2, <2>1, <3>1 DEF Honest
  <2>. QED
    BY <2>2, <2>3
<1>6. StoreInv'
  BY <1>1, <1>2, <1>3, <1>4, <1>5, StoreOutside
<1>. QED
  BY <1>1, <1>6 DEF Next

LEMMA TimePassesStep ==
  ASSUME Inv, StoreInv, TimePasses
  PROVE  Next /\ StoreInv'
<1>1. Tick /\ Store!Tick /\ UNCHANGED task
  BY DEF TimePasses
<1>2. /\ now' = now + 1 /\ now \in Nat /\ request' = request
      /\ UNCHANGED <<state, ended, local, reader, reply>>
  BY <1>1 DEF Tick, Store!Tick, Inv, ServiceOK
<1>3. Proved!Next
  BY <1>1, SameTick DEF Proved!Next
<1>4. 0 .. now \subseteq 0 .. now'
  BY <1>2
<1>5. Honest \subseteq Honest'
  BY <1>2, <1>4 DEF Honest
<1>6. StoreInv'
  BY <1>1, <1>2, <1>3, <1>5, StoreOutside
<1>. QED
  BY <1>1, <1>6 DEF Next

LEMMA AuthStoreInitInv == AuthStoreInit => Init /\ Inv /\ StoreInv
<1>. SUFFICES ASSUME AuthStoreInit  PROVE Init /\ Inv /\ StoreInv
  OBVIOUS
<1>1. Init /\ Inv /\ Proved!Init
  BY InitInv, SameInit DEF AuthStoreInit
<1>2. Proved!LoneInv
  BY <1>1, ProvedAssumption, Proved!LoneInit
<1>3. Proved!OneKeys
  BY <1>1 DEF Proved!Init, Proved!Idle, Proved!OneKeys, Proved!OneKey, Proved!Reading
<1>4. Proved!FactsIn(Honest)
  BY <1>1 DEF Proved!Init, Proved!Idle, Proved!NoReply, Proved!FactsIn
<1>5. /\ task \in [Requests -> Readers \cup {NoReader}]
      /\ \A r \in Requests : task[r] = NoReader
  BY DEF AuthStoreInit
<1>. QED
  BY <1>1, <1>2, <1>3, <1>4, <1>5 DEF StoreInv, TaskOK

LEMMA AuthStoreStep ==
  Inv /\ StoreInv /\ [AuthStoreNext]_allVars => [Next]_vars /\ Inv' /\ StoreInv'
<1>. SUFFICES ASSUME Inv, StoreInv, [AuthStoreNext]_allVars  PROVE [Next]_vars /\ StoreInv'
  BY StepInv
<1>1. CASE UNCHANGED allVars
  <2>1. UNCHANGED vars /\ UNCHANGED storeVars /\ task' = task
    BY <1>1 DEF allVars
  <2>2. UNCHANGED <<now, state, ended, local, reader, reply>> /\ request' = request
    BY <2>1 DEF vars, storeVars
  <2>3. Proved!LoneInv' /\ Proved!OneKeys' /\ Proved!FactsIn(Honest)'
    BY <2>1, <2>2, StoreSame
  <2>4. \A r \in Requests : TaskOK(r)'
    BY <2>1, <2>2 DEF StoreInv, TaskOK, Calling
  <2>. QED
    BY <2>1, <2>3, <2>4 DEF StoreInv
<1>. QED
  BY <1>1, CallRunsStep, TaskRunsStep, RevokedBehindStep, TimePassesStep DEF AuthStoreNext

(* With the KeyValueStore behind it, and every lock, sweep and wait of it  *)
(* between a revocation and its effect, verifyToken behaves as Auth says   *)
(* it does (auth/__init__.py lines 22 and 103-125): the age of a record    *)
(* that Auth takes for granted is what get_async guarantees.               *)
THEOREM KeepsAuthTheorem == AuthStoreSpec => KeepsAuth
<1>1. AuthStoreSpec => Init /\ [][Next]_vars
  BY AuthStoreInitInv, AuthStoreStep, PTL DEF AuthStoreSpec
<1>. QED
  BY <1>1 DEF KeepsAuth, Spec

(* So a token whose record was revoked behind the back of the store is     *)
(* trusted for no longer than the lifetimes of both caches and the longest *)
(* calls of both add up to.                                                *)
THEOREM RevocationOverStore == AuthStoreSpec => RevocationBounded
BY KeepsAuthTheorem, RevocationTheorem DEF KeepsAuth
=============================================================================
