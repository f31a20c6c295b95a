-------------------------------- MODULE Auth --------------------------------
(***************************************************************************)
(* kh_common/auth and server/middleware/auth.py: requests whose token is   *)
(* verified by the middleware and again by KhUser.verify_scope, through    *)
(* three caches: verifyToken under @ArgsCache(30), the token's record      *)
(* behind a KeyValueStore, and the public key under @ArgsCache(24 hours).  *)
(*                                                                         *)
(* A coroutine suspends only when it waits for the key service or for the  *)
(* record.  The read of the record is a task of its own that runs from     *)
(* before the key is looked up, so what it read may be old when it is      *)
(* used.  Of the KeyValueStore only its contract is used: what a get       *)
(* returns was so at most RecordAge ago.  This process only gets from it,  *)
(* for which KeyValueStoreProofs proves that no read is late.              *)
(* What a token says is a constant, Claims; parsing and cryptography are   *)
(* reduced to their verdicts.  Left out are a header that is only blanks   *)
(* (IndexError) and a scope that Scope lacks (KeyError): both end the      *)
(* request with a server error, as module Server has it.                   *)
(***************************************************************************)
EXTENDS Integers, Sequences, OrderedCache

CONSTANTS
  Requests, Tokens, NoToken,
  Claims,       \* Claims[k]: version, key id, expiration, scopes, is it signed
                \* with that key, does its record match it
  KeyExpires,   \* KeyExpires[id]: expiration of a public key
  TTL, KeyTTL,  \* lifetimes of the two ArgsCaches
  MaxCall,      \* longest time one call of verifyToken takes
  RecordAge,    \* how old a record read from the KeyValueStore may be
  Holdings,     \* which tokens clients may hold between them, and which
  Fate,         \* what becomes of a token's record, to keep instances small
  MaxTime       \* bound on the clock, for model checking only

Scopes == {"default", "user", "admin"}
KeyIds == DOMAIN KeyExpires

ASSUME AuthAssumption ==
  /\ NoToken \notin Tokens /\ Fate \in [Tokens -> {"active", "inactive", "gone"}]
  /\ Holdings \subseteq SUBSET Tokens
  /\ Claims \in [Tokens -> [version : {"1", "unknown", "malformed"}, key : Nat, expires : Nat,
                            scope : SUBSET Scopes, signed : BOOLEAN, matches : BOOLEAN]]
  /\ \A k \in Tokens : Claims[k].key \in KeyIds \cup {0}
  /\ KeyIds \subseteq Nat \ {0} /\ \A id \in KeyIds : KeyExpires[id] \in Nat
  /\ {TTL, KeyTTL, MaxCall, RecordAge, MaxTime} \subseteq Nat

VARIABLES
  now,
  held,      \* the tokens that clients hold
  required,  \* KhAuthMiddleware.auth_required
  state,     \* state[k]: the record of token k: "active", "inactive" or "gone"
  ended,     \* history: ended[k]: when it ceased to be active
  verified,  \* verifyToken's cache
  keys,      \* _fetchPublicKey's cache
  request

vars == <<now, held, required, state, ended, verified, keys, request>>
service == <<now, held, required, state, ended>>

Idle == [pc |-> "idle", caller |-> "none", token |-> NoToken, user |-> NoToken,
         started |-> 0, record |-> "none", outcome |-> "none"]

Init ==
  /\ now = 0
  /\ held \in Holdings /\ required \in BOOLEAN
  /\ state = [k \in Tokens |-> "active"] /\ ended = [k \in Tokens |-> 0]
  /\ verified = <<>> /\ keys = <<>>
  /\ request = [r \in Requests |-> Idle]
-----------------------------------------------------------------------------
(* The continuations of a call of verifyToken: what may become of the      *)
(* request with locals q when the call has this verdict.                   *)

(* only what the properties ask of a finished request is remembered *)
Ends(q, outcome) ==
  IF outcome \in {"401", "granted"}
  THEN [Idle EXCEPT !.pc = "done", !.outcome = outcome, !.token = q.token, !.user = q.user]
  ELSE [Idle EXCEPT !.pc = "done", !.outcome = outcome]

(* scope['user'] = KhUser(...); the application runs *)
Admitted(q, token) == [Idle EXCEPT !.pc = "app", !.token = q.token, !.user = token]

(* KhAuthMiddleware.__call__: only InvalidToken and HttpErrors are caught *)
ToMiddleware(q, verdict) ==
  CASE verdict = "AuthToken"                     -> {Admitted(q, q.token)}
    [] verdict = "Unauthorized" /\ ~ required    -> {Admitted(q, NoToken)}
    [] verdict = "Unauthorized" /\ required      -> {Ends(q, "401")}
    [] verdict = "InvalidToken"                  -> {Ends(q, "400")}
    [] verdict \in {"RecordNotFound", "error"}   -> {Ends(q, "500")}

(* KhUser.verify_scope, after KhUser.authenticated; an exception of        *)
(* verifyToken ends both, whatever raise_error says.  Which scope is asked *)
(* for is chosen here, where it is looked at.                              *)
ToVerifyScope(q, verdict) ==
  CASE verdict = "AuthToken"    -> {Ends(q, IF s \in Claims[q.user].scope THEN "granted" ELSE "403")
                                     : s \in Scopes}
    [] verdict = "Unauthorized" -> {Ends(q, "401")}
    [] OTHER                    -> {Ends(q, "500")}

Return(q, verdict) ==
  IF q.caller = "middleware" THEN ToMiddleware(q, verdict) ELSE ToVerifyScope(q, verdict)

(* mutant: one cached key for all key ids *)
KeyArgument_Algorithm(token) == 1

(* the argument of _fetchPublicKey, but for the algorithm *)
KeyArgument(token) == Claims[token].key

(* public_key.verify(signature, content), then await the record *)
Signature(q, key) ==
  IF Claims[q.token].signed /\ key = Claims[q.token].key
  THEN {[q EXCEPT !.pc = "record"]}
  ELSE Return(q, "Unauthorized")

(* the first refusals of verifyToken and v1token *)
Refusals(token) ==
  LET c == Claims[token]
  IN  IF c.version = "unknown" THEN {"InvalidToken"}
      ELSE IF c.version = "malformed" THEN {"error"}
      ELSE IF c.key = 0 \/ now > c.expires THEN {"Unauthorized"}
      ELSE {}

Becomes(r, Q) == \E q \in Q : request' = [request EXCEPT ![r] = q]

(* await verifyToken(token), up to where the coroutine first suspends *)
VerifyToken(r, q) ==
  /\ verified' = Swept(verified, now)
  /\ \/ /\ q.token \in HeldKeys(verified')
        /\ Becomes(r, Return(q, "AuthToken"))
        /\ UNCHANGED keys
     \/ /\ q.token \notin HeldKeys(verified')
        /\ \E verdict \in Refusals(q.token) : Becomes(r, Return(q, verdict))
        /\ UNCHANGED keys
     \/ /\ q.token \notin HeldKeys(verified') /\ Refusals(q.token) = {}
        /\ keys' = Swept(keys, now)
        /\ LET id == KeyArgument(q.token)
               waiting == [q EXCEPT !.pc = "key", !.started = now]
           IN  Becomes(r, IF id \in HeldKeys(keys')
                         THEN Signature(waiting, EntryOf(keys', id).data)
                         ELSE {waiting})
-----------------------------------------------------------------------------
(* the middleware, and retrieveAuthToken *)
Arrive(r) ==
  /\ request[r].pc \in {"idle", "done"}
  /\ \/ Becomes(r, {Ends(Idle, "open")}) /\ UNCHANGED <<verified, keys>>
     \/ /\ Becomes(r, Return([Idle EXCEPT !.caller = "middleware"], "Unauthorized"))
        /\ UNCHANGED <<verified, keys>>
     \/ \E k \in held : VerifyToken(r, [Idle EXCEPT !.caller = "middleware", !.token = k])
  /\ UNCHANGED service

(* mutant: an expired key is used *)
FetchKey_Expired(r) ==
  /\ request[r].pc = "key"
  /\ LET id == KeyArgument(request[r].token)
     IN  /\ keys' = StoreEntry(keys, CacheEntry(id, now + KeyTTL, id))
         /\ Becomes(r, Signature(request[r], id))
  /\ UNCHANGED <<verified, service>>

(* the key service answers, with a key or with one that has expired, or fails *)
FetchKey(r) ==
  /\ request[r].pc = "key"
  /\ LET id == KeyArgument(request[r].token)
     IN  \/ /\ now <= KeyExpires[id]
            /\ keys' = StoreEntry(keys, CacheEntry(id, now + KeyTTL, id))
            /\ Becomes(r, Signature(request[r], id))
         \/ /\ now > KeyExpires[id]
            /\ Becomes(r, Return(request[r], "Unauthorized"))
            /\ UNCHANGED keys
         \/ Becomes(r, Return(request[r], "error")) /\ UNCHANGED keys
  /\ UNCHANGED <<verified, service>>

(* what KVS.get_async may return *)
Readable(token) ==
  {state[token]}
  \cup (IF now - ended[token] <= RecordAge THEN {"active"} ELSE {})

(* the task token_info ends; nobody waits for it yet, perhaps *)
ReadRecord(r) ==
  /\ request[r].pc \in {"key", "record"} /\ request[r].record = "none"
  /\ Becomes(r, {[request[r] EXCEPT !.record = s] : s \in Readable(request[r].token)})
  /\ UNCHANGED <<verified, keys, service>>

(* await token_info: the token is accepted, and remembered *)
Accept(r) ==
  /\ request[r].pc = "record" /\ request[r].record = "active"
  /\ Claims[request[r].token].matches
  /\ verified' = StoreEntry(verified, CacheEntry(request[r].token, now + TTL, request[r].token))
  /\ Becomes(r, Return(request[r], "AuthToken"))
  /\ UNCHANGED <<keys, service>>

(* ... or one of the assertions fails, or the task raised *)
Refuse(r) ==
  /\ request[r].pc = "record"
  /\ \/ /\ \/ request[r].record = "inactive"
           \/ request[r].record = "active" /\ ~ Claims[request[r].token].matches
        /\ Becomes(r, Return(request[r], "Unauthorized"))
     \/ request[r].record = "gone" /\ Becomes(r, Return(request[r], "RecordNotFound"))
     \/ request[r].record = "none" /\ Becomes(r, Return(request[r], "error"))
  /\ UNCHANGED <<verified, keys, service>>

(* the application answers without asking about the user *)
Serve(r) ==
  /\ request[r].pc = "app"
  /\ Becomes(r, {Idle})
  /\ UNCHANGED <<verified, keys, service>>

(* mutant: a user that came with a token is authenticated *)
VerifyScope_Held(r) ==
  /\ request[r].pc = "app" /\ request[r].user # NoToken
  /\ Becomes(r, ToVerifyScope(request[r], "AuthToken"))
  /\ UNCHANGED <<verified, keys, service>>

(* KhUser.verify_scope(scope, raise_error), KhUser.authenticated *)
VerifyScope(r) ==
  /\ request[r].pc = "app"
  /\ \/ /\ request[r].user = NoToken
        /\ \E s \in Scopes, raise_error \in BOOLEAN :
             Becomes(r, {Ends(request[r], IF raise_error THEN "401"
                                          ELSE IF s = "default" THEN "granted" ELSE "403")})
        /\ UNCHANGED <<verified, keys>>
     \/ /\ request[r].user # NoToken
        /\ VerifyToken(r, [request[r] EXCEPT !.caller = "verify_scope"])
  /\ UNCHANGED service

(* a token is revoked, or its record removed, by another service *)
Revoke(k) ==
  /\ state[k] = "active" /\ Fate[k] # "active"
  /\ state' = [state EXCEPT ![k] = Fate[k]]
  /\ ended' = [ended EXCEPT ![k] = now]
  /\ UNCHANGED <<now, held, required, verified, keys, request>>

(* time passes; a call of verifyToken takes at most MaxCall *)
Tick ==
  /\ now < MaxTime
  /\ \A r \in Requests : request[r].pc \in {"key", "record"} => now < request[r].started + MaxCall
  /\ now' = now + 1
  /\ UNCHANGED <<held, required, state, ended, verified, keys, request>>

Next ==
  \/ \E r \in Requests :
       \/ Arrive(r) \/ FetchKey(r) \/ ReadRecord(r) \/ Accept(r) \/ Refuse(r)
       \/ Serve(r) \/ VerifyScope(r)
  \/ \E k \in held : Revoke(k)
  \/ Tick

Spec == Init /\ [][Next]_vars
-----------------------------------------------------------------------------
(* a request is let in, or granted a scope, for the sake of its user *)
Trusts(r) ==
  /\ request'[r] # request[r] /\ request'[r].user # NoToken
  /\ request'[r].pc = "app" \/ request'[r].outcome = "granted"

(* a request is turned away, or let in without its user *)
Rejects(r) ==
  /\ request'[r] # request[r]
  /\ \/ request'[r].outcome = "401"
     \/ request'[r].pc = "app" /\ request'[r].user = NoToken

(* RevocationBounded: a token whose record is no longer active is trusted  *)
(* for at most the 30 s of verifyToken's cache, the longest call twice     *)
(* (an entry may be shielded in the cache by a refreshed one) and the age  *)
(* of the record, by the middleware and by verify_scope alike (lines 34,   *)
(* 103, 116, 141).                                                         *)
RevocationBounded ==
  [][\A r \in Requests : Trusts(r) =>
       \/ state[request'[r].user] = "active"
       \/ now - ended[request'[r].user] <= TTL + 2 * MaxCall + RecordAge]_vars

(* ExpiryBounded: nor is a token trusted later than that after it expired  *)
(* (line 99), or its key did (line 61), for which the key's cache adds its *)
(* own lifetime and calls.                                                 *)
ExpiryBounded ==
  [][\A r \in Requests : Trusts(r) =>
       LET c == Claims[request'[r].user]
       IN  /\ now - c.expires <= TTL + 2 * MaxCall
           /\ now - KeyExpires[c.key] <= KeyTTL + TTL + 3 * MaxCall]_vars

RefusalDue(k) ==
  \/ k = NoToken
  \/ Claims[k].key = 0 \/ ~ Claims[k].signed \/ ~ Claims[k].matches
  \/ Claims[k].expires < now \/ KeyExpires[Claims[k].key] < now
  \/ state[k] # "active"

(* GoodTokensPass: a request is turned away, or let in without its user,   *)
(* only if its token deserves it at that time: no refusal is cached, and   *)
(* no token is judged by another's key or record (lines 48-70, 103-125).   *)
GoodTokensPass ==
  [][\A r \in Requests : Rejects(r) => RefusalDue(request'[r].token)]_vars

(* MissingIsUnauthorized: a token whose record is not found is answered    *)
(* with Unauthorized, as tests/test_auth.py:145 is named for; v1token      *)
(* raises RecordNotFound instead (line 122), which no caller catches.      *)
MissingIsUnauthorized ==
  [][\A r \in Requests :
       request[r].pc = "record" /\ request[r].record = "gone" /\ request'[r].pc = "done"
         => request'[r].outcome = "401"]_vars
=============================================================================
