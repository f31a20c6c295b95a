------------------------------ MODULE AuthStore -----------------------------
(***************************************************************************)
(* Auth with the KeyValueStore that it reads records from (auth, lines 22, *)
(* 103, 113): what Auth only assumes of a read is here a get_async, access *)
(* by access, in a task beside the call.  Every call goes through the one  *)
(* local cache and the one lock of the store, and a call that ends early   *)
(* leaves its task behind.                                                 *)
(***************************************************************************)
EXTENDS Auth

CONSTANTS
  Readers, NoReader,  \* the tasks that read, one for every call
  StoreTTL,           \* local_TTL of the store
  StoreCall           \* longest time a get_async takes, once it has the lock

ASSUME AuthStoreAssumption ==
  /\ "gone" \notin Tokens /\ NoReader \notin Readers
  /\ StoreTTL \in Nat /\ StoreCall \in Nat
  /\ RecordAge = StoreTTL + 2 * StoreCall

VARIABLES
  local,    \* KVS._cache
  reader,   \* what each task is doing
  reply,    \* history: how it ended
  apart,    \* history: why a local entry may differ from its record
  task      \* task[r]: token_info of the call of request r, while it runs

storeVars == <<local, reader, reply, apart>>
allVars == <<vars, storeVars, task>>

(* the records are those that Auth's tokens have *)
Store == INSTANCE KeyValueStore WITH
  Threads <- Readers, Keys <- Tokens, Values <- {"active", "inactive"}, Nothing <- "gone",
  Ops <- {"get_async"}, Environment <- {"write", "expire"}, InDoubt <- FALSE,
  TTL <- StoreTTL, MaxCall <- StoreCall,
  remote <- state, cache <- local, thread <- reader

AuthStoreInit ==
  /\ Init /\ Store!Init
  /\ task = [r \in Requests |-> NoReader]
-----------------------------------------------------------------------------
(* a call of verifyToken that has started its task *)
Calling(q) == q.pc \in {"key", "record"}

(* token_info = ensure_future(KVS.get_async(guid.bytes)) *)
StartTask(t, token) == Store!Start(t) /\ reader'[t].keys = {token}

(* the key was in the cache, and the signature wrong: the call is over in  *)
(* the step that starts its task, and nobody asks for what this reads      *)
EndsAtOnce(r) ==
  LET token == request'[r].token
  IN  /\ ~ Calling(request[r]) /\ ~ Calling(request'[r])
      /\ token # NoToken /\ token \notin HeldKeys(verified') /\ Refusals(token) = {}

(* what becomes of the task of r in a step of its call *)
TaskOf(r) ==
  \/ /\ ~ Calling(request[r]) /\ Calling(request'[r])
     /\ \E t \in Readers : StartTask(t, request'[r].token) /\ task' = [task EXCEPT ![r] = t]
  \/ /\ EndsAtOnce(r)
     /\ \E t \in Readers : StartTask(t, request'[r].token)
     /\ UNCHANGED task
  \/ /\ ~ Calling(request[r]) /\ ~ Calling(request'[r]) /\ ~ EndsAtOnce(r)
     /\ UNCHANGED <<storeVars, task>>
  \/ /\ Calling(request[r]) /\ UNCHANGED storeVars
     /\ task' = [task EXCEPT ![r] = IF Calling(request'[r]) THEN @ ELSE NoReader]

(* Auth's own steps.  The record is awaited: a call only finds that there  *)
(* is none when its task is over.                                          *)
CallRuns(r) ==
  /\ \/ Arrive(r) \/ FetchKey(r) \/ Accept(r) \/ Serve(r) \/ VerifyScope(r)
     \/ Refuse(r) /\ (request[r].record = "none" => task[r] = NoReader)
  /\ TaskOf(r)

(* what the task is done with: the state of a record, or an exception *)
Reported(answer) ==
  CASE answer.outcome = "ok"             -> (CHOOSE fact \in answer.facts : TRUE).val
    [] answer.outcome = "RecordNotFound" -> "gone"
    [] OTHER                             -> "none"

(* a step of a task; when it is over, its call knows what was read *)
TaskRuns(t) ==
  /\ Store!Acquire(t) \/ Store!Read(t)
  /\ LET over == Store!At(t, "idle")' IN
     /\ request' = [r \in Requests |->
          IF over /\ task[r] = t THEN [request[r] EXCEPT !.record = Reported(reply'[t])] ELSE request[r]]
     /\ task' = [r \in Requests |-> IF over /\ task[r] = t THEN NoReader ELSE task[r]]
  /\ UNCHANGED <<verified, keys, service>>

(* another service writes the record, without this store knowing *)
RevokedBehind(k) ==
  /\ Revoke(k)
  /\ Store!ForeignWrite(k, Fate[k]) \/ Store!Expire(k)
  /\ UNCHANGED task

TimePasses == Tick /\ Store!Tick /\ UNCHANGED task

AuthStoreNext ==
  \/ \E r \in Requests : CallRuns(r)
  \/ \E t \in Readers : TaskRuns(t)
  \/ \E k \in held : RevokedBehind(k)
  \/ TimePasses

AuthStoreSpec == AuthStoreInit /\ [][AuthStoreNext]_allVars
-----------------------------------------------------------------------------
(* KeepsAuth: the store keeps what Auth assumes of it, so with every wait, *)
(* lock and sweep of the store between a revocation and its effect, every  *)
(* behaviour is one of Auth's with records of that age (lines 103-125).    *)
KeepsAuth == Spec
=============================================================================
