# kh-common: TLA+ models and proofs

kh-common is the library that the kheina services share: caches in front of
functions and of aerospike, a PostgreSQL interface, a Telegram bot listener,
token authentication for FastAPI services, a Backblaze B2 client and smaller
helpers. It is a library for concurrent programs. Most of its functions are
coroutines of one event loop, some run in threads, and nearly all of them keep
state between calls or talk to a service that may fail. These modules model
that behaviour, TLC checks it on small instances, and TLAPS proves part of it
for all instances.

Paths below are relative to `src/`. "Lines" are those of the file that the
section names.

## Inventory

| Component | State it keeps | Operations | What is hard about it |
|---|---|---|---|
| `caching/__init__.py` ArgsCache, KwargsCache | `decorator.cache`, an OrderedDict key -> (expiration, data) | a call: sweep, lookup, compute, store | coroutines compute the same key at the same time; an entry that is refreshed keeps its place in the dictionary |
| SimpleCache | `decorator.expire`, `decorator.data`, a lock | a call | `expire` is advanced before the function runs, which may raise; all callers queue for the lock |
| `utilities/__init__.py` `__clear_cache__` | none, works on a cache | the sweep | stops at the first entry that is fresh; deletes while others look up |
| `caching/key_value_store.py` KeyValueStore | `_cache` in front of an aerospike set, two locks | get, get_many, put, remove, exists, truncate, and their `_async` forms | threads share the dictionary; reads, writes and the sweep interleave; writes in doubt; records change elsewhere |
| `caching/__init__.py` AerospikeCache, Aggregate, CalcDict, `_cache_stream` | a KeyValueStore; counters of a window; a dict | cached calls; measurements; key conversion | windows that end between two calls; which calls have equal keys |
| `caching/integer.py` Integer | a record in aerospike and a local copy | get, set, increment | `increment` leaves the local copy as it was |
| `sql/__init__.py` SqlInterface, Transaction | `SqlInterface._conn`, one connection for all threads | query, transaction | commit and rollback end everybody's transaction; reconnection and retry |
| `sql/query.py` Query | lists of clauses and parameters | builder methods, `build` | parameters must come in the order of their placeholders |
| `telegram/__init__.py` Listener | `queue`, `mostrecent` | recv, processQueue, run, sendMessage, parseMessage | polling confirms what came before; termination; crashes; repeated sends |
| `utilities/signal.py` Terminated | `alive`, callbacks | register, terminate | everything that runs must notice |
| `auth/__init__.py`, `models/auth.py` | two ArgsCaches and a KeyValueStore | verifyToken, authenticated, verify_scope | three caches between a revocation and its effect |
| `server/middleware/*`, `server/__init__.py`, `exceptions/*`, `logging.py` | none but the log | one pass per request | the order of the layers; which exception becomes which status, and under which refid it is logged |
| `backblaze.py` B2Interface | `b2_auth_token` | upload, delete, lookup | requests are repeated, their answers lost, the token expires under them |
| `gateway.py`, `email.py` | none | a request with retries | what is retried, how often, and what was already done |
| `message_queue.py` Receiver | a channel with unacknowledged deliveries | consumer, receiveAll | messages are used before they are acknowledged |
| `crc.py` CRC | a table | the constructor, a call | register width, doubling |
| `map.py`, `blocking.py`, `hashing.py`, `base64.py`, `timing`, ... | little or none | pure or nearly | |

How they interact: `verifyToken` calls the key service through an ArgsCache and
the token's record through a KeyValueStore, and is itself under an ArgsCache;
the middleware calls it for every request and `KhUser.verify_scope` calls it
again. Map and UserBlocking call SqlInterface through caches. The Listener
reads the flag that Terminated's signal handler clears. Every local cache is
swept by the one `__clear_cache__`.

## Modules

| Module | Models | Checked by |
|---|---|---|
| `OrderedCache` | the dictionary that all caches share and its sweep, as operators on sequences | all cache runs |
| `CachedCall` | abstract: what a cached function promises | `cached_functions`, `callers` (as `Implements`) |
| `ArgsCache`, `ArgsCacheProofs` | the coroutine wrapper of ArgsCache and KwargsCache | `cached_functions` |
| `SimpleCache`, `SimpleCacheProofs` | both wrappers of SimpleCache | `callers`, `simple_cache_failure` |
| `KeyValueStore`, `KeyValueStoreProofs` | every operation, access by access | `kvs_sequential`, `kvs_threads`, `kvs_sweep`, `kvs_key_error` |
| `Delivery` | abstract: what a consumer promises whoever sends it items | `components` (as `KeepsUpdates`, `KeepsMessages`) |
| `SqlInterface`, `SqlInterfaceProofs` | queries and transactions of threads over one connection | `callers` |
| `Listener`, `ListenerProofs` | polling, workers, termination, crash and restart | `components` |
| `Requests` | the repeated requests of Gateway, email and the Listener; parseMessage | `components` |
| `SplitMessage` | splitMessage of the Listener | `components` |
| `Receiver` | receivers of one message queue | `components` |
| `Server` | the layers in front of a route, the error handlers, the log | `components` |
| `Query` | the query builder | `components` |
| `Aggregate`, `Integer` | two other caches | `components` |
| `AerospikeCache` | a cached function over a KeyValueStore | `cached_functions` |
| `Crc` | the table-driven CRC | `components` |
| `ComponentProofs` | the theorems about the modules that `components` checks, the Listener's apart | |
| `B2Interface`, `B2InterfaceProofs` | uploads, deletes, lookups over one token | `b2` |
| `Auth` | middleware, verifyToken, verify_scope over their caches | `auth`, `auth_record` |
| `AuthStore` | Auth together with the KeyValueStore it reads records from | `auth_store` |
| `AuthProofs` | the theorems about Auth and AuthStore | |

`MC_<module>` gives a module its instance: symmetry sets and the constants that
a configuration cannot write down. `MC_Components` puts the components that
share no state side by side: a behaviour belongs to one of them (`part`), the
others stay where they begin. `MC_Callers` does the same for SimpleCache and
SqlInterface, whose callers wait for one lock or share one connection and must
all come to an end, and `MC_CachedFunctions` for the two decorators that keep
results for a time. Definitions whose name ends in a suffix
(`Answered_Retried`, `Refreshing_Waiter`, ...) and whose comment says
"mutant" are changed forms of the definition that follows them. Each stands for
a plausible bug; with it in place the property it belongs to is violated, which
shows that the property can tell. They are no part of a specification.

### OrderedCache, CachedCall and Delivery

A cache is a sequence of entries `[key, exp, data]` in dictionary order.
`StoreEntry` replaces the entry of a held key where it stands, as assigning to
an OrderedDict does, and appends otherwise. `StaleRun`/`AfterFirst` are the
sweep: the longest prefix of stale entries goes. Because of the first, the
expirations along the sequence are not sorted, and because of the second a
stale entry may survive behind a fresh one.

`CachedCall` is the contract: a call is answered with data computed for the
argument it was made with, reflecting a state of the source at most `Bound`
old, or it raises.

`Delivery` is the contract of a consumer with a service that hands an item out
again until it is confirmed (Telegram's updates, RabbitMQ's messages): an item
is `kept` by the service, `held` in a consumer's memory, `handled`, or `lost`
with a holder that was killed. Nothing is confirmed that was not fetched, and
nothing is let go of, short of a crash, unless the service still has it or it
was handled. `NothingForgotten` follows from the contract and so holds of whatever
implements it.

### ArgsCache (caching/__init__.py, the coroutine wrappers 98-110 and 147-161)

A call is a coroutine: `Call` creates it, `Hit` or `Miss` is everything up to
its first suspension (nothing awaits between the sweep and the lookup),
`Compute` is the moment at which the wrapped function reads its source, `Store`
the assignment and the return, `Fail` an exception or a cancellation. The data
is the key it was computed for and the time it was read. The key conversion of
KwargsCache is not modelled.

- `BoundedStaleness`: an answer is for the key asked and at most
  `TTL + 2 * MaxCall` old, `MaxCall` being the longest run of the wrapped
  function. One `MaxCall` is the time between reading the source and storing,
  the other is the time for which a refreshed entry shields one behind it.
- `Inv`, the inductive invariant of the proofs. `ShieldBounded`, one of its
  parts, says that the shielding never exceeds `MaxCall`.
- `Implements`: the refinement of `CachedCall`.

### SimpleCache (55-85)

`Test`, `Advance`, `Compute`, `Assign`, `Return`: one step for each place at
which another caller may run. `Locked` selects the wrapper of a coroutine
function (which holds the lock from the test to the assignment) or that of a
plain function, which threads call without any lock. `failed` remembers that
the last call of the function raised: answers given then are those of an older
result, or None, and are outside the contract.

- `Implements`: otherwise the answers keep the contract, with the TTL itself as
  bound when the TTL is at least MaxCall.
- `RateLimited`: two starts of the function are more than a TTL apart, however
  many callers wait for the lock.
- `NoneOnlyAfterFailure`, `CallsReturn`.

Without the lock (`Locked = FALSE`) a second thread gets None while the first
one computes; the model shows it, no run is spent on it.

### KeyValueStore (caching/key_value_store.py)

Every access to the dictionary is a step, since the `_async` operations run in
threads: the sweep alone is `Peek`, `Judge`, `Drop`. `remote` are the records,
which other processes write and which expire; a write that raises may have been
applied (`InDoubt`). `apart` remembers why a key's local entry may differ from
its record: "changed" behind this process's back, or in a write of its own that
raised; "emptied" by its own truncate. The aerospike batch read is one step.

- `Coherent` (one thread): between operations a local entry is the record's
  value, or its record was changed, or truncate took the record away and it is
  still gone. `truncate` (lines 163-164) leaves the local entries of what it
  removes and gets go on returning them; the property does not excuse this as a
  change that the process could not know of, but names it, and says that no
  other call of its own does the like. How long such an entry is served is
  bounded by `ReadsTheorem`, which is for any operations, truncate included
  (`kvs_threads` has no truncate).
- `ReadsBounded` (threads): a read returns nothing older than
  `TTL + 2 * MaxCall`, unless it is late. The sweep goes by the order of the
  entries, and two things upset it: an assignment to a key that is held renews
  its entry in its place (`put`, or a get that stores what another has stored
  meanwhile), and whatever stands behind is then marked `late` (`Assigned`); and
  a sweep may take the front key, find that another thread has dropped it and
  stored it again at the back, and stop there with stale entries in front
  (`misled`; what it then reads is late, `Taken`). A late read can be of any
  age. That there is no third way is what the property says.
- `ClearsAllStale`, from the docstring of `__clear_cache__`, fails with one
  thread already: a put to the front key, and the get of another.
- `OperationsEnd`: no operation waits forever for its lock, nor sweeps forever.

Not stated as a property, but visible in the model: a get that fetched a record
before `remove` stores it locally after it, so a removed key may be served for
a local TTL.

### SqlInterface (sql/__init__.py)

A thread's `query` is `CheckConnection`, `OpenCursor`, `Execute`, `FinishWrite`
or `FinishRead`, and the two handlers `Reconnect` and `Recover`; a transaction
is `Enter`, two `RunStatement`, `CommitTransaction`, `Exit`. A connection knows
what is uncommitted on it, for all threads together. psycopg2 is modelled from
its use: a connection may be severed (noticed by the next use) or closed, a
statement may fail and abort the transaction, a commit may take effect and its
reply be lost. A statement, a commit or a rollback on a severed connection may
raise what either handler catches (`Caught`): not every error that psycopg2
raises of a broken connection is a ConnectionException. The recursion of `query` (line 87) is a loop that counts
`retries` down.

The properties exempt exactly what the shared connection makes unavoidable and
name it: `disturbed` (another thread rolled back, aborted or cut off the
statement, or replaced the connection under its cursor), `exposed` (another
thread committed it), `unsure` (the reply to its commit was lost).

- `AckedIsDurable`: a write reported to its caller is in the database.
- `AppliedOnce`: a retry applies a write twice only if `unsure` or `exposed`.
- `TransactionAtomic`: both statements or neither.
- `NothingHalfDone`: when nobody is in an operation nothing is left pending.
- `QueriesEnd`: retries and reconnections end.

`close` belongs to the end of a process and is left out. A `with` block that
ends with neither commit nor exception is not modelled.

### Listener (telegram/__init__.py, 58-73 and 244-308; utilities/signal.py)

`Ask`, `Serve` (Telegram's side of a poll), `Receive` or `PollFails`,
`StopPolling`; `Take`, `Finish`, `Leave` for each worker; `Terminate`,
`Restart`. A poll with an offset makes Telegram forget everything before it;
`mostrecent` starts at 0 in every process.

- `NothingLost`: an update is lost only if it was queued or in hand when the
  process was killed. An orderly termination loses nothing, although recv may
  queue a last batch after the workers have left: no poll follows that would
  confirm it. The workers must exist: without one, a queue confirmed by a poll
  would be dropped when recv returns.
- `InOrderOnce`: within a session updates are taken in order and once, although
  failed polls are repeated.
- `KeepsUpdates`: the refinement of `Delivery`. Kept are the updates that
  Telegram has not forgotten, held are those queued or in hand. It says of every
  single step what `NothingLost` says of the states: also in which order
  fetching, confirming and handling come.
- `EveryUpdateHandled`: an update that arrived is parsed or is in `lost`, or
  the process has been told to stop.
- `Stops`: once told to stop, all coroutines return.

### B2Interface (backblaze.py)

A request is two steps, `Send` with the token of that moment and an answer:
`Fault`, `Denied` (401, and `Authorize` in the same step since it blocks the
event loop), `Granted`, `Store`, `Listed`, `Deleted`, `Refused`, `Info`. What a
request does in the bucket happens with its answer, which may be lost. The
blocking and the coroutine variants of upload have the same steps. Names are
numbers in listing order; `Page` is what Backblaze lists, at most `PageSize`
versions, and `First` the version that a delete is at.

- `UploadTruthful`: an upload that returns has stored the file; it stored it
  once, and not at all if it failed, unless an answer was lost. (An answer that
  fails one of the assertions leaves a stored file and an AssertionError.)
- `DeleteTruthful`: True means something was removed, False that nothing was,
  unless an answer was lost; without trouble all listed versions are gone.
- `GivesUpOnlyWhenTried`: obtaining a URL, listing and lookups fail only after
  `b2_max_retries` faults or expirations.
- `OthersUntouched`: only versions of the name being deleted disappear.

The model also shows, without a property since nothing in the repository says
otherwise: deletes never renew a token (line 270 raises before any look at the
status), a file with more than five versions keeps some of them after a delete
that returns True, and a lookup of a missing file ends in UnboundLocalError
(line 360 logs a name that is not bound). An operation that gives up builds its
error from the last reply (lines 127, 165, 219, 331); a reply that is no JSON
raises JSONDecodeError in its place. Which of the two it is makes no difference
to the properties and is left open (`GiveUp`).

### Auth (auth/__init__.py, server/middleware/auth.py)

A coroutine runs from one wait to the next: `Arrive` is the middleware,
`retrieveAuthToken` and `verifyToken` up to the wait for the key service (or
for the record, if the key is cached, or to the answer, if the token is).
`FetchKey` is the key service's answer; `ReadRecord` is the task of line 103,
which runs beside it; `Accept` and `Refuse` are the assertions of lines
113-125. `VerifyScope` calls `verifyToken` again for the user of a request that
was let in. What a token says is a constant; parsing and cryptography are
reduced to verdicts. Left out are a header of blanks (IndexError, line 157) and
a scope that `Scope` lacks (KeyError, server/middleware/auth.py:33): like
RecordNotFound they end the request in a server error, which `Server` has as the
token "uncaught". The caches are those of OrderedCache; of KeyValueStore
only its contract is used: a read is at most `RecordAge` old. That the store
keeps this contract is `AuthStore`.

- `RevocationBounded`: a revoked token is trusted for at most
  `TTL + 2 * MaxCall + RecordAge`, by the middleware and by `verify_scope`.
- `ExpiryBounded`: the same for an expired token, and for an expired key with
  the key cache's `KeyTTL + MaxCall` on top.
- `GoodTokensPass`: nothing but the token's own state turns it away.

### AuthStore (auth/__init__.py 22 and 103-125 over caching/key_value_store.py)

The composition: the variables of Auth, and those of an instance of
KeyValueStore whose records are the `state` of Auth's tokens. `CallRuns` is a
step of Auth's own. A call that gets past its first refusals starts a task
(`StartTask`: a `get_async`, which `task` remembers), and Auth's `ReadRecord` is
replaced by `TaskRuns`, one step of such a task: waiting for the lock, the
sweep, the lookup, the fetch. When the task is over its call has what it
`Reported`. A call that ends before its task does, because the key could not be
fetched or the signature is wrong, leaves it behind: the task goes on, nobody
asks for what it reads, and it is in front of others at the lock.
`RevokedBehind` is another service that changes a record behind the store's
back, `TimePasses` a tick of the one clock both have.

- `KeepsAuth`: every behaviour is one of Auth's, with
  `RecordAge = StoreTTL + 2 * StoreCall`. So all that is proved of Auth holds
  with the store in the model. `StoreCall` counts from the lock: how long a
  task has waited for it does not make the record older, since the sweep takes
  its time after that.

### Requests (gateway.py, email.py, telegram/__init__.py 103-241)

`CallClient` is a call of a Gateway, of sendEmail or of the bot's answer to a
message (`ParseMessage`: which messages are for the bot, and in how many parts
they may be answered). `Answered` is the end of one try: the reply decides
between the next try, the next part and the end, `Served` what the server did
about it. A try whose client stopped listening stays in `flying` and may be
carried out later (`PerformedLate`). "busy" is a reply that says the server is
in trouble, "garbled" one that says the request was carried out but cannot be
decoded, "cancelled" an exception thrown into the coroutine at its await.
`Slept` is the backoff, a step of its own only because a cancellation ends the
call there and not elsewhere.

- `Accounted`: success means that all parts were carried out; what was carried
  out is repeated or called failed only when its try ended without a definite
  answer; parts are carried out in order; nothing is sent for a message that
  is not for the bot.

### SplitMessage (telegram/__init__.py 76-100)

One pass of the loop is `Cut`. `begins` is a history variable: the place in the
original at which each message begins, and then what is left of the text.
`SplitFaithful`: the messages and the rest are the text in order, with nothing
left out but one break behind a message; none is empty or too long; and the best
break is taken.

### Receiver (message_queue.py)

`OpenChannel`, `NextDelivery`, `Handle` and `Acknowledge` are the generator
`_recv` under `consumer` ("stream") or `receiveAll` ("list"); `Abandon` and
`Crash` are ways out of it. The broker (`Deliver`) hands out the first message
that is ready; what is unacknowledged when a connection closes returns to its
place. The broker may give a connection up at any time (`Disconnect`), also
while the caller handles a message (line 61; a caller that takes longer than
the heartbeat allows). The receiver finds out with its next use of the
connection (`Notice`), and until then goes on with what the client has fetched,
so the same messages may be with two receivers. A list survives its connection:
receiveAll returns what it has collected.

- `GoneIsHandled`: a message leaves the queue only when a caller has dealt with
  it, has it in its list, or was killed with it there (`forfeited`); and a
  message is dealt with at most once more than there were `troubles` (lost
  connections, abandoned loops, killed processes). It does not say that a
  message is with one receiver at a time, which is false.
- `KeepsMessages`: the refinement of `Delivery`. Kept are the messages that are
  ready or unacknowledged, held are those that a caller was given and has not
  finished with, and those that a client without its connection still has. A
  channel may be full of deliveries that nobody has seen yet: these are not
  held, so they must not be acknowledged.
- `EventuallyHandled` (checked as `MessagesHandled`): every message in front of
  the first empty one is dealt with or forfeited. What is behind an empty
  message may never be, since that one always comes back in front of it.

### Server (server/*, exceptions/*, logging.py)

A request passes `AuthLayer`, `HostLayer`, `CorsLayer` and `Route`; an
exception passes `HttpErrorHandler` (if the function is wrapped) and
`JsonErrorHandler`. Refids are 1 for an error's own, 2 and 3 for those that the
two handlers make. A request may be a websocket: it passes the same layers, but
`CorsLayer` lets it through without a look at its origin
(server/middleware/cors.py:38-40), and the error handlers leave its errors to
the server's last resort. KhAuthMiddleware makes a starlette `Request` of it,
which asserts that it has http before it; whether that fails (an assertion may
be compiled out) is left open. `StatedStatus` is the status of an exception
that is not the program's but has such an attribute
(exceptions/__init__.py:17). `LogEntry` and `AgentRaises` are what becomes of an entry
when Google's agent fails: a RetryError is swallowed, any other is raised.

- `FailuresTraceable`: over http an unexpected failure is answered with a refid
  that the log has, and as 502 or 500 by its origin, or with the status it has
  of its own.
- `LayersGuard`: the route runs only for requests and websockets that trusted
  hosts and the authentication admit; over http only allowed origins can read
  answers, and their preflights are answered. When a token is required they are
  not: the authentication comes first, and browsers send no token with them. Of
  the origin of a websocket nothing is promised, because nothing checks it.

### Query (sql/query.py)

The outer query and one that it may embed; conditions have sides that are a
field, a value or that query. `PlaceholdersMatch`: text and parameters agree.
The model shows in passing that an offset left by `page` or `offset` survives a
later `limit`.

### Aggregate, AerospikeCache, Integer (caching/__init__.py 185-405, caching/integer.py)

`Called` is a call of an aggregated function: whether the time span is over is
left open. `WindowExact`: the function gets the sum, mean and variance of
exactly the calls since its last run. A number is `Unit` parts, and `Unit` is a
multiple of every size that a window may have, so that the running means are
whole; the floats of the code are rounded, which is not modelled.
`ZeroDivisionError` of a deviation of one call and the `TypeError` of an argument
that is no number leave the aggregator as they find it in the middle of a call;
`spoiled` remembers the second.

AerospikeCache stands on `ReadsBounded` of KeyValueStore: what a get returns
stood in the records at most `StoreLag = LocalTTL + 2 * StoreCall` before it,
one `StoreCall` for the trip between reading the record and stamping the local
entry (key_value_store.py:58-59), the other for the get that finds it. So a get
may take the record or any of those that stood within that time (`earlier`, a
history of at most `MaxEarlier` of them, chosen freely), or find none. A TTL
under a second is cut to 0 (caching/__init__.py:211), which leaves the lifetime
of the record to the server's configuration (`ServerTTL`). The state has ages
instead of a clock. `AnswerBounded`: an answer from the store has the return
type and is at most `Lifetime + StoreLag + MaxFetch` old. TLC finds answers of
just that age, and the mutant (a put that does not pass the TTL on) exceeds it.
That is for one key. With several, two callers that miss the same key both put
it, and the second put makes what stands behind its entry late.

Integer keeps ages instead of a clock, so that its state space is finite
without a bound on time. `GetIsRecent`: a get returns a number that the record
held at most `IntegerTTL + MaxTrip` ago.

### Crc (crc.py)

An integer is the set of its one bits: `Xor` is the symmetric difference,
`Shift` adds to every bit, `Mask` drops those past the register. `DoubleTable` is
one pass of the constructor's loop (`filled` counts the passes, so that its `i`
is 2^filled), `NextByte` one of a call's. `TableIsCRC`: the table and every
checksum agree with the division of the value bit by bit (`Divide` moves every
bit up by one and takes the polynomial off when one falls out).

## Runs

| Run | Instance | What it shows |
|---|---|---|
| `cached_functions` | ArgsCache: 3 coroutines, 2 keys, TTL 1, MaxCall 1, clock to 4; AerospikeCache: 2 callers, TTL 0 or 1, ServerTTL 2, LocalTTL, StoreCall and MaxFetch 1, one earlier record | bounded staleness, contract; the age of answers |
| `simple_cache_failure` | SimpleCache: 3 coroutines, TTL 1, MaxCall 1, clock to 3, failures | counterexample: None is returned after a failure |
| `kvs_sequential` | 1 thread, 2 keys, 2 values, all operations, clock to 2 | coherence |
| `kvs_threads` | 2 threads, 2 keys, get_async and put, TTL 0, MaxCall 1, clock to 3 | bounded reads, progress |
| `kvs_sweep` | 1 thread, 2 keys, get and put | counterexample: the sweep leaves a stale entry |
| `kvs_key_error` | 2 threads, 2 keys, the two locked gets | counterexample: KeyError |
| `callers` | SqlInterface: 2 threads, one operation each of any kind, 2 retries, 3 connections; SimpleCache: 3 coroutines, TTL 2, MaxCall 1, clock to 5, failures | durability, atomicity, progress; contract, rate limit, progress |
| `components` | Listener: 2 workers, 3 updates, batches of 2, 2 sessions; Requests: 3 tries, 2 parts; Receiver: 2 receivers, 4 messages, the third empty, 1 failure; Query: 4 calls, 2 conditions; Aggregate: 2 arguments, 3 calls, 6 parts to a number; SplitMessage: limit 3, texts to 7; Crc: 16 models of 8 and 16 bits, values to 3 bytes; Integer: 2 processes, numbers to 2 | all properties of these modules |
| `b2` | 2 tasks, one operation each, 2 names, up to 3 versions, 2 retries, 1 expiration | outcomes and the bucket |
| `auth` | 2 requests, 6 sets of tokens, clock to 5 | bounds on trust |
| `auth_store` | 1 request, 3 tokens of which it has one, 2 tasks, all TTLs 0, both longest calls 1, clock to 4 | the store keeps what Auth assumes |
| `auth_record` | as `auth` | counterexample: RecordNotFound leaves the middleware |

Why the bounds are enough. Two actors meet in every one of these races; the
caches get a third, so that two refresh an entry while the other hits the one
behind it. The clocks run past the bound that each staleness property states
(TTL 1 and MaxCall 1 give 3 of 4 ticks; in `auth` 4 of 5), so an answer that is
too old can occur. A TTL of 0 in the KeyValueStore runs still lets entries live
through a tick, since an entry is stale only when its expiration has passed; two
keys are needed for an entry to stand behind another. `kvs_threads` leaves the
other operations to `kvs_sequential`, where one thread calls them all, and to
the proof, which is for any threads and any operations.
Three updates in batches of two give a full batch, a partial one and an update
that arrives while the others are handled; two sessions give a crash with
updates in every place. Texts of 7 characters with a limit of 3 are cut up to three times, at breaks of
both kinds, at the limit and at the first character. Four messages with an
empty one leave some on both sides of it. The CRC models have 8 and 16 bits, where
the byte that is looked up fills the register or leaves half of it; the proof
is for every width. Answers of AerospikeCache get as old as the bound
allows (5 ticks with a TTL of 1, 6 with the server's 2); one earlier record is
enough for that, since an answer comes from one record and the history may keep
any of them. Four builder calls are a select of each
query, a condition and a page, or two conditions. Three connections allow two reconnections, one for each
retry. Three versions of which two share a name make the list of a delete run
on into another file. In `auth` the tokens that meet are chosen at the start
(`Holdings`) and each has one fate, since the fates of different tokens only
meet in the order of the cache, for which one other token is enough. In
`auth_store` a record may be 2 ticks old of the 4 that the clock runs; one
request suffices for two tasks to meet at the lock, since a call may leave its
task behind and the next one starts another. The proof is for any number of
both.

The inductive invariants (`Inv` of a module, `RequestsInv` and the like of
`ComponentProofs`) are proved and not run again.

Deadlock is not checked: clocks, updates, operations and connections are
bounded for TLC, so every model may come to its end.

## Fairness

- SimpleCache: strong fairness of each caller's steps. asyncio.Lock wakes its
  waiters in order, so a caller that finds the lock free again and again gets it.
- KeyValueStore: weak fairness of each thread, which the operating system runs
  eventually, and strong fairness of `Acquire`, again the order of asyncio.Lock.
- SqlInterface: weak fairness of each thread in an operation. Nothing is
  assumed of the server: the retries end whatever it does.
- Listener: weak fairness of polling and of the workers, and strong fairness of
  `Serve` and `Receive`: of polls that are repeated forever, not all fail. Only
  `EveryUpdateHandled` needs the latter. An update that never parses breaks it
  (every later poll fails on it) and is outside this assumption.

- Receiver: weak fairness of each receiver's steps, as its process runs and its
  caller asks for the next message, and strong fairness of `Deliver`: a broker
  with a consumer on the line delivers in the end.

Starting an operation (a Receiver's excepted, whose program calls it in a
loop), time, crashes, faults and the signal are never fair.

## Proofs

`ArgsCacheProofs` proves for any number of coroutines and keys, any TTL and
MaxCall:

| Theorem | States |
|---|---|
| `Invariance` | `Spec => []Inv` |
| `TypeCorrect` | `Spec => []TypeOK` |
| `StalenessTheorem` | `Spec => []BoundedStaleness` |
| `ShieldTheorem` | `Spec => []ShieldBounded` |
| `ImplementsTheorem` | `Spec => Implements`: the refinement of `CachedCall` |

Assumptions: `ArgsCacheAssumption` (numbers are natural, the markers are no
keys or answers), a clock that does not go backwards, and that a call of the
wrapped function takes at most MaxCall, which is the guard of `Tick`. The code
does not enforce the last one; it is what "how stale" has to be measured in.

The argument. BoundedStaleness is not inductive: it says nothing of the entries
that the next `Hit` will return. `EntriesOK` ties an entry's expiration to the
time its data was read. A hit takes an entry that survived the sweep, that is,
one that stands at or behind an entry which is not stale. So its age depends on
how much longer the front entry may live, which is `ShieldBounded`. That in
turn is not inductive, because `Store` replaces an entry in the middle with a
later expiration: it is safe only because the storing call missed the key when
it started, so the entry it now replaces, and all behind it, were made
afterwards. This is `MissedBefore`. One lemma per action proves that `Inv` is
preserved; `SuffixFacts`, `StoreFacts` and `EntryFacts` say what the cache
operators do to a sequence, and `AgeBehindHead` is the arithmetic of a hit. The
refinement maps a call that is not idle to an asked key; `Hit` and `Store` map
to `Respond`, `Fail` to `Raise`, the rest to stutters.

`ListenerProofs` proves for any number of workers, updates and restarts, and
any size of a reply:

| Theorem | States |
|---|---|
| `Invariance` | `Spec => []Inv` |
| `TypeCorrect` | `Spec => []TypeOK` |
| `NothingLostTheorem` | `Spec => []NothingLost` |
| `InOrderOnceTheorem` | `Spec => InOrderOnce` |
| `KeepsUpdatesTheorem` | `Spec => KeepsUpdates`: the refinement of `Delivery` |
| `ContractTheorem` | `UpdateContract!DeliverySpec => []UpdateContract!NothingForgotten` |

Assumption: `ListenerAssumption` (there is a worker, a reply may hold an
update, numbers are natural). The argument: `NothingLost` speaks of what
Telegram has forgotten, but the next poll makes it forget up to `mostrecent`,
so `OffsetKnown` says the same of `mostrecent`, and `ReplyNext` ties the reply
under way, from which `mostrecent` is computed, to what is forgotten. A
termination drops the queue, so `LastBatchKept` adds that once every worker has
left, the queue holds only updates that Telegram still has: the last worker
left an empty queue after the signal, and then recv can finish one poll but
start none. `InOrder` does for `InOrderOnce` what these do for `NothingLost`:
the queue is sorted and lies between the last update taken and `mostrecent`.
In the refinement `Receive` is a Fetch, `Finish` a Handle, `Serve` a Confirm
(`OffsetKnown` says that what it confirms was fetched), `Restart` a LetGo (after
an orderly termination `LastBatchKept` says that Telegram has what is dropped),
and everything else a stutter. `ContractTheorem` proves of the contract itself that it
forgets nothing; with the refinement this is a second proof of what
`NothingLost` says of an update that is confirmed.

`ComponentProofs` holds the theorems about the components that share no state
with others, each for every value of its own constants:

| Theorem | States |
|---|---|
| `ReceiverInvariance` | `ReceiverSpec => []ReceiverInv` |
| `GoneIsHandledTheorem` | `ReceiverSpec => []GoneIsHandled` |
| `KeepsMessagesTheorem` | `ReceiverSpec => KeepsMessages`: the refinement of `Delivery` |
| `AccountedTheorem` | `RequestsSpec => []Accounted` |
| `AnswerBoundedTheorem` | `AerospikeSpec => []AnswerBounded` |
| `GetIsRecentTheorem` | `IntegerSpec => []GetIsRecent` |
| `SplitFaithfulTheorem` | `SplitSpec => []SplitFaithful` |
| `PlaceholdersMatchTheorem` | `QuerySpec => []PlaceholdersMatch` |
| `ServerInvTheorem` | `ServerSpec => []ServerInv` |
| `LayersGuardTheorem` | `ServerSpec => []LayersGuard` |
| `FailuresTraceableTheorem` | `ServerSpec => []FailuresTraceable` |
| `WindowExactTheorem` | `AggregateSpec => []WindowExact` |
| `TableIsCRCTheorem` | `CrcSpec => []TableIsCRC` |

Assumptions: the one named in each module (`ReceiverAssumption`: messages are
numbered in the order of the queue; `RequestsAssumption`,
`AerospikeAssumption`, `IntegerAssumption`, `SplitAssumption`,
`QueryAssumption`: numbers are natural, and the like; `AggregateAssumption`: a
mean over any number of calls that a window may have is a whole number of parts;
`CrcAssumption`: the width is a multiple of 8, as the constructor demands), and the guards of
`ClockTicks` and `TimePasses`, by which a fetch takes at most `MaxFetch` and a
trip at most `MaxTrip`. The arguments:

- Receiver. `LoopOK` makes the first half of `GoneIsHandled` inductive: the
  deliveries that an acknowledgement covers are those that the caller of a
  stream has dealt with, or that a list holds. `Counted` does so for the second:
  the times a message was dealt with, those who may still deal with what they
  have of it (`Holders`), and one more if it is ready, are together at most one
  more than the troubles. A lost connection adds one to the first sum, since the
  broker puts back what the client still has, and one to the second; that it is
  not more is `ChannelsOK` (no two channels hold a message, and none that is
  ready). `QueueStepLemma` says once what a step of one receiver owes: it takes
  messages only from the queue and its own channel, accounts for those that it
  removes, and pays (`Paid`) for what it adds. For the refinement, `ShareFacts`
  and `CallerFacts` say what such a step leaves with the other callers and what
  a caller has of its channel; so closing a channel returns it, and
  acknowledging confirms only what was given.
- Requests. `RequestsInv` says of every request carried out that it is behind
  the try in hand (`Past`), so that a reply is always for a new request
  (`CurrentIsNew`), and that the ones with a definite reply belong to parts that
  are finished (`DoneOK`). `AddressOK` remembers why anything is sent at all.
- AerospikeCache. A record was computed at most `MaxFetch` before its put, so
  its age and the time it has left are together at most `Lifetime + MaxFetch`
  (`RecordOK`); an earlier record has grown older since it stood, by at most
  `StoreLag` (`EarlierOK`). Time does not pass over a caller whose answer is
  ready (`CallerOK`).
- Integer. `held` says of each number how long ago the record last had it. The
  number in a local entry was the record's at most a trip before it was stored
  (`EntryOK`), that of a process in a get when it was read (`ProcessOK`). A
  write, which leaves the entries of other processes alone (and an increment its
  own), can only start the clock of the number it replaces.
- SplitMessage. `MessageOK` and `CutOK` speak of one message and of the one that
  begins behind it, so a cut adds one of each (`CutLemma`), with facts about
  parts of sequences only. That a break was the best one is `LastPlaceFacts`:
  the greatest of finitely many places, and the least of the kinds found.
- Server. `PastLayers` says of a request behind a layer what that layer admits,
  and `Traced` of an error on its way to the client, handler by handler, under
  which refid the log has it; both properties are read off where the request
  ends. `Server` has no constants: the proof adds to the run not more instances
  but the reason.
- Aggregate. `Holds` says of an argument that every call of the window gave what
  the aggregator holds for it: the mean times the count is the sum, and `q` is
  the sum of the squares less `n * mean * mean`. Adding a call preserves it
  (Welford's update, in whole numbers: `WelfordStep`), and the
  property's sum of squared distances from the mean is the same number
  (`SquaresAbout`).
- Crc. While the table is built, the entry of a byte is its division by eight
  places and the register is that of the bit that comes next; division distributes over
  `Xor` (`Divide8Linear`), so the entries with the new bit are those without it, with
  the register on top. In a call, the byte that falls out of the register is
  looked up and the rest only moves, which is again the linearity
  (`LookupDivides`). Nothing about numbers is used except that bits have an order.
- Query. No induction: text and parameters are two traversals of the same
  clauses, and it is shown clause by clause that they agree, for the inner
  query first.

`SimpleCacheProofs` proves for any number of coroutines, any TTL and MaxCall,
under the lock (`Locked`, the wrapper of a coroutine function):

| Theorem | States |
|---|---|
| `Invariance` | `Locked => (SimpleSpec => []Inv)` |
| `NoneTheorem` | `Locked => (SimpleSpec => []NoneOnlyAfterFailure)` |
| `RateLimitedTheorem` | `Locked => (SimpleSpec => RateLimited)` |
| `ImplementsTheorem` | `Locked => (SimpleSpec => Implements)` |

Assumptions: those of ArgsCache. The argument: `expire` is a TTL after the last
start, only one caller is between its test and its assignment, and what is
assigned was read after the last start unless that one failed (`DataOK`); so
whoever finds `expire` in the future finds data no older than the TTL, or the
trace of a failure (`ReturnOK`). Without the lock none of the four holds.

`SqlInterfaceProofs` proves for any number of threads, operations, retries and
connections, with every failure of the model:

| Theorem | States |
|---|---|
| `Invariance` | `Spec => []Inv` |
| `DurableTheorem` | `Spec => []AckedIsDurable` |
| `OnceTheorem` | `Spec => []AppliedOnce` |
| `AtomicTheorem` | `Spec => []TransactionAtomic` |
| `HalfDoneTheorem` | `Spec => []NothingHalfDone` |
| `BoundedTheorem` | `Spec => []Bounded`: a write takes effect at most `MaxRetry` times |
| `TypeCorrect` | `Spec => []TypeOK` |

Assumption: `SqlAssumption`. The argument: `LiveOK` says that what a commit
would now put into the database belongs to operations that will still commit it
or roll it back; `DoneOK` that what has been executed for an operation is still
waiting there, or is in the database, or was disturbed; `CursorOK` that a
cursor is of the connection that will be asked to commit; `OnceOK` that no
retry begins with the statement already applied, unless its reply was lost or
somebody else committed it; `AbortedOK` that whoever aborted the shared
transaction still has its rollback ahead; `PairInv` how far the two statements
of a transaction have come. All of them speak of one write or one transaction,
so a step of a thread has to be looked at twice: for its own writes, and for
those of the others, to whom every step is one of three things (`Keep`, `Flush`,
`Clear`: what is pending stays, is committed, or is gone and reported).
`ForeignWrites` and `ForeignPairs` settle the second for all actions at once.
`TypeOK` bounds what `applied` counts, which is no matter of types: it needs
that each application uses up a try. `Bounded` is the budget: what a write has
used, applied or waiting for any commit, and the tries that are left to its
thread (`LeftOf`) are together at most `MaxRetry`. An execution moves one from
the second to the first, a commit by whichever thread leaves the sum alone, and
a recovery only begins when a try is gone.

`B2InterfaceProofs` proves for any number of tasks, names, versions, tries and
expirations:

| Theorem | States |
|---|---|
| `Invariance` | `Spec => []Inv` |
| `UploadTheorem` | `Spec => []UploadTruthful` |
| `DeleteTheorem` | `Spec => []DeleteTruthful` |
| `RetriesTheorem` | `Spec => []GivesUpOnlyWhenTried` |
| `OthersTheorem` | `Spec => OthersUntouched` |

Assumption: `B2Assumption`. The argument: whatever `Inv` says of a task it says
of its record and of the four other variables, so that a step is looked at once
for the task that takes it and once (`EnvLemma`, `ExpireLemma`) for everybody
else. `Tokens` says that a refused token has been replaced since, or the
operation has seen an expiration. `Budget` counts: every try that is used up was a fault
or met an expiration, and a request that is under way with an expired token has
its expiration counted in advance, since the 401 will cost it a try. `TodoOK`
says that what a delete was listed is still on its list or gone from the
bucket. That a list has a first version (`FirstFacts`) rests on the ids being
bounded by `last`.

`AuthProofs` proves for any number of requests, tokens and keys, any lifetimes
of the two caches, any longest call and any age of the records:

| Theorem | States |
|---|---|
| `Invariance` | `Spec => []Inv` |
| `RevocationTheorem` | `Spec => RevocationBounded` |
| `ExpiryTheorem` | `Spec => ExpiryBounded` |
| `GoodTokensTheorem` | `Spec => GoodTokensPass` |
| `KeepsAuthTheorem` | `AuthStoreSpec => KeepsAuth`: the refinement of Auth by its composition with the store |
| `RevocationOverStore` | `AuthStoreSpec => RevocationBounded` |

Assumptions: `AuthAssumption`, and for the last two `AuthStoreAssumption`
(`RecordAge` is what the store's own times add up to; the repository only calls
`get_async` of that store). The argument: `Earned` says what the entry of a token was stored
for, counted back from its expiration: at most a call earlier the token had not
expired, its record was active or had been so within `RecordAge`, and its key
was in the key's cache or fresh. A hit finds an entry that may stand behind a
refreshed one, so it is stale by at most a call (`Shielded`, `HitFacts`), which
is the second `MaxCall` of each bound. `Shielded` survives a refresh in place
because whoever stores an entry missed it before everything that now stands
behind it was stored (`Missed`, `StoreKeeps`). The same two lemmas serve both
caches, and the bound of the key's cache goes into `CallOK` of the call that
used the key. In the other direction `RefusalDue` only ever grows, so what was
due when a user was dropped is due when the scope is refused.

For the composition, `StoreInv` takes over the invariant that
`PromptReadsTheorem` rests on (`LoneInv`, through an INSTANCE of
KeyValueStoreProofs) and adds two things. `TaskOK`: whoever waits for a record
waits for a task that reads the key of its own token, and for no one else's. And
`FactsIn(Honest)`: whatever the store holds, has in hand or has returned was
the record's value at the time it says, or the record was active then. `Honest`
changes only with the records and the clock, and then grows (`HonestGrows`);
that the store invents nothing in between is `FactsNext`, proved of
KeyValueStore for any set of facts. So what a task ends with is either an
exception or a value that `Readable` allows (`ReportedIsReadable`), and its
last step is Auth's `ReadRecord`; its other steps are stutters, as is its end
with an exception, after which the call that awaits it is `Refuse`d.
`CallFollows` says of the steps of a call that they neither change its token
nor make up a record.

`KeyValueStoreProofs` proves for any number of threads, keys and values, any
operations, any local TTL and longest call, and whatever happens to the records:

| Theorem | States |
|---|---|
| `Invariance` | `Spec => []Inv` |
| `TypeCorrect` | `Spec => []TypeOK` |
| `ReadsTheorem` | `Spec => []ReadsBounded` |
| `PromptReadsTheorem` | `OnlyGets => (Spec => []PromptReads)`: no read is late if only get_async, remove, exists and truncate are called |
| `CoherentTheorem` | `OneThread => (Spec => []Coherent)` |

Assumptions: `KeyValueStoreAssumption` and, as above, the guard of `Tick`. The
argument: `CacheOK` says that an entry which is not late has nothing in front of
it that lives longer than a call after its own end; an entry that is appended
has it because expirations are stamped within the call that read the record,
and one that is renewed in its place makes those behind it late. A thread that
has swept the cache, and was not misled, stopped at a fresh front entry, so
whatever it may find now was read within `TTL + MaxCall` of its start
(`MayFind`), and what others store meanwhile is more recent than that. Each
action is one step of one thread (`ThreadStep`), which disturbs the others only
through the cache (`Settled`). `PromptReadsTheorem` adds that the lock leaves
one reader at a time (`LoneReaders`), so the key it has peeked at is still in
front when it is judged, and the key it stores is not held. With
`get_many_async` as well it is false, since that takes another lock.
`CoherentTheorem` adds what a thread has in hand (`CoherentFor`); with two
threads it is false, since a get may store what it fetched before a put.
Two groups of lemmas are for those who use the store: `FactsNext` (in any set of
facts that contains what is read and written, everything the store knows
stays), and `ReaderStep` with `ReaderStarts` (a `get_async` has one key from its
start to its end, and ends with a fact about it, with `RecordNotFound` while
there is no record, or with another exception).

What remains with TLC, and why:

- Liveness and whatever needs fairness: `CallsReturn`, `OperationsEnd`,
  `QueriesEnd`, `EveryUpdateHandled`, `Stops`, `MessagesHandled`.

Induction over data. The library's induction theorems take an operator as a
parameter, which the provers at hand cannot instantiate. Where a definition is
recursive over a sequence (`Total` of Aggregate, `Remainder` of Crc) it is a
recursive function, and `ComponentProofs` does the induction itself:
`LeastNumber` (a set of naturals that is not empty has a least member) is proved
from the well-foundedness of `<`, `RecursionExists` and `RecursionUnique` say
that a function whose values are given by steps from a first one exists and is
the only one, by the least argument at which it would fail. From these come the
equations that a traversal obeys when a call or a byte is appended.

## Findings

1. `utilities/__init__.py:21`: the sweep stops at the first fresh entry; its
   docstring says it clears all stale data. A KeyValueStore whose front key is
   put again and again serves the entries behind it however stale (`kvs_sweep`).
2. `caching/__init__.py:69`: if the first call of a SimpleCache function
   raises, later calls return None until the TTL has passed
   (`simple_cache_failure`).
3. `caching/key_value_store.py:71`: get_async and get_many_async hold different
   locks, so one's sweep makes the other raise KeyError (`kvs_key_error`).
4. `auth/__init__.py:122`: RecordNotFound is raised to the client as a server
   error; the test that is named for it expects Unauthorized and passes for
   another reason (`auth_record`).

## Plan

Proved next: AerospikeCache assumes of a get what `ReadsTheorem` proves of
KeyValueStore for reads that are not late. Composing the two, as AuthStore does
with Auth, would make the pair one proof and give the bound for several keys.

Modelled next, if the code grows that way: callbacks of Terminated (nothing in
the repository registers one); a transaction that ends without commit.

## Not modelled

Data declarations (`models/*`, a quarter of the source), configuration and
credentials, formatting, base64 and time measurement have no state worth a
model; Map and UserBlocking are two queries behind modelled caches.
The key conversion of KwargsCache and `key_format` are case splits by type that
a definition would only repeat. Object identity is below the abstraction of the cache models: when all
keys are local, get_many returns the cached objects and not copies of them.
Backoff times are left out wherever nothing but the duration depends on them.
