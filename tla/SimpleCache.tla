---------------------------- MODULE SimpleCache -----------------------------
(***************************************************************************)
(* @SimpleCache (kh_common/caching/__init__.py): one result for all        *)
(* arguments.  decorator.expire is advanced before the wrapped function is *)
(* called, decorator.data is assigned after it.  The wrapper of a          *)
(* coroutine function holds decorator.lock from the test of expire to the  *)
(* assignment; the wrapper of a plain function, which threads call,        *)
(* holds no lock.                                                          *)
(***************************************************************************)
EXTENDS Integers

CONSTANTS
  Tasks,      \* coroutines, or threads
  NoAnswer,   \* no call has returned yet
  None,       \* Python's None
  Locked,     \* TRUE: the wrapper of a coroutine function
  Failures,   \* may the wrapped function raise?
  TTL, MaxCall, MaxTime

AllArguments == "all arguments"
Results == [of : {AllArguments}, asOf : Nat]
Replies == [asked : {AllArguments}, data : Results \cup {None}, at : Nat, failed : BOOLEAN]

ASSUME SimpleCacheAssumption ==
  /\ Locked \in BOOLEAN /\ Failures \in BOOLEAN
  /\ TTL \in Nat /\ MaxCall \in Nat /\ MaxTime \in Nat
  /\ None \notin Results /\ NoAnswer \notin Replies

VARIABLES now,
          expire, data,   \* decorator.expire, decorator.data
          call,           \* call[t]: phase, start and time of reading of t's call
          answer,
          began,          \* history: when the wrapped function was last started
          failed          \* history: did its last call to end raise?

simpleVars == <<now, expire, data, call, answer, began, failed>>

Result(asOf) == [of |-> AllArguments, asOf |-> asOf]
Reply(d) == [asked |-> AllArguments, data |-> d, at |-> now, failed |-> failed]
CallState(phase, started, asOf) == [phase |-> phase, started |-> started, asOf |-> asOf]
NotCalled == CallState("idle", 0, 0)

(* mutant: the lock is not reentrant, and its waiter already holds it *)
Refreshing_Waiter(t) == call[t].phase \in {"called", "tested", "running", "computed"}

(* between the test of expire and the assignment of data *)
Refreshing(t) == call[t].phase \in {"tested", "running", "computed"}

(* time() > 0 at any real start of the program *)
SimpleInit ==
  /\ now = 1
  /\ expire = 0
  /\ data = None
  /\ call = [t \in Tasks |-> NotCalled]
  /\ answer = [t \in Tasks |-> NoAnswer]
  /\ began = -TTL
  /\ failed = FALSE

Call(t) ==
  /\ call[t].phase = "idle"
  /\ call' = [call EXCEPT ![t] = CallState("called", 0, 0)]
  /\ answer' = [answer EXCEPT ![t] = NoAnswer]
  /\ UNCHANGED <<now, expire, data, began, failed>>

(* mutants: no lock is taken; the last tick of the TTL is counted twice *)
Test_Unlocked(t) ==
  /\ call[t].phase = "called"
  /\ call' = [call EXCEPT ![t] =
       CallState(IF now > expire THEN "tested" ELSE "return", now, 0)]
  /\ UNCHANGED <<now, expire, data, answer, began, failed>>

Test_TooLate(t) ==
  /\ call[t].phase = "called"
  /\ Locked => \A u \in Tasks : ~ Refreshing(u)
  /\ call' = [call EXCEPT ![t] =
       CallState(IF now > expire + 1 \/ data = None THEN "tested" ELSE "return", now, 0)]
  /\ UNCHANGED <<now, expire, data, answer, began, failed>>

(* if time() > decorator.expire, under the lock if there is one *)
Test(t) ==
  /\ call[t].phase = "called"
  /\ Locked => \A u \in Tasks : ~ Refreshing(u)
  /\ call' = [call EXCEPT ![t] =
       CallState(IF now > expire THEN "tested" ELSE "return", now, 0)]
  /\ UNCHANGED <<now, expire, data, answer, began, failed>>

(* mutant: expire is left to be advanced when the function has returned *)
Advance_Not(t) ==
  /\ call[t].phase = "tested"
  /\ began' = now
  /\ call' = [call EXCEPT ![t] = CallState("running", call[t].started, 0)]
  /\ UNCHANGED <<now, expire, data, answer, failed>>

(* decorator.expire = time() + TTL, and the wrapped function is called *)
Advance(t) ==
  /\ call[t].phase = "tested"
  /\ expire' = now + TTL
  /\ began' = now
  /\ call' = [call EXCEPT ![t] = CallState("running", call[t].started, 0)]
  /\ UNCHANGED <<now, data, answer, failed>>

(* the wrapped function reads whatever it computes its result from *)
Compute(t) ==
  /\ call[t].phase = "running"
  /\ call' = [call EXCEPT ![t] = CallState("computed", call[t].started, now)]
  /\ UNCHANGED <<now, expire, data, answer, began, failed>>

(* decorator.data = the result; the lock, if any, is released *)
Assign(t) ==
  /\ call[t].phase = "computed"
  /\ data' = Result(call[t].asOf)
  /\ call' = [call EXCEPT ![t] = CallState("return", call[t].started, 0)]
  /\ failed' = FALSE
  /\ UNCHANGED <<now, expire, answer, began>>

(* return copy(decorator.data) *)
Return(t) ==
  /\ call[t].phase = "return"
  /\ answer' = [answer EXCEPT ![t] = Reply(data)]
  /\ call' = [call EXCEPT ![t] = NotCalled]
  /\ UNCHANGED <<now, expire, data, began, failed>>

Fail(t) ==
  /\ Failures
  /\ call[t].phase \in {"running", "computed"}
  /\ call' = [call EXCEPT ![t] = NotCalled]
  /\ failed' = TRUE
  /\ UNCHANGED <<now, expire, data, answer, began>>

(* A coroutine that holds its answer does not yield before it returns it,  *)
(* and neither does one between the test and the call of the function; a   *)
(* thread can be suspended anywhere, but a call takes at most MaxCall once *)
(* it has its lock.                                                        *)
Tick ==
  /\ now < MaxTime
  /\ \A t \in Tasks :
       /\ Refreshing(t) \/ call[t].phase = "return" => now < call[t].started + MaxCall
       /\ Locked => call[t].phase \notin {"tested", "return"}
  /\ now' = now + 1
  /\ UNCHANGED <<expire, data, call, answer, began, failed>>

Step(t) == Test(t) \/ Advance(t) \/ Compute(t) \/ Assign(t) \/ Return(t) \/ Fail(t)

(* One event loop runs the coroutines: while one is on its way from the    *)
(* lock to its answer no other takes a step.                               *)
Running(t) == ~ Locked \/ \A u \in Tasks \ {t} : call[u].phase \notin {"tested", "return"}

SimpleNext ==
  \/ Tick
  \/ \E t \in Tasks : Running(t) /\ (Call(t) \/ Step(t))

SimpleSpec == SimpleInit /\ [][SimpleNext]_simpleVars

SimpleFairSpec == SimpleSpec /\ \A t \in Tasks : SF_simpleVars(Running(t) /\ Step(t))
-----------------------------------------------------------------------------
(* ReturnsAResult: a call that returns, returns what some call of the      *)
(* wrapped function returned, as "stores single result" (line 57) says.    *)
ReturnsAResult ==
  \A t \in Tasks : answer[t] # NoAnswer => answer[t].data # None

(* NoneOnlyAfterFailure: under the lock a call that returns None, which no *)
(* call of the wrapped function returned, does so only because the last    *)
(* call of it raised.                                                      *)
NoneOnlyAfterFailure ==
  \A t \in Tasks : answer[t] # NoAnswer /\ answer[t].data = None => answer[t].failed

Larger(a, b) == IF a > b THEN a ELSE b

(* Under the lock the cached function keeps the promise of CachedCall with *)
(* the TTL itself as bound: expire is counted from before the function     *)
(* reads its source (line 70).  An answer given when the last call of the  *)
(* function has raised promises nothing, and counts as that exception.     *)
Contract ==
  INSTANCE CachedCall WITH
    Keys <- {AllArguments},
    Bound <- Larger(TTL, MaxCall),
    now <- now - 1,
    asked <- [t \in Tasks |-> IF call[t].phase = "idle" THEN {} ELSE {AllArguments}],
    answer <- [t \in Tasks |->
      IF answer[t] = NoAnswer THEN NoAnswer
      ELSE IF answer[t].failed THEN NoAnswer
      ELSE IF answer[t].data = None THEN answer[t]
      ELSE [asked |-> AllArguments, data |-> Result(answer[t].data.asOf - 1),
            at |-> answer[t].at - 1]]

Implements == Contract!Spec

(* RateLimited: however many calls wait for the lock, and even if some of  *)
(* them fail, the wrapped function is started again only after the TTL of  *)
(* its last start has run out (line 68 tests, line 69 advances).           *)
RateLimited == [][began' # began => began' > began + TTL]_simpleVars

(* CallsReturn: every call ends, with an answer or the function's          *)
(* exception, although all callers queue for one lock.                     *)
CallsReturn == \A t \in Tasks : call[t].phase = "called" ~> call[t].phase = "idle"
=============================================================================
