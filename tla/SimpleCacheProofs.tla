-------------------------- MODULE SimpleCacheProofs --------------------------
(***************************************************************************)
(* Proofs about the coroutine wrapper of SimpleCache, the one with a lock: *)
(* for any number of coroutines, TTL and longest call, whether or not the  *)
(* wrapped function raises.                                                *)
(***************************************************************************)
EXTENDS SimpleCache, TLAPS

Phases == {"idle", "called", "tested", "running", "computed", "return"}

TypeOK ==
  /\ now \in Nat \ {0}
  /\ expire \in Int /\ began \in Int
  /\ data \in Results \cup {None}
  /\ call \in [Tasks -> [phase : Phases, started : Nat, asOf : Nat]]
  /\ answer \in [Tasks -> Replies \cup {NoAnswer}]
  /\ failed \in BOOLEAN

OneRefreshes == \A t, u \in Tasks : Refreshing(t) /\ Refreshing(u) => t = u

(* No time passes between the test and the call of the function, and the   *)
(* last start is that of whoever runs it.                                  *)
CallsOK ==
  \A t \in Tasks :
    /\ call[t].phase \in {"tested", "return"} => call[t].started <= now
    /\ call[t].phase = "tested" => call[t].started = now /\ expire < now
    /\ call[t].phase \in {"running", "computed"} =>
         /\ began = call[t].started
         /\ began <= now /\ now <= began + MaxCall
    /\ call[t].phase = "computed" => began <= call[t].asOf /\ call[t].asOf \in 1 .. now

(* What is assigned was read after the last start, unless that one failed  *)
(* or has not ended yet.                                                   *)
DataOK ==
  /\ data # None => data.asOf \in 1 .. now
  /\ \/ failed
     \/ \E t \in Tasks : call[t].phase \in {"running", "computed"}
     \/ data = None /\ began = -TTL
     \/ data # None /\ began <= data.asOf

(* A caller on its way to its answer finds what it tested for.             *)
ReturnOK ==
  \A t \in Tasks : call[t].phase = "return" =>
    failed \/ (data # None /\ now - data.asOf <= Larger(TTL, MaxCall))

AnswersOK ==
  /\ \A t \in Tasks : call[t].phase # "idle" => answer[t] = NoAnswer
  /\ NoneOnlyAfterFailure

Inv ==
  /\ TypeOK /\ expire = began + TTL
  /\ OneRefreshes /\ CallsOK /\ DataOK /\ ReturnOK /\ AnswersOK

LEMMA InitInv == SimpleInit => Inv
<1>. SUFFICES ASSUME SimpleInit  PROVE Inv
  OBVIOUS
<1>1. \A t \in Tasks : call[t] = [phase |-> "idle", started |-> 0, asOf |-> 0] /\ answer[t] = NoAnswer
  BY DEF SimpleInit, NotCalled, CallState
<1>2. TypeOK
  <2>1. NotCalled \in [phase : Phases, started : Nat, asOf : Nat]
    BY DEF NotCalled, CallState, Phases
  <2>2. -TTL \in Int
    BY SimpleCacheAssumption
  <2>3. /\ call \in [Tasks -> [phase : Phases, started : Nat, asOf : Nat]]
        /\ answer \in [Tasks -> Replies \cup {NoAnswer}]
    BY <2>1, Zenon DEF SimpleInit
  <2>4. now \in Nat \ {0} /\ expire \in Int /\ began \in Int
    BY <2>2 DEF SimpleInit
  <2>5. data \in Results \cup {None} /\ failed \in BOOLEAN
    BY Zenon DEF SimpleInit
  <2>. QED  BY <2>3, <2>4, <2>5 DEF TypeOK
<1>3. OneRefreshes /\ CallsOK /\ DataOK /\ ReturnOK /\ AnswersOK
  BY <1>1 DEF SimpleInit, OneRefreshes, CallsOK, DataOK, ReturnOK, AnswersOK, NoneOnlyAfterFailure, Refreshing
<1>. QED  BY <1>2, <1>3, SimpleCacheAssumption DEF SimpleInit, Inv

(* In a step of t no other call changes, and under the lock none is on its *)
(* way from the lock to its answer.                                        *)
LEMMA OthersWait ==
  ASSUME Locked, NEW t \in Tasks, Running(t)
  PROVE  \A u \in Tasks \ {t} : call[u].phase \notin {"tested", "return"}
BY DEF Running

LEMMA CallStep ==
  ASSUME Inv, NEW t \in Tasks, Call(t)  PROVE Inv'
<1>1. /\ call' = [call EXCEPT ![t] = CallState("called", 0, 0)]
      /\ answer' = [answer EXCEPT ![t] = NoAnswer]
      /\ UNCHANGED <<now, expire, data, began, failed>> /\ call[t].phase = "idle"
  BY DEF Call
<1>2. call'[t] = [phase |-> "called", started |-> 0, asOf |-> 0] /\ answer'[t] = NoAnswer
  BY <1>1 DEF Inv, TypeOK, CallState
<1>3. \A u \in Tasks \ {t} : call'[u] = call[u] /\ answer'[u] = answer[u]
  BY <1>1 DEF Inv, TypeOK
<1>4. TypeOK'
  BY <1>1, <1>2 DEF Inv, TypeOK, Phases, CallState
<1>5. OneRefreshes' /\ CallsOK' /\ ReturnOK' /\ DataOK'
  BY <1>1, <1>2, <1>3 DEF Inv, OneRefreshes, CallsOK, ReturnOK, DataOK, Refreshing
<1>6. AnswersOK'
  BY <1>1, <1>2, <1>3 DEF Inv, AnswersOK, NoneOnlyAfterFailure
<1>. QED  BY <1>1, <1>4, <1>5, <1>6 DEF Inv

LEMMA TestStep ==
  ASSUME Locked, Inv, NEW t \in Tasks, Running(t), Test(t)  PROVE Inv'
<1> DEFINE phase == IF now > expire THEN "tested" ELSE "return"
<1>1. /\ call' = [call EXCEPT ![t] = CallState(phase, now, 0)] /\ call[t].phase = "called"
      /\ UNCHANGED <<now, expire, data, answer, began, failed>>
      /\ \A u \in Tasks : ~ Refreshing(u)
  BY DEF Test
<1>2. call'[t] = [phase |-> phase, started |-> now, asOf |-> 0]
  BY <1>1 DEF Inv, TypeOK, CallState
<1>3. \A u \in Tasks \ {t} : call'[u] = call[u]
  BY <1>1 DEF Inv, TypeOK
<1>4. TypeOK'
  BY <1>1, <1>2 DEF Inv, TypeOK, Phases, CallState
<1>5. OneRefreshes' /\ CallsOK' /\ DataOK' /\ AnswersOK'
  BY <1>1, <1>2, <1>3 DEF Inv, TypeOK, OneRefreshes, CallsOK, DataOK, Refreshing, AnswersOK,
                          NoneOnlyAfterFailure
<1>6. phase = "return" => failed \/ (data # None /\ now - data.asOf <= Larger(TTL, MaxCall))
  <2>. SUFFICES ASSUME now <= expire, ~ failed
                PROVE  data # None /\ now - data.asOf <= Larger(TTL, MaxCall)
    BY DEF Inv, TypeOK
  <2>1. data # None /\ began <= data.asOf
    BY <1>1, SimpleCacheAssumption DEF Inv, TypeOK, DataOK, Refreshing
  <2>2. data.asOf \in Int
    BY <2>1 DEF Inv, TypeOK, Results
  <2>. QED  BY <2>1, <2>2, SimpleCacheAssumption DEF Inv, TypeOK, Larger
<1>7. ReturnOK'
  BY <1>1, <1>2, <1>3, <1>6 DEF Inv, ReturnOK
<1>. QED  BY <1>1, <1>4, <1>5, <1>7 DEF Inv

LEMMA AdvanceStep ==
  ASSUME Locked, Inv, NEW t \in Tasks, Running(t), Advance(t)  PROVE Inv'
<1>1. /\ call' = [call EXCEPT ![t] = CallState("running", call[t].started, 0)]
      /\ call[t].phase = "tested" /\ expire' = now + TTL /\ began' = now
      /\ UNCHANGED <<now, data, answer, failed>>
  BY DEF Advance
<1>2. call'[t] = [phase |-> "running", started |-> now, asOf |-> 0]
  BY <1>1 DEF Inv, TypeOK, CallState, CallsOK
<1>3. \A u \in Tasks \ {t} : /\ call'[u] = call[u]
                             /\ call[u].phase \notin {"tested", "running", "computed", "return"}
  BY <1>1, OthersWait DEF Inv, TypeOK, OneRefreshes, Refreshing
<1>4. TypeOK'
  BY <1>1, <1>2, SimpleCacheAssumption DEF Inv, TypeOK, Phases, CallState
<1>5. OneRefreshes' /\ DataOK' /\ AnswersOK' /\ ReturnOK'
  BY <1>1, <1>2, <1>3 DEF Inv, OneRefreshes, DataOK, Refreshing, AnswersOK, NoneOnlyAfterFailure, ReturnOK
<1>6. CallsOK'
  BY <1>1, <1>2, <1>3, SimpleCacheAssumption DEF Inv, TypeOK, CallsOK
<1>. QED  BY <1>1, <1>4, <1>5, <1>6 DEF Inv

LEMMA ComputeStep ==
  ASSUME Inv, NEW t \in Tasks, Compute(t)  PROVE Inv'
<1>1. /\ call' = [call EXCEPT ![t] = CallState("computed", call[t].started, now)]
      /\ call[t].phase = "running"
      /\ UNCHANGED <<now, expire, data, answer, began, failed>>
  BY DEF Compute
<1>2. call'[t] = [phase |-> "computed", started |-> call[t].started, asOf |-> now]
  BY <1>1 DEF Inv, TypeOK, CallState
<1>3. \A u \in Tasks \ {t} : call'[u] = call[u]
  BY <1>1 DEF Inv, TypeOK
<1>4. TypeOK'
  BY <1>1, <1>2 DEF Inv, TypeOK, Phases, CallState
<1>5. OneRefreshes' /\ DataOK' /\ AnswersOK' /\ ReturnOK'
  BY <1>1, <1>2, <1>3 DEF Inv, OneRefreshes, DataOK, Refreshing, AnswersOK, NoneOnlyAfterFailure, ReturnOK
<1>6. CallsOK'
  BY <1>1, <1>2, <1>3 DEF Inv, TypeOK, CallsOK
<1>. QED  BY <1>1, <1>4, <1>5, <1>6 DEF Inv

LEMMA AssignStep ==
  ASSUME Locked, Inv, NEW t \in Tasks, Running(t), Assign(t)  PROVE Inv'
<1>1. /\ call' = [call EXCEPT ![t] = CallState("return", call[t].started, 0)]
      /\ call[t].phase = "computed" /\ data' = Result(call[t].asOf) /\ failed' = FALSE
      /\ UNCHANGED <<now, expire, answer, began>>
  BY DEF Assign
<1>2. call'[t] = [phase |-> "return", started |-> call[t].started, asOf |-> 0]
  BY <1>1 DEF Inv, TypeOK, CallState
<1>3. \A u \in Tasks \ {t} : /\ call'[u] = call[u]
                             /\ call[u].phase \notin {"tested", "running", "computed", "return"}
  BY <1>1, OthersWait DEF Inv, TypeOK, OneRefreshes, Refreshing
<1>4. data' \in Results /\ data'.asOf = call[t].asOf /\ data' # None
  BY <1>1, SimpleCacheAssumption DEF Inv, TypeOK, Result, Results
<1>5. TypeOK'
  BY <1>1, <1>2, <1>4 DEF Inv, TypeOK, Phases, CallState
<1>6. OneRefreshes' /\ CallsOK' /\ AnswersOK'
  BY <1>1, <1>2, <1>3 DEF Inv, TypeOK, OneRefreshes, CallsOK, Refreshing, AnswersOK, NoneOnlyAfterFailure
<1>7. /\ call[t].asOf \in Nat /\ began <= call[t].asOf /\ call[t].asOf <= now /\ now <= began + MaxCall
      /\ call[t].asOf >= 1
  BY <1>1 DEF Inv, TypeOK, CallsOK
<1>8. DataOK'
  BY <1>1, <1>4, <1>7 DEF Inv, TypeOK, DataOK
<1>9. ReturnOK'
  BY <1>1, <1>2, <1>3, <1>4, <1>7, SimpleCacheAssumption DEF Inv, TypeOK, ReturnOK, Larger
<1>. QED  BY <1>1, <1>5, <1>6, <1>8, <1>9 DEF Inv

LEMMA ReturnStep ==
  ASSUME Inv, NEW t \in Tasks, Return(t)  PROVE Inv'
<1>1. /\ call' = [call EXCEPT ![t] = NotCalled] /\ call[t].phase = "return"
      /\ answer' = [answer EXCEPT ![t] = Reply(data)]
      /\ UNCHANGED <<now, expire, data, began, failed>>
  BY DEF Return
<1>2. call'[t] = [phase |-> "idle", started |-> 0, asOf |-> 0] /\ answer'[t] = Reply(data)
  BY <1>1 DEF Inv, TypeOK, NotCalled, CallState
<1>3. \A u \in Tasks \ {t} : call'[u] = call[u] /\ answer'[u] = answer[u]
  BY <1>1 DEF Inv, TypeOK
<1>4. Reply(data) \in Replies /\ Reply(data).data = data /\ Reply(data).failed = failed
  BY DEF Inv, TypeOK, Reply, Replies
<1>5. TypeOK'
  BY <1>1, <1>2, <1>4 DEF Inv, TypeOK, Phases, NotCalled, CallState
<1>6. OneRefreshes' /\ CallsOK' /\ DataOK' /\ ReturnOK'
  BY <1>1, <1>2, <1>3 DEF Inv, OneRefreshes, CallsOK, DataOK, ReturnOK, Refreshing
<1>7. AnswersOK'
  BY <1>1, <1>2, <1>3, <1>4 DEF Inv, AnswersOK, NoneOnlyAfterFailure, ReturnOK
<1>. QED  BY <1>1, <1>5, <1>6, <1>7 DEF Inv

LEMMA FailStep ==
  ASSUME Locked, Inv, NEW t \in Tasks, Running(t), Fail(t)  PROVE Inv'
<1>1. /\ call' = [call EXCEPT ![t] = NotCalled] /\ call[t].phase \in {"running", "computed"}
      /\ failed' = TRUE
      /\ UNCHANGED <<now, expire, data, answer, began>>
  BY DEF Fail
<1>2. call'[t] = [phase |-> "idle", started |-> 0, asOf |-> 0]
  BY <1>1 DEF Inv, TypeOK, NotCalled, CallState
<1>3. \A u \in Tasks \ {t} : call'[u] = call[u]
  BY <1>1 DEF Inv, TypeOK
<1>4. TypeOK'
  BY <1>1, <1>2 DEF Inv, TypeOK, Phases, NotCalled, CallState
<1>5. OneRefreshes' /\ CallsOK' /\ DataOK' /\ ReturnOK' /\ AnswersOK'
  BY <1>1, <1>2, <1>3 DEF Inv, OneRefreshes, CallsOK, DataOK, ReturnOK, Refreshing, AnswersOK,
                          NoneOnlyAfterFailure
<1>. QED  BY <1>1, <1>4, <1>5 DEF Inv

LEMMA TickStep ==
  ASSUME Locked, Inv, Tick  PROVE Inv'
<1>1. /\ now' = now + 1 /\ UNCHANGED <<expire, data, call, answer, began, failed>>
      /\ \A t \in Tasks : /\ Refreshing(t) => now < call[t].started + MaxCall
                          /\ call[t].phase \notin {"tested", "return"}
  BY DEF Tick
<1>2. TypeOK' /\ OneRefreshes' /\ AnswersOK'
  BY <1>1 DEF Inv, TypeOK, OneRefreshes, Refreshing, AnswersOK, NoneOnlyAfterFailure
<1>3. CallsOK' /\ ReturnOK'
  BY <1>1, SimpleCacheAssumption DEF Inv, TypeOK, CallsOK, ReturnOK, Refreshing
<1>4. DataOK'
  BY <1>1 DEF Inv, TypeOK, DataOK, Results
<1>. QED  BY <1>1, <1>2, <1>3, <1>4 DEF Inv
-----------------------------------------------------------------------------
(* Inv is inductive under the lock, so it holds in every state.            *)
THEOREM Invariance == Locked => (SimpleSpec => []Inv)
<1>. SUFFICES ASSUME Locked  PROVE SimpleSpec => []Inv
  OBVIOUS
<1>1. Inv /\ [SimpleNext]_simpleVars => Inv'
  <2>. SUFFICES ASSUME Inv, [SimpleNext]_simpleVars  PROVE Inv'
    OBVIOUS
  <2>1. CASE Tick  BY <2>1, TickStep
  <2>2. ASSUME NEW t \in Tasks, Running(t), Call(t) \/ Step(t)  PROVE Inv'
    BY <2>2, CallStep, TestStep, AdvanceStep, ComputeStep, AssignStep, ReturnStep, FailStep DEF Step
  <2>3. CASE UNCHANGED simpleVars
    BY <2>3 DEF simpleVars, Inv, TypeOK, OneRefreshes, CallsOK, DataOK, ReturnOK, AnswersOK,
                NoneOnlyAfterFailure, Refreshing
  <2>. QED  BY <2>1, <2>2, <2>3 DEF SimpleNext
<1>. QED  BY InitInv, <1>1, PTL DEF SimpleSpec

(* A call returns None only if the last call of the function raised.       *)
THEOREM NoneTheorem == Locked => (SimpleSpec => []NoneOnlyAfterFailure)
<1>. SUFFICES ASSUME Locked  PROVE SimpleSpec => []NoneOnlyAfterFailure
  OBVIOUS
<1>1. Inv => NoneOnlyAfterFailure
  BY DEF Inv, AnswersOK
<1>. QED  BY <1>1, Invariance, PTL

(* The function is started again only when the TTL of its last start has   *)
(* run out: whoever starts it has just tested for that under the lock.     *)
THEOREM RateLimitedTheorem == Locked => (SimpleSpec => RateLimited)
<1>. SUFFICES ASSUME Locked  PROVE SimpleSpec => RateLimited
  OBVIOUS
<1>1. Inv /\ [SimpleNext]_simpleVars => [began' # began => began' > began + TTL]_simpleVars
  <2>. SUFFICES ASSUME Inv, SimpleNext, began' # began  PROVE began' > began + TTL
    BY DEF simpleVars
  <2>1. PICK t \in Tasks : Advance(t)
    BY DEF SimpleNext, Step, Tick, Call, Test, Compute, Assign, Return, Fail
  <2>2. call[t].phase = "tested" /\ began' = now
    BY <2>1 DEF Advance
  <2>. QED  BY <2>2 DEF Inv, TypeOK, CallsOK
<1>. QED  BY <1>1, Invariance, PTL DEF SimpleSpec, RateLimited
-----------------------------------------------------------------------------
(* The refinement.  Seen puts a call's answer as the contract has it.      *)
Asked == [t \in Tasks |-> IF call[t].phase = "idle" THEN {} ELSE {AllArguments}]

Seen == [t \in Tasks |->
  IF answer[t] = NoAnswer THEN NoAnswer
  ELSE IF answer[t].failed THEN NoAnswer
  ELSE IF answer[t].data = None THEN answer[t]
  ELSE [asked |-> AllArguments, data |-> Result(answer[t].data.asOf - 1), at |-> answer[t].at - 1]]

LEMMA StepImplements ==
  ASSUME Inv, [SimpleNext]_simpleVars  PROVE [Contract!Next]_(Contract!vars)
<1>. USE DEF Contract!vars
<1>0. Contract!vars = <<now - 1, Asked, Seen>>
  BY DEF Asked, Seen
<1>t. call \in [Tasks -> [phase : Phases, started : Nat, asOf : Nat]] /\ now \in Nat \ {0}
      /\ answer \in [Tasks -> Replies \cup {NoAnswer}]
  BY DEF Inv, TypeOK
<1>1. CASE Tick
  BY <1>1, <1>t DEF Tick, Contract!Next, Contract!Tick
<1>2. ASSUME NEW t \in Tasks, Call(t)  PROVE Contract!Ask(t, AllArguments)
  <2>1. Asked[t] = {} /\ Asked' = [Asked EXCEPT ![t] = {AllArguments}]
    BY <1>2, <1>t DEF Call, CallState, Asked
  <2>2. Seen' = [Seen EXCEPT ![t] = NoAnswer]
    BY <1>2, <1>t DEF Call, Seen
  <2>. QED  BY <1>2, <2>1, <2>2 DEF Call, Contract!Ask, Asked, Seen
<1>3. ASSUME NEW t \in Tasks, Test(t) \/ Advance(t) \/ Compute(t) \/ Assign(t)
      PROVE  UNCHANGED <<now, Asked, Seen>>
  <2>1. call[t].phase # "idle" /\ call'[t].phase # "idle" /\ \A u \in Tasks \ {t} : call'[u] = call[u]
    BY <1>3, <1>t DEF Test, Advance, Compute, Assign, CallState
  <2>2. UNCHANGED <<now, answer>>
    BY <1>3 DEF Test, Advance, Compute, Assign
  <2>. QED  BY <2>1, <2>2 DEF Asked, Seen
<1>4. ASSUME NEW t \in Tasks, Fail(t) \/ Return(t)
      PROVE  Asked[t] = {AllArguments} /\ Asked' = [Asked EXCEPT ![t] = {}] /\ now' = now
  <2>1. call[t].phase # "idle" /\ call' = [call EXCEPT ![t] = NotCalled] /\ now' = now
    BY <1>4 DEF Fail, Return
  <2>2. call'[t].phase = "idle" /\ \A u \in Tasks \ {t} : call'[u] = call[u]
    BY <2>1, <1>t DEF NotCalled, CallState
  <2>. QED  BY <2>1, <2>2 DEF Asked
<1>5. ASSUME NEW t \in Tasks, Fail(t)  PROVE Contract!Raise(t)
  BY <1>4, <1>5 DEF Contract!Raise, Asked, Seen, Fail
<1>6. ASSUME NEW t \in Tasks, Return(t)  PROVE Contract!Next
  <2>1. /\ answer' = [answer EXCEPT ![t] = Reply(data)] /\ call[t].phase = "return"
        /\ answer[t] = NoAnswer
    BY <1>6 DEF Return, Inv, AnswersOK
  <2>2. /\ Reply(data) \in Replies /\ Reply(data) # NoAnswer
        /\ Reply(data).data = data /\ Reply(data).failed = failed /\ Reply(data).at = now
    BY SimpleCacheAssumption DEF Inv, TypeOK, Reply, Replies
  <2>3. CASE failed
    <3>1. Seen' = Seen
      BY <1>t, <2>1, <2>2, <2>3 DEF Seen
    <3>2. Contract!Raise(t)
      BY <1>4, <1>6, <3>1 DEF Contract!Raise, Asked, Seen
    <3>. QED  BY <3>2 DEF Contract!Next
  <2>4. CASE ~ failed
    <3>1. /\ data # None /\ now - data.asOf <= Larger(TTL, MaxCall)
          /\ data.asOf \in 1 .. now
      BY <2>1, <2>4 DEF Inv, ReturnOK, DataOK
    <3>2. PICK asOf \in 0 .. now - 1 : asOf = data.asOf - 1
      BY <1>t, <3>1
    <3>3. Seen' = [Seen EXCEPT ![t] =
            [asked |-> AllArguments, data |-> [of |-> AllArguments, asOf |-> asOf], at |-> now - 1]]
      BY <1>t, <2>1, <2>2, <2>4, <3>1, <3>2 DEF Seen, Result
    <3>4. (now - 1) - asOf <= Larger(TTL, MaxCall)
      BY <1>t, <3>1, <3>2, SimpleCacheAssumption DEF Larger
    <3>5. Contract!Respond(t, AllArguments, asOf)
      BY <1>4, <1>6, <3>3, <3>4 DEF Contract!Respond, Asked, Seen
    <3>. QED  BY <3>5 DEF Contract!Next
  <2>. QED  BY <2>3, <2>4
<1>7. CASE UNCHANGED simpleVars
  BY <1>7 DEF simpleVars
<1>. QED
  <2>1. ASSUME NEW t \in Tasks, Call(t) \/ Step(t)  PROVE [Contract!Next]_(Contract!vars)
    BY <2>1, <1>2, <1>3, <1>5, <1>6 DEF Step, Contract!Next, Asked, Seen
  <2>. QED  BY <1>1, <1>7, <2>1 DEF SimpleNext, Contract!Next

(* Under the lock SimpleCache keeps the promise of a cached function.      *)
THEOREM ImplementsTheorem == Locked => (SimpleSpec => Implements)
<1>. SUFFICES ASSUME Locked  PROVE SimpleSpec => Implements
  OBVIOUS
<1>1. SimpleInit => Contract!Init
  BY DEF SimpleInit, NotCalled, CallState, Contract!Init
<1>2. Inv /\ [SimpleNext]_simpleVars => [Contract!Next]_(Contract!vars)
  BY StepImplements
<1>. QED  BY <1>1, <1>2, Invariance, PTL DEF SimpleSpec, Implements, Contract!Spec
=============================================================================
