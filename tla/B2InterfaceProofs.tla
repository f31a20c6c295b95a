------------------------- MODULE B2InterfaceProofs --------------------------
(***************************************************************************)
(* Proofs about uploads, deletes and lookups, for any number of tasks,     *)
(* names, versions, tries and expirations.  What an invariant says of one  *)
(* task is an operator of its record r and of the values fs, l, a and g of *)
(* files, last, auth and good.                                             *)
(***************************************************************************)
EXTENDS B2Interface, TLAPS, FiniteSetTheorems, WellFoundedInduction

Ops == Uploads \cup {"b2_delete_file_async", "b2_get_file_info"}
Retrying == {"url", "list", "info"}
Steps == Retrying \cup {"upload", "delete"}
Outcomes == {"none", "B2AuthorizationError", "B2UploadError", "AssertionError", "None", "True", "False",
             "content", "ValueError", "UnboundLocalError"}
Versions == [name : Nat, id : Nat]

TaskStates ==
  [op : {"none"} \cup Ops, ops : Int, name : Nat, step : {"idle", "done"} \cup Steps,
   sent : BOOLEAN, token : Nat, tries : Nat, todo : SUBSET Versions, deletes : Nat, outcome : Outcomes,
   faults : Nat, expiries : Nat, lost : BOOLEAN, stored : Nat, removed : Nat, answered : BOOLEAN,
   listed : SUBSET Versions]

Fields(r) ==
  /\ r \in TaskStates
  /\ r.step \in {"url", "upload"} => r.op \in Uploads
  /\ r.step \in {"list", "delete"} => r.op = "b2_delete_file_async"
  /\ r.step = "info" => r.op = "b2_get_file_info"
  /\ r.step # "done" => r.outcome = "none"
  /\ r.step \in Steps => r.tries >= 1
  /\ r.step = "delete" => r.answered

(* A token that is refused has been replaced since, or its expiration is   *)
(* counted.                                                                *)
Tokens(r, a, g) ==
  r.step \in Steps =>
    /\ r.sent => r.token <= g /\ (r.token = g => a = g)
    /\ r.expiries = 0 => a = g /\ (r.sent => r.token = g)

(* Every try that is used up was a fault or met an expiration, and so will *)
(* the one that is under way with a token that has expired.                *)
Doomed(r, a, g) == (r.sent /\ r.token # g) \/ (~ r.sent /\ a # g)
Budget(r, a, g) ==
  r.step \in Retrying =>
    IF Doomed(r, a, g) THEN Retries + 1 <= r.tries + r.faults + r.expiries
                       ELSE Retries <= r.tries + r.faults + r.expiries

GaveUp(r) ==
  \/ r.outcome \in {"B2AuthorizationError", "None"}
  \/ r.step = "done" /\ r.op = "b2_delete_file_async" /\ ~ r.answered
  => r.faults + r.expiries >= Retries

UploadOK(r) ==
  /\ r.step = "url" => r.stored = 0 /\ ~ r.lost
  /\ r.step = "upload" /\ ~ r.lost => r.stored = 0
  /\ r.step = "done" /\ r.op \in Uploads =>
       /\ r.outcome = "content" => r.stored > 0
       /\ ~ r.lost => r.stored = (IF r.outcome \in {"content", "AssertionError"} THEN 1 ELSE 0)

DeleteOK(r) ==
  /\ r.step = "list" => r.deletes = 0 /\ r.removed = 0
  /\ r.step = "delete" => r.deletes <= r.removed /\ (~ r.lost => r.deletes = r.removed)
  /\ r.step = "done" /\ r.op = "b2_delete_file_async" /\ r.outcome # "AssertionError" =>
       /\ r.outcome = "True" => r.removed > 0
       /\ r.outcome = "False" /\ ~ r.lost => r.removed = 0

(* What a delete was listed is still to be deleted, or is gone.            *)
Calm(r) == r.faults = 0 /\ r.expiries = 0
TodoOK(r, fs, l) ==
  /\ \A f \in r.listed : f.id <= l
  /\ r.step = "delete" =>
       /\ r.todo # {} /\ r.todo \subseteq r.listed /\ \A f \in r.todo : f.name = r.name
       /\ Calm(r) => r.listed \cap fs \subseteq r.todo
  /\ r.step = "done" /\ r.op = "b2_delete_file_async" /\ r.outcome # "AssertionError" /\ Calm(r) =>
       r.listed \cap fs = {}

TaskOK(r, fs, l, a, g) ==
  Fields(r) /\ Tokens(r, a, g) /\ Budget(r, a, g) /\ GaveUp(r) /\ UploadOK(r) /\ DeleteOK(r) /\ TodoOK(r, fs, l)

StateOK ==
  /\ files \subseteq Versions /\ last \in Nat /\ \A f \in files : f.id <= last
  /\ good \in Nat /\ auth \in Nat /\ auth <= good

TasksOK == /\ task \in [Tasks -> TaskStates]
           /\ \A t \in Tasks : TaskOK(task[t], files, last, auth, good)

Inv == StateOK /\ TasksOK
-----------------------------------------------------------------------------
(* The version a delete is at is one of those still to be deleted.         *)
LEMMA FirstFacts ==
  ASSUME NEW todo \in SUBSET Versions, NEW n, NEW l \in Nat, todo # {},
         \A f \in todo : f.name = n /\ f.id <= l
  PROVE  First(todo) \in todo
<1>. DEFINE T == {l - f.id : f \in todo}
<1>1. T \subseteq Nat /\ T # {}
  BY DEF Versions
<1>2. PICK x \in T : \A y \in T : ~ (<<y, x>> \in OpToRel(<, Nat))
  BY <1>1, NatLessThanWellFounded, WFMin
<1>3. PICK f \in todo : x = l - f.id
  OBVIOUS
<1>4. \A y \in T : ~ (y < x)
  BY <1>1, <1>2 DEF OpToRel
<1>5. ASSUME NEW g \in todo \ {f}  PROVE Before(f, g)
  <2>1. l - g.id \in T /\ f.id \in Nat /\ g.id \in Nat /\ f.name = g.name
    BY DEF Versions
  <2>2. ~ (l - g.id < l - f.id)
    BY <1>3, <1>4, <2>1
  <2>3. f.id # g.id
    BY <2>1 DEF Versions
  <2>. QED  BY <2>1, <2>2, <2>3 DEF Before
<1>. QED  BY <1>5 DEF First

(* What the transformers of a task's record leave alone.                   *)
LEMMA EndFacts ==
  ASSUME NEW r \in TaskStates, NEW o \in Outcomes
  PROVE  LET q == End(r, o)
         IN  /\ q \in TaskStates /\ q.step = "done" /\ q.outcome = o
             /\ q.op = r.op /\ q.deletes = r.deletes /\ q.faults = r.faults /\ q.expiries = r.expiries
             /\ q.lost = r.lost /\ q.stored = r.stored /\ q.removed = r.removed
             /\ q.answered = r.answered /\ q.listed = r.listed
BY DEF End, TaskStates

LEMMA TroubledFacts ==
  ASSUME NEW r \in TaskStates
  PROVE  LET q == Troubled(r)
         IN  /\ q \in TaskStates /\ q.step = r.step /\ q.outcome = r.outcome /\ q.name = r.name
             /\ q.op = r.op /\ q.deletes = r.deletes /\ q.faults = r.faults + 1 /\ q.expiries = r.expiries
             /\ q.lost = r.lost /\ q.stored = r.stored /\ q.removed = r.removed /\ q.tries = r.tries
             /\ q.answered = r.answered /\ q.listed = r.listed /\ q.todo = r.todo
BY DEF Troubled, TaskStates

(* A task that ends keeps what the invariant says of it, if that is so of  *)
(* the end it comes to.                                                    *)
LEMMA EndLemma ==
  ASSUME NEW r, NEW o \in Outcomes, NEW fs, NEW l \in Nat, NEW a \in Nat, NEW g \in Nat,
         r \in TaskStates, \A f \in r.listed : f.id <= l,
         GaveUp(End(r, o)), UploadOK(End(r, o)), DeleteOK(End(r, o)),
         r.op = "b2_delete_file_async" /\ o # "AssertionError" /\ Calm(r) => r.listed \cap fs = {}
  PROVE  TaskOK(End(r, o), fs, l, a, g)
<1>. DEFINE q == End(r, o)
<1>1. q \in TaskStates /\ q.step = "done" /\ q.outcome = o /\ q.op = r.op /\ q.listed = r.listed
      /\ q.faults = r.faults /\ q.expiries = r.expiries
  BY EndFacts
<1> HIDE DEF q
<1>2. Fields(q)
  BY <1>1 DEF Fields, Steps, Retrying
<1>3. Tokens(q, a, g) /\ Budget(q, a, g)
  BY <1>1 DEF Tokens, Budget, Steps, Retrying
<1>4. TodoOK(q, fs, l)
  BY <1>1 DEF TodoOK, Calm
<1>. QED  BY <1>2, <1>3, <1>4 DEF TaskOK, q

LEMMA NextFileLemma ==
  ASSUME NEW r, NEW fs, NEW l \in Nat, NEW a \in Nat, NEW g \in Nat,
         Fields(r), r.step = "delete", r.expiries = 0 => a = g,
         DeleteOK(r), TodoOK(r, fs, l), Calm(r) => First(r.todo) \notin fs
  PROVE  TaskOK(NextFile(r), fs, l, a, g)
<1>1. r \in TaskStates /\ r.op = "b2_delete_file_async" /\ r.answered /\ r.outcome = "none"
  BY DEF Fields
<1>2. r.deletes \in Nat /\ r.removed \in Nat /\ r.listed \in SUBSET Versions /\ r.todo \in SUBSET Versions
  BY <1>1 DEF TaskStates
<1>3. CASE r.todo \ {First(r.todo)} # {}
  <2>. DEFINE q == [r EXCEPT !.todo = r.todo \ {First(r.todo)}, !.tries = Retries, !.sent = FALSE]
  <2>1. NextFile(r) = q
    BY <1>3 DEF NextFile
  <2>2. Retries \in Nat /\ Retries >= 1
    BY B2Assumption
  <2>3. /\ q \in TaskStates /\ q.step = "delete" /\ q.op = "b2_delete_file_async" /\ q.outcome = "none"
        /\ q.answered /\ q.tries = Retries /\ ~ q.sent /\ q.todo = r.todo \ {First(r.todo)}
        /\ q.faults = r.faults /\ q.expiries = r.expiries /\ q.deletes = r.deletes
        /\ q.removed = r.removed /\ q.lost = r.lost /\ q.listed = r.listed /\ q.name = r.name
    BY <1>1, <1>2, <2>2 DEF TaskStates
  <2> HIDE DEF q
  <2>4. Fields(q)
    BY <2>2, <2>3 DEF Fields, Steps, Retrying
  <2>5. Tokens(q, a, g) /\ Budget(q, a, g)
    BY <2>3 DEF Tokens, Budget, Steps, Retrying
  <2>6. GaveUp(q) /\ UploadOK(q) /\ DeleteOK(q)
    BY <2>3 DEF GaveUp, UploadOK, DeleteOK, Uploads
  <2>7. TodoOK(q, fs, l)
    BY <1>3, <2>3 DEF TodoOK, Calm
  <2>. QED  BY <2>1, <2>4, <2>5, <2>6, <2>7 DEF TaskOK
<1>4. CASE r.todo \ {First(r.todo)} = {}
  <2>. DEFINE o == IF r.deletes > 0 THEN "True" ELSE "False"
  <2>1. NextFile(r) = End(r, o) /\ o \in Outcomes
    BY <1>4 DEF NextFile, Outcomes
  <2>2. LET q == End(r, o)
        IN  /\ q.step = "done" /\ q.outcome = o /\ q.op = r.op /\ q.deletes = r.deletes
            /\ q.lost = r.lost /\ q.removed = r.removed /\ q.answered = r.answered
    BY <1>1, <2>1, EndFacts
  <2>3. GaveUp(End(r, o)) /\ UploadOK(End(r, o))
    BY <1>1, <2>2 DEF GaveUp, UploadOK, Uploads
  <2>4. DeleteOK(End(r, o))
    BY <1>1, <1>2, <2>2 DEF DeleteOK
  <2>5. Calm(r) => r.listed \cap fs = {}
    BY <1>4 DEF TodoOK
  <2>6. \A f \in r.listed : f.id <= l
    BY DEF TodoOK
  <2> HIDE DEF o
  <2>. QED  BY <1>1, <2>1, <2>3, <2>4, <2>5, <2>6, EndLemma
<1>. QED  BY <1>3, <1>4

(* A failed try: the next one may begin, or the task gives up.             *)
LEMMA AgainLemma ==
  ASSUME NEW r, NEW fs, NEW l \in Nat, NEW a \in Nat, NEW g \in Nat,
         Fields(r), r.step \in Steps, r.expiries = 0 => a = g,
         r.step \in Retrying => IF a # g THEN Retries + 2 <= r.tries + r.faults + r.expiries
                                         ELSE Retries + 1 <= r.tries + r.faults + r.expiries,
         UploadOK(r), DeleteOK(r), TodoOK(r, fs, l),
         r.step = "delete" /\ Calm(r) => First(r.todo) \notin fs
  PROVE  TaskOK(Again(r), fs, l, a, g)
<1>1. r \in TaskStates /\ r.outcome = "none" /\ r.tries \in Nat /\ r.tries >= 1
      /\ r.faults \in Nat /\ r.expiries \in Nat /\ Retries \in Nat /\ \A f \in r.listed : f.id <= l
  BY B2Assumption DEF Fields, TaskStates, Steps, Retrying, TodoOK
<1>2. CASE r.tries > 1
  <2>. DEFINE q == [r EXCEPT !.tries = r.tries - 1, !.sent = FALSE]
  <2>1. Again(r) = q
    BY <1>2 DEF Again
  <2>2. /\ q \in TaskStates /\ q.step = r.step /\ q.op = r.op /\ q.outcome = "none"
        /\ q.answered = r.answered /\ q.tries = r.tries - 1 /\ ~ q.sent /\ q.todo = r.todo
        /\ q.faults = r.faults /\ q.expiries = r.expiries /\ q.deletes = r.deletes /\ q.stored = r.stored
        /\ q.removed = r.removed /\ q.lost = r.lost /\ q.listed = r.listed /\ q.name = r.name
    <3>1. r.tries - 1 \in Nat
      BY <1>1, <1>2
    <3>. QED  BY <1>1, <3>1 DEF TaskStates
  <2> HIDE DEF q
  <2>3. Fields(q)
    BY <1>1, <1>2, <2>2 DEF Fields, Steps, Retrying
  <2>4. Tokens(q, a, g) /\ Budget(q, a, g)
    BY <1>1, <2>2 DEF Tokens, Budget, Doomed, Steps, Retrying
  <2>5. GaveUp(q) /\ UploadOK(q) /\ DeleteOK(q)
    BY <2>2 DEF GaveUp, UploadOK, DeleteOK, Steps, Retrying
  <2>6. TodoOK(q, fs, l)
    <3>1. Calm(q) = Calm(r)
      BY <2>2 DEF Calm
    <3>2. q.step # "done"
      BY <2>2 DEF Steps, Retrying
    <3>. QED  BY <2>2, <3>1, <3>2 DEF TodoOK
  <2>. QED  BY <2>1, <2>3, <2>4, <2>5, <2>6 DEF TaskOK
<1>3. CASE r.tries = 1
  <2>1. Again(r) = GiveUp(r)
    BY <1>3 DEF Again
  <2>2. r.step \in Retrying => Retries <= r.faults + r.expiries
    BY <1>1, <1>3
  <2>3. CASE r.step = "delete"
    <3>1. GiveUp(r) = NextFile(r)
      BY <2>3 DEF GiveUp
    <3>. QED  BY <2>1, <2>3, <3>1, NextFileLemma
  <2>4. CASE r.step # "delete"
    <3>1. PICK o \in Outcomes :
            /\ GiveUp(r) = End(r, o)
            /\ \/ r.step = "url" /\ o = "B2AuthorizationError"
               \/ r.step = "upload" /\ o = "B2UploadError"
               \/ r.step = "list" /\ o = "AssertionError"
               \/ r.step = "info" /\ o = "None"
      BY <2>4 DEF GiveUp, Outcomes, Steps, Retrying
    <3>2. LET q == End(r, o)
          IN  /\ q.step = "done" /\ q.outcome = o /\ q.op = r.op /\ q.deletes = r.deletes
              /\ q.faults = r.faults /\ q.expiries = r.expiries /\ q.stored = r.stored
              /\ q.lost = r.lost /\ q.removed = r.removed /\ q.answered = r.answered
      BY <1>1, EndFacts
    <3>3. GaveUp(End(r, o))
      BY <2>2, <3>1, <3>2 DEF GaveUp, Retrying, Fields, Uploads
    <3>4. UploadOK(End(r, o))
      BY <3>1, <3>2 DEF UploadOK, Fields, Uploads
    <3>5. DeleteOK(End(r, o))
      BY <3>1, <3>2 DEF DeleteOK, Fields, Uploads
    <3>6. ~ (r.op = "b2_delete_file_async" /\ o # "AssertionError")
      BY <3>1 DEF Fields, Uploads
    <3>. QED  BY <1>1, <2>1, <3>1, <3>3, <3>4, <3>5, <3>6, EndLemma
  <2>. QED  BY <2>3, <2>4
<1>. QED  BY <1>1, <1>2, <1>3
-----------------------------------------------------------------------------
(* What the steps of other tasks do: the token becomes the server's, a     *)
(* newer version is stored, versions go.                                   *)
LEMMA EnvLemma ==
  ASSUME NEW r, NEW fs, NEW fs2, NEW l \in Nat, NEW l2 \in Nat, NEW a \in Nat, NEW a2 \in Nat, NEW g \in Nat,
         TaskOK(r, fs, l, a, g), a2 \in {a, g}, l <= l2, \A f \in fs2 : f \in fs \/ f.id > l
  PROVE  TaskOK(r, fs2, l2, a2, g)
<1>1. r \in TaskStates /\ r.token \in Nat /\ r.tries \in Nat /\ r.faults \in Nat /\ r.expiries \in Nat
      /\ r.listed \subseteq Versions /\ Retries \in Nat
  BY B2Assumption DEF TaskOK, Fields, TaskStates
<1>2. Tokens(r, a2, g)
  BY DEF TaskOK, Tokens
<1>3. Budget(r, a2, g)
  BY <1>1 DEF TaskOK, Budget, Doomed
<1>4. TodoOK(r, fs2, l2)
  <2>1. \A f \in r.listed : f.id \in Nat /\ f.id <= l
    BY <1>1 DEF TaskOK, TodoOK, Versions
  <2>2. r.listed \cap fs2 \subseteq r.listed \cap fs
    BY <2>1
  <2>. QED  BY <2>1, <2>2 DEF TaskOK, TodoOK
<1>. QED  BY <1>2, <1>3, <1>4 DEF TaskOK

(* The server no longer accepts the token.                                 *)
LEMMA ExpireLemma ==
  ASSUME NEW r, NEW fs, NEW l \in Nat, NEW a \in Nat, NEW g \in Nat, TaskOK(r, fs, l, a, g), a <= g
  PROVE  LET q == IF r.step \notin {"idle", "done"} THEN [r EXCEPT !.expiries = @ + 1] ELSE r
         IN  q \in TaskStates /\ TaskOK(q, fs, l, a, g + 1)
<1>1. r \in TaskStates /\ r.token \in Nat /\ r.tries \in Nat /\ r.faults \in Nat /\ r.expiries \in Nat
      /\ Retries \in Nat /\ r.step \in {"idle", "done"} \cup Steps
  BY B2Assumption DEF TaskOK, Fields, TaskStates
<1>2. CASE r.step \in {"idle", "done"}
  <2>1. Tokens(r, a, g + 1) /\ Budget(r, a, g + 1)
    BY <1>2 DEF Tokens, Budget, Steps, Retrying
  <2>. QED  BY <1>1, <1>2, <2>1 DEF TaskOK
<1>3. CASE r.step \in Steps
  <2>. DEFINE q == [r EXCEPT !.expiries = r.expiries + 1]
  <2>1. /\ q \in TaskStates /\ q.step = r.step /\ q.op = r.op /\ q.outcome = r.outcome /\ q.token = r.token
        /\ q.answered = r.answered /\ q.tries = r.tries /\ q.sent = r.sent /\ q.todo = r.todo
        /\ q.faults = r.faults /\ q.expiries = r.expiries + 1 /\ q.deletes = r.deletes /\ q.stored = r.stored
        /\ q.removed = r.removed /\ q.lost = r.lost /\ q.listed = r.listed /\ q.name = r.name
    BY <1>1 DEF TaskStates
  <2> HIDE DEF q
  <2>2. Fields(q)
    BY <2>1 DEF TaskOK, Fields
  <2>3. Tokens(q, a, g + 1)
    BY <1>1, <2>1 DEF TaskOK, Tokens
  <2>4. Budget(q, a, g + 1)
    BY <1>1, <2>1 DEF TaskOK, Budget, Doomed
  <2>5. GaveUp(q) /\ UploadOK(q) /\ DeleteOK(q)
    BY <1>1, <1>3, <2>1 DEF TaskOK, Fields, GaveUp, UploadOK, DeleteOK, Steps, Retrying
  <2>6. TodoOK(q, fs, l)
    BY <1>1, <1>3, <2>1 DEF TaskOK, TodoOK, Calm, Steps, Retrying
  <2>7. (IF r.step \notin {"idle", "done"} THEN [r EXCEPT !.expiries = @ + 1] ELSE r) = q
    BY <1>3 DEF Steps, Retrying, q
  <2>. QED  BY <2>1, <2>2, <2>3, <2>4, <2>5, <2>6, <2>7 DEF TaskOK
<1>. QED  BY <1>1, <1>2, <1>3

(* A step of one task keeps the invariant if it does so for that task.     *)
LEMMA ActorStep ==
  ASSUME Inv, NEW t \in Tasks, NEW q, task' = [task EXCEPT ![t] = q], TaskOK(q, files', last', auth', good'),
         good' = good, auth' \in {auth, good}, last' \in Nat, last <= last',
         files' \subseteq Versions, \A f \in files' : f.id <= last' /\ (f \in files \/ f.id > last)
  PROVE  Inv'
<1>1. StateOK' /\ good \in Nat /\ auth \in Nat /\ auth' \in Nat /\ last \in Nat
  BY DEF Inv, StateOK
<1>2. q \in TaskStates
  BY DEF TaskOK, Fields
<1>3. task' \in [Tasks -> TaskStates] /\ task'[t] = q /\ \A u \in Tasks \ {t} : task'[u] = task[u]
  BY <1>2 DEF Inv, TasksOK
<1>4. ASSUME NEW u \in Tasks \ {t}  PROVE TaskOK(task[u], files', last', auth', good)
  BY <1>1, EnvLemma DEF Inv, TasksOK
<1>5. ASSUME NEW u \in Tasks  PROVE TaskOK(task'[u], files', last', auth', good')
  BY <1>3, <1>4
<1>. QED  BY <1>1, <1>3, <1>5 DEF Inv, TasksOK

LEMMA IdleFacts ==
  /\ Idle \in TaskStates /\ Idle.step = "idle" /\ Idle.op = "none" /\ Idle.outcome = "none"
  /\ Idle.faults = 0 /\ Idle.stored = 0 /\ Idle.removed = 0 /\ Idle.deletes = 0 /\ ~ Idle.lost
  /\ ~ Idle.answered /\ ~ Idle.sent /\ Idle.listed = {} /\ Idle.ops = 0
BY DEF Idle, TaskStates, Outcomes

LEMMA TaskFacts ==
  ASSUME Inv, NEW t \in Tasks
  PROVE  /\ TaskOK(task[t], files, last, auth, good) /\ task[t] \in TaskStates
         /\ last \in Nat /\ auth \in Nat /\ good \in Nat /\ auth <= good
         /\ files \subseteq Versions /\ \A f \in files : f.id <= last
BY DEF Inv, StateOK, TasksOK

LEMMA QuietStep ==
  ASSUME Inv, NEW t \in Tasks, NEW q, task' = [task EXCEPT ![t] = q], TaskOK(q, files, last, auth, good),
         UNCHANGED <<files, last, good, auth>>
  PROVE  Inv'
<1>1. files' = files /\ last' = last /\ good' = good /\ auth' = auth
  OBVIOUS
<1>2. TaskOK(q, files', last', auth', good')
  BY <1>1
<1>3. /\ last' \in Nat /\ last <= last' /\ files' \subseteq Versions
      /\ \A f \in files' : f.id <= last' /\ (f \in files \/ f.id > last)
  BY <1>1, TaskFacts
<1>4. auth' \in {auth, good}
  BY <1>1
<1>. QED  BY <1>1, <1>2, <1>3, <1>4, ActorStep

LEMMA StartStep ==
  ASSUME Inv, NEW t \in Tasks, NEW op, NEW step, Start(t, op, step),
         <<op, step>> \in {<<"b2_upload", "url">>, <<"b2_upload_async", "url">>,
                           <<"b2_delete_file_async", "list">>, <<"b2_get_file_info", "info">>}
  PROVE  Inv'
<1>1. PICK n \in Names :
        task' = [task EXCEPT ![t] = [Idle EXCEPT
          !.op = op, !.ops = task[t].ops + 1, !.name = n, !.step = step, !.tries = Retries,
          !.expiries = IF auth = good THEN 0 ELSE 1]]
  BY DEF Start
<1>. DEFINE q == [Idle EXCEPT
          !.op = op, !.ops = task[t].ops + 1, !.name = n, !.step = step, !.tries = Retries,
          !.expiries = IF auth = good THEN 0 ELSE 1]
<1>2. task[t].ops + 1 \in Int /\ n \in Nat /\ Retries \in Nat /\ Retries >= 1
  BY TaskFacts, B2Assumption DEF TaskStates
<1>3. op \in Ops /\ step \in Retrying
  BY DEF Ops, Uploads, Retrying
<1>4. /\ q \in TaskStates /\ q.op = op /\ q.step = step /\ q.tries = Retries
      /\ q.expiries = (IF auth = good THEN 0 ELSE 1) /\ q.outcome = "none" /\ q.faults = 0 /\ q.stored = 0
      /\ q.removed = 0 /\ q.deletes = 0 /\ ~ q.lost /\ ~ q.sent /\ q.listed = {}
  <2>1. (IF auth = good THEN 0 ELSE 1) \in Nat
    OBVIOUS
  <2>. QED  BY <1>2, <1>3, <2>1, IdleFacts DEF TaskStates, Steps
<1> HIDE DEF q
<1>5. Fields(q)
  BY <1>2, <1>3, <1>4 DEF Fields, Uploads, Retrying
<1>6. Tokens(q, auth, good) /\ Budget(q, auth, good)
  BY <1>2, <1>4 DEF Tokens, Budget, Doomed
<1>7. GaveUp(q) /\ UploadOK(q) /\ DeleteOK(q) /\ TodoOK(q, files, last)
  BY <1>3, <1>4 DEF GaveUp, UploadOK, DeleteOK, TodoOK, Retrying
<1>. QED  BY <1>1, <1>5, <1>6, <1>7, QuietStep DEF TaskOK, Start, q

LEMMA SendStep == ASSUME Inv, NEW t \in Tasks, Send(t)  PROVE Inv'
<1>. DEFINE r == task[t]  q == [task[t] EXCEPT !.sent = TRUE, !.token = auth]
<1>1. task' = [task EXCEPT ![t] = q] /\ UNCHANGED <<files, last, good, auth>> /\ ~ r.sent
  BY DEF Send
<1>2. TaskOK(r, files, last, auth, good) /\ r \in TaskStates /\ auth \in Nat /\ good \in Nat /\ auth <= good
  BY TaskFacts
<1>3. /\ q \in TaskStates /\ q.step = r.step /\ q.op = r.op /\ q.outcome = r.outcome /\ q.token = auth
      /\ q.answered = r.answered /\ q.tries = r.tries /\ q.sent /\ q.todo = r.todo
      /\ q.faults = r.faults /\ q.expiries = r.expiries /\ q.deletes = r.deletes /\ q.stored = r.stored
      /\ q.removed = r.removed /\ q.lost = r.lost /\ q.listed = r.listed /\ q.name = r.name
  BY <1>2 DEF TaskStates
<1> HIDE DEF q, r
<1>4. Fields(q) /\ Tokens(q, auth, good)
  BY <1>2, <1>3 DEF TaskOK, Fields, Tokens
<1>5. Budget(q, auth, good)
  BY <1>1, <1>2, <1>3 DEF TaskOK, Budget, Doomed
<1>6. GaveUp(q) /\ UploadOK(q) /\ DeleteOK(q)
  BY <1>2, <1>3 DEF TaskOK, GaveUp, UploadOK, DeleteOK
<1>7. TodoOK(q, files, last)
  <2>1. Calm(q) = Calm(r)
    BY <1>3 DEF Calm
  <2>. QED  BY <1>2, <1>3, <2>1 DEF TaskOK, TodoOK
<1>. QED  BY <1>1, <1>4, <1>5, <1>6, <1>7, QuietStep DEF TaskOK

(* A fault that r meets, in a state with the values fs to g.               *)
LEMMA TroubledLemma ==
  ASSUME NEW r, NEW fs, NEW l \in Nat, NEW a \in Nat, NEW g \in Nat, NEW a2 \in {a, g},
         TaskOK(r, fs, l, a, g), r.step \in Steps, r.sent
  PROVE  TaskOK(Again(Troubled(r)), fs, l, a2, g)
<1>. DEFINE q == Troubled(r)
<1>1. r \in TaskStates /\ r.tries \in Nat /\ r.faults \in Nat /\ r.expiries \in Nat /\ Retries \in Nat
  BY B2Assumption DEF TaskOK, Fields, TaskStates
<1>2. /\ q \in TaskStates /\ q.step = r.step /\ q.outcome = r.outcome /\ q.name = r.name
      /\ q.op = r.op /\ q.deletes = r.deletes /\ q.faults = r.faults + 1 /\ q.expiries = r.expiries
      /\ q.lost = r.lost /\ q.stored = r.stored /\ q.removed = r.removed /\ q.tries = r.tries
      /\ q.answered = r.answered /\ q.listed = r.listed /\ q.todo = r.todo
  BY <1>1, TroubledFacts
<1> HIDE DEF q
<1>3. Fields(q)
  BY <1>2 DEF TaskOK, Fields
<1>4. q.expiries = 0 => a2 = g
  BY <1>2 DEF TaskOK, Tokens
<1>5. q.step \in Retrying => \/ Retries + 1 <= r.tries + r.faults + r.expiries
                             \/ a = g /\ Retries <= r.tries + r.faults + r.expiries
  <2>1. CASE r.token = g
    BY <1>2, <2>1 DEF TaskOK, Tokens, Budget, Doomed
  <2>2. CASE r.token # g
    BY <1>1, <1>2, <2>2 DEF TaskOK, Budget, Doomed
  <2>. QED  BY <2>1, <2>2
<1>6. q.step \in Retrying => IF a2 # g THEN Retries + 2 <= q.tries + q.faults + q.expiries
                                       ELSE Retries + 1 <= q.tries + q.faults + q.expiries
  BY <1>1, <1>2, <1>5
<1>7. UploadOK(q) /\ DeleteOK(q)
  BY <1>2 DEF TaskOK, UploadOK, DeleteOK
<1>8. ~ Calm(q)
  BY <1>1, <1>2 DEF Calm
<1>9. TodoOK(q, fs, l)
  BY <1>2, <1>8 DEF TaskOK, TodoOK
<1>. QED  BY <1>2, <1>3, <1>4, <1>6, <1>7, <1>8, <1>9, AgainLemma DEF q

LEMMA FaultStep == ASSUME Inv, NEW t \in Tasks, Fault(t)  PROVE Inv'
<1>1. task[t].step \in Steps /\ task[t].sent
  BY TaskFacts DEF Fault, Running, TaskStates
<1>2. TaskOK(Again(Troubled(task[t])), files, last, auth, good)
  BY <1>1, TaskFacts, TroubledLemma
<1>. QED  BY <1>2, QuietStep DEF Fault

LEMMA DeniedStep == ASSUME Inv, NEW t \in Tasks, Denied(t)  PROVE Inv'
<1>. DEFINE r == task[t]
<1>1. r.step \in Retrying /\ r.step \in Steps /\ r.sent /\ r.token # good /\ UNCHANGED <<files, last, good>>
  BY DEF Denied, Awaits, Accepted, Retrying, Steps
<1>2. /\ TaskOK(r, files, last, auth, good) /\ last \in Nat /\ auth \in Nat /\ good \in Nat
      /\ files \subseteq Versions /\ \A f \in files : f.id <= last
  BY TaskFacts
<1>3. CASE auth' = good /\ task' = [task EXCEPT ![t] = Again(r)]
  <2>1. Retries + 1 <= r.tries + r.faults + r.expiries
    BY <1>1, <1>2 DEF TaskOK, Budget, Doomed
  <2>2. TaskOK(Again(r), files, last, good, good)
    BY <1>1, <1>2, <2>1, AgainLemma DEF TaskOK, Retrying
  <2>3. files' = files /\ last' = last /\ good' = good /\ auth' = good
    BY <1>1, <1>3
  <2>4. TaskOK(Again(r), files', last', auth', good')
    BY <2>2, <2>3
  <2>5. /\ last' \in Nat /\ last <= last' /\ files' \subseteq Versions /\ auth' \in {auth, good}
        /\ \A f \in files' : f.id <= last' /\ (f \in files \/ f.id > last)
    BY <1>2, <2>3
  <2>. QED  BY <1>3, <2>3, <2>4, <2>5, ActorStep
<1>4. CASE UNCHANGED auth /\ task' = [task EXCEPT ![t] = Again(Troubled(r))]
  <2>1. TaskOK(Again(Troubled(r)), files, last, auth, good)
    BY <1>1, <1>2, TroubledLemma
  <2>. QED  BY <1>1, <1>2, <1>4, <2>1, QuietStep
<1>. QED  BY <1>3, <1>4 DEF Denied, Authorize

LEMMA GrantedStep == ASSUME Inv, NEW t \in Tasks, Granted(t)  PROVE Inv'
<1>. DEFINE r == task[t]
            q == [task[t] EXCEPT !.step = "upload", !.tries = Retries, !.sent = FALSE, !.token = 0]
<1>1. task' = [task EXCEPT ![t] = q] /\ UNCHANGED <<files, last, good, auth>> /\ r.step = "url"
  BY DEF Granted, Awaits
<1>2. TaskOK(r, files, last, auth, good) /\ r \in TaskStates /\ Retries \in Nat /\ Retries >= 1
  BY TaskFacts, B2Assumption
<1>3. /\ q \in TaskStates /\ q.step = "upload" /\ q.op = r.op /\ q.outcome = r.outcome /\ q.tries = Retries
      /\ ~ q.sent /\ q.expiries = r.expiries /\ q.stored = r.stored /\ q.lost = r.lost /\ q.listed = r.listed
  BY <1>2 DEF TaskStates, Steps
<1> HIDE DEF q, r
<1>4. Fields(q) /\ Tokens(q, auth, good) /\ Budget(q, auth, good)
  BY <1>1, <1>2, <1>3 DEF TaskOK, Fields, Tokens, Budget, Steps, Retrying
<1>5. GaveUp(q) /\ UploadOK(q) /\ DeleteOK(q) /\ TodoOK(q, files, last)
  BY <1>1, <1>2, <1>3 DEF TaskOK, Fields, GaveUp, UploadOK, DeleteOK, TodoOK
<1>. QED  BY <1>1, <1>4, <1>5, QuietStep DEF TaskOK

LEMMA UnknownTypeStep == ASSUME Inv, NEW t \in Tasks, UnknownType(t)  PROVE Inv'
<1>. DEFINE r == task[t]  q == End(task[t], "ValueError")
<1>1. task' = [task EXCEPT ![t] = q] /\ UNCHANGED <<files, last, good, auth>> /\ r.step = "url"
  BY DEF UnknownType, Awaits
<1>2. TaskOK(r, files, last, auth, good) /\ r \in TaskStates /\ "ValueError" \in Outcomes
      /\ last \in Nat /\ auth \in Nat /\ good \in Nat
  BY TaskFacts DEF Outcomes
<1>3. q.step = "done" /\ q.op = r.op /\ q.outcome = "ValueError" /\ q.stored = r.stored
  BY <1>2, EndFacts
<1>4. r.op \in Uploads /\ r.stored = 0 /\ \A f \in r.listed : f.id <= last
  BY <1>1, <1>2 DEF TaskOK, Fields, UploadOK, TodoOK
<1>5. r.op # "b2_delete_file_async"
  BY <1>4 DEF Uploads
<1> HIDE DEF q, r
<1>6. GaveUp(q) /\ UploadOK(q) /\ DeleteOK(q)
  BY <1>3, <1>4, <1>5 DEF GaveUp, UploadOK, DeleteOK
<1>7. TaskOK(q, files, last, auth, good)
  BY <1>2, <1>4, <1>5, <1>6, EndLemma DEF q, r
<1>. QED  BY <1>1, <1>7, QuietStep

LEMMA StoreStep == ASSUME Inv, NEW t \in Tasks, Store(t)  PROVE Inv'
<1>. DEFINE r == task[t]  s == [task[t] EXCEPT !.stored = task[t].stored + 1]
            new == [name |-> task[t].name, id |-> last + 1]
<1>1. /\ r.step = "upload" /\ last' = last + 1 /\ good' = good /\ auth' = auth
      /\ files' = files \cup {new}
      /\ \E q \in Answered(s) : task' = [task EXCEPT ![t] = q]
  BY DEF Store, Awaits
<1>2. /\ TaskOK(r, files, last, auth, good) /\ r \in TaskStates
      /\ last \in Nat /\ last + 1 \in Nat /\ auth \in Nat /\ good \in Nat
      /\ files \subseteq Versions /\ \A f \in files : f.id <= last
  BY TaskFacts
<1>3. r.name \in Nat /\ r.stored \in Nat /\ r.faults \in Nat /\ r.tries \in Nat
  BY <1>2 DEF TaskStates
<1>4. new \in Versions /\ new.id = last + 1
  BY <1>2, <1>3 DEF Versions
<1>5. /\ s \in TaskStates /\ s.step = "upload" /\ s.op = r.op /\ s.stored = r.stored + 1 /\ s.lost = r.lost
      /\ s.listed = r.listed /\ s.tries = r.tries /\ s.expiries = r.expiries /\ s.outcome = r.outcome
      /\ s.faults = r.faults
  BY <1>1, <1>2, <1>3 DEF TaskStates
<1>6. /\ r.op \in Uploads /\ r.op # "b2_delete_file_async" /\ r.outcome = "none" /\ r.tries >= 1
      /\ ~ r.lost => r.stored = 0
      /\ \A f \in r.listed : f.id <= last
      /\ r.expiries = 0 => auth = good
  BY <1>1, <1>2 DEF TaskOK, Fields, Tokens, UploadOK, TodoOK, Steps, Uploads
<1>7. \A f \in s.listed : f.id <= last + 1
  <2>1. r.listed \subseteq Versions
    BY <1>2 DEF TaskStates
  <2>. QED  BY <1>2, <1>5, <1>6, <2>1 DEF Versions
<1> HIDE DEF s, r, new
<1>8. ASSUME NEW q \in Answered(s)  PROVE TaskOK(q, files', last + 1, auth, good)
  <2>1. ASSUME NEW o \in {"content", "AssertionError"}  PROVE TaskOK(End(s, o), files', last + 1, auth, good)
    <3>1. o \in Outcomes
      BY DEF Outcomes
    <3>2. LET e == End(s, o)
          IN  e.step = "done" /\ e.outcome = o /\ e.op = r.op /\ e.stored = r.stored + 1 /\ e.lost = r.lost
      BY <1>5, <3>1, EndFacts
    <3>3. GaveUp(End(s, o)) /\ UploadOK(End(s, o)) /\ DeleteOK(End(s, o))
      BY <1>3, <1>6, <3>2 DEF GaveUp, UploadOK, DeleteOK
    <3>. QED  BY <1>2, <1>5, <1>6, <1>7, <3>1, <3>3, EndLemma
  <2>2. TaskOK(Again([Troubled(s) EXCEPT !.lost = TRUE]), files', last + 1, auth, good)
    <3>1. /\ Troubled(s) \in TaskStates /\ Troubled(s).step = "upload" /\ Troubled(s).op = r.op
          /\ Troubled(s).outcome = "none" /\ Troubled(s).tries = r.tries /\ Troubled(s).expiries = r.expiries
          /\ Troubled(s).listed = r.listed
      BY <1>5, <1>6, TroubledFacts
    <3>. DEFINE e == [Troubled(s) EXCEPT !.lost = TRUE]
    <3>2. /\ e \in TaskStates /\ e.step = "upload" /\ e.op = r.op /\ e.outcome = "none" /\ e.tries = r.tries
          /\ e.expiries = r.expiries /\ e.listed = r.listed /\ e.lost
      BY <3>1 DEF TaskStates
    <3> HIDE DEF e
    <3>3. Fields(e) /\ e.step \in Steps /\ e.step \notin Retrying
      BY <1>6, <3>2 DEF Fields, Steps, Retrying
    <3>4. UploadOK(e) /\ DeleteOK(e) /\ TodoOK(e, files', last + 1)
      BY <1>5, <1>7, <3>2 DEF UploadOK, DeleteOK, TodoOK
    <3>. QED  BY <1>2, <1>6, <3>2, <3>3, <3>4, AgainLemma DEF e
  <2>. QED  BY <2>1, <2>2 DEF Answered
<1>9. /\ last' \in Nat /\ last <= last' /\ files' \subseteq Versions /\ auth' \in {auth, good}
      /\ \A f \in files' : f.id <= last' /\ (f \in files \/ f.id > last)
  <2>1. ASSUME NEW f \in files'  PROVE f.id <= last' /\ (f \in files \/ f.id > last)
    BY <1>1, <1>2, <1>4 DEF Versions
  <2>. QED  BY <1>1, <1>2, <1>4, <2>1
<1>. QED  BY <1>1, <1>8, <1>9, ActorStep

LEMMA ListedStep == ASSUME Inv, NEW t \in Tasks, Listed(t)  PROVE Inv'
<1>. DEFINE r == task[t]  page == Page(task[t].name)  todo == Wanted(page, task[t].name)
            s == [task[t] EXCEPT !.answered = TRUE, !.listed = todo]
<1>1. /\ r.step = "list" /\ UNCHANGED <<files, last, good, auth>>
      /\ task' = [task EXCEPT ![t] =
           CASE page = {}              -> End(s, "AssertionError")
             [] page # {} /\ todo = {} -> End(s, "False")
             [] OTHER -> [s EXCEPT !.step = "delete", !.todo = todo, !.tries = Retries,
                                   !.sent = FALSE, !.token = 0]]
  BY DEF Listed, Awaits
<1>2. /\ TaskOK(r, files, last, auth, good) /\ r \in TaskStates /\ Retries \in Nat /\ Retries >= 1
      /\ last \in Nat /\ auth \in Nat /\ good \in Nat
      /\ files \subseteq Versions /\ \A f \in files : f.id <= last
  BY TaskFacts, B2Assumption
<1>3. todo \subseteq files /\ \A f \in todo : f.name = r.name
  BY DEF Page, Wanted
<1>4. todo \in SUBSET Versions /\ \A f \in todo : f.id <= last
  BY <1>2, <1>3
<1> HIDE DEF page, todo
<1>5. /\ s \in TaskStates /\ s.op = r.op /\ s.answered /\ s.listed = todo /\ s.outcome = r.outcome
      /\ s.deletes = r.deletes /\ s.removed = r.removed /\ s.name = r.name /\ s.lost = r.lost
      /\ s.expiries = r.expiries /\ s.faults = r.faults
  BY <1>2, <1>4 DEF TaskStates
<1>6. /\ r.op = "b2_delete_file_async" /\ r.op \notin Uploads /\ r.outcome = "none"
      /\ r.deletes = 0 /\ r.removed = 0 /\ (r.expiries = 0 => auth = good)
  BY <1>1, <1>2 DEF TaskOK, Fields, Tokens, DeleteOK, Steps, Retrying, Uploads
<1> HIDE DEF s
<1>7. ASSUME NEW o \in {"AssertionError", "False"}, o = "False" => todo = {}
      PROVE  TaskOK(End(s, o), files, last, auth, good)
  <2>1. o \in Outcomes
    BY DEF Outcomes
  <2>2. LET e == End(s, o)
        IN  e.step = "done" /\ e.outcome = o /\ e.op = r.op /\ e.answered /\ e.removed = 0
    BY <1>5, <1>6, <2>1, EndFacts
  <2>3. GaveUp(End(s, o)) /\ UploadOK(End(s, o)) /\ DeleteOK(End(s, o))
    BY <1>6, <1>7, <2>2 DEF GaveUp, UploadOK, DeleteOK
  <2>4. o # "AssertionError" => s.listed \cap files = {}
    BY <1>5, <1>7
  <2>. QED  BY <1>2, <1>4, <1>5, <2>1, <2>3, <2>4, EndLemma
<1>8. CASE task' = [task EXCEPT ![t] = End(s, "AssertionError")]
  BY <1>1, <1>7, <1>8, QuietStep
<1>9. CASE todo = {} /\ task' = [task EXCEPT ![t] = End(s, "False")]
  BY <1>1, <1>7, <1>9, QuietStep
<1>10. CASE /\ todo # {}
            /\ task' = [task EXCEPT ![t] = [s EXCEPT !.step = "delete", !.todo = todo, !.tries = Retries,
                                                     !.sent = FALSE, !.token = 0]]
  <2>. DEFINE e == [s EXCEPT !.step = "delete", !.todo = todo, !.tries = Retries, !.sent = FALSE, !.token = 0]
  <2>1. /\ e \in TaskStates /\ e.step = "delete" /\ e.op = "b2_delete_file_async" /\ e.answered
        /\ e.listed = todo /\ e.todo = todo /\ e.outcome = "none" /\ e.tries = Retries /\ ~ e.sent
        /\ e.deletes = 0 /\ e.removed = 0 /\ e.name = r.name /\ e.expiries = r.expiries
    <3>1. todo \subseteq Versions /\ Retries \in Nat
      BY <1>2, <1>4
    <3>2. e \in TaskStates
      BY <1>5, <3>1 DEF TaskStates, Steps
    <3>. QED  BY <1>5, <1>6, <3>2 DEF TaskStates
  <2> HIDE DEF e
  <2>2. Fields(e) /\ Tokens(e, auth, good) /\ Budget(e, auth, good)
    BY <1>2, <1>6, <2>1 DEF Fields, Tokens, Budget, Steps, Retrying
  <2>3. GaveUp(e) /\ UploadOK(e) /\ DeleteOK(e) /\ TodoOK(e, files, last)
    BY <1>3, <1>4, <1>10, <2>1 DEF GaveUp, UploadOK, DeleteOK, TodoOK
  <2>. QED  BY <1>1, <1>10, <2>2, <2>3, QuietStep DEF TaskOK, e
<1>11. page = {} \/ (page # {} /\ todo = {}) \/ (page # {} /\ todo # {})
  OBVIOUS
<1>. QED  BY <1>1, <1>8, <1>9, <1>10, <1>11

LEMMA DeletedStep == ASSUME Inv, NEW t \in Tasks, Deleted(t)  PROVE Inv'
<1>. DEFINE r == task[t]  s == [task[t] EXCEPT !.removed = task[t].removed + 1]
            c == [s EXCEPT !.deletes = s.deletes + 1]  e == [Troubled(s) EXCEPT !.lost = TRUE]
<1>1. /\ r.step = "delete" /\ last' = last /\ good' = good /\ auth' = auth
      /\ files' = files \ {First(r.todo)}
      /\ task' = [task EXCEPT ![t] = NextFile(c)] \/ task' = [task EXCEPT ![t] = Again(e)]
  BY DEF Deleted, Awaits
<1>2. /\ TaskOK(r, files, last, auth, good) /\ r \in TaskStates
      /\ last \in Nat /\ auth \in Nat /\ good \in Nat
      /\ files \subseteq Versions /\ \A f \in files : f.id <= last
  BY TaskFacts
<1>3. TaskOK(r, files', last, auth, good) /\ First(r.todo) \notin files'
  <2>1. \A f \in files' : f \in files \/ f.id > last
    BY <1>1
  <2>. QED  BY <1>1, <1>2, <2>1, EnvLemma
<1>4. r.removed \in Nat /\ r.deletes \in Nat /\ r.faults \in Nat /\ r.expiries \in Nat
  BY <1>2 DEF TaskStates
<1>5. /\ s \in TaskStates /\ s.step = "delete" /\ s.op = r.op /\ s.outcome = r.outcome /\ s.tries = r.tries
      /\ s.answered = r.answered /\ s.removed = r.removed + 1 /\ s.deletes = r.deletes /\ s.lost = r.lost
      /\ s.faults = r.faults /\ s.expiries = r.expiries /\ s.listed = r.listed /\ s.todo = r.todo
      /\ s.name = r.name /\ s.stored = r.stored
  BY <1>1, <1>2, <1>4 DEF TaskStates
<1>6. /\ r.op = "b2_delete_file_async" /\ r.outcome = "none" /\ r.answered /\ r.tries >= 1
      /\ r.deletes <= r.removed /\ (~ r.lost => r.deletes = r.removed)
      /\ r.expiries = 0 => auth = good
      /\ r.step \in Steps /\ r.step \notin Retrying
  BY <1>1, <1>2 DEF TaskOK, Fields, Tokens, DeleteOK, Steps, Retrying
<1>7. TaskOK(NextFile(c), files', last, auth, good)
  <2>1. /\ c \in TaskStates /\ c.step = "delete" /\ c.op = r.op /\ c.outcome = r.outcome /\ c.tries = r.tries
        /\ c.answered = r.answered /\ c.removed = r.removed + 1 /\ c.deletes = r.deletes + 1 /\ c.lost = r.lost
        /\ c.faults = r.faults /\ c.expiries = r.expiries /\ c.listed = r.listed /\ c.todo = r.todo
        /\ c.name = r.name
    <3>1. s.deletes + 1 \in Nat
      BY <1>4, <1>5
    <3> HIDE DEF s, r
    <3>. QED  BY <1>5, <3>1 DEF TaskStates
  <2> HIDE DEF s, c, e, r
  <2>2. Fields(c) /\ DeleteOK(c)
    BY <1>4, <1>6, <2>1 DEF Fields, DeleteOK, Steps, Retrying
  <2>3. TodoOK(c, files', last)
    BY <1>1, <1>3, <2>1 DEF TaskOK, TodoOK, Calm
  <2>. QED  BY <1>2, <1>3, <1>6, <2>1, <2>2, <2>3, NextFileLemma
<1>8. TaskOK(Again(e), files', last, auth, good)
  <2>1. /\ Troubled(s) \in TaskStates /\ Troubled(s).step = "delete" /\ Troubled(s).op = r.op
        /\ Troubled(s).outcome = r.outcome /\ Troubled(s).tries = r.tries
        /\ Troubled(s).answered = r.answered /\ Troubled(s).removed = r.removed + 1
        /\ Troubled(s).deletes = r.deletes /\ Troubled(s).faults = r.faults + 1
        /\ Troubled(s).expiries = r.expiries /\ Troubled(s).listed = r.listed
        /\ Troubled(s).todo = r.todo /\ Troubled(s).name = r.name
    <3>. HIDE DEF s, c, e, r
    <3>. QED  BY <1>5, TroubledFacts
  <2>2. /\ e \in TaskStates /\ e.step = "delete" /\ e.op = r.op /\ e.outcome = r.outcome /\ e.tries = r.tries
        /\ e.answered = r.answered /\ e.removed = r.removed + 1 /\ e.deletes = r.deletes /\ e.lost
        /\ e.faults = r.faults + 1 /\ e.expiries = r.expiries /\ e.listed = r.listed /\ e.todo = r.todo
        /\ e.name = r.name
    BY <2>1 DEF TaskStates
  <2> HIDE DEF s, c, e, r
  <2>3. ~ Calm(e) /\ e.step \in Steps /\ e.step \notin Retrying
    BY <1>1, <1>4, <1>6, <2>2 DEF Calm
  <2>4. Fields(e) /\ DeleteOK(e) /\ UploadOK(e)
    BY <1>4, <1>6, <2>2 DEF Fields, DeleteOK, UploadOK, Steps, Retrying
  <2>5. TodoOK(e, files', last)
    BY <1>1, <1>3, <2>2, <2>3 DEF TaskOK, TodoOK
  <2>. QED  BY <1>2, <1>6, <2>2, <2>3, <2>4, <2>5, AgainLemma
<1>9. /\ last' \in Nat /\ last <= last' /\ files' \subseteq Versions /\ auth' \in {auth, good}
      /\ \A f \in files' : f.id <= last' /\ (f \in files \/ f.id > last)
  BY <1>1, <1>2
<1>10. CASE task' = [task EXCEPT ![t] = NextFile(c)]
  <2>1. TaskOK(NextFile(c), files', last', auth', good')
    BY <1>1, <1>7
  <2>. QED  BY <1>1, <1>9, <1>10, <2>1, ActorStep
<1>11. CASE task' = [task EXCEPT ![t] = Again(e)]
  <2>1. TaskOK(Again(e), files', last', auth', good')
    BY <1>1, <1>8
  <2>. QED  BY <1>1, <1>9, <1>11, <2>1, ActorStep
<1>. QED  BY <1>1, <1>10, <1>11

LEMMA RefusedStep == ASSUME Inv, NEW t \in Tasks, Refused(t)  PROVE Inv'
<1>. DEFINE r == task[t]
<1>1. /\ r.step = "delete" /\ r.sent /\ UNCHANGED <<files, last, good, auth>>
      /\ r.token # good \/ First(r.todo) \notin files
      /\ task' = [task EXCEPT ![t] = Again(r)]
  BY DEF Refused, Awaits, Accepted
<1>2. /\ TaskOK(r, files, last, auth, good) /\ last \in Nat /\ auth \in Nat /\ good \in Nat
  BY TaskFacts
<1>3. r.step \in Steps /\ r.step \notin Retrying
  BY <1>1 DEF Steps, Retrying
<1>4. (r.expiries = 0 => auth = good) /\ (Calm(r) => First(r.todo) \notin files)
  BY <1>1, <1>2, <1>3 DEF TaskOK, Tokens, Calm
<1>5. TaskOK(Again(r), files, last, auth, good)
  BY <1>2, <1>3, <1>4, AgainLemma DEF TaskOK
<1>. QED  BY <1>1, <1>5, QuietStep

LEMMA InfoStep == ASSUME Inv, NEW t \in Tasks, Info(t)  PROVE Inv'
<1>1. task[t].step = "info" /\ UNCHANGED <<files, last, good, auth>>
  BY DEF Info, Awaits
<1>2. PICK o \in {"content", "UnboundLocalError"} : task' = [task EXCEPT ![t] = End(task[t], o)]
  BY DEF Info
<1>3. /\ TaskOK(task[t], files, last, auth, good) /\ task[t] \in TaskStates
      /\ last \in Nat /\ auth \in Nat /\ good \in Nat /\ o \in Outcomes
  BY TaskFacts DEF Outcomes
<1>4. task[t].op = "b2_get_file_info" /\ \A f \in task[t].listed : f.id <= last
  BY <1>1, <1>3 DEF TaskOK, Fields, TodoOK
<1>5. LET e == End(task[t], o)  IN  e.step = "done" /\ e.outcome = o /\ e.op = "b2_get_file_info"
  BY <1>3, <1>4, EndFacts
<1>6. GaveUp(End(task[t], o)) /\ UploadOK(End(task[t], o)) /\ DeleteOK(End(task[t], o))
  BY <1>5 DEF GaveUp, UploadOK, DeleteOK, Uploads
<1>7. TaskOK(End(task[t], o), files, last, auth, good)
  BY <1>3, <1>4, <1>6, EndLemma
<1>. QED  BY <1>1, <1>2, <1>7, QuietStep

LEMMA ExpireStep == ASSUME Inv, Expire  PROVE Inv'
<1>1. /\ good' = good + 1 /\ files' = files /\ last' = last /\ auth' = auth
      /\ task' = [t \in Tasks |-> IF Running(t) THEN [task[t] EXCEPT !.expiries = @ + 1] ELSE task[t]]
  BY DEF Expire
<1>2. StateOK /\ good \in Nat /\ auth \in Nat /\ last \in Nat /\ auth <= good
  BY DEF Inv, StateOK
<1>3. StateOK'
  BY <1>1, <1>2 DEF StateOK
<1>4. ASSUME NEW t \in Tasks
      PROVE  task'[t] \in TaskStates /\ TaskOK(task'[t], files, last, auth, good + 1)
  <2>1. TaskOK(task[t], files, last, auth, good)
    BY TaskFacts
  <2>2. task'[t] = IF task[t].step \notin {"idle", "done"} THEN [task[t] EXCEPT !.expiries = @ + 1]
                                                          ELSE task[t]
    BY <1>1 DEF Running
  <2>. QED  BY <1>2, <2>1, <2>2, ExpireLemma
<1>5. task' \in [Tasks -> TaskStates]
  BY <1>1, <1>4
<1>. QED  BY <1>1, <1>3, <1>4, <1>5 DEF Inv, TasksOK

LEMMA InitInv == Init => Inv
<1>. SUFFICES ASSUME Init  PROVE Inv
  OBVIOUS
<1>1. last \in Nat /\ Names \subseteq Nat /\ Kept \subseteq [name : Names, id : 1 .. last]
  BY B2Assumption, FS_CardinalityType DEF Init
<1>2. StateOK
  <2>1. files \subseteq Versions /\ \A f \in files : f.id <= last
    <3>1. ASSUME NEW f \in files  PROVE f \in Versions /\ f.id <= last
      <4>1. f \in [name : Names, id : 1 .. last]
        BY <1>1 DEF Init
      <4>2. f.name \in Nat /\ f.id \in 1 .. last
        BY <1>1, <4>1
      <4>3. f = [name |-> f.name, id |-> f.id]
        BY <4>1
      <4>. QED  BY <1>1, <4>2, <4>3 DEF Versions
    <3>. QED  BY <3>1
  <2>. QED  BY <1>1, <2>1 DEF Init, StateOK
<1>3. ASSUME NEW r, r = Idle  PROVE TaskOK(r, files, last, auth, good)
  <2>1. Fields(r)
    BY <1>3, IdleFacts DEF Fields, Steps, Retrying
  <2>2. Tokens(r, auth, good) /\ Budget(r, auth, good) /\ GaveUp(r) /\ UploadOK(r) /\ DeleteOK(r)
    BY <1>3, IdleFacts DEF Tokens, Budget, GaveUp, UploadOK, DeleteOK, Steps, Retrying
  <2>3. TodoOK(r, files, last)
    BY <1>3, IdleFacts DEF TodoOK
  <2>. QED  BY <2>1, <2>2, <2>3 DEF TaskOK
<1>4. TasksOK
  BY <1>3, IdleFacts DEF Init, TasksOK
<1>. QED  BY <1>2, <1>4 DEF Inv

LEMMA StepInv == Inv /\ [Next]_vars => Inv'
<1>. SUFFICES ASSUME Inv, [Next]_vars  PROVE Inv'
  OBVIOUS
<1>1. CASE \E t \in Tasks :
             \/ StartUpload(t) \/ StartUploadAsync(t) \/ StartDelete(t) \/ StartInfo(t)
             \/ Send(t) \/ Fault(t) \/ Denied(t) \/ Upload(t) \/ UploadAsync(t)
             \/ Listed(t) \/ Deleted(t) \/ Refused(t) \/ Info(t)
  <2>. PICK t \in Tasks :
         \/ StartUpload(t) \/ StartUploadAsync(t) \/ StartDelete(t) \/ StartInfo(t)
         \/ Send(t) \/ Fault(t) \/ Denied(t) \/ Upload(t) \/ UploadAsync(t)
         \/ Listed(t) \/ Deleted(t) \/ Refused(t) \/ Info(t)
    BY <1>1
  <2>1. CASE StartUpload(t) \/ StartUploadAsync(t) \/ StartDelete(t) \/ StartInfo(t)
    BY <2>1, StartStep DEF StartUpload, StartUploadAsync, StartDelete, StartInfo
  <2>2. CASE Send(t)
    BY <2>2, SendStep
  <2>3. CASE Fault(t)
    BY <2>3, FaultStep
  <2>4. CASE Denied(t)
    BY <2>4, DeniedStep
  <2>5. CASE Upload(t) \/ UploadAsync(t)
    BY <2>5, GrantedStep, UnknownTypeStep, StoreStep DEF Upload, UploadAsync
  <2>6. CASE Listed(t)
    BY <2>6, ListedStep
  <2>7. CASE Deleted(t)
    BY <2>7, DeletedStep
  <2>8. CASE Refused(t)
    BY <2>8, RefusedStep
  <2>9. CASE Info(t)
    BY <2>9, InfoStep
  <2>. QED  BY <2>1, <2>2, <2>3, <2>4, <2>5, <2>6, <2>7, <2>8, <2>9
<1>2. CASE Expire
  BY <1>2, ExpireStep
<1>3. CASE UNCHANGED vars
  BY <1>3 DEF vars, Inv, StateOK, TasksOK
<1>. QED  BY <1>1, <1>2, <1>3 DEF Next

(* Inv is an invariant of uploads, deletes and lookups (backblaze.py).     *)
THEOREM Invariance == Spec => []Inv
BY InitInv, StepInv, PTL DEF Spec

(* An upload that returns has stored the file, and one of which no answer  *)
(* was lost has stored it once or not at all, as it says (backblaze.py,    *)
(* lines 199, 211, 311 and 323).                                           *)
THEOREM UploadTheorem == Spec => []UploadTruthful
<1>1. Inv => UploadTruthful
  BY TaskFacts DEF UploadTruthful, Finished, TaskOK, UploadOK
<1>. QED  BY <1>1, Invariance, PTL

(* A delete tells truly whether it removed something, and undisturbed it   *)
(* leaves nothing of what it was listed (backblaze.py, lines 254-278).     *)
THEOREM DeleteTheorem == Spec => []DeleteTruthful
<1>1. Inv => DeleteTruthful
  BY TaskFacts DEF DeleteTruthful, Finished, TaskOK, DeleteOK, TodoOK, Calm
<1>. QED  BY <1>1, Invariance, PTL

(* A failure for want of tries was preceded by b2_max_retries faults and   *)
(* expirations (backblaze.py, lines 113, 151, 243 and 354).                *)
THEOREM RetriesTheorem == Spec => []GivesUpOnlyWhenTried
<1>1. Inv => GivesUpOnlyWhenTried
  <2>. SUFFICES ASSUME Inv, NEW t \in Tasks,
                       \/ task[t].outcome \in {"B2AuthorizationError", "None"}
                       \/ Finished(t, {"b2_delete_file_async"}) /\ ~ task[t].answered
                PROVE  task[t].faults + task[t].expiries >= Retries
    BY DEF GivesUpOnlyWhenTried
  <2>1. GaveUp(task[t])
    BY TaskFacts DEF TaskOK
  <2>. QED  BY <2>1 DEF GaveUp, Finished
<1>. QED  BY <1>1, Invariance, PTL

(* Only a version of the name that a task is deleting leaves the bucket    *)
(* (backblaze.py, line 257).                                               *)
THEOREM OthersTheorem == Spec => OthersUntouched
<1>. DEFINE Untouched == \A f \in files \ files' :
              \E t \in Tasks : task[t].step = "delete" /\ task[t].name = f.name
<1>1. ASSUME Inv, NEW t \in Tasks, Deleted(t)  PROVE Untouched
  <2>1. task[t].step = "delete" /\ files' = files \ {First(task[t].todo)}
    BY <1>1 DEF Deleted, Awaits
  <2>2. TaskOK(task[t], files, last, auth, good) /\ task[t] \in TaskStates /\ last \in Nat
    BY <1>1, TaskFacts
  <2>3. /\ task[t].todo \in SUBSET Versions /\ task[t].todo # {}
        /\ \A f \in task[t].todo : f.name = task[t].name /\ f.id <= last
    BY <2>1, <2>2 DEF TaskOK, TodoOK, TaskStates
  <2>4. First(task[t].todo) \in task[t].todo
    BY <2>2, <2>3, FirstFacts
  <2>. QED  BY <2>1, <2>3, <2>4
<1>2. ASSUME Inv, [Next]_vars, ~ \E t \in Tasks : Deleted(t)  PROVE files \subseteq files'
  BY <1>2 DEF Next, vars, StartUpload, StartUploadAsync, StartDelete, StartInfo, Start, Send, Fault, Denied,
              Upload, UploadAsync, Granted, UnknownType, Store, Listed, Refused, Info, Expire
<1>3. Inv /\ [Next]_vars => Untouched
  BY <1>1, <1>2
<1>4. Inv /\ [Next]_vars => [Untouched]_vars
  BY <1>3
<1>. QED  BY <1>4, Invariance, PTL DEF Spec, OthersUntouched
=============================================================================
