---------------------------- MODULE B2Interface -----------------------------
(***************************************************************************)
(* kh_common/backblaze.py: uploads, deletes and lookups that coroutines    *)
(* (or threads, for b2_upload) run against Backblaze over the one token    *)
(* B2Interface.b2_auth_token.                                              *)
(*                                                                         *)
(* A request is two steps: it is sent with the token of that moment, and   *)
(* answered, or not, later.  What it does in the bucket happens with the   *)
(* answer, which may be lost on its way.  _b2_authorize blocks the event   *)
(* loop, so it is part of the step that gets the 401; backoff is left out. *)
(* An operation that gives up raises an error built from the last reply;   *)
(* which one (JSONDecodeError, if that is no JSON) is left open.           *)
(***************************************************************************)
EXTENDS Integers, FiniteSets

CONSTANTS
  Tasks,
  Names,        \* names of files: numbers, in the order in which they are listed
  Retries,      \* b2_max_retries
  PageSize,     \* maxFileCount of the list requests, 5 in the code
  Kept,         \* versions that may be in the bucket at the start
  MaxOps,       \* operations of one task, for model checking only
  MaxExpiries   \* how often the token expires, for model checking only

ASSUME B2Assumption ==
  /\ Names \subseteq Nat
  /\ Retries \in Nat \ {0} /\ PageSize \in Nat \ {0}
  /\ IsFiniteSet(Kept) /\ Kept \subseteq [name : Names, id : 1 .. Cardinality(Kept)]
  /\ MaxOps \in Nat /\ MaxExpiries \in Nat

VARIABLES
  files,   \* the versions in the bucket; a later one has a greater id
  last,    \* the greatest id so far
  good,    \* the number of the token that the server accepts
  auth,    \* the number of the token in b2_auth_token
  task     \* locals of the operation that each task runs, or has finished

vars == <<files, last, good, auth, task>>

Uploads == {"b2_upload", "b2_upload_async"}

(* faults, expiries, lost, stored, removed, answered and listed are history: *)
(* the trouble the operation met, what it did and what it was told         *)
Idle == [op |-> "none", ops |-> 0, name |-> 0, step |-> "idle", sent |-> FALSE, token |-> 0,
         tries |-> 0, todo |-> {}, deletes |-> 0, outcome |-> "none",
         faults |-> 0, expiries |-> 0, lost |-> FALSE, stored |-> 0, removed |-> 0,
         answered |-> FALSE, listed |-> {}]

(* __init__ ends in a successful _b2_authorize *)
Init ==
  /\ files \in SUBSET Kept
  /\ last = Cardinality(Kept)
  /\ good = 1 /\ auth = 1
  /\ task = [t \in Tasks |-> Idle]
-----------------------------------------------------------------------------
Running(t) == task[t].step \notin {"idle", "done"}

(* the request of that step has been sent and its answer is due *)
Awaits(t, step) == task[t].step = step /\ task[t].sent

Accepted(t) == task[t].token = good

End(r, outcome) == [r EXCEPT !.step = "done", !.outcome = outcome, !.sent = FALSE,
                             !.tries = 0, !.todo = {}, !.token = 0]

(* the order in which Backblaze lists: by name, newer versions first *)
Before(f, g) == f.name < g.name \/ (f.name = g.name /\ f.id > g.id)

(* the version that a delete is at *)
First(todo) == CHOOSE f \in todo : \A g \in todo \ {f} : Before(f, g)

(* mutant: only the first version is deleted *)
NextFile_None(r) == End(r, IF r.deletes > 0 THEN "True" ELSE "False")

(* the next pass of "for file in files", or the end of it *)
NextFile(r) ==
  IF r.todo \ {First(r.todo)} # {}
  THEN [r EXCEPT !.todo = r.todo \ {First(r.todo)}, !.tries = Retries, !.sent = FALSE]
  ELSE End(r, IF r.deletes > 0 THEN "True" ELSE "False")

GiveUp(r) ==
  CASE r.step = "url"    -> End(r, "B2AuthorizationError")
    [] r.step = "upload" -> End(r, "B2UploadError")
    [] r.step = "list"   -> End(r, "AssertionError")
    [] r.step = "info"   -> End(r, "None")
    [] r.step = "delete" -> NextFile(r)

(* the next pass of "for _ in range(self.b2_max_retries)", or the end of it *)
Again(r) ==
  IF r.tries > 1 THEN [r EXCEPT !.tries = @ - 1, !.sent = FALSE] ELSE GiveUp(r)

Troubled(r) == [r EXCEPT !.faults = @ + 1]

(* what Backblaze lists: one page, from a name on *)
Page(n) ==
  LET from == {f \in files : f.name >= n}
  IN  {f \in from : Cardinality({g \in from : Before(g, f)}) < PageSize}

(* mutant: everything that is listed *)
Wanted_All(page, n) == page

(* the versions that b2_delete_file_async does not "continue" past *)
Wanted(page, n) == {f \in page : f.name = n}
-----------------------------------------------------------------------------
Start(t, op, step) ==
  /\ ~ Running(t) /\ task[t].ops < MaxOps
  /\ \E n \in Names :
       task' = [task EXCEPT ![t] = [Idle EXCEPT
         !.op = op, !.ops = task[t].ops + 1, !.name = n, !.step = step, !.tries = Retries,
         !.expiries = IF auth = good THEN 0 ELSE 1]]
  /\ UNCHANGED <<files, last, good, auth>>

StartUpload(t) == Start(t, "b2_upload", "url")
StartUploadAsync(t) == Start(t, "b2_upload_async", "url")
StartDelete(t) == Start(t, "b2_delete_file_async", "list")
StartInfo(t) == Start(t, "b2_get_file_info", "info")

(* a request leaves with the token of this moment (an upload with one of   *)
(* its own)                                                                *)
Send(t) ==
  /\ Running(t) /\ ~ task[t].sent
  /\ task' = [task EXCEPT ![t] = [task[t] EXCEPT !.sent = TRUE, !.token = auth]]
  /\ UNCHANGED <<files, last, good, auth>>

(* no answer, an error status or an answer that does not parse *)
Fault(t) ==
  /\ Running(t) /\ task[t].sent
  /\ task' = [task EXCEPT ![t] = Again(Troubled(task[t]))]
  /\ UNCHANGED <<files, last, good, auth>>

(* _b2_authorize: its tries end with the server's token, or in an exception *)
(* that the caller's loop takes for a failed try                           *)
Authorize(t) ==
  \/ auth' = good /\ task' = [task EXCEPT ![t] = Again(task[t])]
  \/ UNCHANGED auth /\ task' = [task EXCEPT ![t] = Again(Troubled(task[t]))]

(* mutant: the next try uses the old token *)
Denied_NotRenewed(t) ==
  /\ \E step \in {"url", "list", "info"} : Awaits(t, step)
  /\ ~ Accepted(t)
  /\ task' = [task EXCEPT ![t] = Again(task[t])]
  /\ UNCHANGED <<files, last, good, auth>>

(* 401 *)
Denied(t) ==
  /\ \E step \in {"url", "list", "info"} : Awaits(t, step)
  /\ ~ Accepted(t)
  /\ Authorize(t)
  /\ UNCHANGED <<files, last, good>>

(* an upload URL is granted; only then is the type of the file looked up,  *)
(* and a name whose extension is not known ends the call                   *)
Granted(t) ==
  /\ Awaits(t, "url") /\ Accepted(t)
  /\ task' = [task EXCEPT ![t] = [task[t] EXCEPT !.step = "upload", !.tries = Retries,
                                                 !.sent = FALSE, !.token = 0]]
  /\ UNCHANGED <<files, last, good, auth>>

UnknownType(t) ==
  /\ Awaits(t, "url") /\ Accepted(t)
  /\ task' = [task EXCEPT ![t] = End(task[t], "ValueError")]
  /\ UNCHANGED <<files, last, good, auth>>

(* mutant: an answer that does not describe the file is a failed try *)
Answered_Retried(r) ==
  {End(r, "content"), Again(r), Again([Troubled(r) EXCEPT !.lost = TRUE])}

(* the answer to an upload describes the file that was sent, or does not   *)
(* and an assertion fails, or is lost                                      *)
Answered(r) ==
  {End(r, "content"), End(r, "AssertionError"), Again([Troubled(r) EXCEPT !.lost = TRUE])}

(* the file is stored, whatever becomes of the answer *)
Store(t) ==
  /\ Awaits(t, "upload")
  /\ last' = last + 1
  /\ files' = files \cup {[name |-> task[t].name, id |-> last']}
  /\ \E r \in Answered([task[t] EXCEPT !.stored = @ + 1]) : task' = [task EXCEPT ![t] = r]
  /\ UNCHANGED <<good, auth>>

Upload(t) == task[t].op = "b2_upload" /\ (Granted(t) \/ UnknownType(t) \/ Store(t))
UploadAsync(t) == task[t].op = "b2_upload_async" /\ (Granted(t) \/ UnknownType(t) \/ Store(t))

(* "assert files", and on to the first of them that has the name *)
Listed(t) ==
  /\ Awaits(t, "list") /\ Accepted(t)
  /\ LET page == Page(task[t].name)
         todo == Wanted(page, task[t].name)
         r == [task[t] EXCEPT !.answered = TRUE, !.listed = todo]
     IN  task' = [task EXCEPT ![t] =
           CASE page = {}              -> End(r, "AssertionError")
             [] page # {} /\ todo = {} -> End(r, "False")
             [] OTHER -> [r EXCEPT !.step = "delete", !.todo = todo, !.tries = Retries,
                                   !.sent = FALSE, !.token = 0]]
  /\ UNCHANGED <<files, last, good, auth>>

Deleted(t) ==
  /\ Awaits(t, "delete") /\ Accepted(t)
  /\ First(task[t].todo) \in files
  /\ files' = files \ {First(task[t].todo)}
  /\ LET r == [task[t] EXCEPT !.removed = @ + 1]
     IN  task' = [task EXCEPT ![t] =
                    NextFile([r EXCEPT !.deletes = @ + 1])]
         \/ task' = [task EXCEPT ![t] = Again([Troubled(r) EXCEPT !.lost = TRUE])]
  /\ UNCHANGED <<last, good, auth>>

(* raise_for_status: the token has expired, which is not looked at here, or *)
(* the version is gone already                                             *)
Refused(t) ==
  /\ Awaits(t, "delete")
  /\ ~ Accepted(t) \/ First(task[t].todo) \notin files
  /\ task' = [task EXCEPT ![t] = Again(task[t])]
  /\ UNCHANGED <<files, last, good, auth>>

(* if no version has the name, the handler of StopIteration logs a name    *)
(* that is not bound, and that exception ends the call                     *)
Info(t) ==
  /\ Awaits(t, "info") /\ Accepted(t)
  /\ LET found == Wanted(Page(task[t].name), task[t].name) # {}
     IN  task' = [task EXCEPT ![t] = End(task[t], IF found THEN "content" ELSE "UnboundLocalError")]
  /\ UNCHANGED <<files, last, good, auth>>

(* the server no longer accepts the token *)
Expire ==
  /\ good <= MaxExpiries
  /\ good' = good + 1
  /\ task' = [t \in Tasks |-> IF Running(t) THEN [task[t] EXCEPT !.expiries = @ + 1] ELSE task[t]]
  /\ UNCHANGED <<files, last, auth>>

Next ==
  \/ \E t \in Tasks :
       \/ StartUpload(t) \/ StartUploadAsync(t) \/ StartDelete(t) \/ StartInfo(t)
       \/ Send(t) \/ Fault(t) \/ Denied(t)
       \/ Upload(t) \/ UploadAsync(t)
       \/ Listed(t) \/ Deleted(t) \/ Refused(t) \/ Info(t)
  \/ Expire

Spec == Init /\ [][Next]_vars
-----------------------------------------------------------------------------
Finished(t, ops) == task[t].step = "done" /\ task[t].op \in ops

(* UploadTruthful: an upload that returns has stored the file (lines 199,  *)
(* 311); it stores it once, and not at all if it ends in another exception *)
(* than an assertion, unless the answer to a try was lost (lines 211, 323).*)
UploadTruthful ==
  \A t \in Tasks : Finished(t, Uploads) =>
    /\ task[t].outcome = "content" => task[t].stored > 0
    /\ ~ task[t].lost =>
         task[t].stored = (IF task[t].outcome \in {"content", "AssertionError"} THEN 1 ELSE 0)

(* DeleteTruthful: b2_delete_file_async says True only if it removed a     *)
(* version, and False only if it removed none or an answer was lost; if    *)
(* nothing failed and the token did not expire meanwhile, every version it *)
(* was listed is gone (lines 254-278), whoever removed it.                 *)
DeleteTruthful ==
  \A t \in Tasks : Finished(t, {"b2_delete_file_async"}) /\ task[t].outcome # "AssertionError" =>
    /\ task[t].outcome = "True" => task[t].removed > 0
    /\ task[t].outcome = "False" /\ ~ task[t].lost => task[t].removed = 0
    /\ task[t].faults = 0 /\ task[t].expiries = 0 => task[t].listed \cap files = {}

(* GivesUpOnlyWhenTried: obtaining an upload URL, listing and looking up   *)
(* fail only after as many tries as b2_max_retries met a fault or a token  *)
(* that expired: a token renewed after a 401, by whichever task, is the    *)
(* one the next try uses (lines 113, 151, 243, 354).                       *)
GivesUpOnlyWhenTried ==
  \A t \in Tasks :
    \/ task[t].outcome \in {"B2AuthorizationError", "None"}
    \/ Finished(t, {"b2_delete_file_async"}) /\ ~ task[t].answered
    => task[t].faults + task[t].expiries >= Retries

(* OthersUntouched: a version leaves the bucket only while some task is    *)
(* deleting its name, although the list a delete works on begins at the    *)
(* name and goes on with others (line 257).                                *)
OthersUntouched ==
  [][\A f \in files \ files' :
       \E t \in Tasks : task[t].step = "delete" /\ task[t].name = f.name]_vars
=============================================================================
