------------------------------- MODULE Server -------------------------------
(***************************************************************************)
(* ServerApp (kh_common/server): the layers a request passes, from the     *)
(* outside KhAuthMiddleware, trusted hosts, KhCorsMiddleware, the error    *)
(* handlers and the route, whose functions HttpErrorHandler may wrap       *)
(* (kh_common/exceptions).  The layer added last is the outermost.         *)
(* CustomHeaderMiddleware, which adds one header, is left out.  Requests   *)
(* share nothing but the log (kh_common/logging.py).  A websocket passes   *)
(* the same layers, but the CORS layer and the error handlers only look at *)
(* http; 200 stands for a websocket served, the other answers for one      *)
(* refused or closed.                                                      *)
(***************************************************************************)
EXTENDS Naturals

VARIABLES
  app,      \* what ServerApp was asked for
  request,
  at,       \* where the request is
  outcome,  \* history: what the route did
  error,    \* the exception on its way out
  answer,
  logged,   \* refids in the log
  agent     \* history: "dropped" or "raised" once LogHandler's agent failed

serverVars == <<app, request, at, outcome, error, answer, logged, agent>>

NoRefid == 0

Http == request.type = "http"

StatedStatus == 418  \* of an exception that is not the program's but has a status

Error(kind, refid, status) == [kind |-> kind, refid |-> refid, status |-> status]
Answer(status, refid) == [status |-> status, refid |-> refid, cors |-> FALSE]

ServerInit ==
  /\ app = [auth |-> "required", cors |-> TRUE, hosts |-> TRUE]
  /\ request = [type |-> "http", openapi |-> FALSE, token |-> "absent", host |-> TRUE, origin |-> "none",
                preflight |-> FALSE]
  /\ at = "nowhere" /\ outcome = "pending" /\ error = Error("none", NoRefid, 0)
  /\ answer = Answer(0, NoRefid) /\ logged = {} /\ agent = "writes"

ServerApp ==
  /\ at = "nowhere" /\ at' = "serving"
  /\ app' \in [auth : {"none", "optional", "required"}, cors : BOOLEAN, hosts : BOOLEAN]
  /\ UNCHANGED <<request, outcome, error, answer, logged, agent>>

Arrives ==
  /\ at = "serving" /\ at' = "auth"
  /\ request' \in [type : {"http", "websocket"}, openapi : BOOLEAN,
                   token : {"good", "absent", "bad", "malformed", "uncaught"},
                   host : BOOLEAN, origin : {"none", "allowed", "foreign"}, preflight : BOOLEAN]
  /\ request'.preflight => request'.type = "http"
  /\ UNCHANGED <<app, outcome, error, answer, logged, agent>>
-----------------------------------------------------------------------------
Pass(layer) == at' = layer /\ UNCHANGED answer

(* an answer that only the layers further out still see *)
Refuse(status, refid) == at' = "answered" /\ answer' = Answer(status, refid)

(* Without a good token the user is anonymous, unless one is required.     *)
(* What nothing catches ends the request at the server's last resort: the  *)
(* RecordNotFound of a token whose record is gone, the KeyError of a scope *)
(* that Scope lacks, the IndexError of a blank header.  A websocket is     *)
(* taken for a request; starlette's Request may have none of that.         *)
AuthLayer ==
  /\ at = "auth"
  /\ \/ CASE app.auth = "none" \/ request.openapi \/ request.token = "good" -> Pass("hosts")
          [] OTHER -> CASE request.token = "malformed" -> Refuse(400, 1)
                        [] request.token = "uncaught" -> Refuse(500, NoRefid)
                        [] OTHER -> IF app.auth = "required" THEN Refuse(401, 1) ELSE Pass("hosts")
     \/ app.auth # "none" /\ ~ Http /\ Refuse(500, NoRefid)
  /\ UNCHANGED <<app, request, outcome, error, logged, agent>>

HostLayer ==
  /\ at = "hosts"
  /\ IF app.hosts /\ ~ request.host THEN Refuse(400, NoRefid) ELSE Pass("cors")
  /\ UNCHANGED <<app, request, outcome, error, logged, agent>>

(* mutant: preflights are answered before their origin is looked at *)
Crosses_Preflight ==
  CASE request.origin = "none" -> "same origin"
    [] request.origin # "none" /\ request.preflight -> "preflight"
    [] request.origin = "foreign" /\ ~ request.preflight -> "refused"
    [] OTHER -> "allowed"

Crosses ==
  CASE request.origin = "none" -> "same origin"
    [] request.origin = "foreign" -> "refused"
    [] request.origin = "allowed" /\ request.preflight -> "preflight"
    [] OTHER -> "allowed"

(* What is not http passes, whatever its origin. *)
CorsLayer ==
  /\ at = "cors"
  /\ \/ /\ app.cors /\ Http => Crosses \in {"same origin", "allowed"}
        /\ Pass("route")
     \/ app.cors /\ Http /\ Crosses = "refused" /\ Refuse(400, 1)
     \/ /\ app.cors /\ Http /\ Crosses = "preflight"
        /\ at' = "answered" /\ answer' = [Answer(204, NoRefid) EXCEPT !.cors = TRUE]
  /\ UNCHANGED <<app, request, outcome, error, logged, agent>>
-----------------------------------------------------------------------------
(* The route returns, or raises an HttpError, another BaseError (each has  *)
(* a refid), aiohttp's ClientError, something with a status of its own or  *)
(* anything else, inside a function that HttpErrorHandler wraps or not.    *)
Route ==
  /\ at = "route"
  /\ outcome' \in {"returned", "http", "base", "client", "stated", "bug"}
  /\ IF outcome' = "returned"
     THEN at' = "leaving" /\ answer' = Answer(200, NoRefid) /\ UNCHANGED error
     ELSE /\ at' \in {"handler", "errors"} /\ UNCHANGED answer
          /\ error' = CASE outcome' = "http" -> Error("http", 1, 404)
                       [] outcome' = "base" -> Error("base", 1, 500)
                       [] outcome' = "stated" -> Error("stated", NoRefid, StatedStatus)
                       [] OTHER -> Error(outcome', NoRefid, 500)
  /\ UNCHANGED <<app, request, logged, agent>>

(* LogHandler.emit: a RetryError costs the entry, any other error of the   *)
(* agent is raised to whoever logs.                                        *)
LogEntry(refid) ==
  \/ logged' = logged \cup {refid} /\ UNCHANGED agent
  \/ agent' = (IF agent = "raised" THEN agent ELSE "dropped") /\ UNCHANGED logged

AgentRaises == agent' = "raised" /\ UNCHANGED logged

(* mutant: the error does not carry the refid that was logged *)
Unexpected_NewRefid(kind) ==
  LogEntry(2) /\ error' = Error("http", 4, IF kind = "client" THEN 502 ELSE 500)

(* BadGateway or InternalServerError, with the refid that is logged *)
Unexpected(kind) ==
  \/ LogEntry(2) /\ error' = Error("http", 2, IF kind = "client" THEN 502 ELSE 500)
  \/ AgentRaises /\ error' = Error("bug", NoRefid, 500)

(* HttpErrors pass; others become the error their class is mapped to, or   *)
(* are unexpected.                                                         *)
HttpErrorHandler ==
  /\ at = "handler" /\ at' = "errors"
  /\ \/ error.kind = "http" /\ UNCHANGED <<error, logged, agent>>
     \/ error.kind # "http" /\ error' = Error("http", 1, 409) /\ UNCHANGED <<logged, agent>>
     \/ error.kind # "http" /\ Unexpected(error.kind)
  /\ UNCHANGED <<app, request, outcome, answer>>

(* A BaseError speaks for itself and is not logged; of others the client   *)
(* learns the refid under which the log has them.  What is raised here, or *)
(* for a websocket, is left to the server's last resort.                   *)
JsonErrorHandler ==
  /\ at = "errors"
  /\ CASE ~ Http -> Refuse(500, NoRefid) /\ UNCHANGED <<logged, agent>>
       [] Http /\ error.kind \in {"http", "base"} ->
            /\ at' = "leaving" /\ answer' = Answer(error.status, error.refid)
            /\ UNCHANGED <<logged, agent>>
       [] OTHER ->
            \/ /\ LogEntry(3) /\ at' = "leaving"
               /\ answer' = Answer(IF error.kind = "client" THEN 502 ELSE error.status, 3)
            \/ AgentRaises /\ Refuse(500, NoRefid)
  /\ UNCHANGED <<app, request, outcome, error>>

(* The answer gets its CORS headers on the way out. *)
Depart ==
  /\ at = "leaving" /\ at' = "answered"
  /\ answer' = [answer EXCEPT !.cors = app.cors /\ Http /\ request.origin # "none"]
  /\ UNCHANGED <<app, request, outcome, error, logged, agent>>

ServerNext ==
  \/ ServerApp \/ Arrives \/ AuthLayer \/ HostLayer \/ CorsLayer
  \/ Route \/ HttpErrorHandler \/ JsonErrorHandler \/ Depart

ServerSpec == ServerInit /\ [][ServerNext]_serverVars
-----------------------------------------------------------------------------
(* FailuresTraceable: whoever is told, over http, of a failure that no     *)
(* error class of the program describes gets a refid under which the log   *)
(* has it, unless the agent gave up, and is told whether it came from      *)
(* upstream, unless the agent itself failed (exceptions/__init__.py:16-39, *)
(* exceptions/http_error.py:66-151, logging.py:49-84), wrapped or not.  An *)
(* exception with a status of its own may choose what is told.             *)
FailuresTraceable ==
  at = "answered" /\ Http /\ outcome \in {"client", "stated", "bug"} /\ answer.status # 409 =>
    /\ agent = "writes" => answer.refid \in logged
    /\ agent = "raised" \/ answer.refid # NoRefid
    /\ agent = "raised" \/ answer.status \in (CASE outcome = "client" -> {502}
                                               [] outcome = "stated" -> {StatedStatus, 500}
                                               [] OTHER -> {500})

(* LayersGuard: whatever layers the server has, the route runs only for    *)
(* requests that trusted hosts and KhAuthMiddleware admit, websockets      *)
(* among them.  Over http an allowed origin can read what the route        *)
(* answers and any other origin nothing, and the preflight of an allowed   *)
(* origin is answered, unless a token is required: browsers send none with *)
(* it, and KhAuthMiddleware is in front (server/__init__.py:67-96,         *)
(* server/middleware/auth.py:18-51, server/middleware/cors.py:37-69).  The *)
(* server's last resort adds no headers.  A websocket of any origin is     *)
(* served: nothing here looks at it (cors.py:38-40).                       *)
LayersGuard ==
  at = "answered" =>
    /\ answer.cors => app.cors /\ Http /\ request.origin = "allowed"
    /\ outcome # "pending" =>
         /\ app.hosts => request.host
         /\ app.auth = "required" => request.openapi \/ request.token = "good"
         /\ app.cors /\ Http =>
              request.origin = "none" \/ (request.origin = "allowed" /\ (answer.cors \/ agent = "raised"))
    /\ (/\ app.cors /\ request.preflight /\ request.origin = "allowed"
        /\ request.host /\ request.token = "absent" /\ app.auth # "required") => answer.status = 204
=============================================================================
