------------------------------ MODULE Requests ------------------------------
(***************************************************************************)
(* The requests that kh-common repeats: Gateway.__call__                   *)
(* (kh_common/gateway.py), sendEmail (kh_common/email.py) and the          *)
(* Listener's sendMessage (kh_common/telegram/__init__.py), which sends a  *)
(* long message in parts.  One call at a time: calls share nothing.        *)
(*                                                                         *)
(* A try ends in a reply; what the server did about it may be unknown, and *)
(* may still happen after the client has given the try up.                 *)
(***************************************************************************)
EXTENDS Naturals, FiniteSets

CONSTANTS
  Tries,       \* attempts of a Gateway; 5 in the other two
  MaxParts,    \* bound on the parts of a message, for model checking only
  AllowChats   \* the Listener's allow_chats

ASSUME RequestsAssumption ==
  /\ Tries \in Nat \ {0} /\ MaxParts \in Nat \ {0} /\ AllowChats \in BOOLEAN

VARIABLES
  send,       \* the call: its client, try and part, and how it ended
  message,    \* the update a bot answers
  performed,  \* <<part, try>> of the requests the server has carried out
  doubtful,   \* history: tries that ended without a definite answer
  flying      \* tries the client has given up and the server has not seen yet

requestVars == <<send, message, performed, doubtful, flying>>

Reply == {"done", "garbled", "refused", "busy", "lost", "cancelled"}

SendState(client, pc, parts) ==
  [client |-> client, pc |-> pc, part |-> 1, parts |-> parts, try |-> 1, ending |-> "none"]

NoMessage == [chat |-> FALSE, command |-> "none", response |-> FALSE]

RequestsInit ==
  /\ send = SendState("gateway", "idle", 1)
  /\ message = NoMessage
  /\ performed = {} /\ doubtful = {} /\ flying = {}

Current == <<send.part, send.try>>

EndSend(ending) == send' = [send EXCEPT !.pc = "ended", !.ending = ending]

Fly(client, parts) == send' = SendState(client, "waiting", parts)
-----------------------------------------------------------------------------
(* req['params'] is the body itself, or None, for a method without a body *)
CallGateway(bodyless, body, params) ==
  IF bodyless /\ params /\ ~ body
  THEN send' = [SendState("gateway", "ended", 1) EXCEPT !.ending = "AttributeError"]
  ELSE Fly("gateway", 1)

(* in a chat, only commands that name this bot; elsewhere everything *)
Addressed(m) == ~ m.chat \/ (AllowChats /\ m.command = "named")

(* A command with a registered response is answered in parts, any other    *)
(* message in one: handleNonCommand, handleUnknownCommand and the replies  *)
(* of the bot's own handlers.                                              *)
ParseMessage ==
  \E chat, response \in BOOLEAN, command \in {"none", "unnamed", "named", "misnamed"} :
    /\ message' = [chat |-> chat, command |-> command, response |-> response]
    /\ IF ~ Addressed(message')
       THEN send' = [SendState("telegram", "ended", 1) EXCEPT !.ending = "ignored"]
       ELSE \E n \in 1 .. (IF command # "none" /\ response THEN MaxParts ELSE 1) :
              Fly("telegram", n)

CallClient ==
  /\ send.pc = "idle"
  /\ \/ /\ \E bodyless, body, params \in BOOLEAN : CallGateway(bodyless, body, params)
        /\ UNCHANGED message
     \/ Fly("email", 1) /\ UNCHANGED message
     \/ ParseMessage
  /\ UNCHANGED <<performed, doubtful, flying>>
-----------------------------------------------------------------------------
(* What the server does about a try that ends in this reply: carries it    *)
(* out, does not, or, if the client stopped listening, may do so later.    *)
Served(reply) ==
  \/ /\ reply \in Reply \ {"refused"}
     /\ performed' = performed \cup {Current} /\ UNCHANGED flying
  \/ /\ reply \in {"refused", "busy", "lost", "cancelled"}
     /\ UNCHANGED <<performed, flying>>
  \/ /\ reply \in {"lost", "cancelled"}
     /\ flying' = flying \cup {Current} /\ UNCHANGED performed

(* Gateway repeats for some statuses only, sendEmail whatever happens,     *)
(* _sendSingleMessage unless Telegram says ok or not ok: any readable body *)
(* that is not ok is a refusal, "busy" one that cannot be read.  The last  *)
(* two catch a cancellation as well.                                       *)
Repeats(reply) ==
  CASE send.client = "gateway" -> reply = "busy"
    [] send.client = "email" -> reply # "done"
    [] send.client = "telegram" -> reply \notin {"done", "refused"}

Exhausted == send.try = Tries

Again ==
  IF Exhausted THEN EndSend("failed")
  ELSE send' = [send EXCEPT !.pc = "waiting", !.try = @ + 1]

(* mutant: the next part is sent whether or not this one was *)
Settled_NextPart(reply) ==
  IF send.part < send.parts
  THEN send' = [send EXCEPT !.part = @ + 1, !.try = 1]
  ELSE EndSend(IF reply = "done" THEN "ok" ELSE "failed")

(* the reply decides: the next part, or the end *)
Settled(reply) ==
  IF reply = "done" /\ send.part < send.parts
  THEN send' = [send EXCEPT !.part = @ + 1, !.try = 1]
  ELSE EndSend(CASE reply = "done" -> "ok"
                 [] reply = "cancelled" -> "cancelled"
                 [] OTHER -> "failed")

Answered ==
  /\ send.pc = "waiting"
  /\ \E reply \in Reply :
       /\ reply = "garbled" => send.client # "email"
       /\ Served(reply)
       /\ doubtful' = IF reply \in {"done", "refused"} THEN doubtful ELSE doubtful \cup {Current}
       /\ IF ~ Repeats(reply) THEN Settled(reply)
          ELSE IF send.client = "telegram" THEN Again
          ELSE IF send.client = "gateway" /\ Exhausted THEN EndSend("failed")
          ELSE send' = [send EXCEPT !.pc = "sleeping"]
  /\ UNCHANGED message

(* await sleep(...): outside the try, so a cancellation ends the call *)
Slept ==
  /\ send.pc = "sleeping"
  /\ (Again \/ EndSend("cancelled"))
  /\ UNCHANGED <<message, performed, doubtful, flying>>

PerformedLate ==
  /\ \E try \in flying : /\ performed' = performed \cup {try}
                         /\ flying' = flying \ {try}
  /\ UNCHANGED <<send, message, doubtful>>

RequestsNext == CallClient \/ Answered \/ Slept \/ PerformedLate

RequestsSpec == RequestsInit /\ [][RequestsNext]_requestVars
-----------------------------------------------------------------------------
(* Accounted: what a call tells its caller agrees with what the server did *)
(* (gateway.py:95-123, email.py:75-100, telegram/__init__.py:121-172):     *)
(* success means that every part was carried out; a request that has been  *)
(* carried out is repeated, or reported as failed, only if its try got no  *)
(* definite answer; no part is carried out before the one in front of it;  *)
(* nothing is sent for a message that is not for the bot.                  *)
Accounted ==
  /\ send.ending = "ok" => \A p \in 1 .. send.parts : \E try \in 1 .. Tries : <<p, try>> \in performed
  /\ \A one, other \in performed : (one[1] = other[1] /\ one[2] < other[2]) => one \in doubtful
  /\ \A one \in performed : one[1] > 1 => \E try \in 1 .. Tries : <<one[1] - 1, try>> \in performed
  /\ send.ending = "failed" => \A one \in performed : one[1] < send.part \/ one \in doubtful
  /\ (send.client = "telegram" /\ performed \cup flying # {}) =>
       ~ message.chat \/ (AllowChats /\ message.command = "named")
=============================================================================
