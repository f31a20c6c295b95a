------------------------------ MODULE Listener ------------------------------
(***************************************************************************)
(* The telegram Listener (kh_common/telegram/__init__.py): recv polls      *)
(* getUpdates and queues what it gets, the processQueue coroutines take    *)
(* updates off the queue and parse them, and Terminated.alive (from        *)
(* kh_common/utilities/signal.py) tells all of them to stop.               *)
(*                                                                         *)
(* Updates are numbered in the order in which they reach Telegram.  A poll *)
(* with offset n tells Telegram to forget every update before n; the first *)
(* poll of a process has offset 0 and asks for all it still holds.         *)
(***************************************************************************)
EXTENDS Integers, Sequences

CONSTANTS
  Workers,      \* the processQueue coroutines
  Crashes,      \* may the process be killed?
  MaxUpdates,   \* updates that arrive, for model checking only
  MaxBatch,     \* updates in one reply
  MaxSessions   \* starts of the process, for model checking only

ASSUME ListenerAssumption ==
  /\ Workers # {}
  /\ Crashes \in BOOLEAN
  /\ MaxUpdates \in Nat /\ MaxBatch \in Nat \ {0} /\ MaxSessions \in Nat \ {0}

VARIABLES
  arrived,     \* updates 1 .. arrived have reached Telegram
  confirmed,   \* Telegram has forgotten updates 1 .. confirmed
  alive,       \* Terminated.alive
  recv,        \* the recv coroutine: its place, mostrecent, and the reply to its request
  queue,       \* self.queue
  worker,      \* worker[w]: the update w is parsing, 0 if none, Stopped
  session,     \* how many times the process was started
  taken,       \* history: the last update taken off the queue in this session
  handled,     \* history: updates that some session has parsed, to an end
  lost         \* history: updates that were queued or in hand at a crash

vars == <<arrived, confirmed, alive, recv, queue, worker, session, taken, handled, lost>>

Stopped == -1
Free == 0
Updates == 1 .. MaxUpdates

InHand == {worker[w] : w \in Workers} \ {Stopped, Free}
Queued == {queue[i] : i \in DOMAIN queue}

NewRecv == [pc |-> "poll", mostrecent |-> 0, reply |-> << >>]

Init ==
  /\ arrived = 0 /\ confirmed = 0
  /\ alive = TRUE
  /\ recv = NewRecv
  /\ queue = << >>
  /\ worker = [w \in Workers |-> Free]
  /\ session = 1
  /\ taken = 0
  /\ handled = {} /\ lost = {}
-----------------------------------------------------------------------------
(* Telegram *)

Arrive ==
  /\ arrived < MaxUpdates
  /\ arrived' = arrived + 1
  /\ UNCHANGED <<confirmed, alive, recv, queue, worker, session, taken, handled, lost>>

(* getUpdates?offset=mostrecent: forget what is before the offset, answer  *)
(* with the first updates that are left                                    *)
Serve ==
  /\ recv.pc = "asked"
  /\ LET forgotten == IF recv.mostrecent - 1 > confirmed THEN recv.mostrecent - 1 ELSE confirmed
         size == IF arrived - forgotten < MaxBatch THEN arrived - forgotten ELSE MaxBatch
     IN  /\ confirmed' = forgotten
         /\ recv' = [recv EXCEPT !.pc = "answered",
                                 !.reply = [i \in 1 .. size |-> forgotten + i]]
  /\ UNCHANGED <<arrived, alive, queue, worker, session, taken, handled, lost>>
-----------------------------------------------------------------------------
(* recv *)

(* while Terminated.alive *)
Ask ==
  /\ recv.pc = "poll" /\ alive
  /\ recv' = [recv EXCEPT !.pc = "asked"]
  /\ UNCHANGED <<arrived, confirmed, alive, queue, worker, session, taken, handled, lost>>

StopPolling ==
  /\ recv.pc = "poll" /\ ~ alive
  /\ recv' = [recv EXCEPT !.pc = "stopped"]
  /\ UNCHANGED <<arrived, confirmed, alive, queue, worker, session, taken, handled, lost>>

(* mutants: mostrecent is the last update, or two after it *)
Receive_NotNext ==
  /\ recv.pc = "answered"
  /\ recv' = [recv EXCEPT !.pc = "poll", !.reply = << >>,
       !.mostrecent = IF recv.reply = << >> THEN @ ELSE recv.reply[Len(recv.reply)]]
  /\ queue' = queue \o recv.reply
  /\ UNCHANGED <<arrived, confirmed, alive, worker, session, taken, handled, lost>>

Receive_SkipsOne ==
  /\ recv.pc = "answered"
  /\ recv' = [recv EXCEPT !.pc = "poll", !.reply = << >>,
       !.mostrecent = IF recv.reply = << >> THEN @ ELSE recv.reply[Len(recv.reply)] + 2]
  /\ queue' = queue \o recv.reply
  /\ UNCHANGED <<arrived, confirmed, alive, worker, session, taken, handled, lost>>

(* the reply is read and parsed; put never waits, the queue is unbounded *)
Receive ==
  /\ recv.pc = "answered"
  /\ recv' = [recv EXCEPT !.pc = "poll", !.reply = << >>,
       !.mostrecent = IF recv.reply = << >> THEN @ ELSE recv.reply[Len(recv.reply)] + 1]
  /\ queue' = queue \o recv.reply
  /\ UNCHANGED <<arrived, confirmed, alive, worker, session, taken, handled, lost>>

(* the request or the reply is lost or times out, Telegram answers that it *)
(* is not ok, or the reply does not parse                                  *)
PollFails ==
  /\ recv.pc \in {"asked", "answered"}
  /\ recv' = [recv EXCEPT !.pc = "poll", !.reply = << >>]
  /\ UNCHANGED <<arrived, confirmed, alive, queue, worker, session, taken, handled, lost>>
-----------------------------------------------------------------------------
(* processQueue; the workers of run are these coroutines *)

(* while Terminated.alive or not self.queue.empty() : get_nowait; a worker *)
(* that finds the queue empty sleeps and looks again                       *)
Take(w) ==
  /\ worker[w] = Free
  /\ queue # << >>
  /\ worker' = [worker EXCEPT ![w] = Head(queue)]
  /\ taken' = Head(queue)
  /\ queue' = Tail(queue)
  /\ UNCHANGED <<arrived, confirmed, alive, recv, session, handled, lost>>

(* mutant: an exception of the parser ends the worker *)
Finish_Dies(w) ==
  /\ worker[w] > 0
  /\ handled' = handled \cup {worker[w]}
  /\ \E next \in {Free, Stopped} : worker' = [worker EXCEPT ![w] = next]
  /\ UNCHANGED <<arrived, confirmed, alive, recv, queue, session, taken, lost>>

(* the update is parsed, or parsing raised: either way the worker goes on *)
Finish(w) ==
  /\ worker[w] > 0
  /\ handled' = handled \cup {worker[w]}
  /\ worker' = [worker EXCEPT ![w] = Free]
  /\ UNCHANGED <<arrived, confirmed, alive, recv, queue, session, taken, lost>>

(* mutants: the queue is not drained; only the first worker is told *)
Leave_Undrained(w) ==
  /\ worker[w] = Free
  /\ ~ alive
  /\ worker' = [worker EXCEPT ![w] = Stopped]
  /\ UNCHANGED <<arrived, confirmed, alive, recv, queue, session, taken, handled, lost>>

Leave_One(w) ==
  /\ worker[w] = Free
  /\ ~ alive /\ queue = << >>
  /\ \A v \in Workers : worker[v] # Stopped
  /\ worker' = [worker EXCEPT ![w] = Stopped]
  /\ UNCHANGED <<arrived, confirmed, alive, recv, queue, session, taken, handled, lost>>

Leave(w) ==
  /\ worker[w] = Free
  /\ ~ alive /\ queue = << >>
  /\ worker' = [worker EXCEPT ![w] = Stopped]
  /\ UNCHANGED <<arrived, confirmed, alive, recv, queue, session, taken, handled, lost>>
-----------------------------------------------------------------------------
(* SIGINT or SIGTERM: Terminated.terminate *)
Terminate ==
  /\ alive
  /\ alive' = FALSE
  /\ UNCHANGED <<arrived, confirmed, recv, queue, worker, session, taken, handled, lost>>

AllStopped == recv.pc = "stopped" /\ \A w \in Workers : worker[w] = Stopped

(* run has returned, or the process is killed; it is started again *)
Restart ==
  /\ session < MaxSessions
  /\ \/ AllStopped /\ UNCHANGED lost
     \/ Crashes /\ lost' = lost \cup Queued \cup InHand
  /\ session' = session + 1
  /\ alive' = TRUE
  /\ recv' = NewRecv
  /\ queue' = << >>
  /\ worker' = [w \in Workers |-> Free]
  /\ taken' = 0
  /\ UNCHANGED <<arrived, confirmed, handled>>

Poll == Ask \/ StopPolling \/ Serve \/ Receive

Next ==
  \/ Arrive \/ Poll \/ PollFails \/ Terminate \/ Restart
  \/ \E w \in Workers : Take(w) \/ Finish(w) \/ Leave(w)

Spec == Init /\ [][Next]_vars

(* The event loop runs every coroutine that can take a step; a parser of   *)
(* an update returns; not every request to Telegram is lost, and not every *)
(* answer is lost or fails to parse.                                       *)
FairSpec ==
  /\ Spec
  /\ WF_vars(Poll) /\ SF_vars(Serve) /\ SF_vars(Receive)
  /\ \A w \in Workers : WF_vars(Take(w) \/ Finish(w) \/ Leave(w))
-----------------------------------------------------------------------------
(* Every variable has the shape the code gives it. *)
TypeOK ==
  /\ arrived \in 0 .. MaxUpdates /\ confirmed \in 0 .. arrived
  /\ alive \in BOOLEAN
  /\ recv \in [pc : {"poll", "asked", "answered", "stopped"},
              mostrecent : 0 .. MaxUpdates + 1, reply : Seq(Updates)]
  /\ queue \in Seq(Updates)
  /\ worker \in [Workers -> Updates \cup {Free, Stopped}]
  /\ taken \in 0 .. MaxUpdates
  /\ handled \subseteq Updates /\ lost \subseteq Updates

(* NothingLost: an update that Telegram has forgotten has been parsed, is  *)
(* queued or in hand, or was so when the process was killed.  In           *)
(* particular an orderly termination loses nothing, although recv may      *)
(* queue a last batch after every worker has left (lines 245 and 300).     *)
NothingLost ==
  1 .. confirmed \subseteq handled \cup Queued \cup InHand \cup lost

(* What makes NothingLost inductive: the offset of the next poll is behind *)
(* updates that recv has queued, a reply begins where Telegram has         *)
(* forgotten, and, since the last worker left an empty queue only after    *)
(* the signal, what recv still queues is not confirmed by another poll.    *)
(* InOrder does the same for InOrderOnce.                                  *)
OffsetKnown ==
  /\ recv.mostrecent <= arrived + 1
  /\ 1 .. recv.mostrecent - 1 \subseteq handled \cup Queued \cup InHand \cup lost

ReplyNext ==
  recv.pc = "answered" =>
    /\ \A i \in DOMAIN recv.reply : recv.reply[i] = confirmed + i
    /\ confirmed + Len(recv.reply) <= arrived

LastBatchKept ==
  /\ \A w \in Workers : worker[w] = Stopped => ~ alive
  /\ (\A w \in Workers : worker[w] = Stopped) =>
       /\ recv.pc \in {"asked", "answered"} => queue = << >>
       /\ \A u \in Queued : u > confirmed

InOrder ==
  /\ taken < recv.mostrecent \/ taken = 0
  /\ \A i \in DOMAIN queue : taken < queue[i] /\ queue[i] < recv.mostrecent
  /\ \A i, j \in DOMAIN queue : i < j => queue[i] < queue[j]
  /\ recv.pc = "answered" => recv.mostrecent <= confirmed + 1

Inv == TypeOK /\ NothingLost /\ OffsetKnown /\ ReplyNext /\ LastBatchKept /\ InOrder

(* InOrderOnce: within a session each update is taken off the queue at     *)
(* most once, and updates are taken in the order of their numbers,         *)
(* whatever polls failed or were answered twice.                           *)
InOrderOnce == [][\A w \in Workers : Take(w) => Head(queue) > taken]_vars

(* KeepsUpdates: the Listener and Telegram keep the contract of Delivery:  *)
(* an update is confirmed by the next poll only when it has been fetched,  *)
(* and what a worker or the queue lets go of is still with Telegram unless *)
(* the process was killed (lines 244-273, 276-308).                        *)
UpdateContract == INSTANCE Delivery
  WITH Items <- Updates, kept <- Updates \ (1 .. confirmed), held <- Queued \cup InHand

KeepsUpdates == UpdateContract!DeliverySpec

(* EveryUpdateHandled: an update that has reached Telegram is parsed, if   *)
(* the process is not killed and not told to stop.                         *)
EveryUpdateHandled ==
  \A u \in Updates : arrived >= u ~> u \in handled \/ u \in lost \/ ~ alive

(* Stops: once told to stop, recv and every worker return, so that run     *)
(* does (line 274), whatever is still queued; only a kill comes before it. *)
Stops == ~ alive ~> AllStopped \/ alive
=============================================================================
